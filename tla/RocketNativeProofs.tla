-------------------------- MODULE RocketNativeProofs --------------------------
(***************************************************************************)
(* Proofs about RocketNative for any number of buffers, jobs and calls and *)
(* any number of cores: the references of the buffers, the mapping of what *)
(* a job uses, and the order that the write fences impose.                 *)
(***************************************************************************)
EXTENDS RocketNative, FiniteSetTheorems, TLAPS

-----------------------------------------------------------------------------
(* The inductive invariant.                                                 *)

\* The types of the variables, those that TypeOK leaves out included.
PrepRecords == [at : {"idle", "wait", "ready", "late", "ok", "error"},
                bo : SUBSET Bos, before : SUBSET Jobs]

TypeInv ==
    /\ TypeOK
    /\ in_bos \in [Jobs -> SUBSET Bos]
    /\ out_bos \in [Jobs -> SUBSET Bos]
    /\ deps \in [Jobs -> SUBSET Jobs]
    /\ order \in Seq(Jobs)
    /\ prep \in [Preps -> PrepRecords]

\* The call that submits the job is still in submit_job; the scheduler has it.
Submitting(j) == pc[j] \notin {"idle", "done"}
InSched(j) == place[j] \in {"queued", "oops", "finished"}

\* The job holds, or once it has looked them all up will hold, these.
AllHeld(j) == ({"in"} \X in_bos[j]) \cup ({"out"} \X out_bos[j])

\* Who has a reference on the job, how far it is known to the scheduler, and
\* which of its buffers it holds.
JobInvAt(j) ==
    /\ ref[j] = (IF Submitting(j) THEN 1 ELSE 0) + (IF InSched(j) THEN 1 ELSE 0)
    /\ pc[j] \in {"idle", "tasks", "in", "out", "domain", "push", "locked", "fail"}
          => place[j] = "none"
    /\ pc[j] \in {"attach", "put"} => place[j] # "none"
    /\ pc[j] \in {"idle", "tasks", "in"} => held[j] = {}
    /\ pc[j] = "out" => held[j] = {"in"} \X in_bos[j]
    /\ InSched(j) \/ pc[j] \in {"domain", "push", "locked", "attach", "put"}
          => AllHeld(j) \subseteq held[j]

JobInv == \A j \in Jobs : JobInvAt(j)

\* Who has a reference on buffer b.
HeldBy(b) == {x \in Jobs \X Arrays : <<x[2], b>> \in held[x[1]]}
PrepsOn(b) == {p \in Preps : prep[p].at \in {"wait", "ready", "late"} /\ b \in prep[p].bo}
Names(b) == {f \in Files : <<f, b>> \in handle}
Own(b) == IF made[b] = "building" THEN 1 ELSE 0
Owed(b) == Cardinality(HeldBy(b)) + Cardinality(PrepsOn(b)) + Cardinality(Names(b))
           + kept[b] + Own(b)

\* No reference is missing, and none is left over but what failed lookups kept.
RefInvAt(b) ==
    /\ IsFiniteSet(HeldBy(b)) /\ IsFiniteSet(PrepsOn(b)) /\ IsFiniteSet(Names(b))
    /\ gemref[b] = Owed(b)

RefInv == \A b \in Bos : RefInvAt(b)

\* A buffer is seen by nobody before it has its handle, is complete from then
\* on, and is taken down only without references.
BoInvAt(b) ==
    /\ made[b] # "made" => /\ HeldBy(b) = {} /\ PrepsOn(b) = {}
                           /\ Names(b) = {} /\ kept[b] = 0
    /\ made[b] = "none" => gemref[b] = 0 /\ built[b] = 0
    /\ made[b] = "building" => gemref[b] = 1
    /\ made[b] = "made" /\ gemref[b] > 0 => built[b] = Len(Stages)

BoInv == \A b \in Bos : BoInvAt(b)

\* Jobs that hold their reservations at the same time share no buffer.
Uses(j) == in_bos[j] \cup out_bos[j]

LockInv ==
    \A i, j \in Jobs : (pc[i] \in {"locked", "attach"} /\ pc[j] \in {"locked", "attach"}
                        /\ i # j) => Uses(i) \cap Uses(j) = {}

\* A job that has let its reservations go has its fence on its outputs.
FenceInv ==
    \A j \in Jobs : (pc[j] \in {"put", "done"} /\ place[j] # "none") =>
        \A b \in out_bos[j] : j \in fences[b]

\* What is in the order of the pushes, and what a job waits for.
Started(j) == place[j] \in {"oops", "finished", "freed"}

OrderInv == \A m \in 1 .. Len(order) : place[order[m]] # "none"

DepsInv ==
    /\ \A j \in Jobs : \A k \in deps[j] : place[k] # "none"
    /\ \A j, k \in Jobs : Started(j) /\ k \in deps[j] /\ Precedes(k, j) => ~Unfinished(k)
    /\ \A i, j \in Jobs : Precedes(i, j) /\ out_bos[i] \cap Uses(j) # {}
          => i \in deps[j] \/ ~Unfinished(i)

\* What a prep call has to wait for.
PrepInv ==
    \A p \in Preps : \A j \in prep[p].before :
        /\ place[j] # "none" /\ pc[j] \in {"put", "done"}
        /\ prep[p].at \in {"ready", "ok"} /\ out_bos[j] \cap prep[p].bo # {}
              => ~Unfinished(j)

IndInv ==
    /\ TypeInv
    /\ JobInv
    /\ RefInv
    /\ BoInv
    /\ LockInv
    /\ FenceInv
    /\ OrderInv
    /\ DepsInv
    /\ PrepInv

PCs == {"idle", "tasks", "in", "out", "domain", "push", "locked", "attach", "put",
        "fail", "done"}
Places == {"none", "queued", "oops", "finished", "freed"}

-----------------------------------------------------------------------------
(* The order of the pushes and the jobs.                                    *)

\* The types, at the variables the steps below need.
LEMMA Types ==
  ASSUME IndInv
  PROVE  /\ pc \in [Jobs -> PCs] /\ place \in [Jobs -> Places]
         /\ held \in [Jobs -> SUBSET (Arrays \X Bos)] /\ ref \in [Jobs -> 0 .. 2]
         /\ in_bos \in [Jobs -> SUBSET Bos] /\ out_bos \in [Jobs -> SUBSET Bos]
         /\ order \in Seq(Jobs) /\ deps \in [Jobs -> SUBSET Jobs]
         /\ prep \in [Preps -> PrepRecords] /\ fences \in [Bos -> SUBSET Jobs]
         /\ gemref \in [Bos -> Nat] /\ built \in [Bos -> 0 .. Len(Stages)]
         /\ made \in [Bos -> {"none", "building", "made", "failed"}]
         /\ handle \in SUBSET (Files \X Bos) /\ kept \in [Bos -> Nat]
         /\ file \in [Calls -> Files]
  BY DEF IndInv, TypeInv, TypeOK, PCs, Places

\* The life of a job.
LEMMA JobInvStep ==
  ASSUME IndInv, [Next]_vars PROVE JobInv'
<1> USE DEF callVars, boVars, jobVars, schVars
<1> USE DEF Submitting, InSched, AllHeld, Arrays
<1> SUFFICES ASSUME NEW k \in Jobs PROVE JobInvAt(k)'
  BY DEF JobInv
<1>0. /\ pc \in [Jobs -> PCs] /\ place \in [Jobs -> Places] /\ ref \in [Jobs -> 0 .. 2]
      /\ held \in [Jobs -> SUBSET (Arrays \X Bos)]
      /\ in_bos \in [Jobs -> SUBSET Bos] /\ out_bos \in [Jobs -> SUBSET Bos]
      /\ JobInvAt(k)
  BY Types DEF IndInv, JobInv
<1>1. ASSUME NEW t \in Calls, NEW j \in Jobs, JobReject(t, j)
      PROVE  JobInvAt(k)'
  BY <1>0, <1>1 DEF JobInvAt, JobReject, NextJob, Step
<1>2. ASSUME NEW t \in Calls, NEW j \in Jobs, NEW in \in SUBSET Bos, NEW out \in SUBSET Bos,
             JobInit(t, j, in, out)
      PROVE  JobInvAt(k)'
  BY <1>0, <1>2 DEF JobInvAt, JobInit, NextJob, Step
<1>3. ASSUME NEW j \in Jobs, CopyTasks(j) PROVE JobInvAt(k)'
  BY <1>0, <1>3 DEF JobInvAt, CopyTasks, Step
<1>4. ASSUME NEW j \in Jobs, CopyTasksNone(j) PROVE JobInvAt(k)'
  BY <1>0, <1>4 DEF JobInvAt, CopyTasksNone, Step
<1>5. ASSUME NEW j \in Jobs, CopyTasksFail(j) PROVE JobInvAt(k)'
  BY <1>0, <1>5 DEF JobInvAt, CopyTasksFail, Step
<1>6. ASSUME NEW j \in Jobs, Lookup(j, in_bos[j], "in", "out")
      PROVE  JobInvAt(k)'
  BY <1>0, <1>6 DEF JobInvAt, Lookup, Step, Get, Live
<1>7. ASSUME NEW j \in Jobs, Lookup(j, out_bos[j], "out", "domain")
      PROVE  JobInvAt(k)'
  BY <1>0, <1>7 DEF JobInvAt, Lookup, Step, Get, Live
<1>8. ASSUME NEW j \in Jobs, NEW found \in SUBSET Bos,
             LookupFail(j, in_bos[j], found, "in")
      PROVE  JobInvAt(k)'
  BY <1>0, <1>8 DEF JobInvAt, LookupFail, Step, Get, Live
<1>9. ASSUME NEW j \in Jobs, NEW found \in SUBSET Bos,
             LookupFail(j, out_bos[j], found, "out")
      PROVE  JobInvAt(k)'
  BY <1>0, <1>9 DEF JobInvAt, LookupFail, Step, Get, Live
<1>10. ASSUME NEW j \in Jobs, DomainGet(j) PROVE JobInvAt(k)'
  BY <1>0, <1>10 DEF JobInvAt, DomainGet, Step
<1>11. ASSUME NEW j \in Jobs, PushLock(j) PROVE JobInvAt(k)'
  BY <1>0, <1>11 DEF JobInvAt, PushLock, Step
<1>12. ASSUME NEW j \in Jobs, PushLockFail(j) PROVE JobInvAt(k)'
  BY <1>0, <1>12 DEF JobInvAt, PushLockFail, Step
<1>13. ASSUME NEW j \in Jobs, PushQueue(j) PROVE JobInvAt(k)'
  BY <1>0, <1>13 DEF JobInvAt, PushQueue, Step
<1>14. ASSUME NEW j \in Jobs, PushFail(j) PROVE JobInvAt(k)'
  BY <1>0, <1>14 DEF JobInvAt, PushFail, Step
<1>15. ASSUME NEW j \in Jobs, PushAttach(j) PROVE JobInvAt(k)'
  BY <1>0, <1>15 DEF JobInvAt, PushAttach, Step
<1>16. ASSUME NEW j \in Jobs, JobPut(j) PROVE JobInvAt(k)'
  BY <1>0, <1>16 DEF JobInvAt, JobPut, put_job
<1>17. ASSUME NEW j \in Jobs, Run(j) PROVE JobInvAt(k)'
  <2>1. place[j] = "queued" /\ place' = [place EXCEPT ![j] = "oops"]
    BY <1>17 DEF Run, Ready
  <2> QED
    BY <1>0, <1>17, <2>1 DEF JobInvAt, Run
<1>18. ASSUME NEW j \in Jobs, RunFail(j) PROVE JobInvAt(k)'
  <2>1. place[j] = "queued" /\ place' = [place EXCEPT ![j] = "finished"]
    BY <1>18 DEF RunFail, Ready
  <2> QED
    BY <1>0, <1>18, <2>1 DEF JobInvAt, RunFail
<1>19. ASSUME NEW j \in Jobs, SchedFree(j) PROVE JobInvAt(k)'
  BY <1>0, <1>19 DEF JobInvAt, SchedFree, put_job
<1>20. CASE UNCHANGED <<pc, place, ref, held, in_bos, out_bos>>
  BY <1>0, <1>20 DEF JobInvAt
<1>21. ASSUME NEW b \in Bos, CreateBuild(b) \/ CreateFail(b) \/ Undo(b)
      PROVE  JobInvAt(k)'
  BY <1>20, <1>21 DEF CreateBuild, CreateFail, Undo
<1>h. ASSUME NEW f \in Files, NEW b \in Bos, CreateHandle(f, b) \/ HandleDelete(f, b)
      PROVE  JobInvAt(k)'
  BY <1>20, <1>h DEF CreateHandle, HandleDelete
<1>s. ASSUME NEW f \in Files, NEW g \in Files, NEW b \in Bos, Share(f, g, b)
      PROVE  JobInvAt(k)'
  BY <1>20, <1>s DEF Share
<1>22. ASSUME NEW t \in Calls,
             SubmitCall(t) \/ SubmitReject(t) \/ SubmitReturn(t)
      PROVE  JobInvAt(k)'
  BY <1>20, <1>22 DEF SubmitCall, SubmitReject, SubmitReturn
<1>23. ASSUME NEW p \in Preps, NEW b \in Bos,
             PrepLookup(p, b)
      PROVE  JobInvAt(k)'
  BY <1>20, <1>23 DEF PrepLookup, Get
<1>24. ASSUME NEW p \in Preps,
             \/ PrepReject(p) \/ PrepDone(p)
             \/ PrepTimeout(p) \/ PrepReturn(p)
      PROVE  JobInvAt(k)'
  BY <1>20, <1>24 DEF PrepReject, PrepDone, PrepTimeout, PrepReturn, Drop
<1>25. CASE UNCHANGED vars
  BY <1>20, <1>25 DEF vars
<1> QED
  BY <1>h, <1>s, <1>1, <1>2, <1>3, <1>4, <1>5, <1>6, <1>7, <1>8, <1>9, <1>10, <1>11,
     <1>12, <1>13, <1>14, <1>15, <1>16, <1>17, <1>18, <1>19, <1>20, <1>21,
     <1>22, <1>23, <1>24, <1>25
     DEF Next

\* The order of the pushes.
LEMMA OrderInvStep ==
  ASSUME IndInv, [Next]_vars PROVE OrderInv'
<1> USE DEF callVars, boVars, jobVars, schVars
<1>0. /\ pc \in [Jobs -> PCs] /\ place \in [Jobs -> Places] /\ order \in Seq(Jobs)
      /\ (\A j \in Jobs : JobInvAt(j)) /\ OrderInv /\ Len(order) \in Nat
      /\ (\A m \in 1 .. Len(order) : order[m] \in Jobs)
  BY Types DEF IndInv, JobInv
<1>1. ASSUME NEW j \in Jobs, PushQueue(j) PROVE OrderInv'
  <2>1. /\ place[j] = "none" /\ place' = [place EXCEPT ![j] = "queued"]
        /\ order' = Append(order, j)
    BY <1>0, <1>1 DEF PushQueue, Step, JobInvAt
  <2>2. /\ Len(order') = Len(order) + 1 /\ order'[Len(order) + 1] = j
        /\ (\A m \in 1 .. Len(order) : order'[m] = order[m])
    BY <1>0, <2>1
  <2> SUFFICES ASSUME NEW m \in 1 .. Len(order') PROVE place'[order'[m]] # "none"
    BY DEF OrderInv
  <2>3. CASE m = Len(order) + 1
    BY <1>0, <2>1, <2>2, <2>3
  <2>4. CASE m # Len(order) + 1
    <3>1. m \in 1 .. Len(order)
      BY <1>0, <2>2, <2>4
    <3>2. order'[m] = order[m] /\ order[m] \in Jobs /\ place[order[m]] # "none"
      BY <1>0, <2>2, <3>1 DEF OrderInv
    <3> QED
      BY <1>0, <2>1, <3>2
  <2> QED
    BY <2>3, <2>4
<1>2. ASSUME NEW j \in Jobs, Run(j) PROVE OrderInv'
  BY <1>0, <1>2 DEF OrderInv, Run
<1>3. ASSUME NEW j \in Jobs, RunFail(j) PROVE OrderInv'
  BY <1>0, <1>3 DEF OrderInv, RunFail
<1>4. ASSUME NEW j \in Jobs, SchedFree(j) PROVE OrderInv'
  BY <1>0, <1>4 DEF OrderInv, SchedFree, put_job
<1>5. CASE UNCHANGED <<place, order>>
  BY <1>0, <1>5 DEF OrderInv
<1>6. ASSUME NEW b \in Bos, CreateBuild(b) \/ CreateFail(b) \/ Undo(b)
      PROVE  OrderInv'
  BY <1>5, <1>6 DEF CreateBuild, CreateFail, Undo
<1>h. ASSUME NEW f \in Files, NEW b \in Bos, CreateHandle(f, b) \/ HandleDelete(f, b)
      PROVE  OrderInv'
  BY <1>5, <1>h DEF CreateHandle, HandleDelete
<1>s. ASSUME NEW f \in Files, NEW g \in Files, NEW b \in Bos, Share(f, g, b)
      PROVE  OrderInv'
  BY <1>5, <1>s DEF Share
<1>7. ASSUME NEW t \in Calls,
             SubmitCall(t) \/ SubmitReject(t) \/ SubmitReturn(t)
      PROVE  OrderInv'
  BY <1>5, <1>7 DEF SubmitCall, SubmitReject, SubmitReturn
<1>8. ASSUME NEW t \in Calls, NEW j \in Jobs, JobReject(t, j) PROVE OrderInv'
  BY <1>5, <1>8 DEF JobReject, NextJob, Step
<1>9. ASSUME NEW t \in Calls, NEW j \in Jobs, NEW in \in SUBSET Bos, NEW out \in SUBSET Bos,
             JobInit(t, j, in, out)
      PROVE  OrderInv'
  BY <1>5, <1>9 DEF JobInit, NextJob, Step
<1>10. ASSUME NEW j \in Jobs,
             \/ CopyTasks(j) \/ CopyTasksNone(j) \/ CopyTasksFail(j)
             \/ Lookup(j, in_bos[j], "in", "out") \/ Lookup(j, out_bos[j], "out", "domain") \/ DomainGet(j)
      PROVE  OrderInv'
  BY <1>5, <1>10 DEF CopyTasks, Step, CopyTasksNone, CopyTasksFail, Lookup,
     Get, Live, DomainGet
<1>11. ASSUME NEW j \in Jobs,
             \/ PushLock(j) \/ PushLockFail(j) \/ PushFail(j)
             \/ PushAttach(j) \/ JobPut(j)
      PROVE  OrderInv'
  BY <1>5, <1>11 DEF PushLock, Step, PushLockFail, PushFail, PushAttach,
     JobPut, put_job
<1>12. ASSUME NEW j \in Jobs, NEW found \in SUBSET Bos,
             \/ LookupFail(j, in_bos[j], found, "in")
             \/ LookupFail(j, out_bos[j], found, "out")
      PROVE  OrderInv'
  BY <1>5, <1>12 DEF LookupFail, Step, Get, Live
<1>13. ASSUME NEW p \in Preps, NEW b \in Bos, PrepLookup(p, b) PROVE OrderInv'
  BY <1>5, <1>13 DEF PrepLookup, Get
<1>14. ASSUME NEW p \in Preps,
             \/ PrepReject(p) \/ PrepDone(p)
             \/ PrepTimeout(p) \/ PrepReturn(p)
      PROVE  OrderInv'
  BY <1>5, <1>14 DEF PrepReject, PrepDone, PrepTimeout, PrepReturn, Drop
<1>15. CASE UNCHANGED vars
  BY <1>5, <1>15 DEF vars
<1> QED
  BY <1>h, <1>s, <1>1, <1>2, <1>3, <1>4, <1>5, <1>6, <1>7, <1>8, <1>9, <1>10, <1>11,
     <1>12, <1>13, <1>14, <1>15
     DEF Next

-----------------------------------------------------------------------------
(* The references of the buffers.                                           *)

\* What a step does to the references of buffer c and to its stages.
RefStepAt(c) == gemref'[c] \in Nat /\ RefInvAt(c)' /\ BoInvAt(c)'

\* The counts are natural numbers.
LEMMA Counts ==
  ASSUME IndInv, NEW c \in Bos
  PROVE  /\ gemref[c] \in Nat /\ built[c] \in 0 .. Len(Stages) /\ Len(Stages) = 4
         /\ made[c] \in {"none", "building", "made", "failed"} /\ kept[c] \in Nat
         /\ IsFiniteSet(HeldBy(c)) /\ Cardinality(HeldBy(c)) \in Nat
         /\ IsFiniteSet(PrepsOn(c)) /\ Cardinality(PrepsOn(c)) \in Nat
         /\ IsFiniteSet(Names(c)) /\ Cardinality(Names(c)) \in Nat
         /\ RefInvAt(c) /\ BoInvAt(c)
<1>1. RefInvAt(c) /\ BoInvAt(c)
  BY DEF IndInv, RefInv, BoInv
<1>2. Len(Stages) = 4
  BY DEF Stages
<1> QED
  BY <1>1, <1>2, Types, FS_CardinalityType DEF RefInvAt

\* A buffer that a lookup finds has a handle, so its creation is over.
LEMMA FoundIsMade ==
  ASSUME IndInv, NEW j, NEW bs, NEW c \in Bos, c \in Live(j, bs)
  PROVE  made[c] = "made"
<1>1. Names(c) # {}
  BY Types DEF Live, Names
<1> QED
  BY <1>1, Counts DEF BoInvAt

\* A lookup that finds all of bs adds one reference of the job to each.
LEMMA LookupStep ==
  ASSUME IndInv, NEW j \in Jobs, NEW bs \in SUBSET Bos, NEW from \in Arrays, NEW to,
         Lookup(j, bs, from, to), \A b \in bs : <<from, b>> \notin held[j],
         NEW c \in Bos
  PROVE  RefStepAt(c)
<1>0. /\ held \in [Jobs -> SUBSET (Arrays \X Bos)]
      /\ held' = [held EXCEPT ![j] = @ \cup ({from} \X bs)]
      /\ gemref'[c] = gemref[c] + (IF c \in bs THEN 1 ELSE 0)
      /\ built' = built /\ made' = made /\ handle' = handle /\ kept' = kept /\ prep' = prep
  BY Types DEF Lookup, Get
<1>1. /\ gemref[c] \in Nat /\ built[c] \in 0 .. Len(Stages) /\ Len(Stages) = 4
      /\ made[c] \in {"none", "building", "made", "failed"} /\ kept[c] \in Nat
      /\ IsFiniteSet(HeldBy(c)) /\ Cardinality(HeldBy(c)) \in Nat
      /\ IsFiniteSet(PrepsOn(c)) /\ Cardinality(PrepsOn(c)) \in Nat
      /\ IsFiniteSet(Names(c)) /\ Cardinality(Names(c)) \in Nat
      /\ RefInvAt(c) /\ BoInvAt(c)
  BY Counts
<1>2. PrepsOn(c)' = PrepsOn(c) /\ Own(c)' = Own(c) /\ Names(c)' = Names(c)
  BY <1>0 DEF PrepsOn, Own, Names
<1>3. CASE c \in bs
  <2>1. <<j, from>> \notin HeldBy(c)
    BY <1>3 DEF HeldBy
  <2>2. HeldBy(c)' = HeldBy(c) \cup {<<j, from>>}
    BY <1>0, <1>3 DEF HeldBy
  <2>3. IsFiniteSet(HeldBy(c)') /\ Cardinality(HeldBy(c)') = Cardinality(HeldBy(c)) + 1
    <3> DEFINE x == <<j, from>>
    <3>1. x \notin HeldBy(c) /\ HeldBy(c)' = HeldBy(c) \cup {x}
      BY <2>1, <2>2
    <3> HIDE DEF x
    <3> QED
      BY <1>1, <3>1, FS_AddElement
  <2>4. made[c] = "made" /\ gemref'[c] = gemref[c] + 1
    <3>1. c \in Live(j, bs)
      BY <1>3 DEF Lookup
    <3> QED
      BY <1>0, <1>3, <3>1, FoundIsMade
  <2>5. Owed(c) \in Nat /\ Owed(c)' = Owed(c) + 1
    BY <1>0, <1>1, <1>2, <2>3, <2>4 DEF Owed, Own
  <2>6. RefInvAt(c)' /\ gemref'[c] \in Nat
    BY <1>1, <1>2, <2>3, <2>4, <2>5 DEF RefInvAt
  <2>7. gemref[c] > 0
    <3>1. Names(c) # {}
      BY <1>3, Types DEF Lookup, Live, Names
    <3>2. Cardinality(Names(c)) > 0
      BY <1>1, <3>1, FS_EmptySet
    <3> QED
      BY <1>1, <3>2 DEF RefInvAt, Owed, Own
  <2>8. BoInvAt(c)'
    BY <1>0, <1>1, <2>4, <2>7 DEF BoInvAt
  <2> QED
    BY <2>6, <2>8 DEF RefStepAt
<1>4. CASE c \notin bs
  <2>1. HeldBy(c)' = HeldBy(c)
    BY <1>0, <1>4 DEF HeldBy
  <2> QED
    BY <1>0, <1>1, <1>2, <1>4, <2>1 DEF RefStepAt, RefInvAt, BoInvAt, Owed, Own
<1> QED
  BY <1>3, <1>4

\* A lookup that fails keeps a reference to each buffer it has found.
LEMMA LookupFailStep ==
  ASSUME IndInv, NEW j \in Jobs, NEW bs \in SUBSET Bos, NEW from,
         NEW found \in SUBSET Bos, LookupFail(j, bs, found, from), NEW c \in Bos
  PROVE  RefStepAt(c) /\ kept'[c] \in Nat
<1> USE DEF jobVars
<1>0. /\ gemref'[c] = gemref[c] + (IF c \in found THEN 1 ELSE 0)
      /\ kept'[c] = kept[c] + (IF c \in found THEN 1 ELSE 0)
      /\ built' = built /\ made' = made /\ handle' = handle /\ prep' = prep /\ held' = held
      /\ found \subseteq Live(j, bs)
  BY DEF LookupFail, Get
<1>1. /\ PrepsOn(c)' = PrepsOn(c) /\ Own(c)' = Own(c) /\ HeldBy(c)' = HeldBy(c)
      /\ Names(c)' = Names(c)
  BY <1>0 DEF PrepsOn, Own, HeldBy, Names
<1>2. /\ gemref[c] \in Nat /\ built[c] \in 0 .. Len(Stages) /\ Len(Stages) = 4
      /\ made[c] \in {"none", "building", "made", "failed"} /\ kept[c] \in Nat
      /\ IsFiniteSet(HeldBy(c)) /\ Cardinality(HeldBy(c)) \in Nat
      /\ IsFiniteSet(PrepsOn(c)) /\ Cardinality(PrepsOn(c)) \in Nat
      /\ IsFiniteSet(Names(c)) /\ Cardinality(Names(c)) \in Nat
      /\ RefInvAt(c) /\ BoInvAt(c)
  BY Counts
<1>3. RefInvAt(c)' /\ gemref'[c] \in Nat /\ kept'[c] \in Nat
  BY <1>0, <1>1, <1>2 DEF RefInvAt, Owed, Own
<1>4. c \in found => made[c] = "made" /\ gemref[c] > 0
  <2> SUFFICES ASSUME c \in found PROVE made[c] = "made" /\ gemref[c] > 0
    OBVIOUS
  <2>1. c \in Live(j, bs) /\ made[c] = "made"
    BY <1>0, FoundIsMade
  <2>2. Names(c) # {}
    BY <2>1, Types DEF Live, Names
  <2>3. Cardinality(Names(c)) > 0
    BY <1>2, <2>2, FS_EmptySet
  <2> QED
    BY <1>2, <2>1, <2>3 DEF RefInvAt, Owed, Own
<1>5. BoInvAt(c)'
  BY <1>0, <1>1, <1>2, <1>4 DEF BoInvAt
<1> QED
  BY <1>3, <1>5 DEF RefStepAt

\* The references a job lets go of are the ones it counted for c.
LEMMA DropCounts ==
  ASSUME IndInv, NEW j \in Jobs, NEW c \in Bos, held' = [held EXCEPT ![j] = {}]
  PROVE  /\ IsFiniteSet(HeldBy(c)') /\ HeldBy(c)' \subseteq HeldBy(c)
         /\ Cardinality(HeldBy(c)') \in Nat /\ Cardinality(Refs(held[j], c)) \in Nat
         /\ Cardinality(HeldBy(c)) = Cardinality(HeldBy(c)') + Cardinality(Refs(held[j], c))
<1> DEFINE H == HeldBy(c)
           H1 == H \ {<<j, "in">>}
           H2 == H1 \ {<<j, "out">>}
           R == Refs(held[j], c)
           R1 == R \ {"in"}
           R2 == R1 \ {"out"}
<1>1. IsFiniteSet(H) /\ Cardinality(H) \in Nat
  BY Counts
<1>2. R \subseteq {"in", "out"} /\ R2 = {}
  BY DEF Refs, Arrays
<1>3. HeldBy(c)' = H2
  BY Types DEF HeldBy, Arrays
<1>4. ("in" \in R <=> <<j, "in">> \in H) /\ ("out" \in R1 <=> <<j, "out">> \in H1)
  BY DEF Refs, HeldBy, Arrays
<1>5. IsFiniteSet(R)
  <2>1. IsFiniteSet({"in"}) /\ {"in", "out"} = {"in"} \cup {"out"}
    BY FS_Singleton
  <2>2. IsFiniteSet({"in", "out"})
    BY <2>1, FS_AddElement
  <2> QED
    BY <1>2, <2>2, FS_Subset
<1> HIDE DEF H, R
<1>6. /\ IsFiniteSet(H1)
      /\ Cardinality(H1) = IF <<j, "in">> \in H THEN Cardinality(H) - 1 ELSE Cardinality(H)
  BY <1>1, FS_RemoveElement
<1>7. /\ IsFiniteSet(R1)
      /\ Cardinality(R1) = IF "in" \in R THEN Cardinality(R) - 1 ELSE Cardinality(R)
  BY <1>5, FS_RemoveElement
<1> HIDE DEF H1, R1
<1>8. /\ IsFiniteSet(H2)
      /\ Cardinality(H2) = IF <<j, "out">> \in H1 THEN Cardinality(H1) - 1 ELSE Cardinality(H1)
  BY <1>6, FS_RemoveElement
<1>9. /\ IsFiniteSet(R2)
      /\ Cardinality(R2) = IF "out" \in R1 THEN Cardinality(R1) - 1 ELSE Cardinality(R1)
  BY <1>7, FS_RemoveElement
<1>10. Cardinality(R2) = 0
  BY <1>2, FS_EmptySet
<1>11. Cardinality(R) \in Nat /\ Cardinality(H1) \in Nat /\ Cardinality(H2) \in Nat
       /\ Cardinality(R1) \in Nat
  BY <1>5, <1>6, <1>7, <1>8, FS_CardinalityType
<1>12. Cardinality(H) = Cardinality(H2) + Cardinality(R)
  BY <1>1, <1>4, <1>6, <1>7, <1>8, <1>9, <1>10, <1>11
<1> QED
  BY <1>3, <1>8, <1>11, <1>12 DEF H, H1, R

\* The job lets go of its buffers with its last reference.
LEMMA PutStep ==
  ASSUME IndInv, NEW j \in Jobs, put_job(j), built' = built, made' = made,
         handle' = handle, kept' = kept, prep' = prep, NEW c \in Bos
  PROVE  RefStepAt(c)
<1>0. /\ PrepsOn(c)' = PrepsOn(c) /\ Own(c)' = Own(c) /\ Own(c) \in Nat
      /\ Names(c)' = Names(c) /\ kept'[c] = kept[c]
  BY DEF PrepsOn, Own, Names
<1>1. CASE ref[j] > 1
  <2>1. gemref' = gemref /\ held' = held
    BY <1>1 DEF put_job
  <2>2. HeldBy(c)' = HeldBy(c)
    BY <2>1 DEF HeldBy
  <2> QED
    BY <1>0, <2>1, <2>2, Counts DEF RefStepAt, RefInvAt, BoInvAt, Owed
<1>2. CASE ~(ref[j] > 1)
  <2>1. /\ gemref'[c] = gemref[c] - Cardinality(Refs(held[j], c))
        /\ held' = [held EXCEPT ![j] = {}]
    BY <1>2 DEF put_job, DropHeld
  <2>2. /\ IsFiniteSet(HeldBy(c)') /\ HeldBy(c)' \subseteq HeldBy(c)
        /\ Cardinality(HeldBy(c)') \in Nat /\ Cardinality(Refs(held[j], c)) \in Nat
        /\ Cardinality(HeldBy(c)) = Cardinality(HeldBy(c)') + Cardinality(Refs(held[j], c))
    BY <2>1, DropCounts
  <2>3. Owed(c)' = Owed(c) - Cardinality(Refs(held[j], c)) /\ Owed(c)' \in Nat
    <3>1. /\ Cardinality(PrepsOn(c)) \in Nat /\ Cardinality(Names(c)) \in Nat
          /\ kept[c] \in Nat
      BY Counts
    <3>2. Owed(c)' = Cardinality(HeldBy(c)') + Cardinality(PrepsOn(c))
                     + Cardinality(Names(c)) + kept[c] + Own(c)
      BY <1>0 DEF Owed
    <3>3. Owed(c) = Cardinality(HeldBy(c)) + Cardinality(PrepsOn(c))
                    + Cardinality(Names(c)) + kept[c] + Own(c)
      BY DEF Owed
    <3> QED
      BY <1>0, <2>2, <3>1, <3>2, <3>3
  <2>4. gemref'[c] \in Nat /\ gemref'[c] <= gemref[c] /\ RefInvAt(c)'
    <3>1. Owed(c) \in Nat /\ gemref[c] = Owed(c)
      BY <1>0, Counts DEF RefInvAt, Owed
    <3>2. gemref'[c] \in Nat /\ gemref'[c] <= gemref[c] /\ gemref'[c] = Owed(c)'
      BY <2>1, <2>2, <2>3, <3>1, Counts
    <3> QED
      BY <1>0, <2>2, <3>2, Counts DEF RefInvAt
  <2>5. HeldBy(c) = {} => gemref'[c] = gemref[c]
    <3>1. ASSUME HeldBy(c) = {} PROVE Cardinality(Refs(held[j], c)) = 0
      BY <2>2, <3>1, FS_EmptySet
    <3> QED
      BY <2>1, <3>1, Counts
  <2>6. BoInvAt(c)'
    BY <1>0, <2>2, <2>4, <2>5, Counts DEF BoInvAt
  <2> QED
    BY <2>4, <2>6 DEF RefStepAt
<1> QED
  BY <1>1, <1>2

\* A buffer's references are those of its handle, of the jobs and of the prep
\* calls, and it is mapped while it can be reached.
LEMMA RefStep ==
  ASSUME IndInv, [Next]_vars, NEW c \in Bos PROVE RefStepAt(c)
<1> USE DEF callVars, boVars, jobVars, schVars
<1>0. /\ gemref[c] \in Nat /\ built[c] \in 0 .. Len(Stages) /\ Len(Stages) = 4
      /\ made[c] \in {"none", "building", "made", "failed"} /\ kept[c] \in Nat
      /\ IsFiniteSet(HeldBy(c)) /\ Cardinality(HeldBy(c)) \in Nat
      /\ IsFiniteSet(PrepsOn(c)) /\ Cardinality(PrepsOn(c)) \in Nat
      /\ IsFiniteSet(Names(c)) /\ Cardinality(Names(c)) \in Nat
      /\ RefInvAt(c) /\ BoInvAt(c)
  BY Counts
<1>e. /\ (HeldBy(c) = {} => Cardinality(HeldBy(c)) = 0)
      /\ (PrepsOn(c) = {} => Cardinality(PrepsOn(c)) = 0)
      /\ (Names(c) = {} => Cardinality(Names(c)) = 0)
  BY <1>0, FS_EmptySet
<1>n. ASSUME Names(c) # {} PROVE gemref[c] > 0 /\ made[c] = "made" /\ built[c] = Len(Stages)
  <2>1. Cardinality(Names(c)) > 0
    BY <1>0, <1>n, FS_EmptySet
  <2>2. gemref[c] > 0
    BY <1>0, <2>1 DEF RefInvAt, Owed, Own
  <2> QED
    BY <1>0, <1>n, <2>2 DEF BoInvAt
<1>1. ASSUME NEW b \in Bos, CreateBuild(b) PROVE RefStepAt(c)
  <2>1. /\ PrepsOn(c)' = PrepsOn(c) /\ HeldBy(c)' = HeldBy(c) /\ Names(c)' = Names(c)
        /\ kept'[c] = kept[c]
    BY <1>1 DEF PrepsOn, HeldBy, Names, CreateBuild
  <2>2. /\ made' = [made EXCEPT ![b] = "building"] /\ made[b] \in {"none", "building"}
        /\ gemref' = [gemref EXCEPT ![b] = 1] /\ built' = [built EXCEPT ![b] = @ + 1]
    BY <1>1 DEF CreateBuild
  <2>3. CASE c = b
    <3>1. /\ made'[c] = "building" /\ made[c] \in {"none", "building"}
          /\ gemref'[c] = 1 /\ built'[c] = built[c] + 1
      BY <1>0, <2>2, <2>3, Types
    <3> QED
      BY <1>0, <1>e, <2>1, <3>1 DEF RefStepAt, RefInvAt, BoInvAt, Owed, Own
  <2>4. CASE c # b
    <3>1. made'[c] = made[c] /\ gemref'[c] = gemref[c] /\ built'[c] = built[c]
      BY <1>0, <2>2, <2>4, Types
    <3> QED
      BY <1>0, <1>e, <2>1, <3>1 DEF RefStepAt, RefInvAt, BoInvAt, Owed, Own
  <2> QED
    BY <2>3, <2>4
<1>2. ASSUME NEW b \in Bos, CreateFail(b) PROVE RefStepAt(c)
  <2>1. /\ PrepsOn(c)' = PrepsOn(c) /\ HeldBy(c)' = HeldBy(c) /\ Names(c)' = Names(c)
        /\ kept'[c] = kept[c]
    BY <1>2 DEF PrepsOn, HeldBy, Names, CreateFail
  <2>2. /\ made' = [made EXCEPT ![b] = "failed"] /\ made[b] = "building"
        /\ gemref' = [gemref EXCEPT ![b] = 0] /\ built' = built
    BY <1>2 DEF CreateFail
  <2>3. CASE c = b
    <3>1. /\ made'[c] = "failed" /\ made[c] = "building"
          /\ gemref'[c] = 0 /\ built'[c] = built[c]
      BY <1>0, <2>2, <2>3, Types
    <3> QED
      BY <1>0, <1>e, <2>1, <3>1 DEF RefStepAt, RefInvAt, BoInvAt, Owed, Own
  <2>4. CASE c # b
    <3>1. made'[c] = made[c] /\ gemref'[c] = gemref[c] /\ built'[c] = built[c]
      BY <1>0, <2>2, <2>4, Types
    <3> QED
      BY <1>0, <1>e, <2>1, <3>1 DEF RefStepAt, RefInvAt, BoInvAt, Owed, Own
  <2> QED
    BY <2>3, <2>4
<1>3. ASSUME NEW f \in Files, NEW b \in Bos, CreateHandle(f, b) PROVE RefStepAt(c)
  <2>1. /\ PrepsOn(c)' = PrepsOn(c) /\ HeldBy(c)' = HeldBy(c)
        /\ gemref' = gemref /\ built' = built /\ kept' = kept
        /\ made' = [made EXCEPT ![b] = "made"] /\ handle' = handle \cup {<<f, b>>}
        /\ made[b] = "building" /\ built[b] = Len(Stages)
    BY <1>3 DEF PrepsOn, HeldBy, CreateHandle
  <2>2. CASE c = b
    <3>1. Names(c) = {} /\ Names(c)' = {f} /\ made'[c] = "made" /\ made[c] = "building"
      BY <1>0, <2>1, <2>2, Types DEF BoInvAt, Names
    <3>2. IsFiniteSet({f}) /\ Cardinality({f}) = 1
      BY FS_Singleton
    <3> QED
      BY <1>0, <1>e, <2>1, <2>2, <3>1, <3>2 DEF RefStepAt, RefInvAt, BoInvAt, Owed, Own
  <2>3. CASE c # b
    <3>1. made'[c] = made[c] /\ Names(c)' = Names(c)
      BY <2>1, <2>3, Types DEF Names
    <3> QED
      BY <1>0, <2>1, <3>1 DEF RefStepAt, RefInvAt, BoInvAt, Owed, Own
  <2> QED
    BY <2>2, <2>3
<1>4. ASSUME NEW f \in Files, NEW b \in Bos, HandleDelete(f, b) PROVE RefStepAt(c)
  <2>1. /\ PrepsOn(c)' = PrepsOn(c) /\ HeldBy(c)' = HeldBy(c)
        /\ built' = built /\ kept' = kept /\ made' = made
        /\ <<f, b>> \in handle /\ handle' = handle \ {<<f, b>>}
        /\ gemref'[c] = gemref[c] - (IF c = b THEN 1 ELSE 0)
    BY <1>4 DEF PrepsOn, HeldBy, HandleDelete, Drop
  <2>2. CASE c = b
    <3>1. f \in Names(c) /\ Names(c)' = Names(c) \ {f}
      BY <2>1, <2>2 DEF Names
    <3>2. IsFiniteSet(Names(c)') /\ Cardinality(Names(c)') = Cardinality(Names(c)) - 1
      BY <1>0, <3>1, FS_RemoveElement
    <3>3. Cardinality(Names(c)') \in Nat
      BY <3>2, FS_CardinalityType
    <3>4. gemref[c] > 0 /\ made[c] = "made" /\ built[c] = Len(Stages)
      BY <1>n, <3>1
    <3> QED
      BY <1>0, <2>1, <2>2, <3>2, <3>3, <3>4 DEF RefStepAt, RefInvAt, BoInvAt, Owed, Own
  <2>3. CASE c # b
    <3>1. Names(c)' = Names(c)
      BY <2>1, <2>3 DEF Names
    <3> QED
      BY <1>0, <2>1, <2>3, <3>1 DEF RefStepAt, RefInvAt, BoInvAt, Owed, Own
  <2> QED
    BY <2>2, <2>3
<1>s. ASSUME NEW f \in Files, NEW g \in Files, NEW b \in Bos, Share(f, g, b) PROVE RefStepAt(c)
  <2>1. /\ PrepsOn(c)' = PrepsOn(c) /\ HeldBy(c)' = HeldBy(c)
        /\ built' = built /\ kept' = kept /\ made' = made
        /\ <<f, b>> \in handle /\ <<g, b>> \notin handle /\ handle' = handle \cup {<<g, b>>}
        /\ gemref'[c] = gemref[c] + (IF c = b THEN 1 ELSE 0)
    BY <1>s DEF PrepsOn, HeldBy, Share, Get
  <2>2. CASE c = b
    <3>1. f \in Names(c) /\ g \notin Names(c) /\ Names(c)' = Names(c) \cup {g}
      BY <2>1, <2>2 DEF Names
    <3>2. IsFiniteSet(Names(c)') /\ Cardinality(Names(c)') = Cardinality(Names(c)) + 1
      BY <1>0, <3>1, FS_AddElement
    <3>3. gemref[c] > 0 /\ made[c] = "made" /\ built[c] = Len(Stages)
      BY <1>n, <3>1
    <3> QED
      BY <1>0, <2>1, <2>2, <3>2, <3>3 DEF RefStepAt, RefInvAt, BoInvAt, Owed, Own
  <2>3. CASE c # b
    <3>1. Names(c)' = Names(c)
      BY <2>1, <2>3 DEF Names
    <3> QED
      BY <1>0, <2>1, <2>3, <3>1 DEF RefStepAt, RefInvAt, BoInvAt, Owed, Own
  <2> QED
    BY <2>2, <2>3
<1>5. ASSUME NEW b \in Bos, Undo(b) PROVE RefStepAt(c)
  <2>1. /\ PrepsOn(c)' = PrepsOn(c) /\ HeldBy(c)' = HeldBy(c) /\ Own(c)' = Own(c)
        /\ Names(c)' = Names(c) /\ kept' = kept
    BY <1>5 DEF PrepsOn, HeldBy, Own, Names, Undo
  <2>2. made' = made /\ gemref' = gemref /\ (c # b => built'[c] = built[c])
        /\ (c = b => gemref[c] = 0 /\ built[c] > 0)
    BY <1>5, Types DEF Undo
  <2> QED
    BY <1>0, <1>e, <2>1, <2>2 DEF RefStepAt, RefInvAt, BoInvAt, Owed
<1>6. ASSUME NEW j \in Jobs, Lookup(j, in_bos[j], "in", "out")
      PROVE  RefStepAt(c)
  <2>1. \A b \in in_bos[j] : <<"in", b>> \notin held[j]
    BY <1>6, Types DEF Lookup, Step, IndInv, JobInv, JobInvAt
  <2>2. in_bos[j] \in SUBSET Bos /\ "in" \in Arrays
    BY Types DEF Arrays
  <2> QED
    BY <1>6, <2>1, <2>2, LookupStep
<1>7. ASSUME NEW j \in Jobs, Lookup(j, out_bos[j], "out", "domain")
      PROVE  RefStepAt(c)
  <2>1. \A b \in out_bos[j] : <<"out", b>> \notin held[j]
    BY <1>7, Types DEF Lookup, Step, IndInv, JobInv, JobInvAt
  <2>2. out_bos[j] \in SUBSET Bos /\ "out" \in Arrays
    BY Types DEF Arrays
  <2> QED
    BY <1>7, <2>1, <2>2, LookupStep
<1>8. ASSUME NEW j \in Jobs, NEW found \in SUBSET Bos,
             LookupFail(j, in_bos[j], found, "in")
      PROVE  RefStepAt(c)
  <2>1. in_bos[j] \in SUBSET Bos
    BY Types
  <2> QED
    BY <1>8, <2>1, LookupFailStep
<1>9. ASSUME NEW j \in Jobs, NEW found \in SUBSET Bos,
             LookupFail(j, out_bos[j], found, "out")
      PROVE  RefStepAt(c)
  <2>1. out_bos[j] \in SUBSET Bos
    BY Types
  <2> QED
    BY <1>9, <2>1, LookupFailStep
<1>10. ASSUME NEW j \in Jobs, JobPut(j) PROVE RefStepAt(c)
  <2>1. /\ put_job(j) /\ built' = built /\ made' = made /\ handle' = handle
        /\ kept' = kept /\ prep' = prep
    BY <1>10 DEF JobPut
  <2> QED
    BY <2>1, PutStep
<1>11. ASSUME NEW j \in Jobs, SchedFree(j) PROVE RefStepAt(c)
  <2>1. /\ put_job(j) /\ built' = built /\ made' = made /\ handle' = handle
        /\ kept' = kept /\ prep' = prep
    BY <1>11 DEF SchedFree
  <2> QED
    BY <2>1, PutStep
<1>12. ASSUME NEW p \in Preps, NEW b \in Bos, PrepLookup(p, b)
      PROVE  RefStepAt(c)
  <2>1. /\ built' = built /\ made' = made /\ handle' = handle /\ kept' = kept /\ held' = held
        /\ (\E f \in Files : <<f, b>> \in handle)
        /\ prep[p].at = "idle" /\ gemref'[c] = gemref[c] + (IF c = b THEN 1 ELSE 0)
        /\ prep' = [prep EXCEPT ![p] = [at |-> "wait", bo |-> {b}, before |-> Submitted]]
    BY <1>12 DEF PrepLookup, Get
  <2>2. /\ HeldBy(c)' = HeldBy(c) /\ Own(c)' = Own(c) /\ Names(c)' = Names(c)
        /\ p \notin PrepsOn(c)
    BY <2>1 DEF HeldBy, Own, Names, PrepsOn
  <2>3. \A q \in Preps : prep'[q] = IF q = p THEN [at |-> "wait", bo |-> {b}, before |-> Submitted]
                                    ELSE prep[q]
    BY <2>1, Types
  <2>4. PrepsOn(c)' = IF c = b THEN PrepsOn(c) \cup {p} ELSE PrepsOn(c)
    <3>1. \A q \in Preps : q \in PrepsOn(c)' <=> (q \in PrepsOn(c) \/ (q = p /\ c = b))
      BY <2>1, <2>3 DEF PrepsOn
    <3> QED
      BY <3>1 DEF PrepsOn
  <2>5. c = b => /\ IsFiniteSet(PrepsOn(c) \cup {p})
                 /\ Cardinality(PrepsOn(c) \cup {p}) = Cardinality(PrepsOn(c)) + 1
    BY <1>0, <2>2, FS_AddElement
  <2>6. c = b => gemref[c] > 0 /\ made[c] = "made" /\ built[c] = Len(Stages)
    <3>1. c = b => Names(c) # {}
      BY <2>1 DEF Names
    <3> QED
      BY <1>n, <3>1
  <2>7. RefInvAt(c)' /\ gemref'[c] \in Nat
    BY <1>0, <2>1, <2>2, <2>4, <2>5 DEF RefInvAt, Owed, Own
  <2>8. BoInvAt(c)'
    BY <1>0, <2>1, <2>2, <2>4, <2>6 DEF BoInvAt
  <2> QED
    BY <2>7, <2>8 DEF RefStepAt
<1>13. ASSUME NEW p \in Preps, PrepReject(p) PROVE RefStepAt(c)
  <2>1. /\ gemref' = gemref /\ built' = built /\ made' = made /\ handle' = handle
        /\ kept' = kept /\ held' = held
    BY <1>13 DEF PrepReject
  <2>2. \A q \in Preps : /\ prep'[q].bo = prep[q].bo
                         /\ (prep'[q].at \in {"wait", "ready", "late"}
                                <=> prep[q].at \in {"wait", "ready", "late"})
    BY <1>13, Types DEF PrepReject, PrepRecords
  <2>3. PrepsOn(c)' = PrepsOn(c) /\ HeldBy(c)' = HeldBy(c) /\ Own(c)' = Own(c)
        /\ Names(c)' = Names(c)
    BY <2>1, <2>2 DEF PrepsOn, HeldBy, Own, Names
  <2> QED
    BY <1>0, <1>e, <2>1, <2>3 DEF RefStepAt, RefInvAt, BoInvAt, Owed
<1>14. ASSUME NEW p \in Preps, PrepDone(p) PROVE RefStepAt(c)
  <2>1. /\ gemref' = gemref /\ built' = built /\ made' = made /\ handle' = handle
        /\ kept' = kept /\ held' = held
    BY <1>14 DEF PrepDone
  <2>2. \A q \in Preps : /\ prep'[q].bo = prep[q].bo
                         /\ (prep'[q].at \in {"wait", "ready", "late"}
                                <=> prep[q].at \in {"wait", "ready", "late"})
    BY <1>14, Types DEF PrepDone, PrepRecords
  <2>3. PrepsOn(c)' = PrepsOn(c) /\ HeldBy(c)' = HeldBy(c) /\ Own(c)' = Own(c)
        /\ Names(c)' = Names(c)
    BY <2>1, <2>2 DEF PrepsOn, HeldBy, Own, Names
  <2> QED
    BY <1>0, <1>e, <2>1, <2>3 DEF RefStepAt, RefInvAt, BoInvAt, Owed
<1>15. ASSUME NEW p \in Preps, PrepTimeout(p) PROVE RefStepAt(c)
  <2>1. /\ gemref' = gemref /\ built' = built /\ made' = made /\ handle' = handle
        /\ kept' = kept /\ held' = held
    BY <1>15 DEF PrepTimeout
  <2>2. \A q \in Preps : /\ prep'[q].bo = prep[q].bo
                         /\ (prep'[q].at \in {"wait", "ready", "late"}
                                <=> prep[q].at \in {"wait", "ready", "late"})
    BY <1>15, Types DEF PrepTimeout, PrepRecords
  <2>3. PrepsOn(c)' = PrepsOn(c) /\ HeldBy(c)' = HeldBy(c) /\ Own(c)' = Own(c)
        /\ Names(c)' = Names(c)
    BY <2>1, <2>2 DEF PrepsOn, HeldBy, Own, Names
  <2> QED
    BY <1>0, <1>e, <2>1, <2>3 DEF RefStepAt, RefInvAt, BoInvAt, Owed
<1>16. ASSUME NEW p \in Preps, PrepReturn(p) PROVE RefStepAt(c)
  <2>1. /\ built' = built /\ made' = made /\ handle' = handle /\ kept' = kept /\ held' = held
        /\ prep[p].at \in {"ready", "late"}
        /\ gemref'[c] = gemref[c] - (IF c \in prep[p].bo THEN 1 ELSE 0)
    BY <1>16 DEF PrepReturn, Drop
  <2>2. \A q \in Preps : /\ prep'[q].bo = prep[q].bo
                         /\ (q # p => prep'[q].at = prep[q].at)
                         /\ (q = p => prep'[q].at \in {"ok", "error"})
    BY <1>16, Types DEF PrepReturn, PrepRecords
  <2>3. PrepsOn(c)' = PrepsOn(c) \ {p} /\ HeldBy(c)' = HeldBy(c) /\ Own(c)' = Own(c)
        /\ Names(c)' = Names(c)
    BY <2>1, <2>2 DEF PrepsOn, HeldBy, Own, Names
  <2>4. p \in PrepsOn(c) <=> c \in prep[p].bo
    BY <2>1 DEF PrepsOn
  <2>5. /\ IsFiniteSet(PrepsOn(c) \ {p})
        /\ Cardinality(PrepsOn(c) \ {p}) = IF p \in PrepsOn(c) THEN Cardinality(PrepsOn(c)) - 1
                                           ELSE Cardinality(PrepsOn(c))
    BY <1>0, FS_RemoveElement
  <2>6. Cardinality(PrepsOn(c)') \in Nat /\ IsFiniteSet(PrepsOn(c)')
    BY <2>3, <2>5, FS_CardinalityType
  <2>7. Cardinality(PrepsOn(c)') = Cardinality(PrepsOn(c)) - (IF c \in prep[p].bo THEN 1 ELSE 0)
    BY <1>0, <2>3, <2>4, <2>5
  <2>8. gemref'[c] \in Nat /\ RefInvAt(c)'
    BY <1>0, <1>e, <2>1, <2>3, <2>6, <2>7 DEF RefInvAt, Owed, Own
  <2>9. BoInvAt(c)'
    BY <1>0, <1>e, <2>1, <2>3, <2>4, <2>8 DEF BoInvAt
  <2> QED
    BY <2>8, <2>9 DEF RefStepAt
<1>17. CASE UNCHANGED <<built, gemref, made, handle, kept, held, prep>>
  BY <1>0, <1>17 DEF RefStepAt, RefInvAt, BoInvAt, Owed, Own, HeldBy, PrepsOn, Names
<1>18. ASSUME NEW t \in Calls,
             SubmitCall(t) \/ SubmitReject(t) \/ SubmitReturn(t)
      PROVE  RefStepAt(c)
  BY <1>17, <1>18 DEF SubmitCall, SubmitReject, SubmitReturn
<1>19. ASSUME NEW t \in Calls, NEW j \in Jobs,
             JobReject(t, j)
      PROVE  RefStepAt(c)
  BY <1>17, <1>19 DEF JobReject, NextJob, Step
<1>20. ASSUME NEW t \in Calls, NEW j \in Jobs, NEW in \in SUBSET Bos, NEW out \in SUBSET Bos,
             JobInit(t, j, in, out)
      PROVE  RefStepAt(c)
  BY <1>17, <1>20 DEF JobInit, NextJob, Step
<1>21. ASSUME NEW j \in Jobs,
             \/ CopyTasks(j) \/ CopyTasksNone(j) \/ CopyTasksFail(j)
             \/ DomainGet(j) \/ PushLock(j) \/ PushLockFail(j)
      PROVE  RefStepAt(c)
  BY <1>17, <1>21 DEF CopyTasks, Step, CopyTasksNone, CopyTasksFail,
     DomainGet, PushLock, PushLockFail
<1>22. ASSUME NEW j \in Jobs,
             \/ PushQueue(j) \/ PushFail(j) \/ PushAttach(j)
             \/ Run(j) \/ RunFail(j)
      PROVE  RefStepAt(c)
  BY <1>17, <1>22 DEF PushQueue, Step, PushFail, PushAttach, Run, Ready,
     RunFail
<1>23. CASE UNCHANGED vars
  BY <1>17, <1>23 DEF vars
<1> QED
  BY <1>s, <1>1, <1>2, <1>3, <1>4, <1>5, <1>6, <1>7, <1>8, <1>9, <1>10, <1>11,
     <1>12, <1>13, <1>14, <1>15, <1>16, <1>17, <1>18, <1>19, <1>20, <1>21,
     <1>22, <1>23
     DEF Next

-----------------------------------------------------------------------------
(* Reservations, fences and the order of the jobs.                          *)

\* Reservations are exclusive.
LEMMA LockInvStep ==
  ASSUME IndInv, [Next]_vars PROVE LockInv'
<1> USE DEF callVars, boVars, jobVars, schVars
<1> USE DEF Uses
<1>0. /\ pc \in [Jobs -> PCs] /\ place \in [Jobs -> Places]
      /\ in_bos \in [Jobs -> SUBSET Bos] /\ out_bos \in [Jobs -> SUBSET Bos]
      /\ LockInv
  BY Types DEF IndInv
<1>1. ASSUME NEW t \in Calls, NEW j \in Jobs, JobReject(t, j) PROVE LockInv'
  BY <1>0, <1>1 DEF LockInv, JobReject, NextJob, Step
<1>2. ASSUME NEW t \in Calls, NEW j \in Jobs, NEW in \in SUBSET Bos, NEW out \in SUBSET Bos,
             JobInit(t, j, in, out)
      PROVE  LockInv'
  BY <1>0, <1>2 DEF LockInv, JobInit, NextJob, Step
<1>3. ASSUME NEW j \in Jobs, CopyTasks(j) PROVE LockInv'
  BY <1>0, <1>3 DEF LockInv, CopyTasks, Step
<1>4. ASSUME NEW j \in Jobs, CopyTasksNone(j) PROVE LockInv'
  BY <1>0, <1>4 DEF LockInv, CopyTasksNone, Step
<1>5. ASSUME NEW j \in Jobs, CopyTasksFail(j) PROVE LockInv'
  BY <1>0, <1>5 DEF LockInv, CopyTasksFail, Step
<1>6. ASSUME NEW j \in Jobs, Lookup(j, in_bos[j], "in", "out") PROVE LockInv'
  BY <1>0, <1>6 DEF LockInv, Lookup, Step, Get, Live
<1>7. ASSUME NEW j \in Jobs, Lookup(j, out_bos[j], "out", "domain")
      PROVE  LockInv'
  BY <1>0, <1>7 DEF LockInv, Lookup, Step, Get, Live
<1>8. ASSUME NEW j \in Jobs, NEW found \in SUBSET Bos,
             LookupFail(j, in_bos[j], found, "in")
      PROVE  LockInv'
  BY <1>0, <1>8 DEF LockInv, LookupFail, Step, Get, Live
<1>9. ASSUME NEW j \in Jobs, NEW found \in SUBSET Bos,
             LookupFail(j, out_bos[j], found, "out")
      PROVE  LockInv'
  BY <1>0, <1>9 DEF LockInv, LookupFail, Step, Get, Live
<1>10. ASSUME NEW j \in Jobs, DomainGet(j) PROVE LockInv'
  BY <1>0, <1>10 DEF LockInv, DomainGet, Step
<1>11. ASSUME NEW j \in Jobs, PushLock(j) PROVE LockInv'
  BY <1>0, <1>11 DEF LockInv, Locked, PushLock, Step
<1>12. ASSUME NEW j \in Jobs, PushLockFail(j) PROVE LockInv'
  BY <1>0, <1>12 DEF LockInv, PushLockFail, Step
<1>13. ASSUME NEW j \in Jobs, PushQueue(j) PROVE LockInv'
  BY <1>0, <1>13 DEF LockInv, PushQueue, Step
<1>14. ASSUME NEW j \in Jobs, PushFail(j) PROVE LockInv'
  BY <1>0, <1>14 DEF LockInv, PushFail, Step
<1>15. ASSUME NEW j \in Jobs, PushAttach(j) PROVE LockInv'
  BY <1>0, <1>15 DEF LockInv, PushAttach, Step
<1>16. ASSUME NEW j \in Jobs, JobPut(j) PROVE LockInv'
  BY <1>0, <1>16 DEF LockInv, JobPut, put_job
<1>17. CASE UNCHANGED <<pc, in_bos, out_bos>>
  BY <1>0, <1>17 DEF LockInv
<1>18. ASSUME NEW b \in Bos, CreateBuild(b) \/ CreateFail(b) \/ Undo(b)
      PROVE  LockInv'
  BY <1>17, <1>18 DEF CreateBuild, CreateFail, Undo
<1>h. ASSUME NEW f \in Files, NEW b \in Bos, CreateHandle(f, b) \/ HandleDelete(f, b)
      PROVE  LockInv'
  BY <1>17, <1>h DEF CreateHandle, HandleDelete
<1>s. ASSUME NEW f \in Files, NEW g \in Files, NEW b \in Bos, Share(f, g, b)
      PROVE  LockInv'
  BY <1>17, <1>s DEF Share
<1>19. ASSUME NEW t \in Calls,
             SubmitCall(t) \/ SubmitReject(t) \/ SubmitReturn(t)
      PROVE  LockInv'
  BY <1>17, <1>19 DEF SubmitCall, SubmitReject, SubmitReturn
<1>20. ASSUME NEW j \in Jobs,
             Run(j) \/ RunFail(j) \/ SchedFree(j)
      PROVE  LockInv'
  BY <1>17, <1>20 DEF Run, Ready, RunFail, SchedFree, put_job
<1>21. ASSUME NEW p \in Preps, NEW b \in Bos, PrepLookup(p, b) PROVE LockInv'
  BY <1>17, <1>21 DEF PrepLookup, Get
<1>22. ASSUME NEW p \in Preps,
             \/ PrepReject(p) \/ PrepDone(p)
             \/ PrepTimeout(p) \/ PrepReturn(p)
      PROVE  LockInv'
  BY <1>17, <1>22 DEF PrepReject, PrepDone, PrepTimeout, PrepReturn, Drop
<1>23. CASE UNCHANGED vars
  BY <1>17, <1>23 DEF vars
<1> QED
  BY <1>h, <1>s, <1>1, <1>2, <1>3, <1>4, <1>5, <1>6, <1>7, <1>8, <1>9, <1>10, <1>11,
     <1>12, <1>13, <1>14, <1>15, <1>16, <1>17, <1>18, <1>19, <1>20, <1>21,
     <1>22, <1>23
     DEF Next

\* A job whose submission has let its reservations go is fenced.
LEMMA FenceInvStep ==
  ASSUME IndInv, [Next]_vars PROVE FenceInv'
<1> USE DEF callVars, boVars, jobVars, schVars
<1>0. /\ pc \in [Jobs -> PCs] /\ place \in [Jobs -> Places]
      /\ in_bos \in [Jobs -> SUBSET Bos] /\ out_bos \in [Jobs -> SUBSET Bos]
      /\ fences \in [Bos -> SUBSET Jobs]
      /\ FenceInv /\ \A j \in Jobs : JobInvAt(j)
  BY Types DEF IndInv, JobInv
<1>1. ASSUME NEW t \in Calls, NEW j \in Jobs, JobReject(t, j) PROVE FenceInv'
  BY <1>0, <1>1 DEF FenceInv, JobInvAt, JobReject, NextJob, Step
<1>2. ASSUME NEW t \in Calls, NEW j \in Jobs, NEW in \in SUBSET Bos, NEW out \in SUBSET Bos,
             JobInit(t, j, in, out)
      PROVE  FenceInv'
  BY <1>0, <1>2 DEF FenceInv, JobInit, NextJob, Step
<1>3. ASSUME NEW j \in Jobs, CopyTasks(j) PROVE FenceInv'
  BY <1>0, <1>3 DEF FenceInv, JobInvAt, CopyTasks, Step
<1>4. ASSUME NEW j \in Jobs, CopyTasksNone(j) PROVE FenceInv'
  BY <1>0, <1>4 DEF FenceInv, JobInvAt, CopyTasksNone, Step
<1>5. ASSUME NEW j \in Jobs, CopyTasksFail(j) PROVE FenceInv'
  BY <1>0, <1>5 DEF FenceInv, CopyTasksFail, Step
<1>6. ASSUME NEW j \in Jobs, Lookup(j, in_bos[j], "in", "out") PROVE FenceInv'
  BY <1>0, <1>6 DEF FenceInv, Lookup, Step, Get, Live
<1>7. ASSUME NEW j \in Jobs, Lookup(j, out_bos[j], "out", "domain")
      PROVE  FenceInv'
  BY <1>0, <1>7 DEF FenceInv, Lookup, Step, Get, Live
<1>8. ASSUME NEW j \in Jobs, NEW found \in SUBSET Bos,
             LookupFail(j, in_bos[j], found, "in")
      PROVE  FenceInv'
  BY <1>0, <1>8 DEF FenceInv, LookupFail, Step, Get, Live
<1>9. ASSUME NEW j \in Jobs, NEW found \in SUBSET Bos,
             LookupFail(j, out_bos[j], found, "out")
      PROVE  FenceInv'
  BY <1>0, <1>9 DEF FenceInv, LookupFail, Step, Get, Live
<1>10. ASSUME NEW j \in Jobs, DomainGet(j) PROVE FenceInv'
  BY <1>0, <1>10 DEF FenceInv, DomainGet, Step
<1>11. ASSUME NEW j \in Jobs, PushLock(j) PROVE FenceInv'
  BY <1>0, <1>11 DEF FenceInv, PushLock, Step
<1>12. ASSUME NEW j \in Jobs, PushLockFail(j) PROVE FenceInv'
  BY <1>0, <1>12 DEF FenceInv, PushLockFail, Step
<1>13. ASSUME NEW j \in Jobs, PushQueue(j) PROVE FenceInv'
  BY <1>0, <1>13 DEF FenceInv, PushQueue, Step
<1>14. ASSUME NEW j \in Jobs, PushFail(j) PROVE FenceInv'
  BY <1>0, <1>14 DEF FenceInv, PushFail, Step
<1>15. ASSUME NEW j \in Jobs, PushAttach(j) PROVE FenceInv'
  BY <1>0, <1>15 DEF FenceInv, PushAttach, Step
<1>16. ASSUME NEW j \in Jobs, JobPut(j) PROVE FenceInv'
  BY <1>0, <1>16 DEF FenceInv, JobInvAt, JobPut, put_job
<1>17. ASSUME NEW j \in Jobs, Run(j) PROVE FenceInv'
  <2>1. place[j] = "queued" /\ place' = [place EXCEPT ![j] = "oops"]
        /\ pc' = pc /\ out_bos' = out_bos /\ fences' = fences
    BY <1>17 DEF Run, Ready
  <2> QED
    BY <1>0, <2>1 DEF FenceInv
<1>18. ASSUME NEW j \in Jobs, RunFail(j) PROVE FenceInv'
  <2>1. place[j] = "queued" /\ place' = [place EXCEPT ![j] = "finished"]
        /\ pc' = pc /\ out_bos' = out_bos /\ fences' = fences
    BY <1>18 DEF RunFail, Ready
  <2> QED
    BY <1>0, <2>1 DEF FenceInv
<1>19. ASSUME NEW j \in Jobs, SchedFree(j) PROVE FenceInv'
  BY <1>0, <1>19 DEF FenceInv, SchedFree, put_job
<1>20. CASE UNCHANGED <<pc, out_bos, place, fences>>
  BY <1>0, <1>20 DEF FenceInv
<1>21. ASSUME NEW b \in Bos, CreateBuild(b) \/ CreateFail(b) \/ Undo(b)
      PROVE  FenceInv'
  BY <1>20, <1>21 DEF CreateBuild, CreateFail, Undo
<1>h. ASSUME NEW f \in Files, NEW b \in Bos, CreateHandle(f, b) \/ HandleDelete(f, b)
      PROVE  FenceInv'
  BY <1>20, <1>h DEF CreateHandle, HandleDelete
<1>s. ASSUME NEW f \in Files, NEW g \in Files, NEW b \in Bos, Share(f, g, b)
      PROVE  FenceInv'
  BY <1>20, <1>s DEF Share
<1>22. ASSUME NEW t \in Calls,
             SubmitCall(t) \/ SubmitReject(t) \/ SubmitReturn(t)
      PROVE  FenceInv'
  BY <1>20, <1>22 DEF SubmitCall, SubmitReject, SubmitReturn
<1>23. ASSUME NEW p \in Preps, NEW b \in Bos, PrepLookup(p, b) PROVE FenceInv'
  BY <1>20, <1>23 DEF PrepLookup, Get
<1>24. ASSUME NEW p \in Preps,
             \/ PrepReject(p) \/ PrepDone(p)
             \/ PrepTimeout(p) \/ PrepReturn(p)
      PROVE  FenceInv'
  BY <1>20, <1>24 DEF PrepReject, PrepDone, PrepTimeout, PrepReturn, Drop
<1>25. CASE UNCHANGED vars
  BY <1>20, <1>25 DEF vars
<1> QED
  BY <1>h, <1>s, <1>1, <1>2, <1>3, <1>4, <1>5, <1>6, <1>7, <1>8, <1>9, <1>10, <1>11,
     <1>12, <1>13, <1>14, <1>15, <1>16, <1>17, <1>18, <1>19, <1>20, <1>21,
     <1>22, <1>23, <1>24, <1>25
     DEF Next

\* Appending j to the order puts it after the jobs that are there.
LEMMA PrecedesAppend ==
  ASSUME IndInv, NEW j \in Jobs, order' = Append(order, j),
         NEW i \in Jobs, NEW k \in Jobs, Precedes(i, k)'
  PROVE  place[i] # "none" /\ ((Precedes(i, k) /\ place[k] # "none") \/ k = j)
<1>0. /\ order \in Seq(Jobs) /\ Len(order) \in Nat
      /\ \A m \in 1 .. Len(order) : place[order[m]] # "none"
  BY Types DEF IndInv, OrderInv
<1>1. /\ order' \in Seq(Jobs) /\ Len(order') = Len(order) + 1 /\ order'[Len(order) + 1] = j
      /\ \A m \in 1 .. Len(order) : order'[m] = order[m]
  BY <1>0
<1>2. PICK m, n \in 1 .. Len(order') : m < n /\ order'[m] = i /\ order'[n] = k
  BY <1>1 DEF Precedes
<1>3. m \in 1 .. Len(order) /\ order[m] = i
  BY <1>0, <1>1, <1>2
<1>4. CASE n = Len(order) + 1
  BY <1>0, <1>1, <1>2, <1>3, <1>4
<1>5. CASE n # Len(order) + 1
  <2>1. n \in 1 .. Len(order) /\ order[n] = k
    BY <1>0, <1>1, <1>2, <1>5
  <2>2. DOMAIN order = 1 .. Len(order)
    BY <1>0
  <2>3. Precedes(i, k)
    BY <1>2, <1>3, <2>1, <2>2 DEF Precedes
  <2> QED
    BY <1>0, <1>3, <2>1, <2>3
<1> QED
  BY <1>4, <1>5

\* Jobs that precede one another have been pushed.
LEMMA PrecedesPushed ==
  ASSUME IndInv, NEW i \in Jobs, NEW k \in Jobs, Precedes(i, k)
  PROVE  place[i] # "none" /\ place[k] # "none"
<1>1. order \in Seq(Jobs) /\ DOMAIN order = 1 .. Len(order)
  BY Types
<1> QED
  BY <1>1 DEF Precedes, IndInv, OrderInv

\* A job's dependencies are the unfinished writers before it.
LEMMA DepsInvStep ==
  ASSUME IndInv, [Next]_vars PROVE DepsInv'
<1> USE DEF callVars, boVars, jobVars, schVars
<1> USE DEF Uses, Started, Unfinished
<1>0. /\ pc \in [Jobs -> PCs] /\ place \in [Jobs -> Places]
      /\ in_bos \in [Jobs -> SUBSET Bos] /\ out_bos \in [Jobs -> SUBSET Bos]
      /\ deps \in [Jobs -> SUBSET Jobs] /\ DepsInv /\ \A j \in Jobs : JobInvAt(j)
  BY Types DEF IndInv, JobInv
<1>00. \A i, k \in Jobs : Precedes(i, k) => place[i] # "none" /\ place[k] # "none"
  BY PrecedesPushed
<1>1. ASSUME NEW t \in Calls, NEW j \in Jobs, NEW in \in SUBSET Bos, NEW out \in SUBSET Bos,
             JobInit(t, j, in, out)
      PROVE  DepsInv'
  <2>1. /\ place[j] = "none" /\ place' = place /\ deps' = deps /\ order' = order
        /\ in_bos' = [in_bos EXCEPT ![j] = in] /\ out_bos' = [out_bos EXCEPT ![j] = out]
    BY <1>0, <1>1 DEF JobInit, NextJob, Step, JobInvAt
  <2>2. \A i, k \in Jobs : Precedes(i, k)' <=> Precedes(i, k)
    BY <2>1 DEF Precedes
  <2>3. \A i, k \in Jobs : Precedes(i, k) =>
            out_bos'[i] = out_bos[i] /\ in_bos'[k] = in_bos[k] /\ out_bos'[k] = out_bos[k]
    BY <1>0, <1>00, <2>1
  <2>4. \A i, k \in Jobs : Precedes(i, k)' /\ out_bos'[i] \cap Uses(k)' # {}
            => i \in deps'[k] \/ ~Unfinished(i)'
    BY <1>0, <2>1, <2>2, <2>3 DEF DepsInv
  <2> QED
    BY <1>0, <2>1, <2>2, <2>4 DEF DepsInv
<1>2. ASSUME NEW j \in Jobs, PushQueue(j) PROVE DepsInv'
  <2>1. /\ place[j] = "none" /\ place' = [place EXCEPT ![j] = "queued"] /\ pc[j] = "locked"
        /\ deps' = [deps EXCEPT ![j] = {k \in acquire_object_fences(j) : Unfinished(k)}]
        /\ order' = Append(order, j) /\ in_bos' = in_bos /\ out_bos' = out_bos
    BY <1>0, <1>2 DEF PushQueue, Step, JobInvAt
  <2>2. \A k \in Jobs : \A i \in deps'[k] : place'[i] # "none"
    BY <1>0, <2>1 DEF DepsInv
  <2>3. ASSUME NEW k \in Jobs, NEW i \in Jobs, Started(k)', i \in deps'[k], Precedes(i, k)'
        PROVE  ~Unfinished(i)'
    <3>1. k # j /\ Started(k) /\ i \in deps[k]
      BY <1>0, <2>1, <2>3
    <3>2. place[i] # "none" /\ Precedes(i, k)
      BY <2>1, <2>3, <3>1, PrecedesAppend
    <3>3. i # j /\ ~Unfinished(i)
      BY <1>0, <2>1, <3>1, <3>2 DEF DepsInv
    <3> QED
      BY <1>0, <2>1, <3>3
  <2>4. ASSUME NEW i \in Jobs, NEW k \in Jobs, Precedes(i, k)',
               out_bos[i] \cap Uses(k) # {}, Unfinished(i)'
        PROVE  i \in deps'[k]
    <3>1. place[i] # "none" /\ ((Precedes(i, k) /\ place[k] # "none") \/ k = j)
      BY <2>1, <2>4, PrecedesAppend
    <3>2. i # j /\ Unfinished(i)
      BY <1>0, <2>1, <2>4, <3>1
    <3>3. CASE k # j
      BY <1>0, <2>1, <2>4, <3>1, <3>2, <3>3 DEF DepsInv
    <3>4. CASE k = j
      <4>1. pc[i] \in {"attach", "put", "done"}
        BY <1>0, <3>2 DEF JobInvAt, PCs
      <4>2. pc[i] # "attach"
        BY <1>0, <2>1, <2>4, <3>2, <3>4 DEF IndInv, LockInv
      <4>3. \A b \in out_bos[i] : i \in fences[b]
        BY <4>1, <4>2, <3>2 DEF IndInv, FenceInv
      <4>4. i \in acquire_object_fences(j)
        BY <2>4, <3>4, <4>3 DEF acquire_object_fences
      <4> QED
        BY <1>0, <2>1, <3>2, <3>4, <4>4
    <3> QED
      BY <3>3, <3>4
  <2> QED
    BY <2>1, <2>2, <2>3, <2>4 DEF DepsInv
<1>3. ASSUME NEW j \in Jobs, Run(j) PROVE DepsInv'
  <2>1. /\ place[j] = "queued" /\ place' = [place EXCEPT ![j] = "oops"]
        /\ deps' = deps /\ order' = order /\ in_bos' = in_bos /\ out_bos' = out_bos
    BY <1>3 DEF Run, Ready
  <2>2. \A k \in Jobs : k \in deps[j] /\ Precedes(k, j) => ~Unfinished(k)
    BY <1>3 DEF Run, Ready
  <2>3. \A i, k \in Jobs : Precedes(i, k)' <=> Precedes(i, k)
    BY <2>1 DEF Precedes
  <2>4. \A i, k \in Jobs : Started(i)' /\ k \in deps'[i] /\ Precedes(k, i)' => ~Unfinished(k)'
    BY <1>0, <2>1, <2>2, <2>3 DEF DepsInv
  <2> QED
    BY <1>0, <2>1, <2>3, <2>4 DEF DepsInv
<1>4. ASSUME NEW j \in Jobs, RunFail(j) PROVE DepsInv'
  <2>1. /\ place[j] = "queued" /\ place' = [place EXCEPT ![j] = "finished"]
        /\ deps' = deps /\ order' = order /\ in_bos' = in_bos /\ out_bos' = out_bos
    BY <1>4 DEF RunFail, Ready
  <2>2. \A k \in Jobs : k \in deps[j] /\ Precedes(k, j) => ~Unfinished(k)
    BY <1>4 DEF RunFail, Ready
  <2>3. \A i, k \in Jobs : Precedes(i, k)' <=> Precedes(i, k)
    BY <2>1 DEF Precedes
  <2>4. \A i, k \in Jobs : Started(i)' /\ k \in deps'[i] /\ Precedes(k, i)' => ~Unfinished(k)'
    BY <1>0, <2>1, <2>2, <2>3 DEF DepsInv
  <2> QED
    BY <1>0, <2>1, <2>3, <2>4 DEF DepsInv
<1>5. ASSUME NEW j \in Jobs, SchedFree(j) PROVE DepsInv'
  <2>1. /\ place[j] = "finished" /\ place' = [place EXCEPT ![j] = "freed"]
        /\ deps' = deps /\ order' = order /\ in_bos' = in_bos /\ out_bos' = out_bos
    BY <1>5 DEF SchedFree
  <2> QED
    BY <1>0, <2>1 DEF DepsInv, Precedes
<1>6. CASE UNCHANGED <<in_bos, out_bos, place, deps, order>>
  BY <1>0, <1>6 DEF DepsInv, Precedes
<1>7. ASSUME NEW b \in Bos, CreateBuild(b) \/ CreateFail(b) \/ Undo(b)
      PROVE  DepsInv'
  BY <1>6, <1>7 DEF CreateBuild, CreateFail, Undo
<1>h. ASSUME NEW f \in Files, NEW b \in Bos, CreateHandle(f, b) \/ HandleDelete(f, b)
      PROVE  DepsInv'
  BY <1>6, <1>h DEF CreateHandle, HandleDelete
<1>s. ASSUME NEW f \in Files, NEW g \in Files, NEW b \in Bos, Share(f, g, b)
      PROVE  DepsInv'
  BY <1>6, <1>s DEF Share
<1>8. ASSUME NEW t \in Calls,
             SubmitCall(t) \/ SubmitReject(t) \/ SubmitReturn(t)
      PROVE  DepsInv'
  BY <1>6, <1>8 DEF SubmitCall, SubmitReject, SubmitReturn
<1>9. ASSUME NEW t \in Calls, NEW j \in Jobs, JobReject(t, j) PROVE DepsInv'
  BY <1>6, <1>9 DEF JobReject, NextJob, Step
<1>10. ASSUME NEW j \in Jobs,
             \/ CopyTasks(j) \/ CopyTasksNone(j) \/ CopyTasksFail(j)
             \/ Lookup(j, in_bos[j], "in", "out") \/ Lookup(j, out_bos[j], "out", "domain") \/ DomainGet(j)
      PROVE  DepsInv'
  BY <1>6, <1>10 DEF CopyTasks, Step, CopyTasksNone, CopyTasksFail, Lookup,
     Get, Live, DomainGet
<1>11. ASSUME NEW j \in Jobs,
             \/ PushLock(j) \/ PushLockFail(j) \/ PushFail(j)
             \/ PushAttach(j) \/ JobPut(j)
      PROVE  DepsInv'
  BY <1>6, <1>11 DEF PushLock, Step, PushLockFail, PushFail, PushAttach,
     JobPut, put_job
<1>12. ASSUME NEW j \in Jobs, NEW found \in SUBSET Bos,
             \/ LookupFail(j, in_bos[j], found, "in")
             \/ LookupFail(j, out_bos[j], found, "out")
      PROVE  DepsInv'
  BY <1>6, <1>12 DEF LookupFail, Step, Get, Live
<1>13. ASSUME NEW p \in Preps, NEW b \in Bos, PrepLookup(p, b) PROVE DepsInv'
  BY <1>6, <1>13 DEF PrepLookup, Get
<1>14. ASSUME NEW p \in Preps,
             \/ PrepReject(p) \/ PrepDone(p)
             \/ PrepTimeout(p) \/ PrepReturn(p)
      PROVE  DepsInv'
  BY <1>6, <1>14 DEF PrepReject, PrepDone, PrepTimeout, PrepReturn, Drop
<1>15. CASE UNCHANGED vars
  BY <1>6, <1>15 DEF vars
<1> QED
  BY <1>h, <1>s, <1>1, <1>2, <1>3, <1>4, <1>5, <1>6, <1>7, <1>8, <1>9, <1>10, <1>11,
     <1>12, <1>13, <1>14, <1>15
     DEF Next

\* What a prep call has found written stays so.
LEMMA PrepInvStep ==
  ASSUME IndInv, [Next]_vars PROVE PrepInv'
<1> USE DEF callVars, boVars, jobVars, schVars
<1> USE DEF Unfinished
<1>0. /\ pc \in [Jobs -> PCs] /\ place \in [Jobs -> Places]
      /\ in_bos \in [Jobs -> SUBSET Bos] /\ out_bos \in [Jobs -> SUBSET Bos]
      /\ prep \in [Preps -> PrepRecords] /\ PrepInv /\ \A j \in Jobs : JobInvAt(j)
      /\ \A p \in Preps : prep[p].before \subseteq Jobs
  BY Types DEF IndInv, JobInv, PrepRecords
<1>1. ASSUME NEW t \in Calls, NEW j \in Jobs, JobReject(t, j) PROVE PrepInv'
  BY <1>0, <1>1 DEF PrepInv, JobReject, NextJob, Step
<1>2. ASSUME NEW t \in Calls, NEW j \in Jobs, NEW in \in SUBSET Bos, NEW out \in SUBSET Bos,
             JobInit(t, j, in, out)
      PROVE  PrepInv'
  BY <1>0, <1>2 DEF PrepInv, JobInit, NextJob, Step
<1>3. ASSUME NEW j \in Jobs, CopyTasks(j) PROVE PrepInv'
  BY <1>0, <1>3 DEF PrepInv, CopyTasks, Step
<1>4. ASSUME NEW j \in Jobs, CopyTasksNone(j) PROVE PrepInv'
  BY <1>0, <1>4 DEF PrepInv, CopyTasksNone, Step
<1>5. ASSUME NEW j \in Jobs, CopyTasksFail(j) PROVE PrepInv'
  BY <1>0, <1>5 DEF PrepInv, CopyTasksFail, Step
<1>6. ASSUME NEW j \in Jobs, Lookup(j, in_bos[j], "in", "out") PROVE PrepInv'
  BY <1>0, <1>6 DEF PrepInv, Lookup, Step, Get, Live
<1>7. ASSUME NEW j \in Jobs, Lookup(j, out_bos[j], "out", "domain")
      PROVE  PrepInv'
  BY <1>0, <1>7 DEF PrepInv, Lookup, Step, Get, Live
<1>8. ASSUME NEW j \in Jobs, NEW found \in SUBSET Bos,
             LookupFail(j, in_bos[j], found, "in")
      PROVE  PrepInv'
  BY <1>0, <1>8 DEF PrepInv, LookupFail, Step, Get, Live
<1>9. ASSUME NEW j \in Jobs, NEW found \in SUBSET Bos,
             LookupFail(j, out_bos[j], found, "out")
      PROVE  PrepInv'
  BY <1>0, <1>9 DEF PrepInv, LookupFail, Step, Get, Live
<1>10. ASSUME NEW j \in Jobs, DomainGet(j) PROVE PrepInv'
  BY <1>0, <1>10 DEF PrepInv, DomainGet, Step
<1>11. ASSUME NEW j \in Jobs, PushLock(j) PROVE PrepInv'
  BY <1>0, <1>11 DEF PrepInv, PushLock, Step
<1>12. ASSUME NEW j \in Jobs, PushLockFail(j) PROVE PrepInv'
  BY <1>0, <1>12 DEF PrepInv, PushLockFail, Step
<1>13. ASSUME NEW j \in Jobs, PushQueue(j) PROVE PrepInv'
  BY <1>0, <1>13 DEF PrepInv, JobInvAt, PushQueue, Step
<1>14. ASSUME NEW j \in Jobs, PushFail(j) PROVE PrepInv'
  BY <1>0, <1>14 DEF PrepInv, PushFail, Step
<1>15. ASSUME NEW j \in Jobs, PushAttach(j) PROVE PrepInv'
  BY <1>0, <1>15 DEF PrepInv, PushAttach, Step
<1>16. ASSUME NEW j \in Jobs, JobPut(j) PROVE PrepInv'
  BY <1>0, <1>16 DEF PrepInv, JobPut, put_job
<1>17. ASSUME NEW j \in Jobs, Run(j) PROVE PrepInv'
  <2>1. place[j] = "queued" /\ place' = [place EXCEPT ![j] = "oops"]
        /\ pc' = pc /\ out_bos' = out_bos /\ prep' = prep
    BY <1>17 DEF Run, Ready
  <2> QED
    BY <1>0, <2>1 DEF PrepInv
<1>18. ASSUME NEW j \in Jobs, RunFail(j) PROVE PrepInv'
  <2>1. place[j] = "queued" /\ place' = [place EXCEPT ![j] = "finished"]
        /\ pc' = pc /\ out_bos' = out_bos /\ prep' = prep
    BY <1>18 DEF RunFail, Ready
  <2> QED
    BY <1>0, <2>1 DEF PrepInv
<1>19. ASSUME NEW j \in Jobs, SchedFree(j) PROVE PrepInv'
  BY <1>0, <1>19 DEF PrepInv, SchedFree, put_job
<1>20. ASSUME NEW p \in Preps, NEW b \in Bos, PrepLookup(p, b) PROVE PrepInv'
  BY <1>0, <1>20 DEF PrepInv, Submitted, PrepLookup, Get
<1>21. ASSUME NEW p \in Preps, PrepReject(p) PROVE PrepInv'
  BY <1>0, <1>21 DEF PrepInv, PrepRecords, PrepReject
<1>22. ASSUME NEW p \in Preps, PrepDone(p) PROVE PrepInv'
  <2>1. /\ \A b \in prep[p].bo : \A j \in fences[b] : ~Unfinished(j)
        /\ \A q \in Preps : /\ prep'[q].bo = prep[q].bo /\ prep'[q].before = prep[q].before
                            /\ (q # p => prep'[q].at = prep[q].at)
        /\ pc' = pc /\ place' = place /\ out_bos' = out_bos
    BY <1>0, <1>22 DEF PrepDone, PrepRecords
  <2>2. \A j \in prep[p].before : out_bos[j] \cap prep[p].bo # {} => ~Unfinished(j)
    <3> SUFFICES ASSUME NEW j \in prep[p].before, NEW b \in out_bos[j], b \in prep[p].bo
                 PROVE  ~Unfinished(j)
      OBVIOUS
    <3>1. j \in Jobs /\ pc[j] \in {"put", "done"} /\ place[j] # "none"
      BY <1>0 DEF PrepInv
    <3>2. j \in fences[b]
      BY <3>1 DEF IndInv, FenceInv
    <3> QED
      BY <2>1, <3>2
  <2> QED
    BY <1>0, <2>1, <2>2 DEF PrepInv
<1>23. ASSUME NEW p \in Preps, PrepTimeout(p) PROVE PrepInv'
  BY <1>0, <1>23 DEF PrepInv, PrepRecords, PrepTimeout
<1>24. ASSUME NEW p \in Preps, PrepReturn(p) PROVE PrepInv'
  BY <1>0, <1>24 DEF PrepInv, PrepRecords, PrepReturn, Drop
<1>25. CASE UNCHANGED <<prep, pc, place, out_bos>>
  BY <1>0, <1>25 DEF PrepInv
<1>26. ASSUME NEW b \in Bos, CreateBuild(b) \/ CreateFail(b) \/ Undo(b)
      PROVE  PrepInv'
  BY <1>25, <1>26 DEF CreateBuild, CreateFail, Undo
<1>h. ASSUME NEW f \in Files, NEW b \in Bos, CreateHandle(f, b) \/ HandleDelete(f, b)
      PROVE  PrepInv'
  BY <1>25, <1>h DEF CreateHandle, HandleDelete
<1>s. ASSUME NEW f \in Files, NEW g \in Files, NEW b \in Bos, Share(f, g, b)
      PROVE  PrepInv'
  BY <1>25, <1>s DEF Share
<1>27. ASSUME NEW t \in Calls,
             SubmitCall(t) \/ SubmitReject(t) \/ SubmitReturn(t)
      PROVE  PrepInv'
  BY <1>25, <1>27 DEF SubmitCall, SubmitReject, SubmitReturn
<1>28. CASE UNCHANGED vars
  BY <1>25, <1>28 DEF vars
<1> QED
  BY <1>h, <1>s, <1>1, <1>2, <1>3, <1>4, <1>5, <1>6, <1>7, <1>8, <1>9, <1>10, <1>11,
     <1>12, <1>13, <1>14, <1>15, <1>16, <1>17, <1>18, <1>19, <1>20, <1>21,
     <1>22, <1>23, <1>24, <1>25, <1>26, <1>27, <1>28
     DEF Next

-----------------------------------------------------------------------------
(* The invariant, and what follows from it.                                 *)

\* The types of the buffers, the calls and the prep calls.
BoTypes ==
    /\ built \in [Bos -> 0 .. Len(Stages)]
    /\ made \in [Bos -> {"none", "building", "made", "failed"}]
    /\ handle \in SUBSET (Files \X Bos)
    /\ fences \in [Bos -> SUBSET Jobs]
    /\ file \in [Calls -> Files]
    /\ call \in [Calls -> {"idle", "jobs", "ok", "error"}]
    /\ jobs \in [Calls -> SUBSET Jobs]
    /\ prep \in [Preps -> PrepRecords]

\* The types of the jobs and of the scheduler.
JobTypes ==
    /\ pc \in [Jobs -> PCs]
    /\ in_bos \in [Jobs -> SUBSET Bos] /\ out_bos \in [Jobs -> SUBSET Bos]
    /\ held \in [Jobs -> SUBSET (Arrays \X Bos)]
    /\ tasks \in [Jobs -> {"NULL", "allocated", "freed"}]
    /\ frees \in [Jobs -> Nat]
    /\ place \in [Jobs -> Places]
    /\ deps \in [Jobs -> SUBSET Jobs]
    /\ order \in Seq(Jobs)

\* They are kept.
LEMMA BoTypesStep ==
  ASSUME IndInv, [Next]_vars PROVE BoTypes'
<1> USE DEF callVars, boVars, jobVars, schVars
<1>0. BoTypes /\ JobTypes /\ Len(Stages) = 4
  BY DEF IndInv, TypeInv, TypeOK, BoTypes, JobTypes, PCs, Places, Stages
<1>1. ASSUME NEW b \in Bos, CreateBuild(b) PROVE BoTypes'
  BY <1>0, <1>1 DEF BoTypes, CreateBuild
<1>2. ASSUME NEW b \in Bos, CreateFail(b) PROVE BoTypes'
  BY <1>0, <1>2 DEF BoTypes, CreateFail
<1>3. ASSUME NEW f \in Files, NEW b \in Bos, CreateHandle(f, b) PROVE BoTypes'
  BY <1>0, <1>3 DEF BoTypes, CreateHandle
<1>4. ASSUME NEW f \in Files, NEW b \in Bos, HandleDelete(f, b) PROVE BoTypes'
  BY <1>0, <1>4 DEF BoTypes, HandleDelete
<1>s. ASSUME NEW f \in Files, NEW g \in Files, NEW b \in Bos, Share(f, g, b) PROVE BoTypes'
  BY <1>0, <1>s DEF BoTypes, Share
<1>5. ASSUME NEW b \in Bos, Undo(b) PROVE BoTypes'
  BY <1>0, <1>5 DEF BoTypes, Undo
<1>6. ASSUME NEW t \in Calls, SubmitCall(t) PROVE BoTypes'
  BY <1>0, <1>6 DEF BoTypes, SubmitCall
<1>7. ASSUME NEW t \in Calls, SubmitReject(t) PROVE BoTypes'
  BY <1>0, <1>7 DEF BoTypes, SubmitReject
<1>8. ASSUME NEW t \in Calls, SubmitReturn(t) PROVE BoTypes'
  BY <1>0, <1>8 DEF BoTypes, SubmitReturn
<1>9. ASSUME NEW t \in Calls, NEW j \in Jobs, JobReject(t, j) PROVE BoTypes'
  BY <1>0, <1>9 DEF BoTypes, JobReject, NextJob, Step
<1>10. ASSUME NEW t \in Calls, NEW j \in Jobs, NEW in \in SUBSET Bos, NEW out \in SUBSET Bos,
             JobInit(t, j, in, out)
      PROVE  BoTypes'
  BY <1>0, <1>10 DEF BoTypes, JobInit, NextJob, Step
<1>11. ASSUME NEW j \in Jobs, PushAttach(j) PROVE BoTypes'
  BY <1>0, <1>11 DEF BoTypes, PushAttach, Step
<1>12. ASSUME NEW p \in Preps, NEW b \in Bos, PrepLookup(p, b) PROVE BoTypes'
  <2>1. [at |-> "wait", bo |-> {b}, before |-> Submitted] \in PrepRecords
    BY DEF PrepRecords, Submitted
  <2>2. prep' \in [Preps -> PrepRecords]
    BY <1>0, <1>12, <2>1 DEF BoTypes, PrepLookup
  <2> QED
    BY <1>0, <1>12, <2>2 DEF BoTypes, PrepLookup
<1>a. ASSUME NEW p \in Preps, NEW x \in {"ready", "late", "ok", "error"},
             prep' = [prep EXCEPT ![p].at = x]
      PROVE  prep' \in [Preps -> PrepRecords]
  <2>1. [prep[p] EXCEPT !.at = x] \in PrepRecords
    BY <1>0 DEF BoTypes, PrepRecords
  <2> QED
    BY <1>0, <1>a, <2>1 DEF BoTypes
<1>13. ASSUME NEW p \in Preps, PrepReject(p) PROVE BoTypes'
  <2>1. prep' \in [Preps -> PrepRecords]
    BY <1>a, <1>13 DEF PrepReject
  <2> QED
    BY <1>0, <1>13, <2>1 DEF BoTypes, PrepReject
<1>14. ASSUME NEW p \in Preps, PrepDone(p) PROVE BoTypes'
  <2>1. prep' \in [Preps -> PrepRecords]
    BY <1>a, <1>14 DEF PrepDone
  <2> QED
    BY <1>0, <1>14, <2>1 DEF BoTypes, PrepDone
<1>15. ASSUME NEW p \in Preps, PrepTimeout(p) PROVE BoTypes'
  <2>1. prep' \in [Preps -> PrepRecords]
    BY <1>a, <1>15 DEF PrepTimeout
  <2> QED
    BY <1>0, <1>15, <2>1 DEF BoTypes, PrepTimeout
<1>16. ASSUME NEW p \in Preps, PrepReturn(p) PROVE BoTypes'
  <2>1. prep' \in [Preps -> PrepRecords]
    BY <1>a, <1>16 DEF PrepReturn
  <2> QED
    BY <1>0, <1>16, <2>1 DEF BoTypes, PrepReturn
<1>17. CASE UNCHANGED <<built, made, handle, fences, file, call, jobs, prep>>
  BY <1>0, <1>17 DEF BoTypes
<1>18. ASSUME NEW j \in Jobs,
             \/ CopyTasks(j) \/ CopyTasksNone(j) \/ CopyTasksFail(j)
             \/ Lookup(j, in_bos[j], "in", "out") \/ Lookup(j, out_bos[j], "out", "domain") \/ DomainGet(j)
      PROVE  BoTypes'
  BY <1>17, <1>18 DEF CopyTasks, Step, CopyTasksNone, CopyTasksFail, Lookup,
     Get, Live, DomainGet
<1>19. ASSUME NEW j \in Jobs,
             \/ PushLock(j) \/ PushLockFail(j) \/ PushQueue(j)
             \/ PushFail(j) \/ JobPut(j) \/ Run(j)
      PROVE  BoTypes'
  BY <1>17, <1>19 DEF PushLock, Step, PushLockFail, PushQueue, PushFail,
     JobPut, put_job, Run, Ready
<1>20. ASSUME NEW j \in Jobs, RunFail(j) \/ SchedFree(j) PROVE BoTypes'
  BY <1>17, <1>20 DEF RunFail, Ready, SchedFree, put_job
<1>21. ASSUME NEW j \in Jobs, NEW found \in SUBSET Bos,
             \/ LookupFail(j, in_bos[j], found, "in")
             \/ LookupFail(j, out_bos[j], found, "out")
      PROVE  BoTypes'
  BY <1>17, <1>21 DEF LookupFail, Step, Get, Live
<1>22. CASE UNCHANGED vars
  BY <1>17, <1>22 DEF vars
<1> QED
  BY <1>s, <1>1, <1>2, <1>3, <1>4, <1>5, <1>6, <1>7, <1>8, <1>9, <1>10, <1>11,
     <1>12, <1>13, <1>14, <1>15, <1>16, <1>17, <1>18, <1>19, <1>20, <1>21,
     <1>22
     DEF Next

\* What a job gives up with its last reference keeps its types.
LEMMA PutTypes ==
  ASSUME JobTypes, NEW j \in Jobs, put_job(j)
  PROVE  /\ held' \in [Jobs -> SUBSET (Arrays \X Bos)]
         /\ tasks' \in [Jobs -> {"NULL", "allocated", "freed"}]
         /\ frees' \in [Jobs -> Nat]
<1>1. CASE ref[j] > 1
  BY <1>1 DEF JobTypes, put_job
<1>2. CASE ~(ref[j] > 1)
  <2>1. /\ held' = [held EXCEPT ![j] = {}] /\ tasks' = [tasks EXCEPT ![j] = "NULL"]
        /\ frees' = [frees EXCEPT ![j] = IF tasks[j] = "NULL" THEN @ ELSE @ + 1]
    BY <1>2 DEF put_job
  <2>2. held' \in [Jobs -> SUBSET (Arrays \X Bos)]
    BY <2>1 DEF JobTypes
  <2> QED
    BY <2>1, <2>2 DEF JobTypes
<1> QED
  BY <1>1, <1>2

\* They are kept.
LEMMA JobTypesStep ==
  ASSUME IndInv, [Next]_vars PROVE JobTypes'
<1> USE DEF callVars, boVars, jobVars, schVars
<1>0. JobTypes /\ fences \in [Bos -> SUBSET Jobs]
  BY DEF IndInv, TypeInv, TypeOK, JobTypes, PCs, Places
<1>1. ASSUME NEW t \in Calls, NEW j \in Jobs, JobReject(t, j) PROVE JobTypes'
  BY <1>0, <1>1 DEF JobTypes, PCs, Places, Arrays, JobReject, NextJob, Step
<1>2. ASSUME NEW t \in Calls, NEW j \in Jobs, NEW in \in SUBSET Bos, NEW out \in SUBSET Bos,
             JobInit(t, j, in, out)
      PROVE  JobTypes'
  BY <1>0, <1>2 DEF JobTypes, PCs, Places, Arrays, JobInit, NextJob, Step
<1>3. ASSUME NEW j \in Jobs, CopyTasks(j) PROVE JobTypes'
  BY <1>0, <1>3 DEF JobTypes, PCs, Places, Arrays, CopyTasks, Step
<1>4. ASSUME NEW j \in Jobs, CopyTasksNone(j) PROVE JobTypes'
  BY <1>0, <1>4 DEF JobTypes, PCs, Places, Arrays, CopyTasksNone, Step
<1>5. ASSUME NEW j \in Jobs, CopyTasksFail(j) PROVE JobTypes'
  BY <1>0, <1>5 DEF JobTypes, PCs, Places, Arrays, CopyTasksFail, Step
<1>6. ASSUME NEW j \in Jobs, Lookup(j, in_bos[j], "in", "out") PROVE JobTypes'
  BY <1>0, <1>6 DEF JobTypes, PCs, Arrays, Lookup, Step, Get, Live
<1>7. ASSUME NEW j \in Jobs, Lookup(j, out_bos[j], "out", "domain")
      PROVE  JobTypes'
  BY <1>0, <1>7 DEF JobTypes, PCs, Arrays, Lookup, Step, Get, Live
<1>8. ASSUME NEW j \in Jobs, NEW found \in SUBSET Bos,
             LookupFail(j, in_bos[j], found, "in")
      PROVE  JobTypes'
  BY <1>0, <1>8 DEF JobTypes, PCs, Places, Arrays, LookupFail, Step, Get, Live
<1>9. ASSUME NEW j \in Jobs, NEW found \in SUBSET Bos,
             LookupFail(j, out_bos[j], found, "out")
      PROVE  JobTypes'
  BY <1>0, <1>9 DEF JobTypes, PCs, Places, Arrays, LookupFail, Step, Get, Live
<1>10. ASSUME NEW j \in Jobs, DomainGet(j) PROVE JobTypes'
  BY <1>0, <1>10 DEF JobTypes, PCs, Places, Arrays, DomainGet, Step
<1>11. ASSUME NEW j \in Jobs, PushLock(j) PROVE JobTypes'
  BY <1>0, <1>11 DEF JobTypes, PCs, Places, Arrays, PushLock, Step
<1>12. ASSUME NEW j \in Jobs, PushLockFail(j) PROVE JobTypes'
  BY <1>0, <1>12 DEF JobTypes, PCs, Places, Arrays, PushLockFail, Step
<1>13. ASSUME NEW j \in Jobs, PushQueue(j) PROVE JobTypes'
  <2>1. acquire_object_fences(j) \subseteq Jobs
    BY <1>0 DEF acquire_object_fences, JobTypes
  <2> QED
    BY <1>0, <1>13, <2>1 DEF JobTypes, PCs, Places, PushQueue, Step
<1>14. ASSUME NEW j \in Jobs, PushFail(j) PROVE JobTypes'
  BY <1>0, <1>14 DEF JobTypes, PCs, Places, Arrays, PushFail, Step
<1>15. ASSUME NEW j \in Jobs, PushAttach(j) PROVE JobTypes'
  BY <1>0, <1>15 DEF JobTypes, PCs, Places, Arrays, PushAttach, Step
<1>16. ASSUME NEW j \in Jobs, JobPut(j) PROVE JobTypes'
  <2>1. put_job(j) /\ pc' = [pc EXCEPT ![j] = "done"]
        /\ UNCHANGED <<in_bos, out_bos, place, deps, order>>
    BY <1>16 DEF JobPut
  <2> QED
    BY <1>0, <2>1, PutTypes DEF JobTypes, PCs
<1>17. ASSUME NEW j \in Jobs, Run(j) PROVE JobTypes'
  BY <1>0, <1>17 DEF JobTypes, Places, Run
<1>18. ASSUME NEW j \in Jobs, RunFail(j) PROVE JobTypes'
  BY <1>0, <1>18 DEF JobTypes, Places, RunFail
<1>19. ASSUME NEW j \in Jobs, SchedFree(j) PROVE JobTypes'
  <2>1. put_job(j) /\ place' = [place EXCEPT ![j] = "freed"]
        /\ UNCHANGED <<pc, in_bos, out_bos, deps, order>>
    BY <1>19 DEF SchedFree
  <2> QED
    BY <1>0, <2>1, PutTypes DEF JobTypes, Places
<1>20. CASE UNCHANGED <<pc, in_bos, out_bos, held, tasks, frees, place, deps, order>>
  BY <1>0, <1>20 DEF JobTypes, PCs, Places, Arrays
<1>21. ASSUME NEW b \in Bos, CreateBuild(b) \/ CreateFail(b) \/ Undo(b)
      PROVE  JobTypes'
  BY <1>20, <1>21 DEF CreateBuild, CreateFail, Undo
<1>h. ASSUME NEW f \in Files, NEW b \in Bos, CreateHandle(f, b) \/ HandleDelete(f, b)
      PROVE  JobTypes'
  BY <1>20, <1>h DEF CreateHandle, HandleDelete
<1>s. ASSUME NEW f \in Files, NEW g \in Files, NEW b \in Bos, Share(f, g, b)
      PROVE  JobTypes'
  BY <1>20, <1>s DEF Share
<1>22. ASSUME NEW t \in Calls,
             SubmitCall(t) \/ SubmitReject(t) \/ SubmitReturn(t)
      PROVE  JobTypes'
  BY <1>20, <1>22 DEF SubmitCall, SubmitReject, SubmitReturn
<1>23. ASSUME NEW p \in Preps, NEW b \in Bos, PrepLookup(p, b) PROVE JobTypes'
  BY <1>20, <1>23 DEF PrepLookup, Get
<1>24. ASSUME NEW p \in Preps,
             \/ PrepReject(p) \/ PrepDone(p)
             \/ PrepTimeout(p) \/ PrepReturn(p)
      PROVE  JobTypes'
  BY <1>20, <1>24 DEF PrepReject, PrepDone, PrepTimeout, PrepReturn, Drop
<1>25. CASE UNCHANGED vars
  BY <1>20, <1>25 DEF vars
<1> QED
  BY <1>h, <1>s, <1>1, <1>2, <1>3, <1>4, <1>5, <1>6, <1>7, <1>8, <1>9, <1>10, <1>11,
     <1>12, <1>13, <1>14, <1>15, <1>16, <1>17, <1>18, <1>19, <1>20, <1>21,
     <1>22, <1>23, <1>24, <1>25
     DEF Next

\* The counts stay functions.
LEMMA CountTypesStep ==
  ASSUME IndInv, [Next]_vars
  PROVE  /\ gemref' = [b \in Bos |-> gemref'[b]] /\ ref' = [j \in Jobs |-> ref'[j]]
         /\ kept' \in [Bos -> Nat]
<1> USE DEF callVars, boVars, jobVars, schVars
<1>0. /\ gemref = [b \in Bos |-> gemref[b]] /\ ref = [j \in Jobs |-> ref[j]]
      /\ kept \in [Bos -> Nat]
  BY Types
<1> DEFINE Fns == /\ gemref' = [b \in Bos |-> gemref'[b]] /\ ref' = [j \in Jobs |-> ref'[j]]
                  /\ kept' \in [Bos -> Nat]
<1> SUFFICES Fns
  OBVIOUS
<1>1. ASSUME NEW b \in Bos, CreateBuild(b) PROVE Fns
  BY <1>0, <1>1 DEF CreateBuild
<1>2. ASSUME NEW b \in Bos, CreateFail(b) PROVE Fns
  BY <1>0, <1>2 DEF CreateFail
<1>3. ASSUME NEW f \in Files, NEW b \in Bos, HandleDelete(f, b) PROVE Fns
  BY <1>0, <1>3 DEF HandleDelete, Drop
<1>s. ASSUME NEW f \in Files, NEW g \in Files, NEW b \in Bos, Share(f, g, b) PROVE Fns
  BY <1>0, <1>s DEF Share, Get
<1>4. ASSUME NEW t \in Calls, NEW j \in Jobs, NEW in \in SUBSET Bos, NEW out \in SUBSET Bos,
             JobInit(t, j, in, out)
      PROVE  Fns
  BY <1>0, <1>4 DEF JobInit, NextJob, Step
<1>5. ASSUME NEW j \in Jobs, Lookup(j, in_bos[j], "in", "out") PROVE Fns
  BY <1>0, <1>5 DEF Lookup, Step, Get, Live
<1>6. ASSUME NEW j \in Jobs, Lookup(j, out_bos[j], "out", "domain") PROVE Fns
  BY <1>0, <1>6 DEF Lookup, Step, Get, Live
<1>7. ASSUME NEW j \in Jobs, NEW found \in SUBSET Bos,
             LookupFail(j, in_bos[j], found, "in")
      PROVE  Fns
  BY <1>0, <1>7 DEF LookupFail, Step, Get, Live
<1>8. ASSUME NEW j \in Jobs, NEW found \in SUBSET Bos,
             LookupFail(j, out_bos[j], found, "out")
      PROVE  Fns
  BY <1>0, <1>8 DEF LookupFail, Step, Get, Live
<1>9. ASSUME NEW j \in Jobs, PushQueue(j) PROVE Fns
  BY <1>0, <1>9 DEF PushQueue, Step
<1>10. ASSUME NEW j \in Jobs, JobPut(j) PROVE Fns
  BY <1>0, <1>10 DEF put_job, DropHeld, JobPut
<1>11. ASSUME NEW j \in Jobs, SchedFree(j) PROVE Fns
  BY <1>0, <1>11 DEF put_job, DropHeld, SchedFree
<1>12. ASSUME NEW p \in Preps, NEW b \in Bos, PrepLookup(p, b) PROVE Fns
  BY <1>0, <1>12 DEF PrepLookup, Get
<1>13. ASSUME NEW p \in Preps, PrepReturn(p) PROVE Fns
  BY <1>0, <1>13 DEF PrepReturn, Drop
<1>14. CASE UNCHANGED <<gemref, ref, kept>>
  BY <1>0, <1>14
<1>h. ASSUME NEW f \in Files, NEW b \in Bos, CreateHandle(f, b) PROVE Fns
  BY <1>14, <1>h DEF CreateHandle
<1>15. ASSUME NEW b \in Bos, Undo(b) PROVE Fns
  BY <1>14, <1>15 DEF Undo
<1>16. ASSUME NEW t \in Calls,
             SubmitCall(t) \/ SubmitReject(t) \/ SubmitReturn(t)
      PROVE  Fns
  BY <1>14, <1>16 DEF SubmitCall, SubmitReject, SubmitReturn
<1>17. ASSUME NEW t \in Calls, NEW j \in Jobs, JobReject(t, j) PROVE Fns
  BY <1>14, <1>17 DEF JobReject, NextJob, Step
<1>18. ASSUME NEW j \in Jobs,
             \/ CopyTasks(j) \/ CopyTasksNone(j) \/ CopyTasksFail(j)
             \/ DomainGet(j) \/ PushLock(j) \/ PushLockFail(j)
      PROVE  Fns
  BY <1>14, <1>18 DEF CopyTasks, Step, CopyTasksNone, CopyTasksFail,
     DomainGet, PushLock, PushLockFail
<1>19. ASSUME NEW j \in Jobs,
             PushFail(j) \/ PushAttach(j) \/ Run(j) \/ RunFail(j)
      PROVE  Fns
  BY <1>14, <1>19 DEF PushFail, Step, PushAttach, Run, Ready, RunFail
<1>20. ASSUME NEW p \in Preps,
             PrepReject(p) \/ PrepDone(p) \/ PrepTimeout(p)
      PROVE  Fns
  BY <1>14, <1>20 DEF PrepReject, PrepDone, PrepTimeout
<1>21. CASE UNCHANGED vars
  BY <1>14, <1>21 DEF vars
<1> QED
  BY <1>h, <1>s, <1>1, <1>2, <1>3, <1>4, <1>5, <1>6, <1>7, <1>8, <1>9, <1>10, <1>11,
     <1>12, <1>13, <1>14, <1>15, <1>16, <1>17, <1>18, <1>19, <1>20, <1>21
     DEF Next

\* The types, the places of the queued jobs included.
LEMMA TypeInvStep ==
  ASSUME IndInv, [Next]_vars PROVE TypeInv'
<1>1. BoTypes' /\ JobTypes' /\ OrderInv' /\ JobInv'
  BY BoTypesStep, JobTypesStep, OrderInvStep, JobInvStep
<1>2. gemref' \in [Bos -> Nat]
  <2>1. \A b \in Bos : gemref'[b] \in Nat
    BY RefStep DEF RefStepAt
  <2> QED
    BY <2>1, CountTypesStep
<1>3. ref' \in [Jobs -> 0 .. 2]
  <2>1. \A j \in Jobs : ref'[j] \in 0 .. 2
    BY <1>1 DEF JobInv, JobInvAt
  <2> QED
    BY <2>1, CountTypesStep
<1>4. kept' \in [Bos -> Nat] /\ \A i \in DOMAIN order' : place'[order'[i]] # "none"
  <2>1. DOMAIN order' = 1 .. Len(order')
    BY <1>1 DEF JobTypes
  <2> QED
    BY <1>1, <2>1, CountTypesStep DEF OrderInv
<1> QED
  BY <1>1, <1>2, <1>3, <1>4 DEF TypeInv, TypeOK, BoTypes, JobTypes, PCs, Places

\* The invariant holds before the first call.
LEMMA InitInv ==
  ASSUME Init PROVE IndInv
<1> USE DEF Init
<1>1. TypeInv
  BY DEF TypeInv, TypeOK, PrepRecords, Stages, Arrays
<1>2. JobInv
  BY DEF JobInv, JobInvAt, Submitting, InSched, AllHeld
<1>3. \A b \in Bos : HeldBy(b) = {} /\ PrepsOn(b) = {} /\ Names(b) = {}
  BY DEF HeldBy, PrepsOn, Names
<1>4. RefInv
  <2>1. IsFiniteSet({}) /\ Cardinality({}) = 0
    BY FS_EmptySet
  <2> SUFFICES ASSUME NEW b \in Bos PROVE RefInvAt(b)
    BY DEF RefInv
  <2>2. IsFiniteSet(HeldBy(b)) /\ IsFiniteSet(PrepsOn(b)) /\ IsFiniteSet(Names(b))
    BY <1>3, <2>1
  <2>3. /\ Cardinality(HeldBy(b)) = 0 /\ Cardinality(PrepsOn(b)) = 0
        /\ Cardinality(Names(b)) = 0
    BY <1>3, <2>1
  <2>4. Own(b) = 0 /\ gemref[b] = 0 /\ kept[b] = 0
    BY DEF Own
  <2> QED
    BY <2>2, <2>3, <2>4 DEF RefInvAt, Owed
<1>5. BoInv
  BY <1>3 DEF BoInv, BoInvAt
<1>6. LockInv /\ FenceInv /\ OrderInv /\ PrepInv
  BY DEF LockInv, FenceInv, OrderInv, PrepInv
<1>7. DepsInv
  BY DEF DepsInv, Started, Precedes
<1> QED
  BY <1>1, <1>2, <1>4, <1>5, <1>6, <1>7 DEF IndInv

\* The inductive invariant holds of the native interface.
THEOREM Invariance == Spec => []IndInv
<1>1. Init => IndInv
  BY InitInv
<1>2. IndInv /\ [Next]_vars => IndInv'
  <2> SUFFICES ASSUME IndInv, [Next]_vars PROVE IndInv'
    OBVIOUS
  <2>1. TypeInv' /\ JobInv' /\ LockInv' /\ FenceInv' /\ OrderInv' /\ DepsInv' /\ PrepInv'
    BY TypeInvStep, JobInvStep, LockInvStep, FenceInvStep, OrderInvStep, DepsInvStep,
       PrepInvStep
  <2>2. RefInv' /\ BoInv'
    BY RefStep DEF RefStepAt, RefInv, BoInv
  <2> QED
    BY <2>1, <2>2 DEF IndInv
<1> QED
  BY <1>1, <1>2, PTL DEF Spec

\* The types of the variables: no reference of a job is put once too often by
\* rocket_ioctl_submit_job and the scheduler together.
THEOREM TypeCorrect == Spec => []TypeOK
<1>1. IndInv => TypeOK
  BY DEF IndInv, TypeInv
<1> QED
  BY <1>1, Invariance, PTL

\* A buffer has exactly the references of its handles, of the jobs that name
\* it, of the prep calls that wait on it and of the lookups that failed after
\* they had found it, whatever step of a submission fails and however many
\* buffers a job names.
THEOREM BoReferences == Spec => []BoRefsExact
<1>1. IndInv => BoRefsExact
  <2> SUFFICES ASSUME IndInv, NEW b \in Bos
               PROVE  gemref[b] = Cardinality(HeldBy(b)) + Cardinality(PrepsOn(b))
                                  + Cardinality(Names(b)) + kept[b] + Own(b)
    BY DEF BoRefsExact, HeldBy, PrepsOn, Names, Own
  <2> QED
    BY DEF IndInv, RefInv, RefInvAt, Owed
<1> QED
  BY <1>1, Invariance, PTL

\* The buffers of a job that is queued or on a core are mapped, whatever became
\* of their handles.
THEOREM JobsMapped == Spec => []JobBosMapped
<1>1. ASSUME IndInv PROVE JobBosMapped
  <2> SUFFICES ASSUME NEW j \in Jobs, Unfinished(j), NEW b \in in_bos[j] \cup out_bos[j]
               PROVE  built[b] = Len(Stages)
    BY DEF JobBosMapped
  <2>1. b \in Bos
    BY <1>1, Types
  <2>2. AllHeld(j) \subseteq held[j]
    BY <1>1 DEF IndInv, JobInv, JobInvAt, InSched, Unfinished
  <2>3. HeldBy(b) # {}
    <3>1. <<"in", b>> \in held[j] \/ <<"out", b>> \in held[j]
      BY <2>2 DEF AllHeld
    <3>2. <<j, "in">> \in HeldBy(b) \/ <<j, "out">> \in HeldBy(b)
      BY <3>1 DEF HeldBy, Arrays
    <3> QED
      BY <3>2
  <2>4. /\ gemref[b] \in Nat /\ made[b] \in {"none", "building", "made", "failed"}
        /\ kept[b] \in Nat /\ Cardinality(Names(b)) \in Nat
        /\ IsFiniteSet(HeldBy(b)) /\ Cardinality(HeldBy(b)) \in Nat
        /\ Cardinality(PrepsOn(b)) \in Nat /\ RefInvAt(b) /\ BoInvAt(b)
    BY <1>1, <2>1, Counts
  <2>5. Cardinality(HeldBy(b)) # 0
    BY <2>3, <2>4, FS_EmptySet
  <2>6. gemref[b] > 0
    <3>1. Own(b) \in Nat
      BY DEF Own
    <3>2. gemref[b] = Cardinality(HeldBy(b)) + Cardinality(PrepsOn(b))
                      + Cardinality(Names(b)) + kept[b] + Own(b)
      BY <2>4 DEF RefInvAt, Owed
    <3> QED
      BY <2>4, <2>5, <3>1, <3>2
  <2> QED
    BY <2>3, <2>4, <2>6 DEF BoInvAt
<1> QED
  BY <1>1, Invariance, PTL

\* A job does not start before the jobs pushed earlier that write what it reads
\* or writes have ended.
THEOREM WritersFirst == Spec => []OutputsOrdered
<1>1. IndInv => OutputsOrdered
  BY DEF IndInv, DepsInv, OutputsOrdered, Started, Uses
<1> QED
  BY <1>1, Invariance, PTL

\* A prep call succeeds only when the jobs submitted before it that write the
\* buffer have ended.
THEOREM PrepWaits == Spec => []PrepAfterWriters
<1>1. IndInv => PrepAfterWriters
  BY DEF IndInv, PrepInv, PrepAfterWriters
<1> QED
  BY <1>1, Invariance, PTL

=============================================================================
