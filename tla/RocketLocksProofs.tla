-------------------------- MODULE RocketLocksProofs --------------------------
(***************************************************************************)
(* Proofs about RocketLocks for any number of cores and files: who holds   *)
(* which mutex at which place, and from that the absence of circular       *)
(* waits, the serialisation of domain changes with the power unit, and the *)
(* exclusion of two changes of one core's domain.                          *)
(***************************************************************************)
EXTENDS RocketLocks, FiniteSetTheorems, TLAPS

-----------------------------------------------------------------------------
(* The inductive invariant.                                                 *)

\* Where each kind of thread can be.
PlaceInv ==
    /\ \A c \in Cores :
          /\ at[Run(c)] \in {"idle", "get", "getting", "attach", "switch",
                             "switching", "publish", "put", "putting"}
          /\ at[Irq(c)] \in {"idle", "irq", "put", "putting"}
          /\ at[Reset(c)] \in {"idle", "stop", "reset", "put", "putting",
                               "switch", "switching", "end"}
    /\ \A f \in Files :
          /\ at[Close(f)] \in {"idle", "entities", "detach", "switching"}
          /\ at[Close(f)] = "switching" => next[f] \in Cores

\* pm_lock is held around the transitions of the unit and the domain changes
\* of the run worker and the reset; a closing file never holds it.
PmLockInv ==
    /\ \A c \in Cores :
          /\ pm_lock = Run(c) <=> at[Run(c)] \in {"getting", "switching", "putting"}
          /\ pm_lock = Irq(c) <=> at[Irq(c)] = "putting"
          /\ pm_lock = Reset(c) <=> at[Reset(c)] \in {"putting", "switching"}
    /\ \A f \in Files : pm_lock # Close(f)

\* job_lock of a core is held by its own threads around attach, completion and
\* reset, and by a closing file around the detach.
JobLockInv ==
    \A c \in Cores :
        /\ job_lock[c] = Run(c) <=> at[Run(c)] \in {"switch", "switching", "publish"}
        /\ job_lock[c] = Irq(c) <=> at[Irq(c)] \in {"put", "putting"}
        /\ job_lock[c] = Reset(c)
             <=> at[Reset(c)] \in {"put", "putting", "switch", "switching", "end"}
        /\ \A f \in Files : job_lock[c] = Close(f)
             <=> at[Close(f)] = "switching" /\ next[f] = c
        /\ \A d \in Cores : job_lock[c] \in {Run(d), Irq(d), Reset(d)} => d = c

\* The run worker starts a job only when the one before it is done, and a
\* reset works only while the run worker is stopped.
JobInv ==
    \A c \in Cores :
        /\ at[Run(c)] # "idle" => /\ job[c] # NULL
                                  /\ at[Reset(c)] \in {"idle", "stop"}
        /\ (at[Run(c)] # "idle" \/ job[c] = NULL) /\ in_flight[c]
             => at[Irq(c)] \in {"put", "putting"}
        /\ at[Irq(c)] \in {"put", "putting"} => in_flight[c]
        /\ at[Reset(c)] \in {"put", "putting"} => in_flight[c]

\* The users of the power unit: the run workers from their get to their
\* publishing the job or their put, and the jobs in flight whose put has not
\* been made by a reset.
RunUsers == {c \in Cores : at[Run(c)] \in {"attach", "switch", "switching",
                                           "publish", "put", "putting"}}
FlightUsers == {c \in Cores : /\ in_flight[c]
                              /\ at[Reset(c)] \notin {"switch", "switching", "end"}}

CountInv == pm_refcount = Cardinality(RunUsers) + Cardinality(FlightUsers)

\* All of it.  TypeOK alone is not inductive: that pm_refcount does not go
\* below zero needs the count of its users.
IndInv ==
    /\ TypeOK
    /\ PlaceInv
    /\ PmLockInv
    /\ JobLockInv
    /\ JobInv
    /\ CountInv

-----------------------------------------------------------------------------
(* The threads.                                                             *)

\* The four kinds of threads do not overlap.
LEMMA ThreadKinds ==
  /\ \A c \in Cores : /\ Run(c) \in Threads /\ Irq(c) \in Threads
                       /\ Reset(c) \in Threads
  /\ \A f \in Files : Close(f) \in Threads
  /\ NULL \notin Threads
  /\ \A c, d \in Cores : /\ Run(c) # Irq(d) /\ Run(c) # Reset(d) /\ Irq(c) # Reset(d)
                         /\ Run(c) = Run(d) => c = d
                         /\ Irq(c) = Irq(d) => c = d
                         /\ Reset(c) = Reset(d) => c = d
  /\ \A c \in Cores, f \in Files :
        Run(c) # Close(f) /\ Irq(c) # Close(f) /\ Reset(c) # Close(f)
  /\ \A f, g \in Files : Close(f) = Close(g) => f = g
  BY LocksAssumption DEF Threads, Run, Irq, Reset, Close

\* There are no other threads.
LEMMA ThreadCases ==
  ASSUME NEW t \in Threads
  PROVE  \/ \E c \in Cores : t = Run(c) \/ t = Irq(c) \/ t = Reset(c)
         \/ \E f \in Files : t = Close(f)
  BY DEF Threads, Run, Irq, Reset, Close

\* The sets of users are finite.
LEMMA UsersFinite ==
  ASSUME NEW S \in SUBSET Cores
  PROVE  IsFiniteSet(S) /\ Cardinality(S) \in Nat
<1>1. IsFiniteSet(Cores)
  BY LocksAssumption, FS_Interval DEF Cores
<1>2. IsFiniteSet(S)
  BY <1>1, FS_Subset
<1> QED
  BY <1>2, FS_CardinalityType

-----------------------------------------------------------------------------
(* The initial states.                                                      *)

\* Initially no thread is anywhere and no lock is held.
LEMMA InitInv == Init => IndInv
<1> SUFFICES ASSUME Init PROVE IndInv
  OBVIOUS
<1>1. TypeOK /\ PlaceInv /\ JobInv
  BY ThreadKinds, LocksAssumption
     DEF Init, TypeOK, PlaceInv, JobInv, Labels, Cores
<1>2. PmLockInv /\ JobLockInv
  BY ThreadKinds DEF Init, PmLockInv, JobLockInv
<1>3. RunUsers = {} /\ FlightUsers = {}
  BY ThreadKinds DEF Init, RunUsers, FlightUsers
<1>4. CountInv
  BY <1>3, FS_EmptySet DEF Init, CountInv
<1> QED
  BY <1>1, <1>2, <1>4 DEF IndInv

-----------------------------------------------------------------------------
(* The steps of each thread.                                                *)

RunStep(c) == (\E f \in Files : RunStart(c, f)) \/ RunGoesOn(c)
IrqStep(c) == IrqStart(c) \/ IrqGoesOn(c)
ResetStep(c) == ResetStart(c) \/ ResetGoesOn(c)
CloseStep(f) == CloseStart(f) \/ CloseGoesOn(f)

\* Every step is one of a run worker, an interrupt thread, a reset or a close.
LEMMA NextCases ==
  ASSUME [Next]_vars
  PROVE  \/ \E c \in Cores : RunStep(c) \/ IrqStep(c) \/ ResetStep(c)
         \/ \E f \in Files : CloseStep(f)
         \/ UNCHANGED vars
  BY DEF Next, RunStep, IrqStep, ResetStep, CloseStep

\* Every variable but the count keeps its type.
LEMMA TypeStep ==
  ASSUME TypeOK, PlaceInv, [Next]_vars PROVE pm_refcount' \in Nat => TypeOK'
<1> USE ThreadKinds, LocksAssumption DEF Go, LockPm, UnlockPm, LockJob, UnlockJob, JobDone
<1>1. ASSUME NEW c \in Cores, RunStep(c) PROVE pm_refcount' \in Nat => TypeOK'
  <2> USE <1>1 DEF RunStep, RunStart, RunGet, RunGot, RunGetFail, RunLock, RunSwitch,
             RunSwitched, RunSwitchFail, RunPublish, RunPut, RunPutDone, RunGoesOn
  <2>1. at' \in [Threads -> Labels]
    BY DEF TypeOK, Labels
  <2>2. job_lock' \in [Cores -> Threads \cup {NULL}]
    BY DEF TypeOK, PlaceInv
  <2>3. pm_lock' \in Threads \cup {NULL}
    BY DEF TypeOK
  <2>4. in_flight' \in [Cores -> BOOLEAN]
    BY DEF TypeOK
  <2>5. job' \in [Cores -> Files \cup {NULL}]
    BY DEF TypeOK
  <2>6. attached' \in [Cores -> Files \cup {NULL}]
    BY DEF TypeOK, PlaceInv
  <2>7. next' \in [Files -> 0 .. NumCores]
    BY DEF TypeOK, PlaceInv, Cores
  <2> QED
    BY ONLY <2>1, <2>2, <2>3, <2>4, <2>5, <2>6, <2>7 DEF TypeOK
<1>2. ASSUME NEW c \in Cores, IrqStep(c) PROVE pm_refcount' \in Nat => TypeOK'
  <2> USE <1>2 DEF IrqStep, IrqStart, IrqNothing, IrqLock, IrqPut, IrqDone, IrqGoesOn
  <2>1. at' \in [Threads -> Labels]
    BY DEF TypeOK, Labels
  <2>2. job_lock' \in [Cores -> Threads \cup {NULL}]
    BY DEF TypeOK, PlaceInv
  <2>3. pm_lock' \in Threads \cup {NULL}
    BY DEF TypeOK
  <2>4. in_flight' \in [Cores -> BOOLEAN]
    BY DEF TypeOK
  <2>5. job' \in [Cores -> Files \cup {NULL}]
    BY DEF TypeOK
  <2>6. attached' \in [Cores -> Files \cup {NULL}]
    BY DEF TypeOK, PlaceInv
  <2>7. next' \in [Files -> 0 .. NumCores]
    BY DEF TypeOK, PlaceInv, Cores
  <2> QED
    BY ONLY <2>1, <2>2, <2>3, <2>4, <2>5, <2>6, <2>7 DEF TypeOK
<1>3. ASSUME NEW c \in Cores, ResetStep(c) PROVE pm_refcount' \in Nat => TypeOK'
  <2> USE <1>3 DEF ResetStep, ResetStart, ResetStop, ResetLock, ResetPut, ResetPutDone,
             ResetSwitch, ResetSwitched, ResetEnd, ResetGoesOn, after_put
  <2>1. at' \in [Threads -> Labels]
    BY DEF TypeOK, Labels
  <2>2. job_lock' \in [Cores -> Threads \cup {NULL}]
    BY DEF TypeOK, PlaceInv
  <2>3. pm_lock' \in Threads \cup {NULL}
    BY DEF TypeOK
  <2>4. in_flight' \in [Cores -> BOOLEAN]
    BY DEF TypeOK
  <2>5. job' \in [Cores -> Files \cup {NULL}]
    BY DEF TypeOK
  <2>6. attached' \in [Cores -> Files \cup {NULL}]
    BY DEF TypeOK, PlaceInv
  <2>7. next' \in [Files -> 0 .. NumCores]
    BY DEF TypeOK, PlaceInv, Cores
  <2> QED
    BY ONLY <2>1, <2>2, <2>3, <2>4, <2>5, <2>6, <2>7 DEF TypeOK
<1>4. ASSUME NEW f \in Files, CloseStep(f) PROVE pm_refcount' \in Nat => TypeOK'
  <2> USE <1>4 DEF CloseStep, CloseStart, CloseEntity, CloseEntitiesDone, CloseSkip, CloseLock,
             CloseDetached, CloseEnd, CloseGoesOn, running
  <2>1. at' \in [Threads -> Labels]
    BY DEF TypeOK, Labels
  <2>2. job_lock' \in [Cores -> Threads \cup {NULL}]
    BY DEF TypeOK, PlaceInv
  <2>3. pm_lock' \in Threads \cup {NULL}
    BY DEF TypeOK
  <2>4. in_flight' \in [Cores -> BOOLEAN]
    BY DEF TypeOK
  <2>5. job' \in [Cores -> Files \cup {NULL}]
    BY DEF TypeOK
  <2>6. attached' \in [Cores -> Files \cup {NULL}]
    BY DEF TypeOK, PlaceInv
  <2>7. next' \in [Files -> 0 .. NumCores]
    BY DEF TypeOK, PlaceInv, Cores
  <2> QED
    BY ONLY <2>1, <2>2, <2>3, <2>4, <2>5, <2>6, <2>7 DEF TypeOK
<1>5. CASE UNCHANGED vars
  BY <1>5 DEF TypeOK, vars
<1> QED
  BY <1>1, <1>2, <1>3, <1>4, <1>5, NextCases

\* Every thread stays where its kind can be.
LEMMA PlaceStep ==
  ASSUME TypeOK, PlaceInv, [Next]_vars PROVE PlaceInv'
<1> USE ThreadKinds, LocksAssumption DEF Go, LockPm, UnlockPm, LockJob, UnlockJob, JobDone
<1>1. ASSUME NEW c \in Cores, RunStep(c) PROVE PlaceInv'
  <2> USE <1>1 DEF RunStep, RunStart, RunGet, RunGot, RunGetFail, RunLock, RunSwitch,
             RunSwitched, RunSwitchFail, RunPublish, RunPut, RunPutDone, RunGoesOn
  <2>1. \A d \in Cores :
          /\ at'[Run(d)] \in {"idle", "get", "getting", "attach", "switch",
                             "switching", "publish", "put", "putting"}
          /\ at'[Irq(d)] \in {"idle", "irq", "put", "putting"}
          /\ at'[Reset(d)] \in {"idle", "stop", "reset", "put", "putting",
                               "switch", "switching", "end"}
    BY DEF TypeOK, PlaceInv
  <2>2. \A g \in Files : at'[Close(g)] \in {"idle", "entities", "detach", "switching"}
    BY DEF TypeOK, PlaceInv
  <2>3. \A g \in Files : at'[Close(g)] = "switching" => next'[g] \in Cores
    BY DEF TypeOK, PlaceInv, Cores
  <2> QED
    BY ONLY <2>1, <2>2, <2>3 DEF PlaceInv
<1>2. ASSUME NEW c \in Cores, IrqStep(c) PROVE PlaceInv'
  <2> USE <1>2 DEF IrqStep, IrqStart, IrqNothing, IrqLock, IrqPut, IrqDone, IrqGoesOn
  <2>1. \A d \in Cores :
          /\ at'[Run(d)] \in {"idle", "get", "getting", "attach", "switch",
                             "switching", "publish", "put", "putting"}
          /\ at'[Irq(d)] \in {"idle", "irq", "put", "putting"}
          /\ at'[Reset(d)] \in {"idle", "stop", "reset", "put", "putting",
                               "switch", "switching", "end"}
    BY DEF TypeOK, PlaceInv
  <2>2. \A g \in Files : at'[Close(g)] \in {"idle", "entities", "detach", "switching"}
    BY DEF TypeOK, PlaceInv
  <2>3. \A g \in Files : at'[Close(g)] = "switching" => next'[g] \in Cores
    BY DEF TypeOK, PlaceInv, Cores
  <2> QED
    BY ONLY <2>1, <2>2, <2>3 DEF PlaceInv
<1>3. ASSUME NEW c \in Cores, ResetStep(c) PROVE PlaceInv'
  <2> USE <1>3 DEF ResetStep, ResetStart, ResetStop, ResetLock, ResetPut, ResetPutDone,
             ResetSwitch, ResetSwitched, ResetEnd, ResetGoesOn, after_put
  <2>1. \A d \in Cores :
          /\ at'[Run(d)] \in {"idle", "get", "getting", "attach", "switch",
                             "switching", "publish", "put", "putting"}
          /\ at'[Irq(d)] \in {"idle", "irq", "put", "putting"}
          /\ at'[Reset(d)] \in {"idle", "stop", "reset", "put", "putting",
                               "switch", "switching", "end"}
    BY DEF TypeOK, PlaceInv
  <2>2. \A g \in Files : at'[Close(g)] \in {"idle", "entities", "detach", "switching"}
    BY DEF TypeOK, PlaceInv
  <2>3. \A g \in Files : at'[Close(g)] = "switching" => next'[g] \in Cores
    BY DEF TypeOK, PlaceInv, Cores
  <2> QED
    BY ONLY <2>1, <2>2, <2>3 DEF PlaceInv
<1>4. ASSUME NEW f \in Files, CloseStep(f) PROVE PlaceInv'
  <2> USE <1>4 DEF CloseStep, CloseStart, CloseEntity, CloseEntitiesDone, CloseSkip, CloseLock,
             CloseDetached, CloseEnd, CloseGoesOn, running
  <2>1. \A d \in Cores :
          /\ at'[Run(d)] \in {"idle", "get", "getting", "attach", "switch",
                             "switching", "publish", "put", "putting"}
          /\ at'[Irq(d)] \in {"idle", "irq", "put", "putting"}
          /\ at'[Reset(d)] \in {"idle", "stop", "reset", "put", "putting",
                               "switch", "switching", "end"}
    BY DEF TypeOK, PlaceInv
  <2>2. \A g \in Files : at'[Close(g)] \in {"idle", "entities", "detach", "switching"}
    BY DEF TypeOK, PlaceInv
  <2>3. \A g \in Files : at'[Close(g)] = "switching" => next'[g] \in Cores
    BY DEF TypeOK, PlaceInv, Cores
  <2> QED
    BY ONLY <2>1, <2>2, <2>3 DEF PlaceInv
<1>5. CASE UNCHANGED vars
  BY <1>5 DEF PlaceInv, vars
<1> QED
  BY <1>1, <1>2, <1>3, <1>4, <1>5, NextCases

\* pm_lock is held exactly where it should be.
LEMMA PmLockStep ==
  ASSUME TypeOK, PlaceInv, PmLockInv, [Next]_vars PROVE PmLockInv'
<1> USE ThreadKinds DEF Go, LockPm, UnlockPm, LockJob, UnlockJob, JobDone
<1>1. ASSUME NEW c \in Cores, RunStep(c) PROVE PmLockInv'
  <2> USE <1>1 DEF RunStep, RunStart, RunGet, RunGot, RunGetFail, RunLock, RunSwitch,
             RunSwitched, RunSwitchFail, RunPublish, RunPut, RunPutDone, RunGoesOn
  <2>1. \A d \in Cores : pm_lock' = Run(d)
          <=> at'[Run(d)] \in {"getting", "switching", "putting"}
    BY DEF TypeOK, PlaceInv, PmLockInv
  <2>2. \A d \in Cores : pm_lock' = Irq(d) <=> at'[Irq(d)] = "putting"
    BY DEF TypeOK, PlaceInv, PmLockInv
  <2>3. \A d \in Cores : pm_lock' = Reset(d) <=> at'[Reset(d)] \in {"putting", "switching"}
    BY DEF TypeOK, PlaceInv, PmLockInv
  <2>4. \A g \in Files : pm_lock' # Close(g)
    BY DEF TypeOK, PmLockInv
  <2> QED
    BY ONLY <2>1, <2>2, <2>3, <2>4 DEF PmLockInv
<1>2. ASSUME NEW c \in Cores, IrqStep(c) PROVE PmLockInv'
  <2> USE <1>2 DEF IrqStep, IrqStart, IrqNothing, IrqLock, IrqPut, IrqDone, IrqGoesOn
  <2>1. \A d \in Cores : pm_lock' = Run(d)
          <=> at'[Run(d)] \in {"getting", "switching", "putting"}
    BY DEF TypeOK, PlaceInv, PmLockInv
  <2>2. \A d \in Cores : pm_lock' = Irq(d) <=> at'[Irq(d)] = "putting"
    BY DEF TypeOK, PlaceInv, PmLockInv
  <2>3. \A d \in Cores : pm_lock' = Reset(d) <=> at'[Reset(d)] \in {"putting", "switching"}
    BY DEF TypeOK, PlaceInv, PmLockInv
  <2>4. \A g \in Files : pm_lock' # Close(g)
    BY DEF TypeOK, PmLockInv
  <2> QED
    BY ONLY <2>1, <2>2, <2>3, <2>4 DEF PmLockInv
<1>3. ASSUME NEW c \in Cores, ResetStep(c) PROVE PmLockInv'
  <2> USE <1>3 DEF ResetStep, ResetStart, ResetStop, ResetLock, ResetPut, ResetPutDone,
             ResetSwitch, ResetSwitched, ResetEnd, ResetGoesOn, after_put
  <2>1. \A d \in Cores : pm_lock' = Run(d)
          <=> at'[Run(d)] \in {"getting", "switching", "putting"}
    BY DEF TypeOK, PlaceInv, PmLockInv
  <2>2. \A d \in Cores : pm_lock' = Irq(d) <=> at'[Irq(d)] = "putting"
    BY DEF TypeOK, PlaceInv, PmLockInv
  <2>3. \A d \in Cores : pm_lock' = Reset(d) <=> at'[Reset(d)] \in {"putting", "switching"}
    BY DEF TypeOK, PlaceInv, PmLockInv
  <2>4. \A g \in Files : pm_lock' # Close(g)
    BY DEF TypeOK, PmLockInv
  <2> QED
    BY ONLY <2>1, <2>2, <2>3, <2>4 DEF PmLockInv
<1>4. ASSUME NEW f \in Files, CloseStep(f) PROVE PmLockInv'
  <2> USE <1>4 DEF CloseStep, CloseStart, CloseEntity, CloseEntitiesDone, CloseSkip, CloseLock,
             CloseDetached, CloseEnd, CloseGoesOn, running
  <2>1. \A d \in Cores : pm_lock' = Run(d)
          <=> at'[Run(d)] \in {"getting", "switching", "putting"}
    BY DEF TypeOK, PlaceInv, PmLockInv
  <2>2. \A d \in Cores : pm_lock' = Irq(d) <=> at'[Irq(d)] = "putting"
    BY DEF TypeOK, PlaceInv, PmLockInv
  <2>3. \A d \in Cores : pm_lock' = Reset(d) <=> at'[Reset(d)] \in {"putting", "switching"}
    BY DEF TypeOK, PlaceInv, PmLockInv
  <2>4. \A g \in Files : pm_lock' # Close(g)
    BY DEF TypeOK, PmLockInv
  <2> QED
    BY ONLY <2>1, <2>2, <2>3, <2>4 DEF PmLockInv
<1>5. CASE UNCHANGED vars
  BY <1>5 DEF PmLockInv, vars
<1> QED
  BY <1>1, <1>2, <1>3, <1>4, <1>5, NextCases

\* job_lock of a core is held exactly where it should be.
LEMMA JobLockStep ==
  ASSUME TypeOK, PlaceInv, JobLockInv, [Next]_vars PROVE JobLockInv'
<1> USE ThreadKinds DEF Go, LockPm, UnlockPm, LockJob, UnlockJob, JobDone
<1>1. ASSUME NEW c \in Cores, RunStep(c) PROVE JobLockInv'
  <2> USE <1>1 DEF RunStep, RunStart, RunGet, RunGot, RunGetFail, RunLock, RunSwitch,
             RunSwitched, RunSwitchFail, RunPublish, RunPut, RunPutDone, RunGoesOn
  <2>1. \A d \in Cores : job_lock'[d] = Run(d)
          <=> at'[Run(d)] \in {"switch", "switching", "publish"}
    BY DEF TypeOK, PlaceInv, JobLockInv
  <2>2. \A d \in Cores : job_lock'[d] = Irq(d) <=> at'[Irq(d)] \in {"put", "putting"}
    BY DEF TypeOK, PlaceInv, JobLockInv
  <2>3. \A d \in Cores : job_lock'[d] = Reset(d)
          <=> at'[Reset(d)] \in {"put", "putting", "switch", "switching", "end"}
    BY DEF TypeOK, PlaceInv, JobLockInv
  <2>4. \A d \in Cores, g \in Files : job_lock'[d] = Close(g)
          <=> at'[Close(g)] = "switching" /\ next'[g] = d
    BY DEF TypeOK, PlaceInv, JobLockInv
  <2>5. \A d, e \in Cores : job_lock'[d] \in {Run(e), Irq(e), Reset(e)} => e = d
    BY DEF TypeOK, PlaceInv, JobLockInv
  <2> QED
    BY ONLY <2>1, <2>2, <2>3, <2>4, <2>5 DEF JobLockInv
<1>2. ASSUME NEW c \in Cores, IrqStep(c) PROVE JobLockInv'
  <2> USE <1>2 DEF IrqStep, IrqStart, IrqNothing, IrqLock, IrqPut, IrqDone, IrqGoesOn
  <2>1. \A d \in Cores : job_lock'[d] = Run(d)
          <=> at'[Run(d)] \in {"switch", "switching", "publish"}
    BY DEF TypeOK, PlaceInv, JobLockInv
  <2>2. \A d \in Cores : job_lock'[d] = Irq(d) <=> at'[Irq(d)] \in {"put", "putting"}
    BY DEF TypeOK, PlaceInv, JobLockInv
  <2>3. \A d \in Cores : job_lock'[d] = Reset(d)
          <=> at'[Reset(d)] \in {"put", "putting", "switch", "switching", "end"}
    BY DEF TypeOK, PlaceInv, JobLockInv
  <2>4. \A d \in Cores, g \in Files : job_lock'[d] = Close(g)
          <=> at'[Close(g)] = "switching" /\ next'[g] = d
    BY DEF TypeOK, PlaceInv, JobLockInv
  <2>5. \A d, e \in Cores : job_lock'[d] \in {Run(e), Irq(e), Reset(e)} => e = d
    BY DEF TypeOK, PlaceInv, JobLockInv
  <2> QED
    BY ONLY <2>1, <2>2, <2>3, <2>4, <2>5 DEF JobLockInv
<1>3. ASSUME NEW c \in Cores, ResetStep(c) PROVE JobLockInv'
  <2> USE <1>3 DEF ResetStep, ResetStart, ResetStop, ResetLock, ResetPut, ResetPutDone,
             ResetSwitch, ResetSwitched, ResetEnd, ResetGoesOn, after_put
  <2>1. \A d \in Cores : job_lock'[d] = Run(d)
          <=> at'[Run(d)] \in {"switch", "switching", "publish"}
    BY DEF TypeOK, PlaceInv, JobLockInv
  <2>2. \A d \in Cores : job_lock'[d] = Irq(d) <=> at'[Irq(d)] \in {"put", "putting"}
    BY DEF TypeOK, PlaceInv, JobLockInv
  <2>3. \A d \in Cores : job_lock'[d] = Reset(d)
          <=> at'[Reset(d)] \in {"put", "putting", "switch", "switching", "end"}
    BY DEF TypeOK, PlaceInv, JobLockInv
  <2>4. \A d \in Cores, g \in Files : job_lock'[d] = Close(g)
          <=> at'[Close(g)] = "switching" /\ next'[g] = d
    BY DEF TypeOK, PlaceInv, JobLockInv
  <2>5. \A d, e \in Cores : job_lock'[d] \in {Run(e), Irq(e), Reset(e)} => e = d
    BY DEF TypeOK, PlaceInv, JobLockInv
  <2> QED
    BY ONLY <2>1, <2>2, <2>3, <2>4, <2>5 DEF JobLockInv
<1>4. ASSUME NEW f \in Files, CloseStep(f) PROVE JobLockInv'
  <2> USE <1>4 DEF CloseStep, CloseStart, CloseEntity, CloseEntitiesDone, CloseSkip, CloseLock,
             CloseDetached, CloseEnd, CloseGoesOn, running
  <2>1. \A d \in Cores : job_lock'[d] = Run(d)
          <=> at'[Run(d)] \in {"switch", "switching", "publish"}
    BY DEF TypeOK, PlaceInv, JobLockInv
  <2>2. \A d \in Cores : job_lock'[d] = Irq(d) <=> at'[Irq(d)] \in {"put", "putting"}
    BY DEF TypeOK, PlaceInv, JobLockInv
  <2>3. \A d \in Cores : job_lock'[d] = Reset(d)
          <=> at'[Reset(d)] \in {"put", "putting", "switch", "switching", "end"}
    BY DEF TypeOK, PlaceInv, JobLockInv
  <2>4. \A d \in Cores, g \in Files : job_lock'[d] = Close(g)
          <=> at'[Close(g)] = "switching" /\ next'[g] = d
    BY DEF TypeOK, PlaceInv, JobLockInv
  <2>5. \A d, e \in Cores : job_lock'[d] \in {Run(e), Irq(e), Reset(e)} => e = d
    BY DEF TypeOK, PlaceInv, JobLockInv
  <2> QED
    BY ONLY <2>1, <2>2, <2>3, <2>4, <2>5 DEF JobLockInv
<1>5. CASE UNCHANGED vars
  BY <1>5 DEF JobLockInv, vars
<1> QED
  BY <1>1, <1>2, <1>3, <1>4, <1>5, NextCases

\* One job at a time, and no reset beside the run worker.
LEMMA JobStep ==
  ASSUME TypeOK, PlaceInv, JobLockInv, JobInv, [Next]_vars PROVE JobInv'
<1> USE ThreadKinds, LocksAssumption DEF Go, LockPm, UnlockPm, LockJob, UnlockJob, JobDone
<1>1. ASSUME NEW c \in Cores, RunStep(c) PROVE JobInv'
  <2> USE <1>1 DEF RunStep, RunStart, RunGet, RunGot, RunGetFail, RunLock, RunSwitch,
             RunSwitched, RunSwitchFail, RunPublish, RunPut, RunPutDone, RunGoesOn
  <2>1. \A d \in Cores : at'[Run(d)] # "idle" => /\ job'[d] # NULL
                                               /\ at'[Reset(d)] \in {"idle", "stop"}
    BY DEF TypeOK, PlaceInv, JobLockInv, JobInv
  <2>2. \A d \in Cores : (at'[Run(d)] # "idle" \/ job'[d] = NULL) /\ in_flight'[d]
          => at'[Irq(d)] \in {"put", "putting"}
    BY DEF TypeOK, PlaceInv, JobLockInv, JobInv
  <2>3. \A d \in Cores : at'[Irq(d)] \in {"put", "putting"} => in_flight'[d]
    BY DEF TypeOK, PlaceInv, JobLockInv, JobInv
  <2>4. \A d \in Cores : at'[Reset(d)] \in {"put", "putting"} => in_flight'[d]
    BY DEF TypeOK, PlaceInv, JobLockInv, JobInv
  <2> QED
    BY ONLY <2>1, <2>2, <2>3, <2>4 DEF JobInv
<1>2. ASSUME NEW c \in Cores, IrqStep(c) PROVE JobInv'
  <2> USE <1>2 DEF IrqStep, IrqStart, IrqNothing, IrqLock, IrqPut, IrqDone, IrqGoesOn
  <2>1. \A d \in Cores : at'[Run(d)] # "idle" => /\ job'[d] # NULL
                                               /\ at'[Reset(d)] \in {"idle", "stop"}
    BY DEF TypeOK, PlaceInv, JobLockInv, JobInv
  <2>2. \A d \in Cores : (at'[Run(d)] # "idle" \/ job'[d] = NULL) /\ in_flight'[d]
          => at'[Irq(d)] \in {"put", "putting"}
    BY DEF TypeOK, PlaceInv, JobLockInv, JobInv
  <2>3. \A d \in Cores : at'[Irq(d)] \in {"put", "putting"} => in_flight'[d]
    BY DEF TypeOK, PlaceInv, JobLockInv, JobInv
  <2>4. \A d \in Cores : at'[Reset(d)] \in {"put", "putting"} => in_flight'[d]
    BY DEF TypeOK, PlaceInv, JobLockInv, JobInv
  <2> QED
    BY ONLY <2>1, <2>2, <2>3, <2>4 DEF JobInv
<1>3. ASSUME NEW c \in Cores, ResetStep(c) PROVE JobInv'
  <2> USE <1>3 DEF ResetStep, ResetStart, ResetStop, ResetLock, ResetPut, ResetPutDone,
             ResetSwitch, ResetSwitched, ResetEnd, ResetGoesOn, after_put
  <2>1. \A d \in Cores : at'[Run(d)] # "idle" => /\ job'[d] # NULL
                                               /\ at'[Reset(d)] \in {"idle", "stop"}
    BY DEF TypeOK, PlaceInv, JobLockInv, JobInv
  <2>2. \A d \in Cores : (at'[Run(d)] # "idle" \/ job'[d] = NULL) /\ in_flight'[d]
          => at'[Irq(d)] \in {"put", "putting"}
    BY DEF TypeOK, PlaceInv, JobLockInv, JobInv
  <2>3. \A d \in Cores : at'[Irq(d)] \in {"put", "putting"} => in_flight'[d]
    BY DEF TypeOK, PlaceInv, JobLockInv, JobInv
  <2>4. \A d \in Cores : at'[Reset(d)] \in {"put", "putting"} => in_flight'[d]
    BY DEF TypeOK, PlaceInv, JobLockInv, JobInv
  <2> QED
    BY ONLY <2>1, <2>2, <2>3, <2>4 DEF JobInv
<1>4. ASSUME NEW f \in Files, CloseStep(f) PROVE JobInv'
  <2> USE <1>4 DEF CloseStep, CloseStart, CloseEntity, CloseEntitiesDone, CloseSkip, CloseLock,
             CloseDetached, CloseEnd, CloseGoesOn, running
  <2>1. \A d \in Cores : at'[Run(d)] # "idle" => /\ job'[d] # NULL
                                               /\ at'[Reset(d)] \in {"idle", "stop"}
    BY DEF TypeOK, PlaceInv, JobLockInv, JobInv
  <2>2. \A d \in Cores : (at'[Run(d)] # "idle" \/ job'[d] = NULL) /\ in_flight'[d]
          => at'[Irq(d)] \in {"put", "putting"}
    BY DEF TypeOK, PlaceInv, JobLockInv, JobInv
  <2>3. \A d \in Cores : at'[Irq(d)] \in {"put", "putting"} => in_flight'[d]
    BY DEF TypeOK, PlaceInv, JobLockInv, JobInv
  <2>4. \A d \in Cores : at'[Reset(d)] \in {"put", "putting"} => in_flight'[d]
    BY DEF TypeOK, PlaceInv, JobLockInv, JobInv
  <2> QED
    BY ONLY <2>1, <2>2, <2>3, <2>4 DEF JobInv
<1>5. CASE UNCHANGED vars
  BY <1>5 DEF JobInv, vars
<1> QED
  BY <1>1, <1>2, <1>3, <1>4, <1>5, NextCases

-----------------------------------------------------------------------------
(* The count of the power unit's users.                                     *)

\* What a step does to the users is what it does to the count.
LEMMA CountStep ==
  ASSUME IndInv, [Next]_vars PROVE CountInv' /\ pm_refcount' \in Nat
<1> USE ThreadKinds DEF Go, LockPm, UnlockPm, LockJob, UnlockJob, JobDone
<1>0. /\ TypeOK /\ PlaceInv /\ JobLockInv /\ JobInv /\ CountInv
      /\ pm_refcount \in Nat
  BY DEF IndInv, TypeOK
<1>a. /\ RunUsers \in SUBSET Cores /\ FlightUsers \in SUBSET Cores
      /\ RunUsers' \in SUBSET Cores /\ FlightUsers' \in SUBSET Cores
  BY DEF RunUsers, FlightUsers
<1>b. /\ IsFiniteSet(RunUsers) /\ Cardinality(RunUsers) \in Nat
      /\ IsFiniteSet(FlightUsers) /\ Cardinality(FlightUsers) \in Nat
      /\ IsFiniteSet(RunUsers') /\ Cardinality(RunUsers') \in Nat
      /\ IsFiniteSet(FlightUsers') /\ Cardinality(FlightUsers') \in Nat
  BY <1>a, UsersFinite
<1> DEFINE Same == RunUsers' = RunUsers /\ FlightUsers' = FlightUsers
                   /\ pm_refcount' = pm_refcount
<1>s. Same => CountInv'
  BY <1>0 DEF CountInv
<1>1. ASSUME NEW c \in Cores, RunStep(c) PROVE CountInv'
  <2>1. CASE RunGot(c)
    <3>1. /\ c \notin RunUsers /\ RunUsers' = RunUsers \cup {c}
          /\ FlightUsers' = FlightUsers
      BY <1>0, <2>1 DEF RunGot, RunUsers, FlightUsers, TypeOK
    <3>2. Cardinality(RunUsers') = Cardinality(RunUsers) + 1
      BY <1>b, <3>1, FS_AddElement
    <3> QED
      BY <1>0, <1>b, <2>1, <3>1, <3>2 DEF RunGot, CountInv
  <2>2. CASE RunPublish(c)
    <3>1. ~in_flight[c] /\ at[Reset(c)] \in {"idle", "stop"}
      BY <1>0, <2>2 DEF RunPublish, JobInv, JobLockInv
    <3>2. /\ c \in RunUsers /\ RunUsers' = RunUsers \ {c}
          /\ c \notin FlightUsers /\ FlightUsers' = FlightUsers \cup {c}
      BY <1>0, <2>2, <3>1 DEF RunPublish, RunUsers, FlightUsers, TypeOK
    <3>3. /\ Cardinality(RunUsers') = Cardinality(RunUsers) - 1
          /\ Cardinality(FlightUsers') = Cardinality(FlightUsers) + 1
      BY <1>b, <3>2, FS_AddElement, FS_RemoveElement
    <3> QED
      BY <1>0, <1>b, <2>2, <3>3 DEF RunPublish, CountInv
  <2>3. CASE RunPutDone(c)
    <3>1. /\ c \in RunUsers /\ RunUsers' = RunUsers \ {c}
          /\ FlightUsers' = FlightUsers
      BY <1>0, <2>3 DEF RunPutDone, RunUsers, FlightUsers, TypeOK
    <3>2. Cardinality(RunUsers') = Cardinality(RunUsers) - 1
      BY <1>b, <3>1, FS_RemoveElement
    <3> QED
      BY <1>0, <1>b, <2>3, <3>1, <3>2 DEF RunPutDone, CountInv
  <2>4. CASE \/ \E f \in Files : RunStart(c, f)
             \/ RunGet(c) \/ RunGetFail(c) \/ RunLock(c) \/ RunSwitch(c)
             \/ RunSwitched(c) \/ RunSwitchFail(c) \/ RunPut(c)
    BY <1>0, <2>4, <1>s DEF RunStart, RunGet, RunGetFail, RunLock, RunSwitch,
       RunSwitched, RunSwitchFail, RunPut, RunUsers, FlightUsers, TypeOK
  <2> QED
    BY <1>1, <2>1, <2>2, <2>3, <2>4 DEF RunStep, RunGoesOn
<1>2. ASSUME NEW c \in Cores, IrqStep(c) PROVE CountInv'
  <2>1. CASE IrqDone(c)
    <3>1. in_flight[c] /\ at[Reset(c)] \notin {"switch", "switching", "end"}
      BY <1>0, <2>1 DEF IrqDone, JobInv, JobLockInv
    <3>2. /\ c \in FlightUsers /\ FlightUsers' = FlightUsers \ {c}
          /\ RunUsers' = RunUsers
      BY <1>0, <2>1, <3>1 DEF IrqDone, RunUsers, FlightUsers, TypeOK
    <3>3. Cardinality(FlightUsers') = Cardinality(FlightUsers) - 1
      BY <1>b, <3>2, FS_RemoveElement
    <3> QED
      BY <1>0, <1>b, <2>1, <3>2, <3>3 DEF IrqDone, CountInv
  <2>2. CASE IrqStart(c) \/ IrqNothing(c) \/ IrqLock(c) \/ IrqPut(c)
    BY <1>0, <2>2, <1>s DEF IrqStart, IrqNothing, IrqLock, IrqPut, RunUsers,
       FlightUsers, TypeOK
  <2> QED
    BY <1>2, <2>1, <2>2 DEF IrqStep, IrqGoesOn
<1>3. ASSUME NEW c \in Cores, ResetStep(c) PROVE CountInv'
  <2>1. CASE ResetPutDone(c)
    <3>1. in_flight[c]
      BY <1>0, <2>1 DEF ResetPutDone, JobInv
    <3>2. /\ c \in FlightUsers /\ FlightUsers' = FlightUsers \ {c}
          /\ RunUsers' = RunUsers
      BY <1>0, <2>1, <3>1 DEF ResetPutDone, after_put, RunUsers, FlightUsers, TypeOK
    <3>3. Cardinality(FlightUsers') = Cardinality(FlightUsers) - 1
      BY <1>b, <3>2, FS_RemoveElement
    <3> QED
      BY <1>0, <1>b, <2>1, <3>2, <3>3 DEF ResetPutDone, CountInv
  <2>2. CASE ResetStart(c) \/ ResetStop(c) \/ ResetLock(c) \/ ResetPut(c)
             \/ ResetSwitch(c) \/ ResetSwitched(c) \/ ResetEnd(c)
    BY <1>0, <2>2, <1>s DEF ResetStart, ResetStop, ResetLock, ResetPut,
       ResetSwitch, ResetSwitched, ResetEnd, after_put, RunUsers, FlightUsers, TypeOK
  <2> QED
    BY <1>3, <2>1, <2>2 DEF ResetStep, ResetGoesOn
<1>4. ASSUME NEW f \in Files, CloseStep(f) PROVE CountInv'
  BY <1>0, <1>4, <1>s DEF CloseStep, CloseStart, CloseGoesOn, CloseEntity,
     CloseEntitiesDone, CloseSkip, CloseLock, CloseDetached, CloseEnd,
     RunUsers, FlightUsers, TypeOK
<1>5. CASE UNCHANGED vars
  BY <1>0, <1>5, <1>s DEF vars, RunUsers, FlightUsers
<1>6. CountInv'
  BY <1>1, <1>2, <1>3, <1>4, <1>5, NextCases
<1> QED
  BY <1>b, <1>6 DEF CountInv

-----------------------------------------------------------------------------
(* The theorems.                                                            *)

\* The invariant holds in every reachable state.
THEOREM Invariance == Spec => []IndInv
<1>1. Init => IndInv
  BY InitInv
<1>2. IndInv /\ [Next]_vars => IndInv'
  <2> SUFFICES ASSUME IndInv, [Next]_vars PROVE IndInv'
    OBVIOUS
  <2>0. TypeOK /\ PlaceInv /\ PmLockInv /\ JobLockInv /\ JobInv
    BY DEF IndInv
  <2>1. CountInv' /\ pm_refcount' \in Nat
    BY CountStep
  <2>2. TypeOK'
    BY <2>0, <2>1, TypeStep
  <2>3. PlaceInv' /\ PmLockInv' /\ JobLockInv' /\ JobInv'
    BY <2>0, PlaceStep, PmLockStep, JobLockStep, JobStep
  <2> QED
    BY <2>1, <2>2, <2>3 DEF IndInv
<1> QED
  BY <1>1, <1>2, PTL DEF Spec

\* The types of the variables; the power unit's count does not go below zero
\* in any interleaving of starts, completions, resets and closes.
THEOREM TypeCorrect == Spec => []TypeOK
<1>1. IndInv => TypeOK
  BY DEF IndInv
<1> QED
  BY <1>1, Invariance, PTL

\* Who holds pm_lock is inside its section and waits for nobody.
LEMMA PmOwnerRuns ==
  ASSUME IndInv, pm_lock # NULL
  PROVE  pm_lock \in Threads /\ at[pm_lock] \in {"getting", "switching", "putting"}
<1>1. pm_lock \in Threads /\ PlaceInv /\ PmLockInv
  BY DEF IndInv, TypeOK
<1> QED
  BY <1>1, ThreadCases DEF PmLockInv

\* Who holds a job_lock has it, waits for pm_lock or waits for nobody.
LEMMA JobOwnerRuns ==
  ASSUME IndInv, NEW c \in Cores, job_lock[c] # NULL
  PROVE  /\ job_lock[c] \in Threads
         /\ at[job_lock[c]] \in {"switch", "switching", "publish", "put", "putting", "end"}
<1>1. job_lock[c] \in Threads /\ PlaceInv /\ JobLockInv
  BY DEF IndInv, TypeOK
<1>2. CASE \E d \in Cores : job_lock[c] = Run(d) \/ job_lock[c] = Irq(d)
                            \/ job_lock[c] = Reset(d)
  BY <1>1, <1>2 DEF JobLockInv
<1>3. CASE \E f \in Files : job_lock[c] = Close(f)
  BY <1>1, <1>3 DEF JobLockInv
<1> QED
  BY <1>1, <1>2, <1>3, ThreadCases

\* rocket_job.c 379-383: no threads wait for one another in a circle.  The
\* places a thread can wait at are ordered: inside drm_sched, for job_lock, for
\* pm_lock, and who is waited for is always further on.
THEOREM DeadlockFree == Spec => []NoCircularWait
<1>1. IndInv => NoCircularWait
  <2> SUFFICES ASSUME IndInv,
                      NEW S \in SUBSET {t \in Threads : WaitsFor(t) # {}},
                      \A t \in S : WaitsFor(t) \cap S # {}
               PROVE  S = {}
    BY DEF NoCircularWait
  <2>0. /\ at \in [Threads -> Labels] /\ PlaceInv /\ NULL \notin Threads
        /\ \A t \in S : t \in Threads /\ WaitsFor(t) # {}
    BY ThreadKinds DEF IndInv, TypeOK
  \* Nobody in S waits for pm_lock.
  <2>1. ASSUME NEW t \in S PROVE at[t] \notin {"get", "put", "switch"}
    <3>1. SUFFICES ASSUME at[t] \in {"get", "put", "switch"} PROVE FALSE
      OBVIOUS
    <3>2. WaitsFor(t) = Owner(pm_lock)
      BY <3>1 DEF WaitsFor
    <3>3. pm_lock # NULL /\ pm_lock \in S
      BY <3>2 DEF Owner
    <3>4. at[pm_lock] \in {"getting", "switching", "putting"}
      BY <3>3, PmOwnerRuns
    <3>5. WaitsFor(pm_lock) = {}
      BY <3>4 DEF WaitsFor
    <3> QED
      BY <2>0, <3>3, <3>5
  \* Nor for a job_lock.
  <2>2. ASSUME NEW c \in Cores, NEW t \in S, WaitsFor(t) = Owner(job_lock[c])
        PROVE  FALSE
    <3>1. job_lock[c] # NULL /\ job_lock[c] \in S
      BY <2>2 DEF Owner
    <3>2. at[job_lock[c]] \in {"switch", "switching", "publish", "put", "putting", "end"}
      BY <3>1, JobOwnerRuns
    <3>3. at[job_lock[c]] \in {"switching", "publish", "putting", "end"}
      BY <2>1, <3>1, <3>2
    <3>4. WaitsFor(job_lock[c]) = {}
      BY <3>3 DEF WaitsFor
    <3> QED
      BY <2>0, <3>1, <3>4
  \* Hence no run worker is in S, and nobody in S waits for one.
  <2>3. ASSUME NEW c \in Cores PROVE Run(c) \notin S
    <3> SUFFICES ASSUME Run(c) \in S PROVE FALSE
      OBVIOUS
    <3>1. at[Run(c)] \in {"idle", "getting", "attach", "switching", "publish", "putting"}
      BY <2>0, <2>1 DEF PlaceInv
    <3>2. CASE at[Run(c)] = "attach"
      BY <2>2, <3>2 DEF WaitsFor, Run
    <3>3. CASE at[Run(c)] # "attach"
      BY <2>0, <3>1, <3>3 DEF WaitsFor
    <3> QED
      BY <3>2, <3>3
  <2>4. ASSUME NEW c \in Cores, NEW t \in S, WaitsFor(t) \subseteq Busy(c)
        PROVE  FALSE
    BY <2>3, <2>4 DEF Busy
  <2>5. ASSUME NEW c \in Cores PROVE Irq(c) \notin S
    <3> SUFFICES ASSUME Irq(c) \in S PROVE FALSE
      OBVIOUS
    <3>1. at[Irq(c)] \in {"idle", "irq", "putting"}
      BY <2>0, <2>1 DEF PlaceInv
    <3>2. CASE at[Irq(c)] = "irq"
      BY <2>2, <3>2 DEF WaitsFor, Irq
    <3>3. CASE at[Irq(c)] # "irq"
      BY <2>0, <3>1, <3>3 DEF WaitsFor
    <3> QED
      BY <3>2, <3>3
  <2>6. ASSUME NEW c \in Cores PROVE Reset(c) \notin S
    <3> SUFFICES ASSUME Reset(c) \in S PROVE FALSE
      OBVIOUS
    <3>1. at[Reset(c)] \in {"idle", "stop", "reset", "putting", "switching", "end"}
      BY <2>0, <2>1 DEF PlaceInv
    <3>2. CASE at[Reset(c)] = "reset"
      BY <2>2, <3>2 DEF WaitsFor, Reset
    <3>3. CASE at[Reset(c)] = "stop"
      BY <2>4, <3>3 DEF WaitsFor, Reset
    <3>4. CASE at[Reset(c)] \notin {"reset", "stop"}
      BY <2>0, <3>1, <3>4 DEF WaitsFor
    <3> QED
      BY <3>2, <3>3, <3>4
  <2>7. ASSUME NEW f \in Files PROVE Close(f) \notin S
    <3> SUFFICES ASSUME Close(f) \in S PROVE FALSE
      OBVIOUS
    <3>1. at[Close(f)] \in {"idle", "entities", "detach", "switching"}
      BY <2>0 DEF PlaceInv
    <3>2. Close(f)[2] = f
      BY DEF Close
    <3>3. CASE at[Close(f)] = "detach" /\ next[f] \in Cores
      BY <2>2, <3>2, <3>3 DEF WaitsFor
    <3>4. CASE at[Close(f)] = "entities" /\ next[f] \in Cores
      BY <2>4, <3>2, <3>4 DEF WaitsFor
    <3>5. CASE at[Close(f)] \in {"idle", "switching"} \/ next[f] \notin Cores
      BY <2>0, <3>1, <3>2, <3>5 DEF WaitsFor
    <3> QED
      BY <3>1, <3>3, <3>4, <3>5
  <2> QED
    BY <2>0, <2>3, <2>5, <2>6, <2>7, ThreadCases
<1> QED
  BY <1>1, Invariance, PTL

\* rocket_job.c 360-373, 462-467: no domain change of the run worker or the
\* reset races a transition of the power unit, because both hold pm_lock.
THEOREM SwitchesSerialized == Spec => []SwitchSerialized
<1>1. IndInv => SwitchSerialized
  <2> SUFFICES ASSUME IndInv, NEW c \in Cores, NEW u \in Threads,
                      at[Run(c)] = "switching" \/ at[Reset(c)] = "switching",
                      InTransition(u)
               PROVE  FALSE
    BY DEF SwitchSerialized
  <2>1. PlaceInv /\ PmLockInv
    BY DEF IndInv
  <2>2. pm_lock \in {Run(c), Reset(c)} /\ at[pm_lock] = "switching"
    BY <2>1 DEF PmLockInv
  <2>3. at[u] \in {"getting", "putting"}
    BY DEF InTransition
  <2>4. pm_lock = u
    BY <2>1, <2>3, ThreadCases DEF PmLockInv, PlaceInv
  <2> QED
    BY <2>2, <2>3, <2>4
<1> QED
  BY <1>1, Invariance, PTL

\* rocket_job.c 356-358: one thread at a time changes the domain of a core, or
\* publishes a job there, because each holds the core's job_lock.
THEOREM SwitchesExclusive == Spec => []OneSwitchPerCore
<1>1. IndInv => OneSwitchPerCore
  <2> SUFFICES ASSUME IndInv, NEW c \in Cores PROVE \A t \in Switching(c) : job_lock[c] = t
    BY DEF OneSwitchPerCore
  <2>1. PlaceInv /\ JobLockInv
    BY DEF IndInv
  <2>2. \A f \in Files : Close(f)[2] = f
    BY DEF Close
  <2>3. ASSUME NEW t \in {Run(c), Reset(c)}, at[t] \in {"switching", "publish"}
        PROVE  job_lock[c] = t
    BY <2>1, <2>3 DEF PlaceInv, JobLockInv
  <2>4. ASSUME NEW f \in Files, at[Close(f)] = "switching", next[Close(f)[2]] = c
        PROVE  job_lock[c] = Close(f)
    BY <2>1, <2>2, <2>4 DEF JobLockInv
  <2> QED
    BY <2>3, <2>4 DEF Switching
<1> QED
  BY <1>1, Invariance, PTL

=============================================================================
