-------------------------- MODULE RocketBorrowProofs --------------------------
(***************************************************************************)
(* Proofs about RocketBorrow for any number of buffers and calls, also     *)
(* infinitely many: the references of a buffer are counted exactly, and    *)
(* from that no call works on a freed buffer that user space did not       *)
(* misuse, and a SUBMIT that returns and a closed file leave nothing.      *)
(***************************************************************************)
EXTENDS RocketBorrow, FiniteSetTheorems, TLAPS

-----------------------------------------------------------------------------
(* The inductive invariant.                                                 *)

\* A SUBMIT has its buffer mapped from the vmap to out_vunmap, and a reference
\* from a step earlier to a step later.
Mapping == {"vmapped", "allocated", "initialised", "ready", "waiting", "out_cleanup",
            "out_put_job", "out_vunmap"}
Holding == Mapping \cup {"submit_ref", "out_put", "map", "map_done"}

\* The calls that hold a reference on b, and those that have it mapped.
Holders(b) == {i \in Ioctls : bo[i] = b /\ at[i] \in Holding}
Mappers(b) == {i \in Ioctls : bo[i] = b /\ at[i] \in Mapping}

\* A call names a buffer from its start to its end.
CallInv == \A i \in Ioctls : bo[i] = NULL <=> at[i] \in {"idle", "done"}

\* At any time finitely many calls hold references, and the counts count them.
One(p) == IF p THEN 1 ELSE 0
RefInv ==
    \A b \in Bos :
        /\ IsFiniteSet(Holders(b))
        /\ gemref[b] = Cardinality(Holders(b)) + One(handle[b]) + One(dmabuf[b])

MapInv ==
    \A b \in Bos :
        /\ IsFiniteSet(Mappers(b))
        /\ mapped[b] = Cardinality(Mappers(b))

\* A buffer is freed with its last reference.  One that was freed gets a
\* reference again only from a call that user space should not have made, and as
\* long as there was none, a buffer named without a reference has its handle.
LifeInv ==
    \A b \in Bos :
        /\ ~freed[b] => gemref[b] > 0
        /\ freed[b] /\ ~raced[b] => gemref[b] = 0
        /\ ~raced[b] /\ Borrowers(b) # {} => handle[b]

\* What there can be of a job at each position of its SUBMIT.
JobAt(p) ==
    CASE p = "allocated" -> {{"job"}}
      [] p = "initialised" -> {{"job", "init"}}
      [] p = "ready" -> {{"job", "init", "domain"}}
      [] p = "waiting" -> {Parts, {"job", "domain"}}
      [] p = "out_cleanup" -> {{"job", "init"}, {"job", "init", "domain"}}
      [] p = "out_put_job" -> {{"job"}, {"job", "domain"}, Parts}
      [] p \in {"out_vunmap", "out_put", "done"} -> {{}, {"sched", "init", "domain"}}
      [] OTHER -> {{}}

HeldInv == \A i \in Ioctls : held[i] \in JobAt(at[i])

\* After the close no call is left and no handle.
ClosedInv ==
    closed => /\ \A i \in Ioctls : at[i] \in {"idle", "done"}
              /\ \A b \in Bos : ~handle[b]

IndInv ==
    /\ TypeOK
    /\ CallInv
    /\ RefInv
    /\ MapInv
    /\ LifeInv
    /\ HeldInv
    /\ ClosedInv

-----------------------------------------------------------------------------
(* What the actions do, by what they do to the references.                  *)

\* The initial states: every buffer has its handle's reference.
LEMMA InitInv == Init => IndInv
<1> SUFFICES ASSUME Init PROVE IndInv
  OBVIOUS
<1>1. CallInv /\ ClosedInv
  BY BorrowAssumption DEF Init, CallInv, ClosedInv
<1>2. TypeOK
  <2>1. gemref \in [Bos -> Nat] /\ mapped \in [Bos -> Nat]
    BY DEF Init
  <2>2. at \in [Ioctls -> Positions] /\ held \in [Ioctls -> SUBSET Parts]
    BY DEF Init, Positions
  <2> QED
    BY <2>1, <2>2 DEF Init, TypeOK
<1>3. ASSUME NEW b \in Bos PROVE Holders(b) = {} /\ Mappers(b) = {} /\ Borrowers(b) = {}
  BY DEF Init, Holders, Mappers, Borrowers, Holding, Mapping
<1>4. ASSUME NEW b \in Bos
      PROVE  gemref[b] = 1 /\ mapped[b] = 0 /\ handle[b] /\ ~dmabuf[b] /\ ~freed[b]
  BY DEF Init
<1>5. RefInv /\ MapInv /\ LifeInv
  BY <1>3, <1>4, FS_EmptySet DEF RefInv, MapInv, LifeInv, One
<1>6. HeldInv
  <2>1. JobAt("idle") = {{}}
    BY DEF JobAt
  <2> QED
    BY <2>1 DEF Init, HeldInv
<1> QED
  BY <1>1, <1>2, <1>5, <1>6 DEF IndInv

\* A call names a buffer; it ends or goes on without a change of the references.
Names(i) == \E b \in Bos : SubmitStart(i, b) \/ SyncStart(i, b)
Passes(i) ==
    \/ SubmitNothing(i) \/ SubmitVmap(i) \/ JobSteps(i) \/ OutVunmap(i)
    \/ MapOffset(i) \/ SyncDone(i)

\* It takes a reference; it puts one.
Gets(i) == SubmitGet(i) \/ \E b \in Bos : MapLookup(i, b)
Puts(i) == SubmitVmapFail(i) \/ SubmitPut(i) \/ MapPut(i)

\* Every step is one of these, one of a handle or a dmabuf, or the close.
LEMMA NextCases ==
  ASSUME [Next]_vars
  PROVE  \/ \E i \in Ioctls : Names(i) \/ Passes(i) \/ Gets(i) \/ Puts(i)
         \/ \E b \in Bos : MemDestroy(b) \/ Export(b) \/ DmabufRelease(b)
         \/ CloseFile
         \/ UNCHANGED vars
  BY DEF Next, Names, Passes, Gets, Puts

\* The steps of the job leave the buffers alone, and the SUBMIT keeps its
\* mapping throughout.
LEMMA JobMoves ==
  ASSUME TypeOK, NEW i \in Ioctls, JobSteps(i)
  PROVE  /\ UNCHANGED <<gemref, freed, handle, dmabuf, mapped, offset, bo, closed, raced>>
         /\ \/ at' = at
            \/ at[i] \in Mapping /\ \E q \in Mapping : at' = [at EXCEPT ![i] = q]
         /\ \E h \in SUBSET Parts : held' = [held EXCEPT ![i] = h]
<1> USE DEF Adds, Jumps, Go, Mapping, Parts, bufVars
<1>1. held[i] \subseteq Parts
  BY DEF TypeOK
<1>2. held' = held => \E h \in SUBSET Parts : held' = [held EXCEPT ![i] = h]
  <2>1. held = [held EXCEPT ![i] = held[i]]
    BY DEF TypeOK
  <2> QED
    BY <1>1, <2>1
<1>3. CASE JobAlloc(i) \/ JobInit(i) \/ DomainGet(i) \/ JobPush(i)
  BY <1>1, <1>3 DEF JobAlloc, JobInit, DomainGet, JobPush
<1>4. CASE JobAllocFail(i) \/ JobInitFail(i) \/ DomainGetFail(i) \/ JobPushFail(i)
  BY <1>2, <1>4 DEF JobAllocFail, JobInitFail, DomainGetFail, JobPushFail
<1>5. CASE WaitDone(i) \/ WaitExpire(i)
  BY <1>2, <1>5 DEF WaitDone, WaitExpire
<1>6. CASE OutCleanup(i) \/ OutPutJob(i)
  BY <1>1, <1>6 DEF OutCleanup, OutPutJob, without
<1>7. CASE JobFree(i)
  BY <1>1, <1>7 DEF JobFree, without
<1> QED
  BY <1>3, <1>4, <1>5, <1>6, <1>7 DEF JobSteps

\* Every variable but the counts keeps its type, and a call names a buffer
\* exactly while it runs.
LEMMA CallStep ==
  ASSUME TypeOK, CallInv, [Next]_vars
  PROVE  /\ gemref' \in [Bos -> Nat] /\ mapped' \in [Bos -> Nat] => TypeOK'
         /\ CallInv'
<1> USE BorrowAssumption DEF TypeOK, CallInv, Go, End, get, put, Positions, bufVars
<1> DEFINE Good == /\ gemref' \in [Bos -> Nat] /\ mapped' \in [Bos -> Nat] => TypeOK'
                   /\ CallInv'
<1>1. ASSUME NEW i \in Ioctls, Names(i) PROVE Good
  <2>1. PICK b \in Bos : name(i, b, "submit") \/ name(i, b, "sync")
    BY <1>1 DEF Names, SubmitStart, SyncStart
  <2>2. /\ at' \in [Ioctls -> Positions] /\ bo' \in [Ioctls -> Bos \cup {NULL}]
        /\ CallInv'
    BY <2>1 DEF name
  <2>3. /\ raced' \in [Bos -> BOOLEAN] /\ closed' \in BOOLEAN
        /\ held' \in [Ioctls -> SUBSET Parts]
        /\ freed' = freed /\ handle' = handle /\ dmabuf' = dmabuf /\ offset' = offset
    BY <2>1 DEF name
  <2> QED
    BY <2>2, <2>3
<1>2. ASSUME NEW i \in Ioctls, Passes(i) PROVE Good
  <2>1. CASE JobSteps(i)
    BY <2>1, JobMoves DEF Mapping
  <2>2. CASE ~JobSteps(i)
    BY <1>2, <2>2 DEF Passes, SubmitNothing, SubmitVmap, OutVunmap, MapOffset, SyncDone
  <2> QED
    BY <2>1, <2>2
<1>3. ASSUME NEW i \in Ioctls, Gets(i) PROVE Good
  BY <1>3 DEF Gets, SubmitGet, MapLookup
<1>4. ASSUME NEW i \in Ioctls, Puts(i) PROVE Good
  BY <1>4 DEF Puts, SubmitVmapFail, SubmitPut, MapPut
<1>5. ASSUME NEW b \in Bos, MemDestroy(b) \/ Export(b) \/ DmabufRelease(b) PROVE Good
  BY <1>5 DEF MemDestroy, Export, DmabufRelease
<1>6. CASE CloseFile
  BY <1>6 DEF CloseFile
<1>7. CASE UNCHANGED vars
  BY <1>7 DEF vars
<1> QED
  BY <1>1, <1>2, <1>3, <1>4, <1>5, <1>6, <1>7, NextCases

\* The references: a get adds its call to the holders of one buffer, a put
\* removes it, and nothing else changes the holders.
LEMMA RefStep ==
  ASSUME TypeOK, CallInv, RefInv, [Next]_vars
  PROVE  RefInv' /\ gemref' \in [Bos -> Nat]
<1> USE BorrowAssumption DEF Go, End, get, put, bufVars
<1>0. ASSUME NEW b \in Bos
      PROVE  /\ IsFiniteSet(Holders(b)) /\ Cardinality(Holders(b)) \in Nat
             /\ gemref[b] = Cardinality(Holders(b)) + One(handle[b]) + One(dmabuf[b])
             /\ handle[b] \in BOOLEAN /\ dmabuf[b] \in BOOLEAN
             /\ One(handle[b]) \in Nat /\ One(dmabuf[b]) \in Nat
  BY FS_CardinalityType DEF RefInv, TypeOK, One
<1>1. ASSUME NEW i \in Ioctls, Names(i) \/ Passes(i), NEW b \in Bos
      PROVE  /\ Holders(b)' = Holders(b) /\ gemref'[b] = gemref[b]
             /\ handle'[b] = handle[b] /\ dmabuf'[b] = dmabuf[b]
  <2>1. CASE JobSteps(i)
    BY <2>1, JobMoves DEF Holders, Holding, TypeOK
  <2>2. CASE ~JobSteps(i)
    BY <1>1, <2>2 DEF Names, Passes, SubmitStart, SyncStart, name, SubmitNothing, SubmitVmap,
       OutVunmap, MapOffset, SyncDone, Holders, Holding, Mapping, TypeOK, CallInv
  <2> QED
    BY <2>1, <2>2
<1>2. ASSUME NEW i \in Ioctls, Gets(i), NEW b \in Bos
      PROVE  /\ handle'[b] = handle[b] /\ dmabuf'[b] = dmabuf[b]
             /\ IF bo'[i] = b
                THEN /\ i \notin Holders(b) /\ Holders(b)' = Holders(b) \cup {i}
                     /\ gemref'[b] = gemref[b] + 1
                ELSE Holders(b)' = Holders(b) /\ gemref'[b] = gemref[b]
  BY <1>2 DEF Gets, SubmitGet, MapLookup, Holders, Holding, Mapping, TypeOK, CallInv
<1>3. ASSUME NEW i \in Ioctls, Puts(i), NEW b \in Bos
      PROVE  /\ handle'[b] = handle[b] /\ dmabuf'[b] = dmabuf[b]
             /\ IF bo[i] = b
                THEN /\ i \in Holders(b) /\ Holders(b)' = Holders(b) \ {i}
                     /\ gemref'[b] = gemref[b] - 1
                ELSE Holders(b)' = Holders(b) /\ gemref'[b] = gemref[b]
  BY <1>3 DEF Puts, SubmitVmapFail, SubmitPut, MapPut, Holders, Holding, Mapping, TypeOK, CallInv
<1>4. ASSUME NEW d \in Bos, MemDestroy(d) \/ Export(d) \/ DmabufRelease(d), NEW b \in Bos
      PROVE  /\ Holders(b)' = Holders(b)
             /\ gemref'[b] = gemref[b] + (One(handle'[b]) - One(handle[b]))
                                       + (One(dmabuf'[b]) - One(dmabuf[b]))
  <2>1. Holders(b)' = Holders(b)
    BY <1>4 DEF MemDestroy, Export, DmabufRelease, Holders
  <2>2. gemref[b] \in Nat
    BY DEF TypeOK
  <2>3. CASE b = d
    <3>1. CASE MemDestroy(d)
      BY <2>1, <2>2, <2>3, <3>1 DEF MemDestroy, One, TypeOK
    <3>2. CASE Export(d)
      BY <2>1, <2>2, <2>3, <3>2 DEF Export, One, TypeOK
    <3>3. CASE DmabufRelease(d)
      BY <2>1, <2>2, <2>3, <3>3 DEF DmabufRelease, One, TypeOK
    <3> QED
      BY <1>4, <3>1, <3>2, <3>3
  <2>4. CASE b # d
    <3>1. gemref'[b] = gemref[b] /\ handle'[b] = handle[b] /\ dmabuf'[b] = dmabuf[b]
      BY <1>4, <2>4 DEF MemDestroy, Export, DmabufRelease, TypeOK
    <3> QED
      BY <1>0, <2>1, <2>2, <3>1
  <2> QED
    BY <2>1, <2>3, <2>4
<1>5. ASSUME CloseFile, NEW b \in Bos
      PROVE  /\ Holders(b)' = Holders(b) /\ ~handle'[b] /\ dmabuf'[b] = dmabuf[b]
             /\ gemref'[b] = gemref[b] - One(handle[b])
  BY <1>5 DEF CloseFile, Holders, TypeOK, One
<1>6. ASSUME UNCHANGED vars, NEW b \in Bos
      PROVE  /\ Holders(b)' = Holders(b) /\ gemref'[b] = gemref[b]
             /\ handle'[b] = handle[b] /\ dmabuf'[b] = dmabuf[b]
  BY <1>6 DEF vars, Holders
<1>7. ASSUME NEW b \in Bos
      PROVE  /\ IsFiniteSet(Holders(b)')
             /\ gemref'[b] = Cardinality(Holders(b)') + One(handle'[b]) + One(dmabuf'[b])
  <2> DEFINE Good == /\ IsFiniteSet(Holders(b)')
                     /\ gemref'[b] = Cardinality(Holders(b)') + One(handle'[b]) + One(dmabuf'[b])
  <2>1. ASSUME NEW i \in Ioctls, Gets(i), bo'[i] = b PROVE Good
    <3>1. IsFiniteSet(Holders(b)') /\ Cardinality(Holders(b)') = Cardinality(Holders(b)) + 1
      BY <1>0, <1>2, <2>1, FS_AddElement
    <3> QED
      BY <1>0, <1>2, <2>1, <3>1
  <2>2. ASSUME NEW i \in Ioctls, Puts(i), bo[i] = b PROVE Good
    <3>1. IsFiniteSet(Holders(b)') /\ Cardinality(Holders(b)') = Cardinality(Holders(b)) - 1
      BY <1>0, <1>3, <2>2, FS_RemoveElement
    <3> QED
      BY <1>0, <1>3, <2>2, <3>1
  <2>3. ASSUME NEW d \in Bos, MemDestroy(d) \/ Export(d) \/ DmabufRelease(d) PROVE Good
    <3>1. One(handle'[b]) \in Nat /\ One(dmabuf'[b]) \in Nat
      BY DEF One
    <3> QED
      BY <1>0, <1>4, <2>3, <3>1
  <2>4. ASSUME CloseFile PROVE Good
    <3>1. One(handle'[b]) = 0
      BY <1>5, <2>4 DEF One
    <3>2. Holders(b)' = Holders(b) /\ dmabuf'[b] = dmabuf[b] /\ gemref'[b] = gemref[b] - One(handle[b])
      BY <1>5, <2>4
    <3> QED
      BY <1>0, <3>1, <3>2
  <2>5. ASSUME NEW i \in Ioctls, \/ Names(i) \/ Passes(i)
                                 \/ Gets(i) /\ bo'[i] # b
                                 \/ Puts(i) /\ bo[i] # b
        PROVE  Good
    <3>1. /\ Holders(b)' = Holders(b) /\ gemref'[b] = gemref[b]
          /\ handle'[b] = handle[b] /\ dmabuf'[b] = dmabuf[b]
      BY <1>1, <1>2, <1>3, <2>5
    <3> QED
      BY <1>0, <3>1
  <2>6. ASSUME UNCHANGED vars PROVE Good
    BY <1>0, <1>6, <2>6
  <2> HIDE DEF Good
  <2>7. Good
    <3>1. ASSUME NEW i \in Ioctls, Names(i) \/ Passes(i) PROVE Good
      BY <2>5, <3>1
    <3>2. ASSUME NEW i \in Ioctls, Gets(i) PROVE Good
      BY <2>1, <2>5, <3>2
    <3>3. ASSUME NEW i \in Ioctls, Puts(i) PROVE Good
      BY <2>2, <2>5, <3>3
    <3> QED
      BY <2>3, <2>4, <2>6, <3>1, <3>2, <3>3, NextCases
  <2> QED
    BY <2>7 DEF Good
<1>8. \A b \in Bos : gemref'[b] \in Nat
  BY <1>7, FS_CardinalityType DEF One
<1>9. gemref' = [b \in Bos |-> gemref'[b]]
  <2>1. gemref = [b \in Bos |-> gemref[b]]
    BY DEF TypeOK
  <2>2. ASSUME NEW i \in Ioctls, Names(i) \/ Passes(i) \/ Gets(i) \/ Puts(i)
        PROVE  gemref' = [b \in Bos |-> gemref'[b]]
    <3>1. CASE JobSteps(i)
      BY <2>1, <3>1, JobMoves
    <3>2. CASE ~JobSteps(i)
      BY <2>1, <2>2, <3>2 DEF Names, Passes, Gets, Puts, SubmitStart, SyncStart, name,
         SubmitNothing, SubmitVmap, OutVunmap, MapOffset, SyncDone, SubmitGet, MapLookup,
         SubmitVmapFail, SubmitPut, MapPut
    <3> QED
      BY <3>1, <3>2
  <2>3. CASE \/ \E b \in Bos : MemDestroy(b) \/ Export(b) \/ DmabufRelease(b)
             \/ CloseFile \/ UNCHANGED vars
    BY <2>1, <2>3 DEF MemDestroy, Export, DmabufRelease, CloseFile, vars
  <2> QED
    BY <2>2, <2>3, NextCases
<1> QED
  BY <1>7, <1>8, <1>9 DEF RefInv

\* The mappings: vmap adds a mapper, vunmap removes one.
LEMMA MapStep ==
  ASSUME TypeOK, CallInv, MapInv, [Next]_vars
  PROVE  MapInv' /\ mapped' \in [Bos -> Nat]
<1> USE BorrowAssumption DEF Go, End, get, put, bufVars
<1>0. ASSUME NEW b \in Bos
      PROVE  /\ IsFiniteSet(Mappers(b)) /\ Cardinality(Mappers(b)) \in Nat
             /\ mapped[b] = Cardinality(Mappers(b))
  BY FS_CardinalityType DEF MapInv
<1>1. ASSUME NEW i \in Ioctls, SubmitVmap(i), NEW b \in Bos
      PROVE  IF bo[i] = b
             THEN /\ i \notin Mappers(b) /\ Mappers(b)' = Mappers(b) \cup {i}
                  /\ mapped'[b] = mapped[b] + 1
             ELSE Mappers(b)' = Mappers(b) /\ mapped'[b] = mapped[b]
  BY <1>1 DEF SubmitVmap, Mappers, Mapping, TypeOK, CallInv
<1>2. ASSUME NEW i \in Ioctls, OutVunmap(i), NEW b \in Bos
      PROVE  IF bo[i] = b
             THEN /\ i \in Mappers(b) /\ Mappers(b)' = Mappers(b) \ {i}
                  /\ mapped'[b] = mapped[b] - 1
             ELSE Mappers(b)' = Mappers(b) /\ mapped'[b] = mapped[b]
  BY <1>2 DEF OutVunmap, Mappers, Mapping, TypeOK, CallInv
<1>3. ASSUME ~\E i \in Ioctls : SubmitVmap(i) \/ OutVunmap(i), NEW b \in Bos
      PROVE  Mappers(b)' = Mappers(b) /\ mapped'[b] = mapped[b]
  <2>1. ASSUME NEW i \in Ioctls, Names(i) \/ Passes(i) \/ Gets(i) \/ Puts(i)
        PROVE  Mappers(b)' = Mappers(b) /\ mapped'[b] = mapped[b]
    <3>1. CASE JobSteps(i)
      BY <3>1, JobMoves DEF Mappers, TypeOK
    <3>2. CASE ~JobSteps(i)
      BY <1>3, <2>1, <3>2 DEF Names, Passes, Gets, Puts, SubmitStart, SyncStart, name,
         SubmitNothing, MapOffset, SyncDone, SubmitGet, MapLookup, SubmitVmapFail, SubmitPut,
         MapPut, Mappers, Mapping, TypeOK, CallInv
    <3> QED
      BY <3>1, <3>2
  <2>2. CASE \/ \E d \in Bos : MemDestroy(d) \/ Export(d) \/ DmabufRelease(d)
             \/ CloseFile \/ UNCHANGED vars
    BY <2>2 DEF MemDestroy, Export, DmabufRelease, CloseFile, vars, Mappers
  <2> QED
    BY <2>1, <2>2, NextCases
<1>4. ASSUME NEW b \in Bos
      PROVE  IsFiniteSet(Mappers(b)') /\ mapped'[b] = Cardinality(Mappers(b)')
  <2>1. ASSUME NEW i \in Ioctls, SubmitVmap(i), bo[i] = b
        PROVE  IsFiniteSet(Mappers(b)') /\ mapped'[b] = Cardinality(Mappers(b)')
    BY <1>0, <1>1, <2>1, FS_AddElement
  <2>2. ASSUME NEW i \in Ioctls, OutVunmap(i), bo[i] = b
        PROVE  IsFiniteSet(Mappers(b)') /\ mapped'[b] = Cardinality(Mappers(b)')
    BY <1>0, <1>2, <2>2, FS_RemoveElement
  <2> QED
    BY <1>0, <1>1, <1>2, <1>3, <2>1, <2>2
<1>5. mapped' = [b \in Bos |-> mapped'[b]]
  <2>1. mapped = [b \in Bos |-> mapped[b]]
    BY DEF TypeOK
  <2>2. ASSUME NEW i \in Ioctls, Names(i) \/ Passes(i) \/ Gets(i) \/ Puts(i)
        PROVE  mapped' = [b \in Bos |-> mapped'[b]]
    <3>1. CASE JobSteps(i)
      BY <2>1, <3>1, JobMoves
    <3>2. CASE ~JobSteps(i)
      BY <2>1, <2>2, <3>2 DEF Names, Passes, Gets, Puts, SubmitStart, SyncStart, name,
         SubmitNothing, SubmitVmap, OutVunmap, MapOffset, SyncDone, SubmitGet, MapLookup,
         SubmitVmapFail, SubmitPut, MapPut
    <3> QED
      BY <3>1, <3>2
  <2>3. CASE \/ \E b \in Bos : MemDestroy(b) \/ Export(b) \/ DmabufRelease(b)
             \/ CloseFile \/ UNCHANGED vars
    BY <2>1, <2>3 DEF MemDestroy, Export, DmabufRelease, CloseFile, vars
  <2> QED
    BY <2>2, <2>3, NextCases
<1>6. \A b \in Bos : mapped'[b] \in Nat
  BY <1>4, FS_CardinalityType
<1> QED
  BY <1>4, <1>5, <1>6 DEF MapInv

\* A call that holds a reference keeps the count above zero.
LEMMA HeldCounted ==
  ASSUME TypeOK, RefInv, NEW b \in Bos,
         Holders(b) # {} \/ handle[b] \/ dmabuf[b]
  PROVE  gemref[b] > 0
<1>1. IsFiniteSet(Holders(b)) /\ Cardinality(Holders(b)) \in Nat
  BY FS_CardinalityType DEF RefInv
<1>2. Holders(b) # {} => Cardinality(Holders(b)) # 0
  BY <1>1, FS_EmptySet
<1>3. One(handle[b]) \in Nat /\ One(dmabuf[b]) \in Nat
  BY DEF One
<1>4. (handle[b] => One(handle[b]) = 1) /\ (dmabuf[b] => One(dmabuf[b]) = 1)
  BY DEF One
<1>5. gemref[b] = Cardinality(Holders(b)) + One(handle[b]) + One(dmabuf[b])
  BY DEF RefInv
<1> QED
  BY <1>1, <1>2, <1>3, <1>4, <1>5

\* Buffers live as long as they have references.
LEMMA LifeStep ==
  ASSUME TypeOK, CallInv, RefInv, LifeInv, ClosedInv, [Next]_vars
  PROVE  LifeInv'
<1> USE BorrowAssumption DEF Go, End, get, put, bufVars
<1> SUFFICES ASSUME NEW b \in Bos
             PROVE  /\ ~freed'[b] => gemref'[b] > 0
                    /\ freed'[b] /\ ~raced'[b] => gemref'[b] = 0
                    /\ ~raced'[b] /\ Borrowers(b)' # {} => handle'[b]
  BY DEF LifeInv
<1>0. /\ ~freed[b] => gemref[b] > 0
      /\ freed[b] /\ ~raced[b] => gemref[b] = 0
      /\ ~raced[b] /\ Borrowers(b) # {} => handle[b]
      /\ gemref[b] \in Nat /\ handle[b] \in BOOLEAN /\ raced[b] \in BOOLEAN
      /\ freed[b] \in BOOLEAN
  BY DEF LifeInv, TypeOK
<1>h. handle[b] \/ dmabuf[b] => gemref[b] > 0
  BY HeldCounted
<1> DEFINE Good == /\ ~freed'[b] => gemref'[b] > 0
                   /\ freed'[b] /\ ~raced'[b] => gemref'[b] = 0
                   /\ ~raced'[b] /\ Borrowers(b)' # {} => handle'[b]
<1>1. ASSUME NEW i \in Ioctls, Names(i) PROVE Good
  <2>1. gemref'[b] = gemref[b] /\ freed'[b] = freed[b] /\ handle'[b] = handle[b]
    BY <1>1 DEF Names, SubmitStart, SyncStart, name
  <2>2. PICK d \in Bos : /\ bo' = [bo EXCEPT ![i] = d]
                         /\ raced' = [raced EXCEPT ![d] = raced[d] \/ ~handle[d]]
                         /\ \E p \in {"submit", "sync"} : at' = [at EXCEPT ![i] = p]
    BY <1>1 DEF Names, SubmitStart, SyncStart, name
  <2>3. ~raced'[b] => ~raced[b]
    BY <2>2 DEF TypeOK
  <2>4. CASE d = b
    <3>1. ~raced'[b] => handle[b]
      BY <2>2, <2>4 DEF TypeOK
    <3> QED
      BY <1>0, <2>1, <2>3, <3>1
  <2>5. CASE d # b
    <3>1. Borrowers(b)' \subseteq Borrowers(b)
      BY <2>2, <2>5 DEF Borrowers, TypeOK
    <3> QED
      BY <1>0, <2>1, <2>3, <3>1
  <2> QED
    BY <2>4, <2>5
<1>p. ASSUME NEW i \in Ioctls, Passes(i) PROVE Good
  <2>1. /\ gemref'[b] = gemref[b] /\ freed'[b] = freed[b] /\ raced'[b] = raced[b]
        /\ handle'[b] = handle[b] /\ Borrowers(b)' \subseteq Borrowers(b)
    <3>1. CASE JobSteps(i)
      BY <3>1, JobMoves DEF Borrowers, Mapping, TypeOK
    <3>2. CASE ~JobSteps(i)
      BY <1>p, <3>2 DEF Passes, SubmitNothing, SubmitVmap, OutVunmap, MapOffset, SyncDone,
         Borrowers, TypeOK, CallInv
    <3> QED
      BY <3>1, <3>2
  <2> QED
    BY <1>0, <2>1
<1>2. ASSUME NEW i \in Ioctls, Gets(i) PROVE Good
  <2>1. /\ freed'[b] = freed[b] /\ raced'[b] = raced[b] /\ handle'[b] = handle[b]
        /\ Borrowers(b)' \subseteq Borrowers(b)
    BY <1>2 DEF Gets, SubmitGet, MapLookup, Borrowers, TypeOK, CallInv
  <2>2. CASE bo'[i] = b
    <3>1. Borrowers(b) # {} \/ handle[b]
      BY <1>2, <2>2 DEF Gets, SubmitGet, MapLookup, Borrowers, TypeOK
    <3>2. gemref'[b] = gemref[b] + 1
      BY <1>2, <2>2 DEF Gets, SubmitGet, MapLookup, TypeOK
    <3> QED
      BY <1>0, <1>h, <2>1, <3>1, <3>2
  <2>3. CASE bo'[i] # b
    <3>1. gemref'[b] = gemref[b]
      BY <1>2, <2>3 DEF Gets, SubmitGet, MapLookup, TypeOK
    <3> QED
      BY <1>0, <2>1, <3>1
  <2> QED
    BY <2>2, <2>3
<1>3. ASSUME NEW i \in Ioctls, Puts(i) PROVE Good
  <2>1. /\ raced'[b] = raced[b] /\ handle'[b] = handle[b]
        /\ Borrowers(b)' \subseteq Borrowers(b)
    BY <1>3 DEF Puts, SubmitVmapFail, SubmitPut, MapPut, Borrowers, TypeOK, CallInv
  <2>2. CASE bo[i] = b
    <3>1. gemref[b] > 0
      <4>1. at[i] \in {"submit_ref", "out_put", "map_done"}
        BY <1>3 DEF Puts, SubmitVmapFail, SubmitPut, MapPut
      <4>2. i \in Holders(b)
        BY <2>2, <4>1 DEF Holders, Holding
      <4> QED
        BY <4>2, HeldCounted
    <3>2. gemref'[b] = gemref[b] - 1 /\ (freed'[b] <=> freed[b] \/ gemref[b] = 1)
      BY <1>3, <2>2 DEF Puts, SubmitVmapFail, SubmitPut, MapPut, TypeOK
    <3> QED
      BY <1>0, <2>1, <3>1, <3>2
  <2>3. CASE bo[i] # b
    <3>1. gemref'[b] = gemref[b] /\ freed'[b] = freed[b]
      BY <1>3, <2>3 DEF Puts, SubmitVmapFail, SubmitPut, MapPut, TypeOK
    <3> QED
      BY <1>0, <2>1, <3>1
  <2> QED
    BY <2>2, <2>3
<1>4. ASSUME NEW d \in Bos, MemDestroy(d) PROVE Good
  <2>1. Borrowers(b)' = Borrowers(b)
    BY <1>4 DEF MemDestroy, Borrowers
  <2>2. CASE d = b
    <3>1. /\ handle[b] /\ ~handle'[b] /\ gemref'[b] = gemref[b] - 1
          /\ freed'[b] <=> freed[b] \/ gemref[b] = 1
          /\ raced'[b] <=> raced[b] \/ Borrowers(b) # {}
      BY <1>4, <2>2 DEF MemDestroy, TypeOK
    <3> QED
      BY <1>0, <1>h, <2>1, <3>1
  <2>3. CASE d # b
    <3>1. /\ gemref'[b] = gemref[b] /\ freed'[b] = freed[b] /\ raced'[b] = raced[b]
          /\ handle'[b] = handle[b]
      BY <1>4, <2>3 DEF MemDestroy, TypeOK
    <3> QED
      BY <1>0, <2>1, <3>1
  <2> QED
    BY <2>2, <2>3
<1>d. ASSUME NEW d \in Bos, Export(d) \/ DmabufRelease(d) PROVE Good
  <2>1. Borrowers(b)' = Borrowers(b) /\ raced' = raced /\ handle' = handle
    BY <1>d DEF Export, DmabufRelease, Borrowers
  <2>2. CASE d = b /\ Export(d)
    <3>1. handle[b] /\ gemref'[b] = gemref[b] + 1 /\ freed'[b] = freed[b]
      BY <2>2 DEF Export, TypeOK
    <3> QED
      BY <1>0, <1>h, <2>1, <3>1
  <2>3. CASE d = b /\ DmabufRelease(d)
    <3>1. dmabuf[b] /\ gemref'[b] = gemref[b] - 1 /\ (freed'[b] <=> freed[b] \/ gemref[b] = 1)
      BY <2>3 DEF DmabufRelease, TypeOK
    <3> QED
      BY <1>0, <1>h, <2>1, <3>1
  <2>4. CASE d # b
    <3>1. gemref'[b] = gemref[b] /\ freed'[b] = freed[b]
      BY <1>d, <2>4 DEF Export, DmabufRelease, TypeOK
    <3> QED
      BY <1>0, <2>1, <3>1
  <2> QED
    BY <1>d, <2>2, <2>3, <2>4
<1>5. ASSUME CloseFile PROVE Good
  <2>1. /\ gemref'[b] = gemref[b] - IF handle[b] THEN 1 ELSE 0
        /\ freed'[b] <=> freed[b] \/ (handle[b] /\ gemref[b] = 1)
        /\ raced'[b] = raced[b] /\ ~handle'[b]
    BY <1>5 DEF CloseFile, TypeOK
  <2>2. Borrowers(b)' = {}
    BY <1>5 DEF CloseFile, Borrowers
  <2> QED
    BY <1>0, <1>h, <2>1, <2>2
<1>6. ASSUME UNCHANGED vars PROVE Good
  BY <1>0, <1>6 DEF vars, Borrowers
<1> HIDE DEF Good
<1>7. Good
  <2>1. ASSUME NEW i \in Ioctls, Names(i) \/ Passes(i) \/ Gets(i) \/ Puts(i) PROVE Good
    BY <1>1, <1>p, <1>2, <1>3, <2>1
  <2>2. ASSUME NEW d \in Bos, MemDestroy(d) \/ Export(d) \/ DmabufRelease(d) PROVE Good
    BY <1>4, <1>d, <2>2
  <2> QED
    BY <2>1, <2>2, <1>5, <1>6, NextCases
<1> QED
  BY <1>7 DEF Good

\* Each step of a SUBMIT leaves of its job what the position says, and so does
\* the scheduler when it frees one.
LEMMA HeldStep ==
  ASSUME TypeOK, HeldInv, [Next]_vars
  PROVE  HeldInv'
<1> USE DEF Go, End, bufVars
<1>0. ASSUME NEW i \in Ioctls PROVE at[i] \in Positions /\ held[i] \in JobAt(at[i])
  BY DEF TypeOK, HeldInv
<1> DEFINE Moves(i) == /\ \A j \in Ioctls \ {i} : at'[j] = at[j] /\ held'[j] = held[j]
                       /\ held'[i] \in JobAt(at'[i])
<1>1. ASSUME NEW i \in Ioctls, Moves(i) PROVE HeldInv'
  BY <1>0, <1>1 DEF HeldInv
<1>2. ASSUME NEW i \in Ioctls, Names(i) \/ Gets(i) \/ Puts(i) \/ (Passes(i) /\ ~JobSteps(i))
      PROVE  Moves(i)
  <2>1. held' = held
    BY <1>2 DEF Names, Passes, Gets, Puts, SubmitStart, SyncStart, name, SubmitNothing,
       SubmitVmap, OutVunmap, MapOffset, SyncDone, SubmitGet, MapLookup, SubmitVmapFail,
       SubmitPut, MapPut
  <2>2. PICK p \in Positions : at' = [at EXCEPT ![i] = p] /\ JobAt(at[i]) \subseteq JobAt(p)
    <3>1. /\ JobAt("idle") = {{}} /\ JobAt("submit") = {{}} /\ JobAt("submit_ref") = {{}}
          /\ JobAt("vmapped") = {{}} /\ JobAt("map") = {{}} /\ JobAt("map_done") = {{}}
          /\ JobAt("sync") = {{}}
          /\ JobAt("out_vunmap") = {{}, {"sched", "init", "domain"}}
          /\ JobAt("out_put") = {{}, {"sched", "init", "domain"}}
          /\ JobAt("done") = {{}, {"sched", "init", "domain"}}
      BY DEF JobAt
    <3>2. \E p \in Positions :
             /\ at' = [at EXCEPT ![i] = p]
             /\ <<at[i], p>> \in {<<"idle", "submit">>, <<"idle", "sync">>, <<"idle", "done">>,
                  <<"idle", "map">>, <<"submit", "submit_ref">>, <<"submit_ref", "vmapped">>,
                  <<"submit_ref", "done">>, <<"out_vunmap", "out_put">>, <<"out_put", "done">>,
                  <<"map", "map_done">>, <<"map_done", "done">>, <<"sync", "done">>}
      BY <1>2 DEF Names, Passes, Gets, Puts, SubmitStart, SyncStart, name, SubmitNothing,
         SubmitVmap, OutVunmap, MapOffset, SyncDone, SubmitGet, MapLookup, SubmitVmapFail,
         SubmitPut, MapPut, Positions
    <3> HIDE DEF Go, End
    <3> QED
      BY <3>1, <3>2
  <2>3. at'[i] = p /\ \A j \in Ioctls \ {i} : at'[j] = at[j]
    BY <2>2 DEF TypeOK
  <2> QED
    BY <1>0, <2>1, <2>2, <2>3
<1>3. ASSUME NEW i \in Ioctls, JobSteps(i) PROVE Moves(i)
  <2> USE DEF Adds, Jumps, TypeOK
  <2>0. \A j \in Ioctls \ {i} : at'[j] = at[j] /\ held'[j] = held[j]
    BY <1>3, JobMoves
  <2>1. CASE JobAlloc(i) \/ JobAllocFail(i)
    <3>1. at[i] = "vmapped"
      BY <2>1 DEF JobAlloc, JobAllocFail
    <3>2. JobAt("vmapped") = {{}} /\ JobAt("allocated") = {{"job"}}
          /\ JobAt("out_vunmap") = {{}, {"sched", "init", "domain"}}
      BY DEF JobAt
    <3>3. held[i] = {}
      BY <1>0, <3>1, <3>2
    <3> QED
      BY <2>0, <2>1, <3>2, <3>3 DEF JobAlloc, JobAllocFail
  <2>2. CASE JobInit(i) \/ JobInitFail(i)
    <3>1. at[i] = "allocated"
      BY <2>2 DEF JobInit, JobInitFail
    <3>2. JobAt("allocated") = {{"job"}} /\ JobAt("initialised") = {{"job", "init"}}
          /\ JobAt("out_put_job") = {{"job"}, {"job", "domain"}, Parts}
      BY DEF JobAt
    <3>3. held[i] = {"job"}
      BY <1>0, <3>1, <3>2
    <3> QED
      BY <2>0, <2>2, <3>2, <3>3 DEF JobInit, JobInitFail
  <2>3. CASE DomainGet(i) \/ DomainGetFail(i)
    <3>1. at[i] = "initialised"
      BY <2>3 DEF DomainGet, DomainGetFail
    <3>2. JobAt("initialised") = {{"job", "init"}} /\ JobAt("ready") = {{"job", "init", "domain"}}
          /\ JobAt("out_cleanup") = {{"job", "init"}, {"job", "init", "domain"}}
      BY DEF JobAt
    <3>3. held[i] = {"job", "init"}
      BY <1>0, <3>1, <3>2
    <3> QED
      BY <2>0, <2>3, <3>2, <3>3 DEF DomainGet, DomainGetFail
  <2>4. CASE JobPush(i) \/ JobPushFail(i)
    <3>1. at[i] = "ready"
      BY <2>4 DEF JobPush, JobPushFail
    <3>2. JobAt("ready") = {{"job", "init", "domain"}}
          /\ JobAt("waiting") = {Parts, {"job", "domain"}}
          /\ JobAt("out_cleanup") = {{"job", "init"}, {"job", "init", "domain"}}
      BY DEF JobAt
    <3>3. held[i] = {"job", "init", "domain"}
      BY <1>0, <3>1, <3>2
    <3>4. {"job", "init", "domain"} \cup {"sched"} = Parts
      BY DEF Parts
    <3>5. CASE JobPush(i)
      <4>1. at'[i] = "waiting" /\ held'[i] = held[i] \cup {"sched"}
        BY <3>5 DEF JobPush
      <4> QED
        BY <2>0, <3>2, <3>3, <3>4, <4>1
    <3>6. CASE JobPushFail(i)
      <4>1. at'[i] = "out_cleanup" /\ held'[i] = held[i]
        BY <3>6 DEF JobPushFail
      <4> QED
        BY <2>0, <3>2, <3>3, <4>1
    <3> QED
      BY <2>4, <3>5, <3>6
  <2>5. CASE WaitDone(i) \/ WaitExpire(i)
    <3>1. at[i] = "waiting" /\ at'[i] = "out_put_job" /\ held'[i] = held[i]
      BY <2>5 DEF WaitDone, WaitExpire
    <3>2. JobAt("waiting") = {Parts, {"job", "domain"}}
          /\ JobAt("out_put_job") = {{"job"}, {"job", "domain"}, Parts}
      BY DEF JobAt
    <3> QED
      BY <1>0, <2>0, <3>1, <3>2
  <2>6. CASE OutCleanup(i)
    <3>1. at[i] = "out_cleanup" /\ at'[i] = "out_put_job" /\ held'[i] = held[i] \ {"init"}
      BY <2>6 DEF OutCleanup
    <3>2. JobAt("out_cleanup") = {{"job", "init"}, {"job", "init", "domain"}}
          /\ JobAt("out_put_job") = {{"job"}, {"job", "domain"}, Parts}
      BY DEF JobAt
    <3>3. /\ {"job", "init"} \ {"init"} = {"job"}
          /\ {"job", "init", "domain"} \ {"init"} = {"job", "domain"}
      OBVIOUS
    <3> QED
      BY <1>0, <2>0, <3>1, <3>2, <3>3
  <2>7. CASE OutPutJob(i)
    <3>1. at[i] = "out_put_job" /\ at'[i] = "out_vunmap" /\ held'[i] = without(held[i], "job")
      BY <2>7 DEF OutPutJob
    <3>2. JobAt("out_put_job") = {{"job"}, {"job", "domain"}, Parts}
          /\ JobAt("out_vunmap") = {{}, {"sched", "init", "domain"}}
      BY DEF JobAt
    <3>3. without({"job"}, "job") = {} /\ without({"job", "domain"}, "job") = {}
      <4>1. {"job"} \cap {"job", "sched"} = {"job"} /\ {"job", "domain"} \cap {"job", "sched"} = {"job"}
        OBVIOUS
      <4> QED
        BY <4>1 DEF without
    <3>4. without(Parts, "job") = {"sched", "init", "domain"}
      <4>1. "sched" \in Parts \cap {"job", "sched"} /\ "sched" \notin {"job"}
        BY DEF Parts
      <4>2. without(Parts, "job") = Parts \ {"job"}
        BY <4>1 DEF without
      <4> QED
        BY <4>2 DEF Parts
    <3>5. held[i] \in {{"job"}, {"job", "domain"}, Parts}
      BY <1>0, <3>1, <3>2
    <3>6. held'[i] \in {{}, {"sched", "init", "domain"}}
      <4>1. CASE held[i] = Parts
        BY <3>1, <3>4, <4>1
      <4>2. CASE held[i] = {"job"} \/ held[i] = {"job", "domain"}
        BY <3>1, <3>3, <4>2
      <4> QED
        BY <3>5, <4>1, <4>2
    <3> QED
      BY <2>0, <3>1, <3>2, <3>6
  <2>8. CASE JobFree(i)
    <3>1. /\ at' = at /\ "sched" \in held[i]
          /\ held'[i] = without(held[i] \ {"init"}, "sched")
      BY <2>8 DEF JobFree
    <3>2. held[i] \in {Parts, {"sched", "init", "domain"}}
      BY <1>0, <3>1 DEF JobAt, Positions
    <3>3. held[i] = Parts => at[i] \in {"waiting", "out_put_job"}
      <4>1. Parts \notin {{}, {"job"}, {"job", "init"}, {"job", "init", "domain"},
                          {"sched", "init", "domain"}}
        <5>1. "sched" \in Parts /\ "job" \in Parts
          BY DEF Parts
        <5> QED
          BY <5>1
      <4> QED
        BY <1>0, <4>1 DEF JobAt, Positions
    <3>4. held[i] = {"sched", "init", "domain"} => at[i] \in {"out_vunmap", "out_put", "done"}
      <4>1. {"sched", "init", "domain"} \notin {{}, {"job"}, {"job", "init"},
                          {"job", "init", "domain"}, {"job", "domain"}, Parts}
        <5>1. "job" \in Parts
          BY DEF Parts
        <5> QED
          BY <5>1
      <4> QED
        BY <1>0, <4>1 DEF JobAt, Positions
    <3>5. without(Parts \ {"init"}, "sched") = {"job", "domain"}
      <4>1. "job" \in (Parts \ {"init"}) \cap {"job", "sched"} /\ "job" \notin {"sched"}
        BY DEF Parts
      <4>2. without(Parts \ {"init"}, "sched") = (Parts \ {"init"}) \ {"sched"}
        BY <4>1 DEF without
      <4> QED
        BY <4>2 DEF Parts
    <3>6. without({"sched", "init", "domain"} \ {"init"}, "sched") = {}
      <4>1. ({"sched", "init", "domain"} \ {"init"}) \cap {"job", "sched"} = {"sched"}
        OBVIOUS
      <4> QED
        BY <4>1 DEF without
    <3>7. /\ {"job", "domain"} \in JobAt("waiting") /\ {"job", "domain"} \in JobAt("out_put_job")
          /\ {} \in JobAt("out_vunmap") /\ {} \in JobAt("out_put") /\ {} \in JobAt("done")
      BY DEF JobAt
    <3>8. held'[i] \in JobAt(at[i])
      <4>1. CASE held[i] = Parts
        <5>1. held'[i] = {"job", "domain"} /\ at[i] \in {"waiting", "out_put_job"}
          BY <3>1, <3>3, <3>5, <4>1
        <5> QED
          BY <3>7, <5>1
      <4>2. CASE held[i] = {"sched", "init", "domain"}
        <5>1. held'[i] = {} /\ at[i] \in {"out_vunmap", "out_put", "done"}
          BY <3>1, <3>4, <3>6, <4>2
        <5> QED
          BY <3>7, <5>1
      <4> QED
        BY <3>2, <4>1, <4>2
    <3> QED
      BY <2>0, <3>1, <3>8
  <2> QED
    BY <1>3, <2>1, <2>2, <2>3, <2>4, <2>5, <2>6, <2>7, <2>8 DEF JobSteps
<1>4. CASE \/ \E d \in Bos : MemDestroy(d) \/ Export(d) \/ DmabufRelease(d)
           \/ CloseFile \/ UNCHANGED vars
  BY <1>0, <1>4 DEF MemDestroy, Export, DmabufRelease, CloseFile, vars, HeldInv
<1> HIDE DEF Moves
<1> QED
  BY <1>1, <1>2, <1>3, <1>4, NextCases DEF Passes

\* Nothing starts in a closed file.
LEMMA ClosedStep ==
  ASSUME TypeOK, CallInv, ClosedInv, [Next]_vars
  PROVE  ClosedInv'
<1> USE DEF Go, End, get, put, ClosedInv, TypeOK, bufVars
<1>1. ASSUME NEW i \in Ioctls, Names(i) \/ Gets(i) \/ Puts(i) \/ (Passes(i) /\ ~JobSteps(i))
      PROVE  ~closed /\ ~closed'
  BY <1>1 DEF Names, Passes, Gets, Puts, SubmitStart, SyncStart, name, SubmitNothing, SubmitVmap,
     OutVunmap, MapOffset, SyncDone, SubmitGet, MapLookup, SubmitVmapFail,
     SubmitPut, MapPut
<1>2. ASSUME NEW i \in Ioctls, JobSteps(i) PROVE ClosedInv'
  <2>1. handle' = handle /\ closed' = closed
    BY <1>2, JobMoves
  <2>2. closed => at' = at
    BY <1>2, JobMoves DEF Mapping
  <2> QED
    BY <2>1, <2>2
<1>3. ASSUME NEW d \in Bos, MemDestroy(d) \/ Export(d) PROVE ~closed /\ ~closed'
  BY <1>3 DEF MemDestroy, Export
<1>4. ASSUME NEW d \in Bos, DmabufRelease(d) PROVE ClosedInv'
  BY <1>4 DEF DmabufRelease
<1>5. CASE CloseFile
  BY <1>5 DEF CloseFile
<1>6. CASE UNCHANGED vars
  BY <1>6 DEF vars
<1> QED
  BY <1>1, <1>2, <1>3, <1>4, <1>5, <1>6, NextCases DEF Passes

-----------------------------------------------------------------------------
(* The theorems.                                                            *)

\* The invariant holds in every reachable state.
THEOREM Invariance == Spec => []IndInv
<1>1. Init => IndInv
  BY InitInv
<1>2. IndInv /\ [Next]_vars => IndInv'
  BY CallStep, RefStep, MapStep, LifeStep, HeldStep, ClosedStep DEF IndInv
<1> QED
  BY <1>1, <1>2, PTL DEF Spec

\* rocket_job.c 841, 966: no reference of a buffer is put once too often,
\* whatever the order of the calls, of MEM_DESTROY and of the release of a
\* dmabuf.
THEOREM TypeCorrect == Spec => []TypeOK
<1>1. IndInv => TypeOK
  BY DEF IndInv
<1> QED
  BY <1>1, Invariance, PTL

\* rocket_job.c 835-840, rkopnu_ioctl.c 166-213: a call never works on a freed
\* buffer unless user space destroyed it before the call had its reference, or
\* named it after that.
THEOREM BorrowsAlive == Spec => []BorrowedAlive
<1>1. IndInv => BorrowedAlive
  <2> SUFFICES ASSUME IndInv, NEW i \in Ioctls, bo[i] # NULL, ~raced[bo[i]]
               PROVE  ~freed[bo[i]]
    BY DEF BorrowedAlive
  <2> DEFINE b == bo[i]
  <2>0. /\ TypeOK /\ CallInv /\ RefInv /\ LifeInv
        /\ b \in Bos /\ gemref[b] \in Nat
    BY DEF IndInv, TypeOK
  <2>1. CASE i \in Holders(b)
    BY <2>0, <2>1, HeldCounted DEF LifeInv
  <2>2. CASE i \in Borrowers(b)
    <3>1. handle[b]
      BY <2>0, <2>2 DEF LifeInv
    <3>2. gemref[b] > 0
      BY <2>0, <3>1, HeldCounted
    <3> QED
      BY <2>0, <3>2 DEF LifeInv
  <2>3. i \in Holders(b) \/ i \in Borrowers(b)
    <3>1. at[i] \in Positions /\ at[i] \notin {"idle", "done"}
      BY <2>0 DEF TypeOK, CallInv
    <3> QED
      BY <3>1 DEF Holders, Borrowers, Holding, Mapping, Positions
  <2> QED
    BY <2>1, <2>2, <2>3
<1> QED
  BY <1>1, Invariance, PTL

\* A SUBMIT leaves its job to the scheduler or nothing of it, whichever exit it
\* takes; and a closed file leaves no kernel mapping and, of the buffers that
\* were not misused, only those an exported dmabuf keeps.
THEOREM CloseLeavesNothing == Spec => []NothingLeft
<1>1. IndInv => NothingLeft
  <2> SUFFICES ASSUME IndInv PROVE NothingLeft
    OBVIOUS
  <2>0. TypeOK /\ RefInv /\ MapInv /\ LifeInv /\ ClosedInv /\ HeldInv
    BY DEF IndInv
  <2>1. ASSUME NEW i \in Ioctls, at[i] = "done"
        PROVE  held[i] \in {{}, {"sched", "init", "domain"}}
    <3>1. JobAt("done") = {{}, {"sched", "init", "domain"}}
      BY DEF JobAt
    <3> QED
      BY <2>0, <2>1, <3>1 DEF HeldInv
  <2>2. ASSUME closed, NEW b \in Bos
        PROVE  mapped[b] = 0 /\ (~raced[b] => (freed[b] <=> ~dmabuf[b]))
    <3>1. Holders(b) = {} /\ Mappers(b) = {} /\ ~handle[b]
      BY <2>0, <2>2 DEF ClosedInv, Holders, Mappers, Holding, Mapping
    <3>2. gemref[b] = One(dmabuf[b]) /\ mapped[b] = 0
      <4>1. Cardinality(Holders(b)) = 0 /\ Cardinality(Mappers(b)) = 0
        BY <3>1, FS_EmptySet
      <4>2. One(handle[b]) = 0 /\ One(dmabuf[b]) \in Nat
        BY <3>1 DEF One
      <4> QED
        BY <2>0, <4>1, <4>2 DEF RefInv, MapInv
    <3>3. freed[b] \in BOOLEAN /\ dmabuf[b] \in BOOLEAN
      BY <2>0 DEF TypeOK
    <3>4. ~raced[b] => (freed[b] <=> gemref[b] = 0)
      BY <2>0 DEF LifeInv
    <3> QED
      BY <3>2, <3>3, <3>4 DEF One
  <2> QED
    BY <2>1, <2>2 DEF NothingLeft
<1> QED
  BY <1>1, Invariance, PTL

=============================================================================
