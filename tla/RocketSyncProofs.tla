--------------------------- MODULE RocketSyncProofs ---------------------------
(***************************************************************************)
(* Proofs about RocketSync for any division of a buffer into regions and   *)
(* any number of writes: the NPU and user space each see what was written  *)
(* last into the regions they own.                                         *)
(***************************************************************************)
EXTENDS RocketSync, TLAPS

-----------------------------------------------------------------------------
(* The inductive invariant.                                                 *)

\* A region of the NPU is in memory and will not be overwritten from a cache;
\* its line may be stale.  Of a region of user space the newest contents are
\* in a dirty line, or in memory and in every copy of it.
RegionInv(r) ==
    /\ owner[r] = "npu" => mem[r] = latest[r] /\ ~dirty[r]
    /\ owner[r] = "cpu" => IF dirty[r] THEN line[r] = latest[r]
                           ELSE mem[r] = latest[r] /\ line[r] \in {NULL, latest[r]}

\* NpuSeesLatest and CpuSeesLatest together are not inductive: a clean line that
\* differs from memory could be evicted.
IndInv ==
    /\ TypeOK
    /\ ~mixed => \A r \in Regions : RegionInv(r)

-----------------------------------------------------------------------------
(* The steps.                                                               *)

\* The initial states: memory holds everything.
LEMMA InitInv == Init => IndInv
<1> SUFFICES ASSUME Init PROVE IndInv
  OBVIOUS
<1>1. TypeOK
  <2>1. 0 \in 0 .. MaxWrites
    BY SyncAssumption
  <2>2. dirty \in [Regions -> BOOLEAN] /\ \A r \in Regions : dirty[r] => line[r] # NULL
    BY DEF Init
  <2>3. /\ mem \in [Regions -> 0 .. MaxWrites]
        /\ line \in [Regions -> (0 .. MaxWrites) \cup {NULL}]
        /\ latest \in [Regions -> 0 .. MaxWrites]
        /\ owner \in [Regions -> {"cpu", "npu"}]
    BY <2>1 DEF Init
  <2> QED
    BY <2>2, <2>3 DEF Init, TypeOK
<1>2. ASSUME NEW r \in Regions PROVE RegionInv(r)
  BY DEF Init, RegionInv
<1> QED
  BY <1>1, <1>2 DEF IndInv

\* Every variable keeps its type, and a dirty line is there.
LEMMA TypeStep == ASSUME TypeOK, [Next]_vars PROVE TypeOK'
<1> USE SyncAssumption DEF TypeOK
<1>1. ASSUME NEW r \in Regions, CpuWrite(r) PROVE TypeOK'
  BY <1>1 DEF CpuWrite
<1>2. ASSUME NEW r \in Regions, Fetch(r) PROVE TypeOK'
  BY <1>2 DEF Fetch
<1>3. ASSUME NEW r \in Regions, Evict(r) PROVE TypeOK'
  BY <1>3 DEF Evict
<1>4. ASSUME NEW r \in Regions, NpuWrite(r) PROVE TypeOK'
  BY <1>4 DEF NpuWrite
<1>5. ASSUME NEW R \in Ranges,
             MemSyncToDevice(R) \/ MemSyncFromDevice(R) \/ MemSyncBoth(R)
      PROVE  TypeOK'
  BY <1>5 DEF MemSyncToDevice, MemSyncFromDevice, MemSyncBoth, sync_to_device,
     sync_from_device, cleaned, invalidated, cleaned_and_invalidated
<1>6. CASE PrepBo \/ PrepBoLate \/ FiniBo
  BY <1>6 DEF PrepBo, PrepBoLate, FiniBo, cleaned, invalidated
<1>7. CASE (\E kind \in {"reads", "writes"} : JobStart(kind)) \/ JobEnd
  BY <1>7 DEF JobStart, JobEnd
<1>8. CASE UNCHANGED vars
  BY <1>8 DEF vars
<1> QED
  BY <1>1, <1>2, <1>3, <1>4, <1>5, <1>6, <1>7, <1>8 DEF Next

\* No step, of whoever, separates an owner from the newest contents.
LEMMA RegionStep ==
  ASSUME TypeOK, ~mixed => \A r \in Regions : RegionInv(r), [Next]_vars, ~mixed',
         NEW s \in Regions
  PROVE  RegionInv(s)'
<1> USE SyncAssumption DEF TypeOK, RegionInv
<1>0. ~mixed /\ RegionInv(s)
  BY DEF Next, CpuWrite, Fetch, Evict, NpuWrite, MemSyncToDevice,
     MemSyncFromDevice, MemSyncBoth, PrepBo, PrepBoLate, FiniBo, JobStart,
     JobEnd, vars
<1>1. ASSUME NEW r \in Regions, CpuWrite(r) PROVE RegionInv(s)'
  BY <1>0, <1>1 DEF CpuWrite
<1>2. ASSUME NEW r \in Regions, Fetch(r) PROVE RegionInv(s)'
  BY <1>0, <1>2 DEF Fetch
<1>3. ASSUME NEW r \in Regions, Evict(r) PROVE RegionInv(s)'
  BY <1>0, <1>3 DEF Evict
<1>4. ASSUME NEW r \in Regions, NpuWrite(r) PROVE RegionInv(s)'
  BY <1>0, <1>4 DEF NpuWrite
<1>5. ASSUME NEW R \in Ranges, MemSyncToDevice(R) PROVE RegionInv(s)'
  BY <1>0, <1>5 DEF MemSyncToDevice, sync_to_device, cleaned
\* What is invalidated beside R belongs to the NPU, as the step is not mixed.
<1>6. ASSUME NEW R \in Ranges, MemSyncFromDevice(R) PROVE RegionInv(s)'
  <2>1. owner[s] = "npu"
    BY <1>6 DEF MemSyncFromDevice
  <2> QED
    BY <1>0, <1>6, <2>1 DEF MemSyncFromDevice, sync_from_device, invalidated
<1>7. ASSUME NEW R \in Ranges, MemSyncBoth(R) PROVE RegionInv(s)'
  BY <1>0, <1>7 DEF MemSyncBoth, cleaned_and_invalidated
<1>8. CASE PrepBo \/ PrepBoLate
  BY <1>0, <1>8 DEF PrepBo, PrepBoLate, invalidated
<1>9. CASE FiniBo
  BY <1>0, <1>9 DEF FiniBo, cleaned
<1>10. CASE (\E kind \in {"reads", "writes"} : JobStart(kind)) \/ JobEnd
  BY <1>0, <1>10 DEF JobStart, JobEnd
<1>11. CASE UNCHANGED vars
  BY <1>0, <1>11 DEF vars
<1> QED
  BY <1>1, <1>2, <1>3, <1>4, <1>5, <1>6, <1>7, <1>8, <1>9, <1>10, <1>11 DEF Next

-----------------------------------------------------------------------------
(* The theorems.                                                            *)

\* The invariant holds in every reachable state.
THEOREM Invariance == Spec => []IndInv
<1>1. Init => IndInv
  BY InitInv
<1>2. IndInv /\ [Next]_vars => IndInv'
  <2> SUFFICES ASSUME IndInv, [Next]_vars PROVE IndInv'
    OBVIOUS
  <2>1. TypeOK /\ (~mixed => \A r \in Regions : RegionInv(r))
    BY DEF IndInv
  <2>2. TypeOK'
    BY <2>1, TypeStep
  <2>3. ASSUME ~mixed' PROVE \A s \in Regions : RegionInv(s)'
    BY <2>1, <2>3, RegionStep
  <2> QED
    BY <2>2, <2>3 DEF IndInv
<1> QED
  BY <1>1, <1>2, PTL DEF Spec

\* Every variable stays in its range.
THEOREM TypeCorrect == Spec => []TypeOK
<1>1. IndInv => TypeOK
  BY DEF IndInv
<1> QED
  BY <1>1, Invariance, PTL

\* rkopnu_ioctl.c 206-207, rocket_gem.c 205: what the NPU reads in a region it
\* was given is what was written last, and no cache overwrites its results, for
\* every order of syncs, prep and fini calls, jobs, fetches and evictions.
THEOREM NpuSees == Spec => []NpuSeesLatest
<1>1. IndInv => NpuSeesLatest
  BY DEF IndInv, RegionInv, NpuSeesLatest
<1> QED
  BY <1>1, Invariance, PTL

\* rkopnu_ioctl.c 208-209, rocket_gem.c 179: what user space reads in a region
\* of its own is what was written last, the results of the jobs included.
THEOREM CpuSees == Spec => []CpuSeesLatest
<1>1. IndInv => CpuSeesLatest
  BY SyncAssumption DEF IndInv, TypeOK, RegionInv, CpuSeesLatest, CpuView
<1> QED
  BY <1>1, Invariance, PTL

=============================================================================
