--------------------------- MODULE RocketJobProofs ---------------------------
(***************************************************************************)
(* Proofs about RocketJob for any number of jobs, files and domains: the   *)
(* inductive invariant behind the power-unit accounting, the reference     *)
(* counts and the lifetime of the attached domain, a second one about      *)
(* timeouts and the running hardware, and the refinement of NpuService.    *)
(***************************************************************************)
EXTENDS RocketServes, FiniteSetTheorems, TLAPS

-----------------------------------------------------------------------------
(* The inductive invariant.                                                 *)

\* Job j is on core c, started, and not finished for drm_sched.
IsActive(j, c) == core_of[j] = c /\ Popped(j) /\ finished[j] = "no"

\* Life cycle of a job: what is true before it is submitted and before it is
\* started, and who holds its references.
JobInvAt(j) ==
    /\ refcount[j] = (IF submit[j] = "wait" THEN 1 ELSE 0)
                     + (IF InScheduler(j) THEN 1 ELSE 0)
    /\ place[j] = "new" <=> submit[j] \in {"idle", "error"}
    /\ place[j] # "new" => domain[j] \in AllDomains
    /\ place[j] \in {"new", "queued"} =>
          finished[j] = "no" /\ next_task_idx[j] = 0 /\ done_fence[j] = "none"

JobInv == \A j \in Jobs : JobInvAt(j)

\* The single credit of a core follows its single active job, except while
\* drm_sched is stopped.
SchedInvAt(c) ==
    /\ \A j, k \in Jobs : IsActive(j, c) /\ IsActive(k, c) => j = k
    /\ credit[c] = 0 => Paused(c) \/ \A j \in Jobs : ~IsActive(j, c)
    /\ credit[c] = 1 => ~Paused(c) /\ \E j \in Jobs : IsActive(j, c)
    /\ \A j \in Jobs : armed[j] /\ core_of[j] = c =>
          IsActive(j, c) /\ ~Paused(c) /\ run_job[c] # j

SchedInv == \A c \in Cores : SchedInvAt(c)

\* The run worker.
RunInvAt(c) ==
    /\ run_pc[c] = "idle" <=> run_job[c] = NULL
    /\ run_job[c] # NULL => ~Paused(c) /\ IsActive(run_job[c], c)
    /\ run_pc[c] \in {"begin", "powered", "failed"} =>
          /\ next_task_idx[run_job[c]] = 0
          /\ done_fence[run_job[c]] = IF run_pc[c] = "begin" THEN "none" ELSE "unsignaled"
          /\ JobLockFree(c) => in_flight[c] = NULL

RunInv == \A c \in Cores : RunInvAt(c)

\* The job in flight.
FlightInvAt(c) ==
    /\ irq_pc[c] = "signaled" => in_flight[c] # NULL
    /\ (in_flight[c] # NULL /\ JobLockFree(c)) =>
          IsActive(in_flight[c], c) /\ done_fence[in_flight[c]] = "unsignaled"
    /\ tdr_pc[c] = "cleared" => in_flight[c] = NULL

FlightInv == \A c \in Cores : FlightInvAt(c)

\* The timeout worker.
TdrInvAt(c) ==
    /\ tdr_pc[c] = "idle" <=> tdr_job[c] = NULL
    /\ tdr_job[c] # NULL => core_of[tdr_job[c]] = c /\ place[tdr_job[c]] # "new"
    /\ tdr_pc[c] = "marked" => place[tdr_job[c]] = "timedout" /\ ~free_guilty[c]
    /\ tdr_pc[c] = "idle" => ~free_guilty[c]
    /\ free_guilty[c] => /\ place[tdr_job[c]] = "timedout"
                         /\ finished[tdr_job[c]] # "no"
    /\ \A j \in Jobs : place[j] = "timedout" /\ core_of[j] = c =>
          tdr_job[c] = j /\ (tdr_pc[c] = "marked" \/ free_guilty[c])

TdrInv == \A c \in Cores : TdrInvAt(c)

\* While drm_sched is stopped, no finished job is left on the pending list.
StopInvAt(c) ==
    Paused(c) => \A j \in Jobs :
        core_of[j] = c /\ place[j] = "pending" => finished[j] = "no"

StopInv == \A c \in Cores : StopInvAt(c)

\* The close of a file, seen from a job: a destroyed entity has nothing
\* queued, and the job's domain is in the pool until the pool goes.
PoolInvAt(j) ==
    /\ place[j] = "queued" => close_pc[file(j)] <= core_of[j]
    /\ place[j] # "new" /\ close_pc[file(j)] <= 2 * NumCores
          => domain[j][2] \in pool[file(j)]

PoolInv == \A j \in Jobs : PoolInvAt(j)

\* The close of a file, seen from a core: a destroyed entity has nothing
\* starting, and the attached domain is in the pool of a file that has not
\* yet come to detach this core.
CloseInvAt(c) ==
    /\ run_pc[c] \in {"begin", "powered", "failed"} => close_pc[file(run_job[c])] <= c
    /\ attached[c] # NULL => /\ attached[c][2] \in pool[attached[c][1]]
                             /\ close_pc[attached[c][1]] <= NumCores + c

CloseInv == \A c \in Cores : CloseInvAt(c)

PmInv == PmBalanced /\ NeverGated

\* All of it.  TypeOK itself is not inductive: that no counter goes below zero
\* needs JobInv, SchedInv and PmInv.
IndInv ==
    /\ TypeOK
    /\ JobInv
    /\ SchedInv
    /\ RunInv
    /\ FlightInv
    /\ TdrInv
    /\ StopInv
    /\ PoolInv
    /\ CloseInv
    /\ PmInv

-----------------------------------------------------------------------------
(* Facts used throughout.                                                   *)

\* A worker that is not idle has a job in its hands.
LEMMA Subjects ==
  ASSUME IndInv, NEW c \in Cores
  PROVE  /\ run_pc[c] # "idle" => /\ run_job[c] \in Jobs /\ run_job[c] # NULL
                                  /\ IsActive(run_job[c], c)
         /\ in_flight[c] # NULL => in_flight[c] \in Jobs
         /\ tdr_pc[c] # "idle" => tdr_job[c] \in Jobs /\ tdr_job[c] # NULL
  BY DEF IndInv, TypeOK, RunInv, RunInvAt, TdrInv, TdrInvAt, JobOrNull

\* A SUBMIT is pinned to a core that exists.
LEMMA PinnedCore == ASSUME NEW m PROVE pinned_core(m) \in Cores
  BY NumCoresAssumption DEF pinned_core, rknpu_wait_core_index, Cores

-----------------------------------------------------------------------------
(* The power unit.                                                          *)

\* The sets of users are finite.
LEMMA UsersFinite ==
  ASSUME NEW S \in SUBSET Cores
  PROVE  IsFiniteSet(S) /\ Cardinality(S) \in Nat
<1>1. IsFiniteSet(Cores)
  BY NumCoresAssumption, FS_Interval DEF Cores
<1>2. IsFiniteSet(S)
  BY <1>1, FS_Subset
<1> QED
  BY <1>2, FS_CardinalityType

\* A get adds one user and keeps the usage counts in step.
LEMMA PmGet ==
  ASSUME TypeOK, NeverGated, rocket_device_pm_get
  PROVE  /\ pm_refcount' = pm_refcount + 1 /\ pm_refcount' \in Nat
         /\ usage' \in [Cores -> Nat] /\ NeverGated'
<1>1. pm_refcount \in Nat /\ usage \in [Cores -> Nat]
  BY DEF TypeOK
<1>2. pm_refcount' = pm_refcount + 1
  BY DEF rocket_device_pm_get
<1>3. CASE pm_refcount = 0
  BY <1>1, <1>2, <1>3
     DEF NeverGated, rocket_device_pm_get, rocket_device_pm_resume_unit
<1>4. CASE pm_refcount # 0
  BY <1>1, <1>2, <1>4 DEF NeverGated, rocket_device_pm_get
<1> QED
  BY <1>3, <1>4

\* A get that fails to resume the unit leaves no trace.
LEMMA PmGetFails ==
  ASSUME TypeOK, NEW bad \in Cores, pm_get_fails(bad)
  PROVE  UNCHANGED <<pm_refcount, usage>>
<1>1. usage \in [Cores -> Nat]
  BY DEF TypeOK
<1>2. \A c \in Cores : usage'[c] = usage[c]
  BY <1>1 DEF pm_get_fails, resume_unit_fails
<1>3. usage' \in [Cores -> Nat]
  <2>1. \A c \in Cores : (IF c < bad THEN (IF c < bad THEN usage[c] + 1 ELSE usage[c]) - 1
                          ELSE (IF c < bad THEN usage[c] + 1 ELSE usage[c])) \in Nat
    BY <1>1
  <2> QED
    BY <2>1 DEF pm_get_fails, resume_unit_fails
<1> QED
  BY <1>1, <1>2, <1>3 DEF pm_get_fails

\* A put by one of the users, of either kind, removes one user.
LEMMA PmPut ==
  ASSUME TypeOK, NeverGated, pm_refcount > 0,
         rocket_device_pm_put \/ rocket_device_pm_put_noidle
  PROVE  /\ pm_refcount' = pm_refcount - 1 /\ pm_refcount' \in Nat
         /\ usage' \in [Cores -> Nat] /\ NeverGated'
<1>1. pm_refcount \in Nat /\ usage \in [Cores -> Nat]
  BY DEF TypeOK
<1>2. pm_refcount' = pm_refcount - 1
  BY <1>1 DEF rocket_device_pm_put, rocket_device_pm_put_noidle
<1>3. CASE pm_refcount = 1
  <2>1. usage' = [c \in Cores |-> usage[c] - 1]
    BY <1>3 DEF rocket_device_pm_put, rocket_device_pm_put_noidle,
                rocket_device_pm_release_unit
  <2>2. \A c \in Cores : usage[c] = 2
    BY <1>3 DEF NeverGated
  <2> QED
    BY <1>1, <1>2, <1>3, <2>1, <2>2 DEF NeverGated
<1>4. CASE pm_refcount # 1
  <2>1. usage' = usage
    BY <1>1, <1>4 DEF rocket_device_pm_put, rocket_device_pm_put_noidle
  <2> QED
    BY <1>1, <1>2, <1>4, <2>1 DEF NeverGated
<1> QED
  BY <1>3, <1>4

\* A core with a job in flight, or starting one, makes the unit used.
LEMMA UserCounted ==
  ASSUME TypeOK, PmBalanced, NEW c \in InFlightCores \cup StartingCores
  PROVE  pm_refcount > 0
<1>1. /\ InFlightCores \in SUBSET Cores
      /\ StartingCores \in SUBSET Cores
  BY DEF InFlightCores, StartingCores
<1>2. /\ IsFiniteSet(InFlightCores) /\ Cardinality(InFlightCores) \in Nat
      /\ IsFiniteSet(StartingCores) /\ Cardinality(StartingCores) \in Nat
  BY <1>1, UsersFinite
<1>3. CASE c \in InFlightCores
  BY <1>2, <1>3, FS_EmptySet DEF PmBalanced
<1>4. CASE c \in StartingCores
  BY <1>2, <1>4, FS_EmptySet DEF PmBalanced
<1> QED
  BY <1>3, <1>4

\* The power accounting of one step: the users change as the counter does.
LEMMA PmInvStep ==
  ASSUME IndInv, [Next]_vars PROVE PmInv'
<1> USE DEF pmVars, jobVars, coreVars, fileVars, routeVars, fenceVars,
      runVars, irqVars, tdrVars
<1>0. /\ TypeOK /\ PmBalanced /\ NeverGated
      /\ in_flight \in [Cores -> JobOrNull]
      /\ run_pc \in [Cores -> {"idle", "begin", "powered", "failed", "ran"}]
      /\ pm_refcount \in Nat
      /\ NULL \notin Jobs
  BY SetsAssumption DEF IndInv, PmInv, TypeOK
<1>a. /\ InFlightCores \in SUBSET Cores
      /\ StartingCores \in SUBSET Cores
  BY DEF InFlightCores, StartingCores
<1>b. /\ IsFiniteSet(InFlightCores) /\ Cardinality(InFlightCores) \in Nat
      /\ IsFiniteSet(StartingCores) /\ Cardinality(StartingCores) \in Nat
  BY <1>a, UsersFinite
<1>c. ASSUME UNCHANGED <<pm_refcount, usage>>,
             InFlightCores' = InFlightCores, StartingCores' = StartingCores
      PROVE  PmInv'
  BY <1>0, <1>c DEF PmInv, PmBalanced, NeverGated
<1>1. ASSUME NEW c \in Cores, RunPower(c) PROVE PmInv'
  <2>1. /\ c \notin StartingCores
        /\ StartingCores' = StartingCores \cup {c}
        /\ InFlightCores' = InFlightCores
    BY <1>0, <1>1 DEF RunPower, StartingCores, InFlightCores
  <2>2. Cardinality(StartingCores') = Cardinality(StartingCores) + 1
    BY <1>b, <2>1, FS_AddElement
  <2>3. pm_refcount' = pm_refcount + 1 /\ NeverGated'
    BY <1>0, <1>1, PmGet DEF RunPower
  <2> QED
    BY <1>0, <1>b, <2>1, <2>2, <2>3 DEF PmInv, PmBalanced
<1>2. ASSUME NEW c \in Cores, NEW bad \in Cores, RunPowerFail(c, bad) PROVE PmInv'
  <2>1. UNCHANGED <<pm_refcount, usage>>
    BY <1>0, <1>2, PmGetFails DEF RunPowerFail
  <2>2. StartingCores' = StartingCores /\ InFlightCores' = InFlightCores
    BY <1>0, <1>2 DEF RunPowerFail, StartingCores, InFlightCores
  <2> QED
    BY <1>c, <2>1, <2>2
<1>3. ASSUME NEW c \in Cores, RunAttach(c) PROVE PmInv'
  <2>1. run_job[c] \in Jobs /\ in_flight[c] = NULL
    BY <1>3, Subjects DEF RunAttach, IndInv, RunInv, RunInvAt
  <2>2. /\ c \in StartingCores /\ StartingCores' = StartingCores \ {c}
        /\ c \notin InFlightCores /\ InFlightCores' = InFlightCores \cup {c}
    BY <1>0, <1>3, <2>1 DEF RunAttach, StartingCores, InFlightCores
  <2>3. /\ Cardinality(StartingCores') = Cardinality(StartingCores) - 1
        /\ Cardinality(InFlightCores') = Cardinality(InFlightCores) + 1
    BY <1>b, <2>2, FS_AddElement, FS_RemoveElement
  <2>4. UNCHANGED <<pm_refcount, usage>>
    BY <1>3 DEF RunAttach
  <2> QED
    BY <1>0, <1>b, <2>3, <2>4 DEF PmInv, PmBalanced, NeverGated
<1>4. ASSUME NEW c \in Cores, RunUnwind(c) PROVE PmInv'
  <2>1. /\ c \in StartingCores /\ StartingCores' = StartingCores \ {c}
        /\ InFlightCores' = InFlightCores
    BY <1>0, <1>4 DEF RunUnwind, StartingCores, InFlightCores
  <2>2. Cardinality(StartingCores') = Cardinality(StartingCores) - 1
    BY <1>b, <2>1, FS_RemoveElement
  <2>3. pm_refcount > 0
    BY <1>0, <2>1, UserCounted
  <2>4. pm_refcount' = pm_refcount - 1 /\ NeverGated'
    BY <1>0, <1>4, <2>3, PmPut DEF RunUnwind
  <2> QED
    BY <1>0, <1>b, <2>1, <2>2, <2>4 DEF PmInv, PmBalanced
<1>5. ASSUME NEW c \in Cores, IrqFinish(c) PROVE PmInv'
  <2>1. in_flight[c] # NULL
    BY <1>5 DEF IrqFinish, IndInv, FlightInv, FlightInvAt
  <2>2. /\ c \in InFlightCores /\ InFlightCores' = InFlightCores \ {c}
        /\ StartingCores' = StartingCores
    BY <1>0, <1>5, <2>1 DEF IrqFinish, StartingCores, InFlightCores
  <2>3. Cardinality(InFlightCores') = Cardinality(InFlightCores) - 1
    BY <1>b, <2>2, FS_RemoveElement
  <2>4. pm_refcount > 0
    BY <1>0, <2>2, UserCounted
  <2>5. pm_refcount' = pm_refcount - 1 /\ NeverGated'
    BY <1>0, <1>5, <2>4, PmPut DEF IrqFinish
  <2> QED
    BY <1>0, <1>b, <2>2, <2>3, <2>5 DEF PmInv, PmBalanced
<1>6. ASSUME NEW c \in Cores, TdrClear(c) PROVE PmInv'
  <2>1. CASE in_flight[c] = NULL
    <3>1. UNCHANGED <<pm_refcount, usage>>
      BY <1>6, <2>1 DEF TdrClear
    <3>2. StartingCores' = StartingCores /\ InFlightCores' = InFlightCores
      BY <1>0, <1>6, <2>1 DEF TdrClear, StartingCores, InFlightCores
    <3> QED
      BY <1>c, <3>1, <3>2
  <2>2. CASE in_flight[c] # NULL
    <3>1. /\ c \in InFlightCores /\ InFlightCores' = InFlightCores \ {c}
          /\ StartingCores' = StartingCores
      BY <1>0, <1>6, <2>2 DEF TdrClear, StartingCores, InFlightCores
    <3>2. Cardinality(InFlightCores') = Cardinality(InFlightCores) - 1
      BY <1>b, <3>1, FS_RemoveElement
    <3>3. pm_refcount > 0
      BY <1>0, <3>1, UserCounted
    <3>4. pm_refcount' = pm_refcount - 1 /\ NeverGated'
      BY <1>0, <1>6, <2>2, <3>3, PmPut DEF TdrClear
    <3> QED
      BY <1>0, <1>b, <3>1, <3>2, <3>4 DEF PmInv, PmBalanced
  <2> QED
    BY <2>1, <2>2
<1>7. ASSUME NEW c \in Cores,
             (\E j \in Jobs : RunPop(c, j)) \/ RunNoFence(c) \/ RunAttachFail(c) \/ RunDone(c)
      PROVE  PmInv'
  <2>1. UNCHANGED <<pm_refcount, usage>>
    BY <1>7 DEF RunPop, RunNoFence, RunAttachFail, RunDone
  <2>2. InFlightCores' = InFlightCores
    BY <1>7 DEF RunPop, RunNoFence, RunAttachFail, RunDone, InFlightCores
  <2>3. StartingCores' = StartingCores
    BY <1>0, <1>7 DEF RunPop, RunNoFence, RunAttachFail, RunDone, StartingCores
  <2> QED
    BY <1>c, <2>1, <2>2, <2>3
<1>8. CASE UNCHANGED <<pm_refcount, usage, in_flight, run_pc>>
  BY <1>c, <1>8 DEF InFlightCores, StartingCores
<1>9. ASSUME NEW c \in Cores,
             \/ HwDone(c) \/ IrqShared(c) \/ IrqEnter(c) \/ IrqNothing(c)
             \/ IrqNextTask(c) \/ IrqSignal(c)
               \/ TdrStop(c) \/ TdrRestart(c) \/ TdrReturn(c)
               \/ \E j \in Jobs : TdrFire(c, j)
      PROVE  PmInv'
  BY <1>8, <1>9 DEF HwDone, IrqShared, IrqEnter, IrqNothing, IrqNextTask, IrqSignal,
                    TdrStop, drm_sched_stop, TdrRestart, TdrReturn, TdrFire
<1>10. ASSUME NEW j \in Jobs,
              WaitDone(j) \/ WaitExpire(j) \/ Free(j)
                \/ \E f \in Files : \/ SubmitFail(j, f)
                                    \/ \E id \in DomainIds, m \in CoreMasks : Submit(j, f, id, m)
       PROVE  PmInv'
  BY <1>8, <1>10 DEF WaitDone, WaitExpire, Free, SubmitFail, Submit
<1>11. ASSUME NEW f \in Files, Close(f) PROVE PmInv'
  BY <1>8, <1>11 DEF Close, CloseEntity, CloseDetach, CloseDomains
<1>12. CASE UNCHANGED vars
  BY <1>8, <1>12 DEF vars
<1> QED
  BY <1>1, <1>2, <1>3, <1>4, <1>5, <1>6, <1>7, <1>9, <1>10, <1>11, <1>12
     DEF Next, RunWorker, IrqThread, TdrProgress, Rest

-----------------------------------------------------------------------------
(* One lemma per conjunct, in each one step per action that disturbs it.    *)

\* Every step keeps the variables in their ranges.
LEMMA TypeOKStep ==
  ASSUME IndInv, [Next]_vars PROVE TypeOK'
<1> USE SetsAssumption
    DEF pmVars, jobVars, coreVars, fileVars, routeVars, fenceVars,
        runVars, irqVars, tdrVars,
        InScheduler, Popped, IsActive, Paused, JobLockFree, file,
        JobOrNull, AllDomains, task_count, DomainOrNull, Open, Places, Results
<1>1. ASSUME NEW j \in Jobs, NEW f \in Files, NEW id \in DomainIds, NEW m \in CoreMasks,
             Submit(j, f, id, m)
      PROVE  TypeOK'
  <2>1. core_of' \in [Jobs -> Cores]
    BY <1>1, PinnedCore DEF IndInv, TypeOK, Submit
  <2> QED
    BY <1>1, <2>1 DEF IndInv, TypeOK, Submit
<1>2. ASSUME NEW j \in Jobs, NEW f \in Files, SubmitFail(j, f) PROVE TypeOK'
  BY <1>2 DEF IndInv, TypeOK, SubmitFail
<1>3. ASSUME NEW j \in Jobs, WaitDone(j) PROVE TypeOK'
  <2>1. refcount' \in [Jobs -> 0 .. 2]
    <3>1. refcount \in [Jobs -> 0 .. 2] /\ JobInvAt(j)
      BY DEF IndInv, TypeOK, JobInv
    <3> QED
      BY <1>3, <3>1 DEF JobInvAt, WaitDone
  <2> QED
    BY <1>3, <2>1 DEF IndInv, TypeOK, WaitDone
<1>4. ASSUME NEW j \in Jobs, WaitExpire(j) PROVE TypeOK'
  <2>1. refcount' \in [Jobs -> 0 .. 2]
    <3>1. refcount \in [Jobs -> 0 .. 2] /\ JobInvAt(j)
      BY DEF IndInv, TypeOK, JobInv
    <3> QED
      BY <1>4, <3>1 DEF JobInvAt, WaitExpire
  <2> QED
    BY <1>4, <2>1 DEF IndInv, TypeOK, WaitExpire
<1>5. ASSUME NEW j \in Jobs, Free(j) PROVE TypeOK'
  <2>1. refcount' \in [Jobs -> 0 .. 2]
    <3>1. refcount \in [Jobs -> 0 .. 2] /\ JobInvAt(j)
      BY DEF IndInv, TypeOK, JobInv
    <3> QED
      BY <1>5, <3>1 DEF JobInvAt, Free
  <2> QED
    BY <1>5, <2>1 DEF IndInv, TypeOK, Free
<1>6. ASSUME NEW c \in Cores, NEW j \in Jobs, RunPop(c, j) PROVE TypeOK'
  BY <1>6 DEF IndInv, TypeOK, RunPop
<1>7. ASSUME NEW c \in Cores, RunNoFence(c) PROVE TypeOK'
  <2>0. run_job[c] \in Jobs /\ run_job[c] # NULL
    BY <1>7, Subjects DEF RunNoFence
  <2>1. credit' \in [Cores -> 0 .. 1]
    <3>1. run_job[c] \in Jobs /\ ~Paused(c) /\ IsActive(run_job[c], c)
      BY <1>7, Subjects DEF IndInv, RunInv, RunInvAt, RunNoFence
    <3>2. credit \in [Cores -> 0 .. 1] /\ credit[c] = 1
      BY <3>1 DEF IndInv, TypeOK, SchedInv, SchedInvAt
    <3> QED
      BY <1>7, <3>2 DEF RunNoFence, drm_sched_job_done
  <2> QED
    BY <1>7, <2>0, <2>1 DEF IndInv, TypeOK, RunNoFence, drm_sched_job_done
<1>8. ASSUME NEW c \in Cores, RunPower(c) PROVE TypeOK'
  <2>0. run_job[c] \in Jobs /\ run_job[c] # NULL
    BY <1>8, Subjects DEF RunPower
  <2>1. pm_refcount' \in Nat /\ usage' \in [Cores -> Nat]
    BY <1>8, PmGet DEF IndInv, PmInv, RunPower
  <2> QED
    BY <1>8, <2>0, <2>1 DEF IndInv, TypeOK, RunPower
<1>9. ASSUME NEW c \in Cores, NEW bad \in Cores, RunPowerFail(c, bad) PROVE TypeOK'
  <2>0. run_job[c] \in Jobs /\ run_job[c] # NULL
    BY <1>9, Subjects DEF RunPowerFail
  <2>1. pm_refcount' \in Nat /\ usage' \in [Cores -> Nat]
    BY <1>9, PmGetFails DEF IndInv, TypeOK, RunPowerFail
  <2> QED
    BY <1>9, <2>0, <2>1 DEF IndInv, TypeOK, RunPowerFail
<1>10. ASSUME NEW c \in Cores, RunAttach(c) PROVE TypeOK'
  <2>0. run_job[c] \in Jobs /\ run_job[c] # NULL
    BY <1>10, Subjects DEF RunAttach
  <2>1. next_task_idx' \in [Jobs -> 0 .. task_count]
    <3>1. next_task_idx \in [Jobs -> 0 .. 1] /\ next_task_idx[run_job[c]] = 0
      BY <1>10, <2>0 DEF IndInv, TypeOK, RunInv, RunInvAt, RunAttach
    <3> QED
      BY <1>10, <2>0, <3>1 DEF RunAttach, rocket_job_hw_submit, domain_switch
  <2> QED
    BY <1>10, <2>0, <2>1 DEF IndInv, TypeOK, RunAttach, rocket_job_hw_submit,
       domain_switch
<1>11. ASSUME NEW c \in Cores, RunAttachFail(c) PROVE TypeOK'
  <2>0. run_job[c] \in Jobs /\ run_job[c] # NULL
    BY <1>11, Subjects DEF RunAttachFail
  <2> QED
    BY <1>11, <2>0 DEF IndInv, TypeOK, RunAttachFail
<1>12. ASSUME NEW c \in Cores, RunUnwind(c) PROVE TypeOK'
  <2>0. run_job[c] \in Jobs /\ run_job[c] # NULL
    BY <1>12, Subjects DEF RunUnwind
  <2>1. pm_refcount' \in Nat /\ usage' \in [Cores -> Nat]
    <3>1. c \in StartingCores
      BY <1>12 DEF RunUnwind, StartingCores
    <3>2. pm_refcount > 0
      BY <3>1, UserCounted DEF IndInv, PmInv
    <3> QED
      BY <1>12, <3>2, PmPut DEF IndInv, PmInv, RunUnwind
  <2> QED
    BY <1>12, <2>0, <2>1 DEF IndInv, TypeOK, RunUnwind
<1>13. ASSUME NEW c \in Cores, RunDone(c) PROVE TypeOK'
  <2>0. run_job[c] \in Jobs /\ run_job[c] # NULL
    BY <1>13, Subjects DEF RunDone
  <2>1. armed' \in [Jobs -> BOOLEAN]
    <3>1. armed \in [Jobs -> BOOLEAN]
      BY DEF IndInv, TypeOK
    <3> QED
      BY <1>13, <2>0, <3>1 DEF RunDone
  <2>2. finished' \in [Jobs -> Results]
    <3>1. finished \in [Jobs -> Results]
      BY DEF IndInv, TypeOK
    <3> QED
      BY <1>13, <2>0, <3>1 DEF RunDone, drm_sched_job_done
  <2>3. credit' \in [Cores -> 0 .. 1]
    <3>1. run_job[c] \in Jobs /\ ~Paused(c) /\ IsActive(run_job[c], c)
      BY <1>13, Subjects DEF IndInv, RunInv, RunInvAt, RunDone
    <3>2. credit \in [Cores -> 0 .. 1] /\ credit[c] = 1
      BY <3>1 DEF IndInv, TypeOK, SchedInv, SchedInvAt
    <3> QED
      BY <1>13, <3>2 DEF RunDone, drm_sched_job_done
  <2>4. /\ run_pc' \in [Cores -> {"idle", "begin", "powered", "failed", "ran"}]
        /\ run_job' \in [Cores -> JobOrNull]
    BY <1>13, <2>0 DEF IndInv, TypeOK, RunDone, drm_sched_job_done
  <2>5. UNCHANGED <<pm_refcount, usage, place, domain, core_of, refcount,
                   next_task_idx, done_fence, submit, timeout_count,
                   in_flight, attached, reset_pending, hw, irq_woken, irq_pc, foreign,
                   tdr_pc, tdr_job, free_guilty, close_pc, pool>>
    BY <1>13 DEF RunDone, drm_sched_job_done
  <2> QED
    BY <2>1, <2>2, <2>3, <2>4, <2>5 DEF IndInv, TypeOK
<1>14. ASSUME NEW c \in Cores, HwDone(c) \/ IrqShared(c) PROVE TypeOK'
  <2>1. /\ irq_woken' \in [Cores -> BOOLEAN] /\ hw' \in [Cores -> JobOrNull]
        /\ foreign' \in [Cores -> 0 .. MaxForeign]
    <3>1. /\ irq_woken \in [Cores -> BOOLEAN] /\ hw \in [Cores -> JobOrNull]
          /\ foreign \in [Cores -> 0 .. MaxForeign] /\ MaxForeign \in Nat
      BY SetsAssumption DEF IndInv, TypeOK
    <3>2. CASE HwDone(c)
      BY <3>1, <3>2 DEF HwDone, JobOrNull
    <3>3. CASE IrqShared(c)
      <4>1. foreign[c] + 1 \in 0 .. MaxForeign
        BY <3>1, <3>3 DEF IrqShared
      <4> QED
        BY <3>1, <3>3, <4>1 DEF IrqShared
    <3> QED
      BY <1>14, <3>2, <3>3
  <2>2. UNCHANGED <<pm_refcount, usage, place, domain, core_of, refcount,
                   next_task_idx, done_fence, armed, finished, submit, timeout_count,
                   run_pc, run_job, credit, in_flight, attached, reset_pending, irq_pc,
                   tdr_pc, tdr_job, free_guilty, close_pc, pool>>
    BY <1>14 DEF HwDone, IrqShared
  <2> QED
    BY <2>1, <2>2 DEF IndInv, TypeOK
<1>15. ASSUME NEW c \in Cores, IrqEnter(c) PROVE TypeOK'
  BY <1>15 DEF IndInv, TypeOK, IrqEnter
<1>16. ASSUME NEW c \in Cores, IrqNothing(c) PROVE TypeOK'
  BY <1>16 DEF IndInv, TypeOK, IrqNothing
<1>17. ASSUME NEW c \in Cores, IrqNextTask(c) PROVE TypeOK'
  <2>0. in_flight[c] \in Jobs /\ in_flight[c] # NULL
    BY <1>17, Subjects DEF IrqNextTask
  <2>1. next_task_idx' \in [Jobs -> 0 .. task_count]
    <3>1. next_task_idx \in [Jobs -> 0 .. 1] /\ next_task_idx[in_flight[c]] = 0
      BY <1>17, <2>0 DEF IndInv, TypeOK, IrqNextTask
    <3> QED
      BY <1>17, <2>0, <3>1 DEF IrqNextTask, rocket_job_hw_submit
  <2> QED
    BY <1>17, <2>0, <2>1 DEF IndInv, TypeOK, IrqNextTask, rocket_job_hw_submit
<1>18. ASSUME NEW c \in Cores, IrqSignal(c) PROVE TypeOK'
  <2>0. in_flight[c] \in Jobs /\ in_flight[c] # NULL
    BY <1>18, Subjects DEF IrqSignal
  <2>1. credit' \in [Cores -> 0 .. 1]
    <3>1. credit \in [Cores -> 0 .. 1]
      BY DEF IndInv, TypeOK
    <3>2. CASE ~armed[in_flight[c]]
      BY <1>18, <3>1, <3>2 DEF IrqSignal
    <3>3. CASE armed[in_flight[c]]
      <4>1. IsActive(in_flight[c], c)
        BY <1>18, <2>0 DEF IndInv, FlightInv, FlightInvAt, IrqSignal
      <4>2. credit[c] = 1
        BY <2>0, <3>1, <3>3, <4>1 DEF IndInv, SchedInv, SchedInvAt
      <4> QED
        BY <1>18, <3>1, <4>2 DEF IrqSignal, drm_sched_job_done
    <3> QED
      BY <3>2, <3>3
  <2>2. /\ done_fence' \in [Jobs -> {"none", "unsignaled", "signaled", "error"}]
        /\ armed' \in [Jobs -> BOOLEAN] /\ finished' \in [Jobs -> Results]
        /\ irq_pc' \in [Cores -> {"idle", "entered", "signaled"}]
    BY <1>18, <2>0 DEF IndInv, TypeOK, IrqSignal, drm_sched_job_done
  <2>3. UNCHANGED <<pm_refcount, usage, place, domain, core_of, refcount,
                   next_task_idx, submit, timeout_count, run_pc,
                   run_job, in_flight, attached, reset_pending, hw, foreign, irq_woken,
                   tdr_pc, tdr_job, free_guilty, close_pc, pool>>
    BY <1>18 DEF IrqSignal, drm_sched_job_done
  <2> QED
    BY <2>1, <2>2, <2>3 DEF IndInv, TypeOK
<1>19. ASSUME NEW c \in Cores, IrqFinish(c) PROVE TypeOK'
  <2>1. pm_refcount' \in Nat /\ usage' \in [Cores -> Nat]
    <3>1. c \in InFlightCores
      BY <1>19 DEF IrqFinish, InFlightCores, IndInv, FlightInv, FlightInvAt
    <3>2. pm_refcount > 0
      BY <3>1, UserCounted DEF IndInv, PmInv
    <3> QED
      BY <1>19, <3>2, PmPut DEF IndInv, PmInv, IrqFinish
  <2> QED
    BY <1>19, <2>1 DEF IndInv, TypeOK, IrqFinish
<1>20. ASSUME NEW c \in Cores, TdrStop(c) PROVE TypeOK'
  <2>0. tdr_job[c] \in Jobs /\ tdr_job[c] # NULL
    BY <1>20, Subjects DEF TdrStop, drm_sched_stop
  <2>1. refcount' \in [Jobs -> 0 .. 2]
    <3>1. /\ refcount \in [Jobs -> 0 .. 2]
          /\ \A k \in Jobs : JobInvAt(k)
      BY DEF IndInv, TypeOK, JobInv
    <3>2. \A k \in Jobs : Popped(k) => refcount[k] - 1 \in 0 .. 2
      BY <3>1 DEF JobInvAt
    <3> QED
      BY <1>20, <3>1, <3>2 DEF TdrStop, drm_sched_stop
  <2>2. credit' \in [Cores -> 0 .. 1]
    <3> DEFINE onList == {k \in Jobs : core_of[k] = c /\ Popped(k)}
               kept == {k \in onList : armed[k]}
    <3>1. credit \in [Cores -> 0 .. 1] /\ SchedInvAt(c)
      BY DEF IndInv, TypeOK, SchedInv
    <3>2. credit[c] - Cardinality(kept) \in 0 .. 1
      <4>1. CASE \E k \in Jobs : k \in kept
        <5>1. PICK k \in Jobs : k \in kept
          BY <4>1
        <5>2. kept = {k} /\ IsActive(k, c) /\ ~Paused(c)
          BY <3>1, <5>1 DEF SchedInvAt
        <5>3. Cardinality(kept) = 1
          BY <5>2, FS_Singleton
        <5>4. credit[c] = 1
          BY <3>1, <5>2 DEF SchedInvAt
        <5> QED
          BY <5>3, <5>4
      <4>2. CASE kept = {}
        <5>1. Cardinality(kept) = 0
          BY <4>2, FS_EmptySet
        <5> QED
          BY <3>1, <5>1
      <4> QED
        BY <4>1, <4>2
    <3> QED
      BY <1>20, <3>1, <3>2 DEF TdrStop, drm_sched_stop
  <2> QED
    BY <1>20, <2>0, <2>1, <2>2 DEF IndInv, TypeOK, TdrStop, drm_sched_stop
<1>21. ASSUME NEW c \in Cores, TdrClear(c) PROVE TypeOK'
  <2>0. tdr_job[c] \in Jobs /\ tdr_job[c] # NULL
    BY <1>21, Subjects DEF TdrClear
  <2>1. pm_refcount' \in Nat /\ usage' \in [Cores -> Nat]
    <3>1. CASE in_flight[c] = NULL
      BY <1>21, <3>1 DEF TdrClear, IndInv, TypeOK
    <3>2. CASE in_flight[c] # NULL
      <4>1. c \in InFlightCores
        BY <3>2 DEF InFlightCores
      <4>2. pm_refcount > 0
        BY <4>1, UserCounted DEF IndInv, PmInv
      <4> QED
        BY <1>21, <3>2, <4>2, PmPut DEF IndInv, PmInv, TdrClear
    <3> QED
      BY <3>1, <3>2
  <2> QED
    BY <1>21, <2>0, <2>1 DEF IndInv, TypeOK, TdrClear
<1>22. ASSUME NEW c \in Cores, TdrRestart(c) PROVE TypeOK'
  <2>0. tdr_job[c] \in Jobs /\ tdr_job[c] # NULL
    BY <1>22, Subjects DEF TdrRestart
  <2> QED
    BY <1>22, <2>0 DEF IndInv, TypeOK, TdrRestart, cancelled, reset_done
<1>23. ASSUME NEW c \in Cores, TdrReturn(c) PROVE TypeOK'
  <2>0. tdr_job[c] \in Jobs /\ tdr_job[c] # NULL
    BY <1>23, Subjects DEF TdrReturn
  <2>1. place' \in [Jobs -> Places]
    <3>1. place \in [Jobs -> Places]
      BY DEF IndInv, TypeOK
    <3>2. CASE free_guilty[c]
      <4>1. place' = [place EXCEPT ![tdr_job[c]] = "retired"]
        BY <1>23, <3>2 DEF TdrReturn
      <4> QED
        BY <2>0, <3>1, <4>1
    <3>3. CASE ~free_guilty[c]
      BY <1>23, <3>1, <3>3 DEF TdrReturn
    <3> QED
      BY <3>2, <3>3
  <2>2. refcount' \in [Jobs -> 0 .. 2]
    <3>1. /\ refcount \in [Jobs -> 0 .. 2]
          /\ JobInvAt(tdr_job[c]) /\ TdrInvAt(c)
      BY <2>0 DEF IndInv, TypeOK, JobInv, TdrInv
    <3>2. free_guilty[c] => refcount[tdr_job[c]] - 1 \in 0 .. 2
      BY <2>0, <3>1 DEF JobInvAt, TdrInvAt
    <3> QED
      BY <1>23, <2>0, <3>1, <3>2 DEF TdrReturn
  <2>3. /\ timeout_count' \in [Jobs -> Nat]
        /\ tdr_pc' \in [Cores -> {"idle", "marked", "stopped", "cleared", "restarted"}]
        /\ tdr_job' \in [Cores -> JobOrNull] /\ free_guilty' \in [Cores -> BOOLEAN]
    BY <1>23, <2>0 DEF IndInv, TypeOK, TdrReturn
  <2>4. UNCHANGED <<pm_refcount, usage, domain, core_of, next_task_idx,
                   done_fence, armed, finished, submit, run_pc,
                   run_job, credit, in_flight, attached, reset_pending, hw,
                   irq_woken, irq_pc, foreign, close_pc, pool>>
    BY <1>23 DEF TdrReturn
  <2> QED
    BY <2>1, <2>2, <2>3, <2>4 DEF IndInv, TypeOK
<1>24. ASSUME NEW c \in Cores, NEW j \in Jobs, TdrFire(c, j) PROVE TypeOK'
  BY <1>24 DEF IndInv, TypeOK, TdrFire
<1>25. ASSUME NEW f \in Files, NEW c \in Cores, CloseEntity(f, c) PROVE TypeOK'
  <2>1. refcount' \in [Jobs -> 0 .. 2]
    <3>1. /\ refcount \in [Jobs -> 0 .. 2]
          /\ \A k \in Jobs : JobInvAt(k)
      BY DEF IndInv, TypeOK, JobInv
    <3>2. \A k \in Jobs : place[k] = "queued" => refcount[k] - 1 \in 0 .. 2
      BY <3>1 DEF JobInvAt
    <3> QED
      BY <1>25, <3>1, <3>2 DEF CloseEntity
  <2>2. close_pc' \in [Files -> 0 .. 2 * NumCores + 1]
    <3>1. close_pc \in [Files -> 0 .. 2 * NumCores + 1] /\ close_pc[f] = c
      BY <1>25 DEF IndInv, TypeOK, CloseEntity
    <3> QED
      BY <1>25, <3>1, NumCoresAssumption DEF CloseEntity, Cores
  <2> QED
    BY <1>25, <2>1, <2>2 DEF IndInv, TypeOK, CloseEntity, entity_idle
<1>26. ASSUME NEW f \in Files, NEW c \in Cores, CloseDetach(f, c) PROVE TypeOK'
  <2>1. close_pc' \in [Files -> 0 .. 2 * NumCores + 1]
    <3>1. close_pc \in [Files -> 0 .. 2 * NumCores + 1] /\ close_pc[f] = NumCores + c
      BY <1>26 DEF IndInv, TypeOK, CloseDetach
    <3> QED
      BY <1>26, <3>1, NumCoresAssumption DEF CloseDetach, Cores
  <2> QED
    BY <1>26, <2>1 DEF IndInv, TypeOK, CloseDetach, closes_domain
<1>27. ASSUME NEW f \in Files, CloseDomains(f) PROVE TypeOK'
  <2>1. close_pc' \in [Files -> 0 .. 2 * NumCores + 1]
    <3>1. close_pc \in [Files -> 0 .. 2 * NumCores + 1] /\ close_pc[f] = 2 * NumCores
      BY <1>27 DEF IndInv, TypeOK, CloseDomains
    <3> QED
      BY <1>27, <3>1, NumCoresAssumption DEF CloseDomains, Cores
  <2> QED
    BY <1>27, <2>1 DEF IndInv, TypeOK, CloseDomains
<1>28. CASE UNCHANGED vars
  BY <1>28 DEF IndInv, TypeOK, vars
<1> QED
  BY <1>1, <1>2, <1>3, <1>4, <1>5, <1>6, <1>7, <1>8, <1>9, <1>10, <1>11, <1>12,
     <1>13, <1>14, <1>15, <1>16, <1>17, <1>18, <1>19, <1>20, <1>21, <1>22, <1>23,
     <1>24, <1>25, <1>26, <1>27, <1>28 DEF Next, RunWorker, IrqThread, TdrProgress,
     Close, Rest

\* The life cycle and the references of a job.
LEMMA JobInvStep ==
  ASSUME IndInv, [Next]_vars PROVE JobInv'
<1> USE SetsAssumption
    DEF pmVars, jobVars, coreVars, fileVars, routeVars, fenceVars,
        runVars, irqVars, tdrVars,
        InScheduler, Popped, IsActive, Paused, JobLockFree, file,
        JobOrNull, AllDomains, task_count
<1> SUFFICES ASSUME NEW k \in Jobs PROVE JobInvAt(k)'
  BY DEF JobInv
<1>0. /\ refcount \in [Jobs -> 0 .. 2]
      /\ submit \in [Jobs -> {"idle", "wait", "success", "timedout", "error"}]
      /\ place \in [Jobs -> Places] /\ domain \in [Jobs -> DomainOrNull]
      /\ finished \in [Jobs -> Results] /\ next_task_idx \in [Jobs -> 0 .. task_count]
      /\ done_fence \in [Jobs -> {"none", "unsignaled", "signaled", "error"}]
      /\ (\A j \in Jobs : JobInvAt(j))
      /\ (\A c \in Cores : RunInvAt(c) /\ FlightInvAt(c) /\ TdrInvAt(c))
  BY DEF IndInv, TypeOK, JobInv, RunInv, FlightInv, TdrInv
<1>1. ASSUME NEW j \in Jobs, NEW f \in Files, NEW id \in DomainIds, NEW m \in CoreMasks,
             Submit(j, f, id, m)
      PROVE  JobInvAt(k)'
  BY <1>0, <1>1 DEF JobInvAt, Submit
<1>2. ASSUME NEW j \in Jobs, NEW f \in Files, SubmitFail(j, f) PROVE JobInvAt(k)'
  BY <1>0, <1>2 DEF JobInvAt, SubmitFail
<1>3. ASSUME NEW j \in Jobs, WaitDone(j) PROVE JobInvAt(k)'
  BY <1>0, <1>3 DEF JobInvAt, WaitDone
<1>4. ASSUME NEW j \in Jobs, WaitExpire(j) PROVE JobInvAt(k)'
  BY <1>0, <1>4 DEF JobInvAt, WaitExpire
<1>5. ASSUME NEW j \in Jobs, Free(j) PROVE JobInvAt(k)'
  BY <1>0, <1>5 DEF JobInvAt, Free
<1>6. ASSUME NEW c \in Cores, NEW j \in Jobs, RunPop(c, j) PROVE JobInvAt(k)'
  BY <1>0, <1>6 DEF JobInvAt, RunInvAt, RunPop
<1>7. ASSUME NEW c \in Cores, RunNoFence(c) PROVE JobInvAt(k)'
  BY <1>0, <1>7 DEF JobInvAt, RunInvAt, RunNoFence, drm_sched_job_done
<1>8. ASSUME NEW c \in Cores, RunPower(c) PROVE JobInvAt(k)'
  BY <1>0, <1>8 DEF JobInvAt, RunInvAt, RunPower
<1>9. ASSUME NEW c \in Cores, NEW bad \in Cores,
             RunPowerFail(c, bad)
      PROVE  JobInvAt(k)'
  BY <1>0, <1>9 DEF JobInvAt, RunInvAt, RunPowerFail
<1>10. ASSUME NEW c \in Cores, RunAttach(c) PROVE JobInvAt(k)'
  BY <1>0, <1>10 DEF JobInvAt, RunInvAt, RunAttach, rocket_job_hw_submit, domain_switch
<1>11. ASSUME NEW c \in Cores, RunUnwind(c) PROVE JobInvAt(k)'
  BY <1>0, <1>11 DEF JobInvAt, RunInvAt, RunUnwind
<1>12. ASSUME NEW c \in Cores, RunDone(c) PROVE JobInvAt(k)'
  BY <1>0, <1>12 DEF JobInvAt, RunInvAt, RunDone, drm_sched_job_done
<1>13. ASSUME NEW c \in Cores, IrqNextTask(c) PROVE JobInvAt(k)'
  BY <1>0, <1>13 DEF JobInvAt, FlightInvAt, IrqNextTask, rocket_job_hw_submit
<1>14. ASSUME NEW c \in Cores, IrqSignal(c) PROVE JobInvAt(k)'
  BY <1>0, <1>14 DEF JobInvAt, FlightInvAt, IrqSignal, drm_sched_job_done
<1>15. ASSUME NEW c \in Cores, TdrStop(c) PROVE JobInvAt(k)'
  BY <1>0, <1>15 DEF JobInvAt, TdrInvAt, TdrStop, drm_sched_stop
<1>16. ASSUME NEW c \in Cores, TdrRestart(c) PROVE JobInvAt(k)'
  BY <1>0, <1>16 DEF JobInvAt, TdrInvAt, TdrRestart, cancelled, reset_done
<1>17. ASSUME NEW c \in Cores, TdrReturn(c) PROVE JobInvAt(k)'
  <2>0. tdr_job[c] \in Jobs /\ tdr_job[c] # NULL
    BY <1>17, Subjects DEF TdrReturn
  <2>1. /\ refcount \in [Jobs -> 0 .. 2] /\ place \in [Jobs -> Places] /\ JobInvAt(k)
        /\ JobInvAt(tdr_job[c]) /\ TdrInvAt(c)
    BY <2>0 DEF IndInv, TypeOK, JobInv, TdrInv
  <2> QED
    BY <1>17, <2>0, <2>1 DEF JobInvAt, TdrInvAt, TdrReturn
<1>18. ASSUME NEW c \in Cores, NEW j \in Jobs, TdrFire(c, j) PROVE JobInvAt(k)'
  BY <1>0, <1>18 DEF JobInvAt, TdrInvAt, TdrFire
<1>19. ASSUME NEW f \in Files, NEW c \in Cores, CloseEntity(f, c) PROVE JobInvAt(k)'
  BY <1>0, <1>19 DEF JobInvAt, CloseEntity, entity_idle
<1>20. CASE UNCHANGED <<refcount, submit, place, domain, finished, next_task_idx, done_fence>>
  BY <1>0, <1>20 DEF JobInvAt
<1>21. ASSUME NEW c \in Cores,
             \/ RunAttachFail(c) \/ HwDone(c) \/ IrqShared(c) \/ IrqEnter(c) \/ IrqNothing(c)
             \/ IrqFinish(c) \/ TdrClear(c)
      PROVE  JobInvAt(k)'
  BY <1>20, <1>21 DEF RunAttachFail, HwDone, IrqShared, IrqEnter, IrqNothing, IrqFinish, TdrClear
<1>22. ASSUME NEW f \in Files,
             (\E c \in Cores : CloseDetach(f, c)) \/ CloseDomains(f)
      PROVE  JobInvAt(k)'
  BY <1>20, <1>22 DEF CloseDetach, CloseDomains
<1>23. CASE UNCHANGED vars
  BY <1>20, <1>23 DEF vars
<1> QED
  BY <1>1, <1>2, <1>3, <1>4, <1>5, <1>6, <1>7, <1>8, <1>9, <1>10, <1>11, <1>12,
     <1>13, <1>14, <1>15, <1>16, <1>17, <1>18, <1>19, <1>20, <1>21, <1>22, <1>23 DEF
     Next, RunWorker, IrqThread, TdrProgress, Close, Rest

\* Credits and armed callbacks of a core.
LEMMA SchedInvStep ==
  ASSUME IndInv, [Next]_vars PROVE SchedInv'
<1> USE SetsAssumption
    DEF pmVars, jobVars, coreVars, fileVars, routeVars, fenceVars,
        runVars, irqVars, tdrVars,
        InScheduler, Popped, IsActive, Paused, JobLockFree, file,
        JobOrNull, AllDomains, task_count
<1> SUFFICES ASSUME NEW d \in Cores PROVE SchedInvAt(d)'
  BY DEF SchedInv
<1>0. /\ core_of \in [Jobs -> Cores] /\ place \in [Jobs -> Places]
      /\ finished \in [Jobs -> Results] /\ credit \in [Cores -> 0 .. 1]
      /\ tdr_pc \in [Cores -> {"idle", "marked", "stopped", "cleared", "restarted"}]
      /\ armed \in [Jobs -> BOOLEAN] /\ run_job \in [Cores -> JobOrNull]
      /\ in_flight \in [Cores -> JobOrNull] /\ tdr_job \in [Cores -> JobOrNull]
      /\ (\A j \in Jobs : JobInvAt(j))
      /\ (\A c \in Cores : SchedInvAt(c) /\ RunInvAt(c) /\ FlightInvAt(c) /\ TdrInvAt(c))
  BY DEF IndInv, TypeOK, JobInv, SchedInv, RunInv, FlightInv, TdrInv
<1>1. ASSUME NEW j \in Jobs, NEW f \in Files, NEW id \in DomainIds, NEW m \in CoreMasks,
             Submit(j, f, id, m)
      PROVE  SchedInvAt(d)'
  <2>1. /\ core_of \in [Jobs -> Cores] /\ place \in [Jobs -> Places]
        /\ run_job \in [Cores -> JobOrNull] /\ in_flight \in [Cores -> JobOrNull]
        /\ tdr_job \in [Cores -> JobOrNull] /\ SchedInvAt(d) /\ RunInvAt(d)
        /\ JobInvAt(j)
    BY DEF IndInv, TypeOK, JobInv, SchedInv, RunInv
  <2>2. core_of[j] \in Cores /\ SchedInvAt(core_of[j])
    BY DEF IndInv, TypeOK, SchedInv
  <2>3. place[j] = "new" /\ ~armed[j]
    BY <1>1, <2>1, <2>2 DEF JobInvAt, SchedInvAt, Submit
  <2>4. \A k \in Jobs : IsActive(k, d)' <=> IsActive(k, d)
    BY <1>1, <2>1, <2>3 DEF Submit
  <2> QED
    BY <1>1, <2>1, <2>3, <2>4 DEF SchedInvAt, Submit
<1>2. ASSUME NEW j \in Jobs, Free(j) PROVE SchedInvAt(d)'
  BY <1>0, <1>2 DEF JobInvAt, SchedInvAt, RunInvAt, Free
<1>3. ASSUME NEW c \in Cores, NEW j \in Jobs, RunPop(c, j) PROVE SchedInvAt(d)'
  BY <1>0, <1>3 DEF JobInvAt, SchedInvAt, RunInvAt, RunPop
<1>4. ASSUME NEW c \in Cores, RunNoFence(c) PROVE SchedInvAt(d)'
  BY <1>0, <1>4 DEF JobInvAt, SchedInvAt, RunInvAt, RunNoFence, drm_sched_job_done
<1>5. ASSUME NEW c \in Cores, RunDone(c) PROVE SchedInvAt(d)'
  <2>0. run_job[c] \in Jobs /\ run_job[c] # NULL
    BY <1>5, Subjects DEF RunDone
  <2>1. /\ finished \in [Jobs -> Results] /\ credit \in [Cores -> 0 .. 1]
        /\ armed \in [Jobs -> BOOLEAN] /\ run_job \in [Cores -> JobOrNull]
        /\ in_flight \in [Cores -> JobOrNull] /\ tdr_job \in [Cores -> JobOrNull]
        /\ SchedInvAt(d) /\ RunInvAt(d) /\ SchedInvAt(c) /\ RunInvAt(c)
        /\ JobInvAt(run_job[c])
    BY <2>0 DEF IndInv, TypeOK, JobInv, SchedInv, RunInv
  <2> QED
    BY <1>5, <2>0, <2>1 DEF JobInvAt, SchedInvAt, RunInvAt, RunDone, drm_sched_job_done
<1>6. ASSUME NEW c \in Cores, IrqSignal(c) PROVE SchedInvAt(d)'
  <2>0. in_flight[c] \in Jobs /\ in_flight[c] # NULL
    BY <1>6, Subjects DEF IrqSignal
  <2>1. /\ finished \in [Jobs -> Results] /\ credit \in [Cores -> 0 .. 1]
        /\ armed \in [Jobs -> BOOLEAN] /\ run_job \in [Cores -> JobOrNull]
        /\ in_flight \in [Cores -> JobOrNull] /\ tdr_job \in [Cores -> JobOrNull]
        /\ SchedInvAt(d) /\ RunInvAt(d) /\ FlightInvAt(d) /\ SchedInvAt(c)
        /\ RunInvAt(c) /\ FlightInvAt(c) /\ JobInvAt(in_flight[c])
    BY <2>0 DEF IndInv, TypeOK, JobInv, SchedInv, RunInv, FlightInv
  <2> QED
    BY <1>6, <2>0, <2>1 DEF JobInvAt, SchedInvAt, RunInvAt, FlightInvAt, IrqSignal,
       drm_sched_job_done
<1>7. ASSUME NEW c \in Cores, TdrStop(c) PROVE SchedInvAt(d)'
  <2>0. tdr_job[c] \in Jobs /\ tdr_job[c] # NULL
    BY <1>7, Subjects DEF TdrStop, drm_sched_stop
  <2>1. /\ place \in [Jobs -> Places] /\ credit \in [Cores -> 0 .. 1]
        /\ tdr_pc \in [Cores -> {"idle", "marked", "stopped", "cleared", "restarted"}]
        /\ armed \in [Jobs -> BOOLEAN] /\ run_job \in [Cores -> JobOrNull]
        /\ in_flight \in [Cores -> JobOrNull] /\ tdr_job \in [Cores -> JobOrNull]
        /\ SchedInvAt(d) /\ RunInvAt(d) /\ TdrInvAt(d) /\ SchedInvAt(c) /\ RunInvAt(c)
        /\ TdrInvAt(c) /\ JobInvAt(tdr_job[c])
    BY <2>0 DEF IndInv, TypeOK, JobInv, SchedInv, RunInv, TdrInv
  <2> DEFINE onList == {k \in Jobs : core_of[k] = c /\ Popped(k)}
             kept == {k \in onList : armed[k]}
  <2>2. ~Paused(c)
    BY <1>7 DEF TdrStop, drm_sched_stop
  <2>3. \A k \in Jobs : k \in kept <=> IsActive(k, c)
    BY <1>7, <2>1 DEF SchedInvAt, TdrStop, drm_sched_stop
  <2>4. credit'[c] = 0
    <3>1. CASE credit[c] = 0
      <4>1. kept = {}
        BY <2>1, <2>2, <2>3, <3>1 DEF SchedInvAt
      <4>2. Cardinality(kept) = 0
        BY <4>1, FS_EmptySet
      <4> QED
        BY <1>7, <2>1, <3>1, <4>2 DEF TdrStop, drm_sched_stop
    <3>2. CASE credit[c] = 1
      <4>1. PICK k \in Jobs : IsActive(k, c)
        BY <2>1, <3>2 DEF SchedInvAt
      <4>2. kept = {k}
        BY <2>1, <2>3, <4>1 DEF SchedInvAt
      <4>3. Cardinality(kept) = 1
        BY <4>2, FS_Singleton
      <4> QED
        BY <1>7, <2>1, <3>2, <4>3 DEF TdrStop, drm_sched_stop
    <3> QED
      BY <2>1, <3>1, <3>2
  <2>5. CASE d = c
    <3>1. \A k \in Jobs : core_of[k] = c => ~armed'[k]
      BY <1>7, <2>1 DEF SchedInvAt, TdrStop, drm_sched_stop
    <3>2. Paused(c)'
      BY <1>7, <2>1 DEF TdrStop, drm_sched_stop
    <3>3. \A k \in Jobs : IsActive(k, c)' => IsActive(k, c)
      BY <1>7, <2>1 DEF TdrStop, drm_sched_stop
    <3> QED
      BY <1>7, <2>1, <2>4, <2>5, <3>1, <3>2, <3>3 DEF SchedInvAt, TdrStop, drm_sched_stop
  <2>6. CASE d # c
    BY <1>7, <2>0, <2>1, <2>6 DEF JobInvAt, SchedInvAt, RunInvAt, TdrInvAt,
       TdrStop, drm_sched_stop
  <2> QED
    BY <2>5, <2>6
<1>8. ASSUME NEW c \in Cores, TdrClear(c) PROVE SchedInvAt(d)'
  BY <1>0, <1>8 DEF JobInvAt, SchedInvAt, RunInvAt, TdrInvAt, TdrClear
<1>9. ASSUME NEW c \in Cores, TdrRestart(c) PROVE SchedInvAt(d)'
  BY <1>0, <1>9 DEF JobInvAt, SchedInvAt, RunInvAt, TdrInvAt, TdrRestart, cancelled,
     reset_done
<1>10. ASSUME NEW c \in Cores, TdrReturn(c) PROVE SchedInvAt(d)'
  <2>0. tdr_job[c] \in Jobs /\ tdr_job[c] # NULL
    BY <1>10, Subjects DEF TdrReturn
  <2>1. /\ place \in [Jobs -> Places]
        /\ tdr_pc \in [Cores -> {"idle", "marked", "stopped", "cleared", "restarted"}]
        /\ run_job \in [Cores -> JobOrNull] /\ in_flight \in [Cores -> JobOrNull]
        /\ tdr_job \in [Cores -> JobOrNull] /\ SchedInvAt(d) /\ RunInvAt(d)
        /\ TdrInvAt(d) /\ SchedInvAt(c) /\ RunInvAt(c) /\ TdrInvAt(c)
        /\ JobInvAt(tdr_job[c])
    BY <2>0 DEF IndInv, TypeOK, JobInv, SchedInv, RunInv, TdrInv
  <2> QED
    BY <1>10, <2>0, <2>1 DEF JobInvAt, SchedInvAt, RunInvAt, TdrInvAt, TdrReturn
<1>11. ASSUME NEW c \in Cores, NEW j \in Jobs, TdrFire(c, j) PROVE SchedInvAt(d)'
  BY <1>0, <1>11 DEF JobInvAt, SchedInvAt, RunInvAt, TdrInvAt, TdrFire
<1>12. ASSUME NEW f \in Files, NEW c \in Cores, CloseEntity(f, c) PROVE SchedInvAt(d)'
  BY <1>0, <1>12 DEF JobInvAt, SchedInvAt, RunInvAt, CloseEntity, entity_idle
<1>13. CASE UNCHANGED <<core_of, place, finished, credit, tdr_pc, armed, run_job>>
  BY <1>0, <1>13 DEF SchedInvAt
<1>14. ASSUME NEW c \in Cores,
             \/ RunPower(c) \/ (\E bad \in Cores : RunPowerFail(c, bad)) \/ RunAttach(c)
             \/ RunAttachFail(c) \/ RunUnwind(c) \/ HwDone(c) \/ IrqShared(c) \/ IrqEnter(c)
             \/ IrqNothing(c) \/ IrqNextTask(c) \/ IrqFinish(c)
      PROVE  SchedInvAt(d)'
  BY <1>13, <1>14 DEF RunPower, RunPowerFail, RunAttach, RunAttachFail, RunUnwind,
     HwDone, IrqShared, IrqEnter, IrqNothing, IrqNextTask, IrqFinish, rocket_job_hw_submit
<1>15. ASSUME NEW j \in Jobs,
             (\E f \in Files : SubmitFail(j, f)) \/ WaitDone(j) \/ WaitExpire(j)
      PROVE  SchedInvAt(d)'
  BY <1>13, <1>15 DEF SubmitFail, WaitDone, WaitExpire
<1>16. ASSUME NEW f \in Files,
             (\E c \in Cores : CloseDetach(f, c)) \/ CloseDomains(f)
      PROVE  SchedInvAt(d)'
  BY <1>13, <1>16 DEF CloseDetach, CloseDomains
<1>17. CASE UNCHANGED vars
  BY <1>13, <1>17 DEF vars
<1> QED
  BY <1>1, <1>2, <1>3, <1>4, <1>5, <1>6, <1>7, <1>8, <1>9, <1>10, <1>11, <1>12,
     <1>13, <1>14, <1>15, <1>16, <1>17 DEF Next, RunWorker, IrqThread, TdrProgress,
     Close, Rest

\* The run worker.
LEMMA RunInvStep ==
  ASSUME IndInv, [Next]_vars PROVE RunInv'
<1> USE SetsAssumption
    DEF pmVars, jobVars, coreVars, fileVars, routeVars, fenceVars,
        runVars, irqVars, tdrVars,
        InScheduler, Popped, IsActive, Paused, JobLockFree, file,
        JobOrNull, AllDomains, task_count
<1> SUFFICES ASSUME NEW d \in Cores PROVE RunInvAt(d)'
  BY DEF RunInv
<1>0. /\ run_pc \in [Cores -> {"idle", "begin", "powered", "failed", "ran"}]
      /\ run_job \in [Cores -> JobOrNull]
      /\ tdr_pc \in [Cores -> {"idle", "marked", "stopped", "cleared", "restarted"}]
      /\ core_of \in [Jobs -> Cores] /\ place \in [Jobs -> Places]
      /\ finished \in [Jobs -> Results] /\ next_task_idx \in [Jobs -> 0 .. task_count]
      /\ done_fence \in [Jobs -> {"none", "unsignaled", "signaled", "error"}]
      /\ irq_pc \in [Cores -> {"idle", "entered", "signaled"}]
      /\ in_flight \in [Cores -> JobOrNull] /\ (\A j \in Jobs : JobInvAt(j))
      /\ (\A c \in Cores : RunInvAt(c) /\ SchedInvAt(c) /\ FlightInvAt(c) /\ TdrInvAt(c))
  BY DEF IndInv, TypeOK, JobInv, RunInv, SchedInv, FlightInv, TdrInv
<1>1. ASSUME NEW j \in Jobs, NEW f \in Files, NEW id \in DomainIds, NEW m \in CoreMasks,
             Submit(j, f, id, m)
      PROVE  RunInvAt(d)'
  BY <1>0, <1>1 DEF JobInvAt, RunInvAt, Submit
<1>2. ASSUME NEW j \in Jobs, Free(j) PROVE RunInvAt(d)'
  BY <1>0, <1>2 DEF RunInvAt, Free
<1>3. ASSUME NEW c \in Cores, NEW j \in Jobs, RunPop(c, j) PROVE RunInvAt(d)'
  BY <1>0, <1>3 DEF JobInvAt, RunInvAt, SchedInvAt, FlightInvAt, RunPop
<1>4. ASSUME NEW c \in Cores, RunNoFence(c) PROVE RunInvAt(d)'
  BY <1>0, <1>4 DEF RunInvAt, RunNoFence, drm_sched_job_done
<1>5. ASSUME NEW c \in Cores, RunPower(c) PROVE RunInvAt(d)'
  BY <1>0, <1>5 DEF RunInvAt, RunPower
<1>6. ASSUME NEW c \in Cores, NEW bad \in Cores,
             RunPowerFail(c, bad)
      PROVE  RunInvAt(d)'
  BY <1>0, <1>6 DEF RunInvAt, RunPowerFail
<1>7. ASSUME NEW c \in Cores, RunAttach(c) PROVE RunInvAt(d)'
  BY <1>0, <1>7 DEF RunInvAt, RunAttach, rocket_job_hw_submit, domain_switch
<1>8. ASSUME NEW c \in Cores, RunAttachFail(c) PROVE RunInvAt(d)'
  BY <1>0, <1>8 DEF RunInvAt, RunAttachFail
<1>9. ASSUME NEW c \in Cores, RunUnwind(c) PROVE RunInvAt(d)'
  BY <1>0, <1>9 DEF RunInvAt, RunUnwind
<1>10. ASSUME NEW c \in Cores, RunDone(c) PROVE RunInvAt(d)'
  BY <1>0, <1>10 DEF RunInvAt, RunDone, drm_sched_job_done
<1>11. ASSUME NEW c \in Cores, IrqEnter(c) PROVE RunInvAt(d)'
  BY <1>0, <1>11 DEF RunInvAt, FlightInvAt, IrqEnter
<1>12. ASSUME NEW c \in Cores, IrqNothing(c) PROVE RunInvAt(d)'
  BY <1>0, <1>12 DEF RunInvAt, FlightInvAt, IrqNothing
<1>13. ASSUME NEW c \in Cores, IrqNextTask(c) PROVE RunInvAt(d)'
  BY <1>0, <1>13 DEF RunInvAt, FlightInvAt, IrqNextTask, rocket_job_hw_submit
<1>14. ASSUME NEW c \in Cores, IrqSignal(c) PROVE RunInvAt(d)'
  BY <1>0, <1>14 DEF RunInvAt, SchedInvAt, FlightInvAt, IrqSignal, drm_sched_job_done
<1>15. ASSUME NEW c \in Cores, IrqFinish(c) PROVE RunInvAt(d)'
  BY <1>0, <1>15 DEF RunInvAt, FlightInvAt, IrqFinish
<1>16. ASSUME NEW c \in Cores, TdrStop(c) PROVE RunInvAt(d)'
  BY <1>0, <1>16 DEF RunInvAt, TdrInvAt, TdrStop, drm_sched_stop
<1>17. ASSUME NEW c \in Cores, TdrClear(c) PROVE RunInvAt(d)'
  BY <1>0, <1>17 DEF RunInvAt, TdrInvAt, TdrClear
<1>18. ASSUME NEW c \in Cores, TdrRestart(c) PROVE RunInvAt(d)'
  BY <1>0, <1>18 DEF RunInvAt, TdrInvAt, TdrRestart, cancelled, reset_done
<1>19. ASSUME NEW c \in Cores, TdrReturn(c) PROVE RunInvAt(d)'
  BY <1>0, <1>19 DEF RunInvAt, TdrInvAt, TdrReturn
<1>20. ASSUME NEW c \in Cores, NEW j \in Jobs, TdrFire(c, j) PROVE RunInvAt(d)'
  BY <1>0, <1>20 DEF RunInvAt, TdrFire
<1>21. ASSUME NEW f \in Files, NEW c \in Cores, CloseEntity(f, c) PROVE RunInvAt(d)'
  BY <1>0, <1>21 DEF RunInvAt, CloseEntity, entity_idle
<1>22. CASE UNCHANGED <<run_pc, run_job, tdr_pc, core_of, place, finished, next_task_idx, done_fence, irq_pc, in_flight>>
  BY <1>0, <1>22 DEF RunInvAt
<1>23. ASSUME NEW c \in Cores,
             HwDone(c) \/ IrqShared(c)
      PROVE  RunInvAt(d)'
  BY <1>22, <1>23 DEF HwDone, IrqShared
<1>24. ASSUME NEW j \in Jobs,
             (\E f \in Files : SubmitFail(j, f)) \/ WaitDone(j) \/ WaitExpire(j)
      PROVE  RunInvAt(d)'
  BY <1>22, <1>24 DEF SubmitFail, WaitDone, WaitExpire
<1>25. ASSUME NEW f \in Files,
             (\E c \in Cores : CloseDetach(f, c)) \/ CloseDomains(f)
      PROVE  RunInvAt(d)'
  BY <1>22, <1>25 DEF CloseDetach, CloseDomains
<1>26. CASE UNCHANGED vars
  BY <1>22, <1>26 DEF vars
<1> QED
  BY <1>1, <1>2, <1>3, <1>4, <1>5, <1>6, <1>7, <1>8, <1>9, <1>10, <1>11, <1>12,
     <1>13, <1>14, <1>15, <1>16, <1>17, <1>18, <1>19, <1>20, <1>21, <1>22, <1>23,
     <1>24, <1>25, <1>26 DEF Next, RunWorker, IrqThread, TdrProgress, Close, Rest

\* The job in flight.
LEMMA FlightInvStep ==
  ASSUME IndInv, [Next]_vars PROVE FlightInv'
<1> USE SetsAssumption
    DEF pmVars, jobVars, coreVars, fileVars, routeVars, fenceVars,
        runVars, irqVars, tdrVars,
        InScheduler, Popped, IsActive, Paused, JobLockFree, file,
        JobOrNull, AllDomains, task_count
<1> SUFFICES ASSUME NEW d \in Cores PROVE FlightInvAt(d)'
  BY DEF FlightInv
<1>0. /\ irq_pc \in [Cores -> {"idle", "entered", "signaled"}]
      /\ in_flight \in [Cores -> JobOrNull] /\ core_of \in [Jobs -> Cores]
      /\ place \in [Jobs -> Places] /\ finished \in [Jobs -> Results]
      /\ done_fence \in [Jobs -> {"none", "unsignaled", "signaled", "error"}]
      /\ tdr_pc \in [Cores -> {"idle", "marked", "stopped", "cleared", "restarted"}]
      /\ run_job \in [Cores -> JobOrNull] /\ (\A j \in Jobs : JobInvAt(j))
      /\ (\A c \in Cores : FlightInvAt(c) /\ RunInvAt(c) /\ TdrInvAt(c))
  BY DEF IndInv, TypeOK, JobInv, FlightInv, RunInv, TdrInv
<1>1. ASSUME NEW j \in Jobs, NEW f \in Files, NEW id \in DomainIds, NEW m \in CoreMasks,
             Submit(j, f, id, m)
      PROVE  FlightInvAt(d)'
  BY <1>0, <1>1 DEF JobInvAt, FlightInvAt, Submit
<1>2. ASSUME NEW j \in Jobs, Free(j) PROVE FlightInvAt(d)'
  BY <1>0, <1>2 DEF FlightInvAt, Free
<1>3. ASSUME NEW c \in Cores, NEW j \in Jobs, RunPop(c, j) PROVE FlightInvAt(d)'
  BY <1>0, <1>3 DEF JobInvAt, FlightInvAt, RunPop
<1>4. ASSUME NEW c \in Cores, RunNoFence(c) PROVE FlightInvAt(d)'
  BY <1>0, <1>4 DEF FlightInvAt, RunInvAt, RunNoFence, drm_sched_job_done
<1>5. ASSUME NEW c \in Cores, RunPower(c) PROVE FlightInvAt(d)'
  BY <1>0, <1>5 DEF FlightInvAt, RunInvAt, RunPower
<1>6. ASSUME NEW c \in Cores, NEW bad \in Cores,
             RunPowerFail(c, bad)
      PROVE  FlightInvAt(d)'
  BY <1>0, <1>6 DEF FlightInvAt, RunInvAt, RunPowerFail
<1>7. ASSUME NEW c \in Cores, RunAttach(c) PROVE FlightInvAt(d)'
  BY <1>0, <1>7 DEF FlightInvAt, RunInvAt, RunAttach, rocket_job_hw_submit,
     domain_switch
<1>8. ASSUME NEW c \in Cores, RunUnwind(c) PROVE FlightInvAt(d)'
  BY <1>0, <1>8 DEF FlightInvAt, RunInvAt, RunUnwind
<1>9. ASSUME NEW c \in Cores, RunDone(c) PROVE FlightInvAt(d)'
  BY <1>0, <1>9 DEF FlightInvAt, RunInvAt, RunDone, drm_sched_job_done
<1>10. ASSUME NEW c \in Cores, IrqEnter(c) PROVE FlightInvAt(d)'
  BY <1>0, <1>10 DEF FlightInvAt, IrqEnter
<1>11. ASSUME NEW c \in Cores, IrqNothing(c) PROVE FlightInvAt(d)'
  BY <1>0, <1>11 DEF FlightInvAt, IrqNothing
<1>12. ASSUME NEW c \in Cores, IrqNextTask(c) PROVE FlightInvAt(d)'
  BY <1>0, <1>12 DEF FlightInvAt, IrqNextTask, rocket_job_hw_submit
<1>13. ASSUME NEW c \in Cores, IrqSignal(c) PROVE FlightInvAt(d)'
  BY <1>0, <1>13 DEF FlightInvAt, IrqSignal, drm_sched_job_done
<1>14. ASSUME NEW c \in Cores, IrqFinish(c) PROVE FlightInvAt(d)'
  BY <1>0, <1>14 DEF FlightInvAt, IrqFinish
<1>15. ASSUME NEW c \in Cores, TdrStop(c) PROVE FlightInvAt(d)'
  BY <1>0, <1>15 DEF FlightInvAt, TdrInvAt, TdrStop, drm_sched_stop
<1>16. ASSUME NEW c \in Cores, TdrClear(c) PROVE FlightInvAt(d)'
  BY <1>0, <1>16 DEF FlightInvAt, TdrInvAt, TdrClear
<1>17. ASSUME NEW c \in Cores, TdrRestart(c) PROVE FlightInvAt(d)'
  BY <1>0, <1>17 DEF FlightInvAt, TdrInvAt, TdrRestart, cancelled, reset_done
<1>18. ASSUME NEW c \in Cores, TdrReturn(c) PROVE FlightInvAt(d)'
  BY <1>0, <1>18 DEF FlightInvAt, TdrInvAt, TdrReturn
<1>19. ASSUME NEW c \in Cores, NEW j \in Jobs, TdrFire(c, j) PROVE FlightInvAt(d)'
  BY <1>0, <1>19 DEF FlightInvAt, TdrFire
<1>20. ASSUME NEW f \in Files, NEW c \in Cores, CloseEntity(f, c) PROVE FlightInvAt(d)'
  BY <1>0, <1>20 DEF FlightInvAt, CloseEntity, entity_idle
<1>21. CASE UNCHANGED <<irq_pc, in_flight, core_of, place, finished, done_fence, tdr_pc>>
  BY <1>0, <1>21 DEF FlightInvAt
<1>22. ASSUME NEW c \in Cores,
             RunAttachFail(c) \/ HwDone(c) \/ IrqShared(c)
      PROVE  FlightInvAt(d)'
  BY <1>21, <1>22 DEF RunAttachFail, HwDone, IrqShared
<1>23. ASSUME NEW j \in Jobs,
             (\E f \in Files : SubmitFail(j, f)) \/ WaitDone(j) \/ WaitExpire(j)
      PROVE  FlightInvAt(d)'
  BY <1>21, <1>23 DEF SubmitFail, WaitDone, WaitExpire
<1>24. ASSUME NEW f \in Files,
             (\E c \in Cores : CloseDetach(f, c)) \/ CloseDomains(f)
      PROVE  FlightInvAt(d)'
  BY <1>21, <1>24 DEF CloseDetach, CloseDomains
<1>25. CASE UNCHANGED vars
  BY <1>21, <1>25 DEF vars
<1> QED
  BY <1>1, <1>2, <1>3, <1>4, <1>5, <1>6, <1>7, <1>8, <1>9, <1>10, <1>11, <1>12,
     <1>13, <1>14, <1>15, <1>16, <1>17, <1>18, <1>19, <1>20, <1>21, <1>22, <1>23,
     <1>24, <1>25 DEF Next, RunWorker, IrqThread, TdrProgress, Close, Rest

\* The timeout worker.
LEMMA TdrInvStep ==
  ASSUME IndInv, [Next]_vars PROVE TdrInv'
<1> USE SetsAssumption
    DEF pmVars, jobVars, coreVars, fileVars, routeVars, fenceVars,
        runVars, irqVars, tdrVars,
        InScheduler, Popped, IsActive, Paused, JobLockFree, file,
        JobOrNull, AllDomains, task_count
<1> SUFFICES ASSUME NEW d \in Cores PROVE TdrInvAt(d)'
  BY DEF TdrInv
<1>0. /\ tdr_pc \in [Cores -> {"idle", "marked", "stopped", "cleared", "restarted"}]
      /\ tdr_job \in [Cores -> JobOrNull] /\ core_of \in [Jobs -> Cores]
      /\ place \in [Jobs -> Places] /\ free_guilty \in [Cores -> BOOLEAN]
      /\ finished \in [Jobs -> Results] /\ (\A j \in Jobs : JobInvAt(j))
      /\ (\A c \in Cores : TdrInvAt(c))
  BY DEF IndInv, TypeOK, JobInv, TdrInv
<1>1. ASSUME NEW j \in Jobs, NEW f \in Files, NEW id \in DomainIds, NEW m \in CoreMasks,
             Submit(j, f, id, m)
      PROVE  TdrInvAt(d)'
  BY <1>0, <1>1 DEF JobInvAt, TdrInvAt, Submit
<1>2. ASSUME NEW j \in Jobs, Free(j) PROVE TdrInvAt(d)'
  BY <1>0, <1>2 DEF TdrInvAt, Free
<1>3. ASSUME NEW c \in Cores, NEW j \in Jobs, RunPop(c, j) PROVE TdrInvAt(d)'
  BY <1>0, <1>3 DEF JobInvAt, TdrInvAt, RunPop
<1>4. ASSUME NEW c \in Cores, RunNoFence(c) PROVE TdrInvAt(d)'
  BY <1>0, <1>4 DEF TdrInvAt, RunNoFence, drm_sched_job_done
<1>5. ASSUME NEW c \in Cores, RunDone(c) PROVE TdrInvAt(d)'
  BY <1>0, <1>5 DEF TdrInvAt, RunDone, drm_sched_job_done
<1>6. ASSUME NEW c \in Cores, IrqSignal(c) PROVE TdrInvAt(d)'
  BY <1>0, <1>6 DEF TdrInvAt, IrqSignal, drm_sched_job_done
<1>7. ASSUME NEW c \in Cores, TdrStop(c) PROVE TdrInvAt(d)'
  <2>0. tdr_job[c] \in Jobs /\ tdr_job[c] # NULL
    BY <1>7, Subjects DEF TdrStop, drm_sched_stop
  <2>1. /\ tdr_pc \in [Cores -> {"idle", "marked", "stopped", "cleared", "restarted"}]
        /\ tdr_job \in [Cores -> JobOrNull] /\ place \in [Jobs -> Places]
        /\ free_guilty \in [Cores -> BOOLEAN] /\ TdrInvAt(d) /\ TdrInvAt(c)
        /\ JobInvAt(tdr_job[c])
    BY <2>0 DEF IndInv, TypeOK, JobInv, TdrInv
  <2>2. CASE d = c
    BY <1>7, <2>0, <2>1, <2>2 DEF JobInvAt, TdrInvAt, TdrStop, drm_sched_stop
  <2>3. CASE d # c
    BY <1>7, <2>0, <2>1, <2>3 DEF JobInvAt, TdrInvAt, TdrStop, drm_sched_stop
  <2> QED
    BY <2>2, <2>3
<1>8. ASSUME NEW c \in Cores, TdrClear(c) PROVE TdrInvAt(d)'
  BY <1>0, <1>8 DEF TdrInvAt, TdrClear
<1>9. ASSUME NEW c \in Cores, TdrRestart(c) PROVE TdrInvAt(d)'
  BY <1>0, <1>9 DEF TdrInvAt, TdrRestart, cancelled, reset_done
<1>10. ASSUME NEW c \in Cores, TdrReturn(c) PROVE TdrInvAt(d)'
  BY <1>0, <1>10 DEF TdrInvAt, TdrReturn
<1>11. ASSUME NEW c \in Cores, NEW j \in Jobs, TdrFire(c, j) PROVE TdrInvAt(d)'
  BY <1>0, <1>11 DEF TdrInvAt, TdrFire
<1>12. ASSUME NEW f \in Files, NEW c \in Cores, CloseEntity(f, c) PROVE TdrInvAt(d)'
  BY <1>0, <1>12 DEF TdrInvAt, CloseEntity, entity_idle
<1>13. CASE UNCHANGED <<tdr_pc, tdr_job, core_of, place, free_guilty, finished>>
  BY <1>0, <1>13 DEF TdrInvAt
<1>14. ASSUME NEW c \in Cores,
             \/ RunPower(c) \/ (\E bad \in Cores : RunPowerFail(c, bad)) \/ RunAttach(c)
             \/ RunAttachFail(c) \/ RunUnwind(c) \/ HwDone(c) \/ IrqShared(c) \/ IrqEnter(c)
             \/ IrqNothing(c) \/ IrqNextTask(c) \/ IrqFinish(c)
      PROVE  TdrInvAt(d)'
  BY <1>13, <1>14 DEF RunPower, RunPowerFail, RunAttach, RunAttachFail, RunUnwind,
     HwDone, IrqShared, IrqEnter, IrqNothing, IrqNextTask, IrqFinish, rocket_job_hw_submit
<1>15. ASSUME NEW j \in Jobs,
             (\E f \in Files : SubmitFail(j, f)) \/ WaitDone(j) \/ WaitExpire(j)
      PROVE  TdrInvAt(d)'
  BY <1>13, <1>15 DEF SubmitFail, WaitDone, WaitExpire
<1>16. ASSUME NEW f \in Files,
             (\E c \in Cores : CloseDetach(f, c)) \/ CloseDomains(f)
      PROVE  TdrInvAt(d)'
  BY <1>13, <1>16 DEF CloseDetach, CloseDomains
<1>17. CASE UNCHANGED vars
  BY <1>13, <1>17 DEF vars
<1> QED
  BY <1>1, <1>2, <1>3, <1>4, <1>5, <1>6, <1>7, <1>8, <1>9, <1>10, <1>11, <1>12,
     <1>13, <1>14, <1>15, <1>16, <1>17 DEF Next, RunWorker, IrqThread, TdrProgress,
     Close, Rest

\* No finished job is on the list of a stopped scheduler.
LEMMA StopInvStep ==
  ASSUME IndInv, [Next]_vars PROVE StopInv'
<1> USE SetsAssumption
    DEF pmVars, jobVars, coreVars, fileVars, routeVars, fenceVars,
        runVars, irqVars, tdrVars,
        InScheduler, Popped, IsActive, Paused, JobLockFree, file,
        JobOrNull, AllDomains, task_count
<1> SUFFICES ASSUME NEW d \in Cores PROVE StopInvAt(d)'
  BY DEF StopInv
<1>0. /\ tdr_pc \in [Cores -> {"idle", "marked", "stopped", "cleared", "restarted"}]
      /\ core_of \in [Jobs -> Cores] /\ place \in [Jobs -> Places]
      /\ finished \in [Jobs -> Results] /\ run_job \in [Cores -> JobOrNull]
      /\ in_flight \in [Cores -> JobOrNull] /\ tdr_job \in [Cores -> JobOrNull]
      /\ (\A j \in Jobs : JobInvAt(j))
      /\ (\A c \in Cores : StopInvAt(c) /\ RunInvAt(c) /\ SchedInvAt(c) /\ FlightInvAt(c) /\ TdrInvAt(c))
  BY DEF IndInv, TypeOK, JobInv, StopInv, RunInv, SchedInv, FlightInv, TdrInv
<1>1. ASSUME NEW j \in Jobs, NEW f \in Files, NEW id \in DomainIds, NEW m \in CoreMasks,
             Submit(j, f, id, m)
      PROVE  StopInvAt(d)'
  BY <1>0, <1>1 DEF JobInvAt, StopInvAt, Submit
<1>2. ASSUME NEW j \in Jobs, Free(j) PROVE StopInvAt(d)'
  BY <1>0, <1>2 DEF StopInvAt, Free
<1>3. ASSUME NEW c \in Cores, NEW j \in Jobs, RunPop(c, j) PROVE StopInvAt(d)'
  BY <1>0, <1>3 DEF JobInvAt, StopInvAt, RunPop
<1>4. ASSUME NEW c \in Cores, RunNoFence(c) PROVE StopInvAt(d)'
  BY <1>0, <1>4 DEF StopInvAt, RunInvAt, RunNoFence, drm_sched_job_done
<1>5. ASSUME NEW c \in Cores, RunDone(c) PROVE StopInvAt(d)'
  BY <1>0, <1>5 DEF StopInvAt, RunInvAt, RunDone, drm_sched_job_done
<1>6. ASSUME NEW c \in Cores, IrqSignal(c) PROVE StopInvAt(d)'
  BY <1>0, <1>6 DEF StopInvAt, SchedInvAt, FlightInvAt, IrqSignal, drm_sched_job_done
<1>7. ASSUME NEW c \in Cores, TdrStop(c) PROVE StopInvAt(d)'
  BY <1>0, <1>7 DEF StopInvAt, SchedInvAt, TdrInvAt, TdrStop, drm_sched_stop
<1>8. ASSUME NEW c \in Cores, TdrClear(c) PROVE StopInvAt(d)'
  BY <1>0, <1>8 DEF StopInvAt, SchedInvAt, TdrInvAt, TdrClear
<1>9. ASSUME NEW c \in Cores, TdrRestart(c) PROVE StopInvAt(d)'
  BY <1>0, <1>9 DEF StopInvAt, SchedInvAt, TdrInvAt, TdrRestart, cancelled, reset_done
<1>10. ASSUME NEW c \in Cores, TdrReturn(c) PROVE StopInvAt(d)'
  BY <1>0, <1>10 DEF StopInvAt, SchedInvAt, TdrInvAt, TdrReturn
<1>11. ASSUME NEW c \in Cores, NEW j \in Jobs, TdrFire(c, j) PROVE StopInvAt(d)'
  BY <1>0, <1>11 DEF StopInvAt, TdrFire
<1>12. ASSUME NEW f \in Files, NEW c \in Cores, CloseEntity(f, c) PROVE StopInvAt(d)'
  BY <1>0, <1>12 DEF StopInvAt, CloseEntity, entity_idle
<1>13. CASE UNCHANGED <<tdr_pc, core_of, place, finished>>
  BY <1>0, <1>13 DEF StopInvAt
<1>14. ASSUME NEW c \in Cores,
             \/ RunPower(c) \/ (\E bad \in Cores : RunPowerFail(c, bad)) \/ RunAttach(c)
             \/ RunAttachFail(c) \/ RunUnwind(c) \/ HwDone(c) \/ IrqShared(c) \/ IrqEnter(c)
             \/ IrqNothing(c) \/ IrqNextTask(c) \/ IrqFinish(c)
      PROVE  StopInvAt(d)'
  BY <1>13, <1>14 DEF RunPower, RunPowerFail, RunAttach, RunAttachFail, RunUnwind,
     HwDone, IrqShared, IrqEnter, IrqNothing, IrqNextTask, IrqFinish, rocket_job_hw_submit
<1>15. ASSUME NEW j \in Jobs,
             (\E f \in Files : SubmitFail(j, f)) \/ WaitDone(j) \/ WaitExpire(j)
      PROVE  StopInvAt(d)'
  BY <1>13, <1>15 DEF SubmitFail, WaitDone, WaitExpire
<1>16. ASSUME NEW f \in Files,
             (\E c \in Cores : CloseDetach(f, c)) \/ CloseDomains(f)
      PROVE  StopInvAt(d)'
  BY <1>13, <1>16 DEF CloseDetach, CloseDomains
<1>17. CASE UNCHANGED vars
  BY <1>13, <1>17 DEF vars
<1> QED
  BY <1>1, <1>2, <1>3, <1>4, <1>5, <1>6, <1>7, <1>8, <1>9, <1>10, <1>11, <1>12,
     <1>13, <1>14, <1>15, <1>16, <1>17 DEF Next, RunWorker, IrqThread, TdrProgress,
     Close, Rest

\* Queued jobs and pools against the close of a file.
LEMMA PoolInvStep ==
  ASSUME IndInv, [Next]_vars PROVE PoolInv'
<1> USE SetsAssumption, NumCoresAssumption
    DEF pmVars, jobVars, coreVars, fileVars, routeVars, fenceVars,
        runVars, irqVars, tdrVars,
        InScheduler, Popped, IsActive, Paused, JobLockFree, file,
        JobOrNull, AllDomains, task_count, Cores, DomainOrNull, Open
<1> SUFFICES ASSUME NEW k \in Jobs PROVE PoolInvAt(k)'
  BY DEF PoolInv
<1>0. /\ place \in [Jobs -> Places] /\ domain \in [Jobs -> DomainOrNull]
      /\ close_pc \in [Files -> 0 .. 2 * NumCores + 1] /\ core_of \in [Jobs -> Cores]
      /\ pool \in [Files -> SUBSET DomainIds]
      /\ (\A j \in Jobs : JobInvAt(j) /\ PoolInvAt(j))
  BY DEF IndInv, TypeOK, JobInv, PoolInv
<1>1. ASSUME NEW j \in Jobs, NEW f \in Files, NEW id \in DomainIds, NEW m \in CoreMasks,
             Submit(j, f, id, m)
      PROVE  PoolInvAt(k)'
  <2>1. /\ place \in [Jobs -> Places] /\ domain \in [Jobs -> DomainOrNull]
        /\ close_pc \in [Files -> 0 .. 2 * NumCores + 1] /\ core_of \in [Jobs -> Cores]
        /\ pool \in [Files -> SUBSET DomainIds] /\ JobInvAt(k) /\ PoolInvAt(k)
    BY DEF IndInv, TypeOK, JobInv, PoolInv
  <2>2. CASE k = j
    <3>1. domain'[k] = <<f, id>> /\ core_of'[k] \in Cores /\ id \in pool'[f]
      BY <1>1, <2>1, <2>2, PinnedCore DEF Submit
    <3>2. close_pc'[f] = 0
      BY <1>1 DEF Submit
    <3> QED
      BY <3>1, <3>2 DEF PoolInvAt
  <2>3. CASE k # j
    <3>1. domain'[k] = domain[k] /\ core_of'[k] = core_of[k] /\ place'[k] = place[k]
      BY <1>1, <2>1, <2>3 DEF Submit
    <3>2. \A g \in Files : pool[g] \subseteq pool'[g]
      BY <1>1, <2>1 DEF Submit
    <3>3. close_pc' = close_pc
      BY <1>1 DEF Submit
    <3> QED
      BY <2>1, <3>1, <3>2, <3>3 DEF JobInvAt, PoolInvAt
  <2> QED
    BY <2>2, <2>3
<1>2. ASSUME NEW j \in Jobs, Free(j) PROVE PoolInvAt(k)'
  BY <1>0, <1>2 DEF JobInvAt, PoolInvAt, Free
<1>3. ASSUME NEW c \in Cores, NEW j \in Jobs, RunPop(c, j) PROVE PoolInvAt(k)'
  BY <1>0, <1>3 DEF JobInvAt, PoolInvAt, RunPop
<1>4. ASSUME NEW c \in Cores, TdrStop(c) PROVE PoolInvAt(k)'
  BY <1>0, <1>4 DEF JobInvAt, PoolInvAt, TdrStop, drm_sched_stop
<1>5. ASSUME NEW c \in Cores, TdrReturn(c) PROVE PoolInvAt(k)'
  <2>0. tdr_job[c] \in Jobs /\ tdr_job[c] # NULL
    BY <1>5, Subjects DEF TdrReturn
  <2>1. /\ place \in [Jobs -> Places] /\ domain \in [Jobs -> DomainOrNull]
        /\ close_pc \in [Files -> 0 .. 2 * NumCores + 1] /\ core_of \in [Jobs -> Cores]
        /\ pool \in [Files -> SUBSET DomainIds] /\ JobInvAt(k) /\ PoolInvAt(k)
    BY <2>0 DEF IndInv, TypeOK, JobInv, PoolInv
  <2>2. TdrInvAt(c)
    BY DEF IndInv, TdrInv
  <2>3. \/ place'[k] = place[k]
        \/ place'[k] = "retired" /\ place[k] # "new"
    BY <1>5, <2>0, <2>1, <2>2 DEF TdrInvAt, TdrReturn
  <2> QED
    BY <1>5, <2>1, <2>3 DEF PoolInvAt, TdrReturn
<1>6. ASSUME NEW c \in Cores, NEW j \in Jobs, TdrFire(c, j) PROVE PoolInvAt(k)'
  BY <1>0, <1>6 DEF JobInvAt, PoolInvAt, TdrFire
<1>7. ASSUME NEW f \in Files, NEW c \in Cores, CloseEntity(f, c) PROVE PoolInvAt(k)'
  <2>1. /\ place \in [Jobs -> Places] /\ domain \in [Jobs -> DomainOrNull]
        /\ close_pc \in [Files -> 0 .. 2 * NumCores + 1] /\ core_of \in [Jobs -> Cores]
        /\ pool \in [Files -> SUBSET DomainIds] /\ JobInvAt(k) /\ PoolInvAt(k)
    BY DEF IndInv, TypeOK, JobInv, PoolInv
  <2>2. /\ place'[k] # "new" => place[k] # "new"
        /\ place'[k] = "queued" => place[k] = "queued" /\ ~(core_of[k] = c /\ file(k) = f)
    BY <1>7, <2>1 DEF CloseEntity
  <2>3. close_pc[f] = c /\ close_pc' = [close_pc EXCEPT ![f] = c + 1]
    BY <1>7 DEF CloseEntity
  <2>4. core_of' = core_of /\ domain' = domain /\ pool' = pool
    BY <1>7 DEF CloseEntity
  <2>5. CASE place[k] = "new"
    BY <2>2, <2>5 DEF PoolInvAt
  <2>6. CASE place[k] # "new" /\ file(k) = f
    BY <2>1, <2>2, <2>3, <2>4, <2>6 DEF JobInvAt, PoolInvAt
  <2>7. CASE place[k] # "new" /\ file(k) # f
    BY <2>1, <2>2, <2>3, <2>4, <2>7 DEF JobInvAt, PoolInvAt
  <2> QED
    BY <2>5, <2>6, <2>7
<1>8. ASSUME NEW f \in Files, NEW c \in Cores, CloseDetach(f, c) PROVE PoolInvAt(k)'
  BY <1>0, <1>8 DEF JobInvAt, PoolInvAt, CloseDetach, closes_domain
<1>9. ASSUME NEW f \in Files, CloseDomains(f) PROVE PoolInvAt(k)'
  BY <1>0, <1>9 DEF JobInvAt, PoolInvAt, CloseDomains
<1>10. CASE UNCHANGED <<place, domain, close_pc, core_of, pool>>
  BY <1>0, <1>10 DEF PoolInvAt
<1>11. ASSUME NEW c \in Cores,
             \/ RunNoFence(c) \/ RunPower(c) \/ (\E bad \in Cores : RunPowerFail(c, bad))
             \/ RunAttach(c) \/ RunAttachFail(c) \/ RunUnwind(c) \/ RunDone(c)
             \/ HwDone(c) \/ IrqShared(c) \/ IrqEnter(c) \/ IrqNothing(c) \/ IrqNextTask(c)
             \/ IrqSignal(c) \/ IrqFinish(c) \/ TdrClear(c) \/ TdrRestart(c)
      PROVE  PoolInvAt(k)'
  BY <1>10, <1>11 DEF RunNoFence, RunPower, RunPowerFail, RunAttach, RunAttachFail,
     RunUnwind, RunDone, HwDone, IrqShared, IrqEnter, IrqNothing, IrqNextTask, IrqSignal,
     IrqFinish, TdrClear, TdrRestart, rocket_job_hw_submit
<1>12. ASSUME NEW j \in Jobs,
             (\E f \in Files : SubmitFail(j, f)) \/ WaitDone(j) \/ WaitExpire(j)
      PROVE  PoolInvAt(k)'
  BY <1>10, <1>12 DEF SubmitFail, WaitDone, WaitExpire
<1>13. CASE UNCHANGED vars
  BY <1>10, <1>13 DEF vars
<1> QED
  BY <1>1, <1>2, <1>3, <1>4, <1>5, <1>6, <1>7, <1>8, <1>9, <1>10, <1>11, <1>12,
     <1>13 DEF Next, RunWorker, IrqThread, TdrProgress, Close, Rest

\* Starting jobs and attached domains against the close of a file.
LEMMA CloseInvStep ==
  ASSUME IndInv, [Next]_vars PROVE CloseInv'
<1> USE SetsAssumption, NumCoresAssumption
    DEF pmVars, jobVars, coreVars, fileVars, routeVars, fenceVars,
        runVars, irqVars, tdrVars,
        InScheduler, Popped, IsActive, Paused, JobLockFree, file,
        JobOrNull, AllDomains, task_count, Cores, DomainOrNull, Open
<1> SUFFICES ASSUME NEW d \in Cores PROVE CloseInvAt(d)'
  BY DEF CloseInv
<1>0. /\ run_pc \in [Cores -> {"idle", "begin", "powered", "failed", "ran"}]
      /\ run_job \in [Cores -> JobOrNull] /\ domain \in [Jobs -> DomainOrNull]
      /\ close_pc \in [Files -> 0 .. 2 * NumCores + 1]
      /\ attached \in [Cores -> DomainOrNull] /\ pool \in [Files -> SUBSET DomainIds]
      /\ core_of \in [Jobs -> Cores] /\ (\A j \in Jobs : JobInvAt(j) /\ PoolInvAt(j))
      /\ (\A c \in Cores : CloseInvAt(c) /\ RunInvAt(c))
  BY DEF IndInv, TypeOK, JobInv, PoolInv, CloseInv, RunInv
<1>1. ASSUME NEW j \in Jobs, NEW f \in Files, NEW id \in DomainIds, NEW m \in CoreMasks,
             Submit(j, f, id, m)
      PROVE  CloseInvAt(d)'
  BY <1>0, <1>1 DEF JobInvAt, PoolInvAt, CloseInvAt, RunInvAt, Submit
<1>2. ASSUME NEW c \in Cores, NEW j \in Jobs, RunPop(c, j) PROVE CloseInvAt(d)'
  BY <1>0, <1>2 DEF JobInvAt, PoolInvAt, CloseInvAt, RunInvAt, RunPop
<1>3. ASSUME NEW c \in Cores, RunNoFence(c) PROVE CloseInvAt(d)'
  BY <1>0, <1>3 DEF JobInvAt, PoolInvAt, CloseInvAt, RunInvAt, RunNoFence,
     drm_sched_job_done
<1>4. ASSUME NEW c \in Cores, RunPower(c) PROVE CloseInvAt(d)'
  <2>0. run_job[c] \in Jobs /\ run_job[c] # NULL
    BY <1>4, Subjects DEF RunPower
  <2>1. /\ run_pc \in [Cores -> {"idle", "begin", "powered", "failed", "ran"}]
        /\ run_job \in [Cores -> JobOrNull] /\ domain \in [Jobs -> DomainOrNull]
        /\ close_pc \in [Files -> 0 .. 2 * NumCores + 1]
        /\ attached \in [Cores -> DomainOrNull] /\ pool \in [Files -> SUBSET DomainIds]
        /\ core_of \in [Jobs -> Cores] /\ CloseInvAt(d) /\ RunInvAt(d) /\ CloseInvAt(c)
        /\ RunInvAt(c) /\ JobInvAt(run_job[c])
        /\ (\A k \in Jobs : JobInvAt(k) /\ PoolInvAt(k))
    BY <2>0 DEF IndInv, TypeOK, JobInv, PoolInv, CloseInv, RunInv
  <2> QED
    BY <1>4, <2>0, <2>1 DEF JobInvAt, PoolInvAt, CloseInvAt, RunInvAt, RunPower
<1>5. ASSUME NEW c \in Cores, NEW bad \in Cores,
             RunPowerFail(c, bad)
      PROVE  CloseInvAt(d)'
  BY <1>0, <1>5 DEF JobInvAt, PoolInvAt, CloseInvAt, RunInvAt, RunPowerFail
<1>6. ASSUME NEW c \in Cores, RunAttach(c) PROVE CloseInvAt(d)'
  <2>0. run_job[c] \in Jobs /\ run_job[c] # NULL
    BY <1>6, Subjects DEF RunAttach
  <2>1. /\ run_pc \in [Cores -> {"idle", "begin", "powered", "failed", "ran"}]
        /\ run_job \in [Cores -> JobOrNull] /\ domain \in [Jobs -> DomainOrNull]
        /\ close_pc \in [Files -> 0 .. 2 * NumCores + 1]
        /\ attached \in [Cores -> DomainOrNull] /\ pool \in [Files -> SUBSET DomainIds]
        /\ core_of \in [Jobs -> Cores] /\ CloseInvAt(d) /\ RunInvAt(d) /\ CloseInvAt(c)
        /\ RunInvAt(c) /\ JobInvAt(run_job[c])
        /\ (\A k \in Jobs : JobInvAt(k) /\ PoolInvAt(k))
    BY <2>0 DEF IndInv, TypeOK, JobInv, PoolInv, CloseInv, RunInv
  <2>2. run_pc[c] = "powered" /\ run_pc' = [run_pc EXCEPT ![c] = "ran"]
    BY <1>6 DEF RunAttach
  <2>3. /\ domain[run_job[c]] \in AllDomains
        /\ close_pc[file(run_job[c])] <= c
        /\ domain[run_job[c]][2] \in pool[file(run_job[c])]
    <3>1. place[run_job[c]] # "new"
      BY <2>0, <2>1, <2>2 DEF RunInvAt
    <3>2. domain[run_job[c]] \in AllDomains
      BY <2>0, <2>1, <3>1 DEF JobInvAt
    <3>3. close_pc[file(run_job[c])] <= c
      BY <2>1, <2>2 DEF CloseInvAt
    <3>4. close_pc[file(run_job[c])] \in Nat
      BY <2>1, <3>2
    <3>5. close_pc[file(run_job[c])] <= 2 * NumCores
      BY <3>3, <3>4
    <3>6. PoolInvAt(run_job[c])
      BY <2>0, <2>1
    <3> QED
      BY <3>1, <3>2, <3>3, <3>5, <3>6 DEF PoolInvAt
  <2>4. attached' = [attached EXCEPT ![c] = domain[run_job[c]]]
    BY <1>6 DEF RunAttach, domain_switch
  <2>5. UNCHANGED <<run_job, domain, close_pc, pool>>
    BY <1>6 DEF RunAttach
  <2>6. CASE d = c
    BY <2>1, <2>2, <2>3, <2>4, <2>5, <2>6 DEF CloseInvAt
  <2>7. CASE d # c
    BY <2>1, <2>2, <2>4, <2>5, <2>7 DEF CloseInvAt
  <2> QED
    BY <2>6, <2>7
<1>7. ASSUME NEW c \in Cores, RunAttachFail(c) PROVE CloseInvAt(d)'
  <2>0. run_job[c] \in Jobs /\ run_job[c] # NULL
    BY <1>7, Subjects DEF RunAttachFail
  <2>1. /\ run_pc \in [Cores -> {"idle", "begin", "powered", "failed", "ran"}]
        /\ run_job \in [Cores -> JobOrNull] /\ domain \in [Jobs -> DomainOrNull]
        /\ close_pc \in [Files -> 0 .. 2 * NumCores + 1]
        /\ attached \in [Cores -> DomainOrNull] /\ pool \in [Files -> SUBSET DomainIds]
        /\ core_of \in [Jobs -> Cores] /\ CloseInvAt(d) /\ RunInvAt(d) /\ CloseInvAt(c)
        /\ RunInvAt(c) /\ JobInvAt(run_job[c])
        /\ (\A k \in Jobs : JobInvAt(k) /\ PoolInvAt(k))
    BY <2>0 DEF IndInv, TypeOK, JobInv, PoolInv, CloseInv, RunInv
  <2> QED
    BY <1>7, <2>0, <2>1 DEF JobInvAt, PoolInvAt, CloseInvAt, RunInvAt, RunAttachFail
<1>8. ASSUME NEW c \in Cores, RunUnwind(c) PROVE CloseInvAt(d)'
  BY <1>0, <1>8 DEF JobInvAt, PoolInvAt, CloseInvAt, RunInvAt, RunUnwind
<1>9. ASSUME NEW c \in Cores, RunDone(c) PROVE CloseInvAt(d)'
  BY <1>0, <1>9 DEF JobInvAt, PoolInvAt, CloseInvAt, RunInvAt, RunDone,
     drm_sched_job_done
<1>10. ASSUME NEW c \in Cores, TdrClear(c) PROVE CloseInvAt(d)'
  BY <1>0, <1>10 DEF JobInvAt, PoolInvAt, CloseInvAt, RunInvAt, TdrClear
<1>11. ASSUME NEW f \in Files, NEW c \in Cores, CloseEntity(f, c) PROVE CloseInvAt(d)'
  <2>1. /\ run_job \in [Cores -> JobOrNull] /\ domain \in [Jobs -> DomainOrNull]
        /\ close_pc \in [Files -> 0 .. 2 * NumCores + 1]
        /\ attached \in [Cores -> DomainOrNull] /\ pool \in [Files -> SUBSET DomainIds]
        /\ core_of \in [Jobs -> Cores] /\ CloseInvAt(d) /\ RunInvAt(d) /\ CloseInvAt(c)
        /\ RunInvAt(c) /\ (\A k \in Jobs : JobInvAt(k) /\ PoolInvAt(k))
    BY DEF IndInv, TypeOK, JobInv, PoolInv, CloseInv, RunInv
  <2> QED
    BY <1>11, <2>1 DEF JobInvAt, PoolInvAt, CloseInvAt, RunInvAt, CloseEntity,
       entity_idle
<1>12. ASSUME NEW f \in Files, NEW c \in Cores, CloseDetach(f, c) PROVE CloseInvAt(d)'
  <2>1. /\ run_job \in [Cores -> JobOrNull] /\ domain \in [Jobs -> DomainOrNull]
        /\ close_pc \in [Files -> 0 .. 2 * NumCores + 1]
        /\ attached \in [Cores -> DomainOrNull] /\ pool \in [Files -> SUBSET DomainIds]
        /\ core_of \in [Jobs -> Cores] /\ CloseInvAt(d) /\ RunInvAt(d) /\ CloseInvAt(c)
        /\ RunInvAt(c) /\ (\A k \in Jobs : JobInvAt(k) /\ PoolInvAt(k))
    BY DEF IndInv, TypeOK, JobInv, PoolInv, CloseInv, RunInv
  <2> QED
    BY <1>12, <2>1 DEF JobInvAt, PoolInvAt, CloseInvAt, RunInvAt, CloseDetach,
       closes_domain
<1>13. ASSUME NEW f \in Files, CloseDomains(f) PROVE CloseInvAt(d)'
  BY <1>0, <1>13 DEF JobInvAt, PoolInvAt, CloseInvAt, RunInvAt, CloseDomains
<1>14. CASE UNCHANGED <<run_pc, run_job, domain, close_pc, attached, pool>>
  BY <1>0, <1>14 DEF CloseInvAt
<1>15. ASSUME NEW c \in Cores,
             \/ HwDone(c) \/ IrqShared(c) \/ IrqEnter(c) \/ IrqNothing(c) \/ IrqNextTask(c)
             \/ IrqSignal(c) \/ IrqFinish(c) \/ TdrStop(c) \/ TdrRestart(c)
             \/ TdrReturn(c) \/ (\E j \in Jobs : TdrFire(c, j))
      PROVE  CloseInvAt(d)'
  BY <1>14, <1>15 DEF HwDone, IrqShared, IrqEnter, IrqNothing, IrqNextTask, IrqSignal,
     IrqFinish, TdrStop, drm_sched_stop, TdrRestart, TdrReturn, TdrFire, rocket_job_hw_submit
<1>16. ASSUME NEW j \in Jobs,
             \/ (\E f \in Files : SubmitFail(j, f)) \/ WaitDone(j) \/ WaitExpire(j)
             \/ Free(j)
      PROVE  CloseInvAt(d)'
  BY <1>14, <1>16 DEF SubmitFail, WaitDone, WaitExpire, Free
<1>17. CASE UNCHANGED vars
  BY <1>14, <1>17 DEF vars
<1> QED
  BY <1>1, <1>2, <1>3, <1>4, <1>5, <1>6, <1>7, <1>8, <1>9, <1>10, <1>11, <1>12,
     <1>13, <1>14, <1>15, <1>16, <1>17 DEF Next, RunWorker, IrqThread, TdrProgress,
     Close, Rest

-----------------------------------------------------------------------------
(* The theorems.                                                            *)

\* A freshly probed device satisfies the invariant.
LEMMA InitInv == Init => IndInv
<1> SUFFICES ASSUME Init PROVE IndInv
  OBVIOUS
<1> USE SetsAssumption, NumCoresAssumption
    DEF Init, PmInit, InScheduler, Popped, IsActive, Paused, JobLockFree, file
<1>1. TypeOK
  BY DEF TypeOK, Places, Results, JobOrNull, DomainOrNull, Cores, task_count
<1>2. JobInv /\ SchedInv
  BY DEF JobInv, JobInvAt, SchedInv, SchedInvAt
<1>3. RunInv /\ FlightInv
  BY DEF RunInv, RunInvAt, FlightInv, FlightInvAt
<1>4. TdrInv /\ StopInv
  BY DEF TdrInv, TdrInvAt, StopInv, StopInvAt
<1>5. PoolInv /\ CloseInv
  BY DEF PoolInv, PoolInvAt, CloseInv, CloseInvAt
<1>6. PmInv
  <2>1. InFlightCores = {} /\ StartingCores = {}
    BY DEF InFlightCores, StartingCores
  <2>2. PmBalanced
    BY <2>1, FS_EmptySet DEF PmBalanced
  <2>3. NeverGated
    BY DEF NeverGated
  <2> QED
    BY <2>2, <2>3 DEF PmInv
<1> QED
  BY <1>1, <1>2, <1>3, <1>4, <1>5, <1>6 DEF IndInv

\* The conjunction of the step lemmas.
LEMMA IndInvStep == IndInv /\ [Next]_vars => IndInv'
<1> SUFFICES ASSUME IndInv, [Next]_vars PROVE IndInv'
  OBVIOUS
<1> QED
  BY TypeOKStep, JobInvStep, SchedInvStep, RunInvStep, FlightInvStep,
     TdrInvStep, StopInvStep, PoolInvStep, CloseInvStep, PmInvStep DEF IndInv

\* IndInv holds in every reachable state of the job engine.
THEOREM Invariance == Spec => []IndInv
  BY InitInv, IndInvStep, PTL DEF Spec

\* Every variable keeps its type: the reference counts, the credit of a core
\* and the count of the power unit never leave their ranges.
THEOREM TypeCorrect == Spec => []TypeOK
<1>1. IndInv => TypeOK
  BY DEF IndInv
<1> QED
  BY <1>1, Invariance, PTL

\* Every get of the power unit is matched by exactly one put
\* (rocket_job_run, rocket_job_handle_irq, rocket_reset), and no core loses
\* its never-gate reference.
THEOREM PowerAccounting == Spec => [](PmBalanced /\ NeverGated)
<1>1. IndInv => PmBalanced /\ NeverGated
  BY DEF IndInv, PmInv
<1> QED
  BY <1>1, Invariance, PTL

\* job->refcount is exactly the waiting ioctl plus the scheduler.
THEOREM JobReferences == Spec => []JobRefExact
<1>1. IndInv => JobRefExact
  BY DEF IndInv, JobInv, JobInvAt, JobRefExact
<1> QED
  BY <1>1, Invariance, PTL

\* What the interrupt thread finds in in_flight_job is allocated and its
\* fence still unsignalled.
THEOREM InFlightIsLive == Spec => []InFlightLive
<1>1. IndInv => InFlightLive
  <2> SUFFICES ASSUME IndInv, NEW c \in Cores, in_flight[c] # NULL, JobLockFree(c)
               PROVE  /\ refcount[in_flight[c]] > 0
                      /\ in_flight[c] \in Active(c)
                      /\ done_fence[in_flight[c]] = "unsignaled"
    BY DEF InFlightLive
  <2>1. in_flight[c] \in Jobs
    BY Subjects
  <2>2. IsActive(in_flight[c], c) /\ done_fence[in_flight[c]] = "unsignaled"
    BY DEF IndInv, FlightInv, FlightInvAt
  <2>3. refcount[in_flight[c]] > 0
    BY <2>1, <2>2 DEF IndInv, JobInv, JobInvAt, IsActive, Popped, InScheduler
  <2> QED
    BY <2>1, <2>2, <2>3 DEF Active, IsActive
<1> QED
  BY <1>1, Invariance, PTL

\* A core is never left attached to a destroyed domain (rocket_job_close).
THEOREM AttachedIsLive == Spec => []AttachedDomainLive
<1>1. IndInv => AttachedDomainLive
  BY DEF IndInv, CloseInv, CloseInvAt, AttachedDomainLive, DomainLive
<1> QED
  BY <1>1, Invariance, PTL

\* One active job per core, handed to rocket_job_run once: its early returns
\* are dead code.
THEOREM RunsOnce == Spec => []RunOnce
<1>1. IndInv => RunOnce
  <2> SUFFICES ASSUME IndInv, NEW c \in Cores
               PROVE  /\ Cardinality(Active(c)) <= 1
                      /\ run_pc[c] = "begin" => /\ finished[run_job[c]] = "no"
                                                /\ next_task_idx[run_job[c]] < task_count
    BY DEF RunOnce
  <2>1. Cardinality(Active(c)) <= 1
    <3>1. CASE Active(c) = {}
      BY <3>1, FS_EmptySet
    <3>2. CASE Active(c) # {}
      <4>1. PICK j \in Jobs : j \in Active(c)
        BY <3>2 DEF Active
      <4>2. Active(c) = {j}
        BY <4>1 DEF IndInv, SchedInv, SchedInvAt, IsActive, Active
      <4>3. Cardinality(Active(c)) = 1
        BY <4>2, FS_Singleton
      <4> QED
        BY <4>3
    <3> QED
      BY <3>1, <3>2
  <2>2. ASSUME run_pc[c] = "begin"
        PROVE  finished[run_job[c]] = "no" /\ next_task_idx[run_job[c]] < task_count
    <3>1. IsActive(run_job[c], c)
      BY <2>2, Subjects
    <3>2. next_task_idx[run_job[c]] = 0
      BY <2>2 DEF IndInv, RunInv, RunInvAt
    <3> QED
      BY <3>1, <3>2 DEF IsActive, task_count
  <2> QED
    BY <2>1, <2>2
<1> QED
  BY <1>1, Invariance, PTL

\* No step changes the result of a job that has finished: the run worker, the
\* interrupt, the reset and the close never finish the same job twice.
THEOREM FinishedForGood == Spec => FinishedOnce
<1> DEFINE Keeps == \A j \in Jobs : finished[j] # "no" => finished'[j] = finished[j]
<1>1. IndInv /\ [Next]_vars => Keeps
  <2> SUFFICES ASSUME IndInv, [Next]_vars, NEW j \in Jobs, finished[j] # "no"
               PROVE  finished'[j] = finished[j]
    OBVIOUS
  <2> USE DEF pmVars, jobVars, coreVars, fileVars, routeVars, fenceVars,
              runVars, irqVars, tdrVars
  <2>0. finished \in [Jobs -> Results]
    BY DEF IndInv, TypeOK
  <2>1. ASSUME NEW c \in Cores, RunNoFence(c) \/ RunDone(c)
        PROVE  finished'[j] = finished[j]
    <3>1. run_job[c] # j
      BY <2>1, Subjects DEF RunNoFence, RunDone, IsActive
    <3> QED
      BY <2>0, <2>1, <3>1 DEF RunNoFence, RunDone, drm_sched_job_done
  <2>2. ASSUME NEW c \in Cores, IrqSignal(c)
        PROVE  finished'[j] = finished[j]
    <3>1. in_flight[c] # j
      BY <2>2 DEF IndInv, FlightInv, FlightInvAt, IrqSignal, IsActive, JobLockFree
    <3> QED
      BY <2>0, <2>2, <3>1 DEF IrqSignal, drm_sched_job_done
  <2>3. ASSUME NEW c \in Cores, TdrRestart(c)
        PROVE  finished'[j] = finished[j]
    <3>1. j \notin cancelled(c)
      BY <2>3 DEF IndInv, StopInv, StopInvAt, TdrRestart, cancelled, Paused
    <3> QED
      BY <2>3, <3>1 DEF TdrRestart
  <2>4. ASSUME NEW f \in Files, NEW c \in Cores, CloseEntity(f, c)
        PROVE  finished'[j] = finished[j]
    <3>1. place[j] # "queued"
      BY DEF IndInv, JobInv, JobInvAt
    <3> QED
      BY <2>4, <3>1 DEF CloseEntity
  <2>5. ASSUME NEW c \in Cores,
               \/ \E k \in Jobs : RunPop(c, k) \/ TdrFire(c, k)
               \/ RunPower(c) \/ (\E bad \in Cores : RunPowerFail(c, bad))
               \/ RunAttach(c) \/ RunAttachFail(c) \/ RunUnwind(c)
        PROVE  finished'[j] = finished[j]
    BY <2>5 DEF RunPop, TdrFire, RunPower, RunPowerFail, RunAttach,
                RunAttachFail, RunUnwind
  <2>6. ASSUME NEW c \in Cores,
               \/ HwDone(c) \/ IrqShared(c) \/ IrqEnter(c) \/ IrqNothing(c) \/ IrqNextTask(c)
               \/ IrqFinish(c) \/ TdrStop(c) \/ TdrClear(c) \/ TdrReturn(c)
        PROVE  finished'[j] = finished[j]
    BY <2>6 DEF HwDone, IrqShared, IrqEnter, IrqNothing, IrqNextTask, IrqFinish, TdrStop, drm_sched_stop,
                TdrClear, TdrReturn
  <2>7. ASSUME NEW k \in Jobs,
               \/ WaitDone(k) \/ WaitExpire(k) \/ Free(k)
               \/ \E f \in Files : \/ SubmitFail(k, f)
                                   \/ \E id \in DomainIds, m \in CoreMasks : Submit(k, f, id, m)
        PROVE  finished'[j] = finished[j]
    BY <2>7 DEF WaitDone, WaitExpire, Free, SubmitFail, Submit
  <2>8. ASSUME NEW f \in Files, CloseDomains(f) \/ \E c \in Cores : CloseDetach(f, c)
        PROVE  finished'[j] = finished[j]
    BY <2>8 DEF CloseDomains, CloseDetach
  <2>9. CASE UNCHANGED vars
    BY <2>9 DEF vars
  <2> QED
    BY <2>1, <2>2, <2>3, <2>4, <2>5, <2>6, <2>7, <2>8, <2>9
       DEF Next, RunWorker, IrqThread, TdrProgress, Close, Rest
<1>2. Spec => [][Keeps]_vars
  BY <1>1, Invariance, PTL DEF Spec
<1> QED
  BY <1>2 DEF FinishedOnce

-----------------------------------------------------------------------------
(* A second invariant, on top of IndInv: how often a job can time out, and  *)
(* what the hardware does until a core's first timeout.                     *)

\* A job that has left the scheduler has a result.
RetiredInv == \A j \in Jobs : place[j] = "retired" => finished[j] # "no"

\* A job that is not finished has not timed out, and one that the scheduler
\* still holds has done so at most once.
TimeoutInvAt(j) ==
    /\ place[j] \in {"new", "queued"} => timeout_count[j] = 0
    /\ Popped(j) /\ finished[j] = "no" => timeout_count[j] = 0
    /\ Popped(j) => timeout_count[j] <= 1
    /\ timeout_count[j] <= 2

TimeoutInv == \A j \in Jobs : TimeoutInvAt(j)

\* A reset that leaves its job on the pending list is the job's first and
\* gives it a result, and the pending flag is up from the timeout to the
\* restart.
ResetInvAt(c) ==
    /\ (tdr_pc[c] \in {"stopped", "cleared", "restarted"} /\ ~free_guilty[c])
          => timeout_count[tdr_job[c]] = 0
    /\ (tdr_pc[c] \in {"stopped", "cleared"} /\ ~free_guilty[c])
          => place[tdr_job[c]] = "pending"
    /\ tdr_pc[c] = "restarted" => /\ place[tdr_job[c]] # "queued"
                                  /\ finished[tdr_job[c]] # "no"
    /\ reset_pending[c] <=> tdr_pc[c] \in {"marked", "stopped", "cleared"}

ResetInv == \A c \in Cores : ResetInvAt(c)

\* A core that has not been reset and whose handler has taken no other
\* device's interrupt: the job in flight was given to the hardware, and until
\* the thread is done with it nothing else is.
FirstInvAt(c) ==
    NoResetYet(c) /\ foreign[c] = 0 =>
        /\ in_flight[c] # NULL => next_task_idx[in_flight[c]] = 1
        /\ hw[c] # NULL => in_flight[c] = hw[c] /\ ~irq_woken[c] /\ irq_pc[c] = "idle"
        /\ irq_woken[c] \/ irq_pc[c] # "idle" => in_flight[c] # NULL
        /\ irq_woken[c] => irq_pc[c] = "idle"
        /\ hw[c] # NULL /\ Open(file(hw[c])) => attached[c] = domain[hw[c]]

FirstInv == \A c \in Cores : FirstInvAt(c)

\* Whatever is attached under a job in flight is that job's domain.
UnderJobInvAt(c) ==
    (in_flight[c] # NULL /\ JobLockFree(c) /\ attached[c] # NULL)
        => attached[c] = domain[in_flight[c]]

UnderJobInv == \A c \in Cores : UnderJobInvAt(c)

LateInv == RetiredInv /\ TimeoutInv /\ ResetInv /\ FirstInv /\ UnderJobInv

\* A freshly probed device satisfies it.
LEMMA InitLate == Init => LateInv
  BY SetsAssumption
     DEF Init, LateInv, RetiredInv, TimeoutInv, TimeoutInvAt, ResetInv, ResetInvAt,
         FirstInv, FirstInvAt, UnderJobInv, UnderJobInvAt, Popped

\* Jobs leave the scheduler with a result: Free, drm_sched_stop, the deferred
\* free of a timeout and the close of a file.
LEMMA RetiredInvStep ==
  ASSUME IndInv, LateInv, [Next]_vars PROVE RetiredInv'
<1> USE SetsAssumption
    DEF pmVars, jobVars, coreVars, fileVars, routeVars, fenceVars,
        runVars, irqVars, tdrVars,
        InScheduler, Popped, IsActive, Paused, JobLockFree, JobOrNull
<1> DEFINE R(k) == place[k] = "retired" => finished[k] # "no"
<1> SUFFICES ASSUME NEW k \in Jobs PROVE R(k)'
  BY DEF RetiredInv
<1>0. /\ place \in [Jobs -> Places] /\ finished \in [Jobs -> Results] /\ R(k)
      /\ JobInvAt(k)
      /\ (\A c \in Cores : RunInvAt(c) /\ FlightInvAt(c) /\ TdrInvAt(c))
  BY DEF IndInv, TypeOK, JobInv, RunInv, FlightInv, TdrInv, LateInv, RetiredInv
<1>1. ASSUME NEW j \in Jobs, NEW f \in Files, NEW id \in DomainIds, NEW m \in CoreMasks,
             Submit(j, f, id, m)
      PROVE  R(k)'
  BY <1>0, <1>1 DEF JobInvAt, Submit
<1>2. ASSUME NEW j \in Jobs, Free(j) PROVE R(k)'
  BY <1>0, <1>2 DEF JobInvAt, Free
<1>3. ASSUME NEW c \in Cores, NEW j \in Jobs, RunPop(c, j) PROVE R(k)'
  BY <1>0, <1>3 DEF JobInvAt, RunPop
<1>4. ASSUME NEW c \in Cores, RunNoFence(c) PROVE R(k)'
  BY <1>0, <1>4 DEF JobInvAt, RunNoFence, drm_sched_job_done
<1>5. ASSUME NEW c \in Cores, RunDone(c) PROVE R(k)'
  BY <1>0, <1>5 DEF JobInvAt, RunDone, drm_sched_job_done
<1>6. ASSUME NEW c \in Cores, IrqSignal(c) PROVE R(k)'
  BY <1>0, <1>6 DEF JobInvAt, IrqSignal, drm_sched_job_done
<1>7. ASSUME NEW c \in Cores, TdrStop(c) PROVE R(k)'
  BY <1>0, <1>7 DEF JobInvAt, TdrStop, drm_sched_stop
<1>8. ASSUME NEW c \in Cores, TdrRestart(c) PROVE R(k)'
  BY <1>0, <1>8 DEF JobInvAt, TdrRestart, cancelled, reset_done
<1>9. ASSUME NEW c \in Cores, TdrReturn(c) PROVE R(k)'
  BY <1>0, <1>9 DEF TdrReturn, TdrInvAt
<1>10. ASSUME NEW c \in Cores, NEW j \in Jobs, TdrFire(c, j) PROVE R(k)'
  BY <1>0, <1>10 DEF JobInvAt, TdrFire
<1>11. ASSUME NEW f \in Files, NEW c \in Cores, CloseEntity(f, c) PROVE R(k)'
  BY <1>0, <1>11 DEF JobInvAt, CloseEntity, entity_idle
<1>12. CASE UNCHANGED <<place, finished>>
  BY <1>0, <1>12 DEF JobInvAt
<1>13. ASSUME NEW j \in Jobs, NEW f \in Files, SubmitFail(j, f) PROVE R(k)'
  BY <1>12, <1>13 DEF SubmitFail
<1>14. ASSUME NEW j \in Jobs, WaitDone(j) \/ WaitExpire(j) PROVE R(k)'
  BY <1>12, <1>14 DEF WaitDone, WaitExpire
<1>15. ASSUME NEW c \in Cores,
             \/ RunPower(c) \/ RunAttach(c) \/ RunAttachFail(c)
             \/ RunUnwind(c) \/ HwDone(c) \/ IrqShared(c) \/ IrqEnter(c)
      PROVE  R(k)'
  BY <1>12, <1>15 DEF RunPower, RunAttach, RunAttachFail, RunUnwind, HwDone, IrqShared,
     IrqEnter
<1>16. ASSUME NEW c \in Cores,
             IrqNothing(c) \/ IrqNextTask(c) \/ IrqFinish(c) \/ TdrClear(c)
      PROVE  R(k)'
  BY <1>12, <1>16 DEF IrqNothing, IrqNextTask, IrqFinish, TdrClear
<1>17. ASSUME NEW c \in Cores, NEW bad \in Cores,
             RunPowerFail(c, bad)
      PROVE  R(k)'
  BY <1>12, <1>17 DEF RunPowerFail
<1>18. ASSUME NEW f \in Files, NEW c \in Cores, CloseDetach(f, c) PROVE R(k)'
  BY <1>12, <1>18 DEF CloseDetach
<1>19. ASSUME NEW f \in Files, CloseDomains(f) PROVE R(k)'
  BY <1>12, <1>19 DEF CloseDomains
<1>20. CASE UNCHANGED vars
  BY <1>12, <1>20 DEF vars
<1> QED
  BY <1>1, <1>2, <1>3, <1>4, <1>5, <1>6, <1>7, <1>8, <1>9, <1>10, <1>11,
     <1>12, <1>13, <1>14, <1>15, <1>16, <1>17, <1>18, <1>19, <1>20
     DEF Next, RunWorker, IrqThread, TdrProgress, Close, Rest

\* The count of timeouts of a job moves only when the handler returns.
LEMMA TimeoutInvStep ==
  ASSUME IndInv, LateInv, [Next]_vars PROVE TimeoutInv'
<1> USE SetsAssumption
    DEF pmVars, jobVars, coreVars, fileVars, routeVars, fenceVars,
        runVars, irqVars, tdrVars,
        InScheduler, Popped, IsActive, Paused, JobLockFree, JobOrNull
<1> SUFFICES ASSUME NEW k \in Jobs PROVE TimeoutInvAt(k)'
  BY DEF TimeoutInv
<1>0. /\ place \in [Jobs -> Places] /\ finished \in [Jobs -> Results]
      /\ timeout_count \in [Jobs -> Nat]
      /\ TimeoutInvAt(k) /\ JobInvAt(k)
      /\ (\A c \in Cores : RunInvAt(c) /\ FlightInvAt(c) /\ TdrInvAt(c) /\ ResetInvAt(c))
  BY DEF IndInv, TypeOK, JobInv, RunInv, FlightInv, TdrInv, LateInv, TimeoutInv, ResetInv
<1>1. ASSUME NEW j \in Jobs, NEW f \in Files, NEW id \in DomainIds, NEW m \in CoreMasks,
             Submit(j, f, id, m)
      PROVE  TimeoutInvAt(k)'
  BY <1>0, <1>1 DEF TimeoutInvAt, JobInvAt, Submit
<1>2. ASSUME NEW j \in Jobs, Free(j) PROVE TimeoutInvAt(k)'
  BY <1>0, <1>2 DEF TimeoutInvAt, Free
<1>3. ASSUME NEW c \in Cores, NEW j \in Jobs,
             RunPop(c, j)
      PROVE  TimeoutInvAt(k)'
  BY <1>0, <1>3 DEF TimeoutInvAt, RunPop
<1>4. ASSUME NEW c \in Cores, RunNoFence(c) PROVE TimeoutInvAt(k)'
  BY <1>0, <1>4 DEF TimeoutInvAt, RunNoFence, drm_sched_job_done
<1>5. ASSUME NEW c \in Cores, RunDone(c) PROVE TimeoutInvAt(k)'
  BY <1>0, <1>5 DEF TimeoutInvAt, RunDone, drm_sched_job_done
<1>6. ASSUME NEW c \in Cores, IrqSignal(c) PROVE TimeoutInvAt(k)'
  BY <1>0, <1>6 DEF TimeoutInvAt, IrqSignal, drm_sched_job_done
<1>7. ASSUME NEW c \in Cores, TdrStop(c) PROVE TimeoutInvAt(k)'
  BY <1>0, <1>7 DEF TimeoutInvAt, TdrInvAt, TdrStop, drm_sched_stop
<1>8. ASSUME NEW c \in Cores, TdrRestart(c) PROVE TimeoutInvAt(k)'
  BY <1>0, <1>8 DEF TimeoutInvAt, TdrRestart, cancelled, reset_done
<1>9. ASSUME NEW c \in Cores, TdrReturn(c) PROVE TimeoutInvAt(k)'
  <2>0. /\ tdr_job[c] \in Jobs /\ TdrInvAt(c) /\ ResetInvAt(c)
        /\ tdr_pc[c] = "restarted"
    BY <1>0, <1>9, Subjects DEF TdrReturn
  <2>1. CASE k # tdr_job[c]
    BY <1>0, <1>9, <2>0, <2>1 DEF TimeoutInvAt, TdrReturn
  <2>2. CASE k = tdr_job[c] /\ free_guilty[c]
    BY <1>0, <1>9, <2>0, <2>2 DEF TimeoutInvAt, TdrReturn, TdrInvAt
  <2>3. CASE k = tdr_job[c] /\ ~free_guilty[c]
    <3>1. timeout_count[k] = 0
      BY <2>0, <2>3 DEF ResetInvAt
    <3>2. UNCHANGED <<place, finished>> /\ timeout_count'[k] = 1
      BY <1>0, <1>9, <2>3, <3>1 DEF TdrReturn
    <3>3. place[k] \notin {"new", "queued"} /\ finished[k] # "no"
      BY <1>0, <1>9, <2>0, <2>3, <3>1 DEF TdrInvAt, ResetInvAt
    <3> QED
      BY <3>1, <3>2, <3>3 DEF TimeoutInvAt
  <2> QED
    BY <2>1, <2>2, <2>3
<1>10. ASSUME NEW c \in Cores, NEW j \in Jobs,
             TdrFire(c, j)
      PROVE  TimeoutInvAt(k)'
  BY <1>0, <1>10 DEF TimeoutInvAt, TdrFire
<1>11. ASSUME NEW f \in Files, NEW c \in Cores,
             CloseEntity(f, c)
      PROVE  TimeoutInvAt(k)'
  BY <1>0, <1>11 DEF TimeoutInvAt, CloseEntity, entity_idle
<1>12. CASE UNCHANGED <<place, finished, timeout_count>>
  BY <1>0, <1>12 DEF TimeoutInvAt
<1>13. ASSUME NEW j \in Jobs, NEW f \in Files,
             SubmitFail(j, f)
      PROVE  TimeoutInvAt(k)'
  BY <1>12, <1>13 DEF SubmitFail
<1>14. ASSUME NEW j \in Jobs,
             WaitDone(j) \/ WaitExpire(j)
      PROVE  TimeoutInvAt(k)'
  BY <1>12, <1>14 DEF WaitDone, WaitExpire
<1>15. ASSUME NEW c \in Cores,
             \/ RunPower(c) \/ RunAttach(c) \/ RunAttachFail(c)
             \/ RunUnwind(c) \/ HwDone(c) \/ IrqShared(c) \/ IrqEnter(c)
      PROVE  TimeoutInvAt(k)'
  BY <1>12, <1>15 DEF RunPower, RunAttach, RunAttachFail, RunUnwind, HwDone, IrqShared,
     IrqEnter
<1>16. ASSUME NEW c \in Cores,
             IrqNothing(c) \/ IrqNextTask(c) \/ IrqFinish(c) \/ TdrClear(c)
      PROVE  TimeoutInvAt(k)'
  BY <1>12, <1>16 DEF IrqNothing, IrqNextTask, IrqFinish, TdrClear
<1>17. ASSUME NEW c \in Cores, NEW bad \in Cores,
             RunPowerFail(c, bad)
      PROVE  TimeoutInvAt(k)'
  BY <1>12, <1>17 DEF RunPowerFail
<1>18. ASSUME NEW f \in Files, NEW c \in Cores,
             CloseDetach(f, c)
      PROVE  TimeoutInvAt(k)'
  BY <1>12, <1>18 DEF CloseDetach
<1>19. ASSUME NEW f \in Files, CloseDomains(f) PROVE TimeoutInvAt(k)'
  BY <1>12, <1>19 DEF CloseDomains
<1>20. CASE UNCHANGED vars
  BY <1>12, <1>20 DEF vars
<1> QED
  BY <1>1, <1>2, <1>3, <1>4, <1>5, <1>6, <1>7, <1>8, <1>9, <1>10, <1>11,
     <1>12, <1>13, <1>14, <1>15, <1>16, <1>17, <1>18, <1>19, <1>20
     DEF Next, RunWorker, IrqThread, TdrProgress, Close, Rest

\* A reset and its pending flag.
LEMMA ResetInvStep ==
  ASSUME IndInv, LateInv, [Next]_vars PROVE ResetInv'
<1> USE SetsAssumption
    DEF pmVars, jobVars, coreVars, fileVars, routeVars, fenceVars,
        runVars, irqVars, tdrVars,
        InScheduler, Popped, IsActive, Paused, JobLockFree, JobOrNull
<1> SUFFICES ASSUME NEW d \in Cores PROVE ResetInvAt(d)'
  BY DEF ResetInv
<1>0. /\ place \in [Jobs -> Places] /\ finished \in [Jobs -> Results]
      /\ timeout_count \in [Jobs -> Nat] /\ reset_pending \in [Cores -> BOOLEAN]
      /\ free_guilty \in [Cores -> BOOLEAN] /\ tdr_job \in [Cores -> JobOrNull]
      /\ tdr_pc \in [Cores -> {"idle", "marked", "stopped", "cleared", "restarted"}]
      /\ ResetInvAt(d) /\ TdrInvAt(d)
      /\ (\A j \in Jobs : JobInvAt(j))
      /\ (\A c \in Cores : RunInvAt(c) /\ FlightInvAt(c))
  BY DEF IndInv, TypeOK, JobInv, RunInv, FlightInv, TdrInv, LateInv, ResetInv
<1>a. tdr_pc[d] # "idle" => tdr_job[d] \in Jobs /\ place[tdr_job[d]] # "new"
  BY <1>0, Subjects DEF TdrInvAt
<1>1. ASSUME NEW j \in Jobs, NEW f \in Files, NEW id \in DomainIds, NEW m \in CoreMasks,
             Submit(j, f, id, m)
      PROVE  ResetInvAt(d)'
  BY <1>0, <1>a, <1>1 DEF ResetInvAt, JobInvAt, Submit
<1>2. ASSUME NEW j \in Jobs, Free(j) PROVE ResetInvAt(d)'
  BY <1>0, <1>a, <1>2 DEF ResetInvAt, TdrInvAt, Free
<1>3. ASSUME NEW c \in Cores, NEW j \in Jobs, RunPop(c, j) PROVE ResetInvAt(d)'
  BY <1>0, <1>a, <1>3 DEF ResetInvAt, RunPop
<1>4. ASSUME NEW c \in Cores, RunNoFence(c) PROVE ResetInvAt(d)'
  BY <1>0, <1>a, <1>4 DEF ResetInvAt, RunNoFence, drm_sched_job_done
<1>5. ASSUME NEW c \in Cores, RunDone(c) PROVE ResetInvAt(d)'
  BY <1>0, <1>a, <1>5 DEF ResetInvAt, RunDone, drm_sched_job_done
<1>6. ASSUME NEW c \in Cores, IrqSignal(c) PROVE ResetInvAt(d)'
  BY <1>0, <1>a, <1>6 DEF ResetInvAt, IrqSignal, drm_sched_job_done
<1>7. ASSUME NEW f \in Files, NEW c \in Cores,
             CloseEntity(f, c)
      PROVE  ResetInvAt(d)'
  BY <1>0, <1>a, <1>7 DEF ResetInvAt, CloseEntity, entity_idle
<1>8. ASSUME NEW c \in Cores, NEW j \in Jobs,
             TdrFire(c, j)
      PROVE  ResetInvAt(d)'
  BY <1>0, <1>a, <1>8 DEF ResetInvAt, TdrInvAt, TdrFire
<1>9. ASSUME NEW c \in Cores, TdrStop(c) PROVE ResetInvAt(d)'
  <2>1. CASE d # c
    BY <1>0, <1>a, <1>9, <2>1 DEF ResetInvAt, TdrInvAt, TdrStop, drm_sched_stop
  <2>2. CASE d = c
    <3>1. tdr_job[c] \in Jobs /\ TimeoutInvAt(tdr_job[c]) /\ SchedInvAt(c) /\ TdrInvAt(c)
      BY <1>0, <1>9, <2>2, Subjects
         DEF TdrStop, IndInv, LateInv, TimeoutInv, SchedInv
    <3>2. /\ tdr_pc'[c] = "stopped" /\ reset_pending'[c] /\ tdr_job' = tdr_job
          /\ timeout_count' = timeout_count
      BY <1>0, <1>9 DEF TdrStop
    <3>3. ~free_guilty'[c] => armed[tdr_job[c]]
      BY <1>0, <1>9 DEF TdrStop, drm_sched_stop
    <3>5. armed[tdr_job[c]] => place'[tdr_job[c]] = "pending"
      BY <1>0, <1>9, <3>1 DEF TdrStop, drm_sched_stop, TdrInvAt
    <3>4. armed[tdr_job[c]] => timeout_count[tdr_job[c]] = 0
      BY <1>9, <3>1 DEF SchedInvAt, TdrInvAt, TimeoutInvAt, TdrStop
    <3> QED
      BY <2>2, <3>2, <3>3, <3>4, <3>5 DEF ResetInvAt
  <2> QED
    BY <2>1, <2>2
<1>10. ASSUME NEW c \in Cores, TdrClear(c) PROVE ResetInvAt(d)'
  BY <1>0, <1>10 DEF ResetInvAt, TdrClear
<1>11. ASSUME NEW c \in Cores, TdrRestart(c) PROVE ResetInvAt(d)'
  BY <1>0, <1>a, <1>11 DEF ResetInvAt, TdrInvAt, TdrRestart, cancelled,
         reset_done
<1>12. ASSUME NEW c \in Cores, TdrReturn(c) PROVE ResetInvAt(d)'
  <2>1. CASE d # c
    <3>1. tdr_pc[d] # "idle" => tdr_job[d] # tdr_job[c]
      BY <1>12, <2>1, Subjects DEF TdrReturn, IndInv, TdrInv, TdrInvAt
    <3>2. tdr_pc[d] # "idle" => tdr_job[d] \in Jobs
      BY Subjects
    <3> QED
      BY <1>0, <1>12, <2>1, <3>1, <3>2 DEF ResetInvAt, TdrReturn
  <2>2. CASE d = c
    BY <1>0, <1>12, <2>2 DEF ResetInvAt, TdrReturn
  <2> QED
    BY <2>1, <2>2
<1>13. CASE UNCHANGED <<place, finished, timeout_count, reset_pending,
       free_guilty, tdr_job, tdr_pc>>
  BY <1>0, <1>13 DEF ResetInvAt
<1>14. ASSUME NEW j \in Jobs, NEW f \in Files,
             SubmitFail(j, f)
      PROVE  ResetInvAt(d)'
  BY <1>13, <1>14 DEF SubmitFail
<1>15. ASSUME NEW j \in Jobs, WaitDone(j) \/ WaitExpire(j) PROVE ResetInvAt(d)'
  BY <1>13, <1>15 DEF WaitDone, WaitExpire
<1>16. ASSUME NEW c \in Cores,
             \/ RunPower(c) \/ RunAttach(c) \/ RunAttachFail(c)
             \/ RunUnwind(c) \/ HwDone(c) \/ IrqShared(c) \/ IrqEnter(c)
      PROVE  ResetInvAt(d)'
  BY <1>13, <1>16 DEF RunPower, RunAttach, RunAttachFail, RunUnwind, HwDone, IrqShared,
     IrqEnter
<1>17. ASSUME NEW c \in Cores,
             IrqNothing(c) \/ IrqNextTask(c) \/ IrqFinish(c)
      PROVE  ResetInvAt(d)'
  BY <1>13, <1>17 DEF IrqNothing, IrqNextTask, IrqFinish
<1>18. ASSUME NEW c \in Cores, NEW bad \in Cores,
             RunPowerFail(c, bad)
      PROVE  ResetInvAt(d)'
  BY <1>13, <1>18 DEF RunPowerFail
<1>19. ASSUME NEW f \in Files, NEW c \in Cores,
             CloseDetach(f, c)
      PROVE  ResetInvAt(d)'
  BY <1>13, <1>19 DEF CloseDetach
<1>20. ASSUME NEW f \in Files, CloseDomains(f) PROVE ResetInvAt(d)'
  BY <1>13, <1>20 DEF CloseDomains
<1>21. CASE UNCHANGED vars
  BY <1>13, <1>21 DEF vars
<1> QED
  BY <1>1, <1>2, <1>3, <1>4, <1>5, <1>6, <1>7, <1>8, <1>9, <1>10, <1>11,
     <1>12, <1>13, <1>14, <1>15, <1>16, <1>17, <1>18, <1>19, <1>20, <1>21
     DEF Next, RunWorker, IrqThread, TdrProgress, Close, Rest


\* What is attached under a job in flight: RunAttach puts the job's own domain
\* there, a reset or a close can only take it away.
LEMMA UnderJobInvStep ==
  ASSUME IndInv, LateInv, [Next]_vars PROVE UnderJobInv'
<1> USE SetsAssumption
    DEF pmVars, jobVars, coreVars, fileVars, routeVars, fenceVars,
        runVars, irqVars, tdrVars,
        InScheduler, Popped, IsActive, Paused, JobLockFree, JobOrNull
<1> SUFFICES ASSUME NEW d \in Cores PROVE UnderJobInvAt(d)'
  BY DEF UnderJobInv
<1>0. /\ in_flight \in [Cores -> JobOrNull] /\ attached \in [Cores -> DomainOrNull]
      /\ irq_pc \in [Cores -> {"idle", "entered", "signaled"}]
      /\ domain \in [Jobs -> DomainOrNull]
      /\ UnderJobInvAt(d) /\ FlightInvAt(d) /\ RunInvAt(d)
      /\ (\A j \in Jobs : JobInvAt(j))
  BY DEF IndInv, TypeOK, JobInv, RunInv, FlightInv, LateInv, UnderJobInv
<1>1. ASSUME NEW j \in Jobs, NEW f \in Files, NEW id \in DomainIds, NEW m \in CoreMasks,
             Submit(j, f, id, m)
      PROVE  UnderJobInvAt(d)'
  BY <1>0, <1>1 DEF UnderJobInvAt, FlightInvAt, JobInvAt, Submit
<1>2. ASSUME NEW c \in Cores, RunAttach(c) PROVE UnderJobInvAt(d)'
  BY <1>0, <1>2 DEF UnderJobInvAt, RunAttach, rocket_job_hw_submit,
         domain_switch
<1>3. ASSUME NEW c \in Cores, RunAttachFail(c) PROVE UnderJobInvAt(d)'
  BY <1>0, <1>3 DEF UnderJobInvAt, RunInvAt, RunAttachFail
<1>4. ASSUME NEW c \in Cores, IrqEnter(c) PROVE UnderJobInvAt(d)'
  BY <1>0, <1>4 DEF UnderJobInvAt, IrqEnter
<1>5. ASSUME NEW c \in Cores, IrqNothing(c) PROVE UnderJobInvAt(d)'
  BY <1>0, <1>5 DEF UnderJobInvAt, IrqNothing
<1>6. ASSUME NEW c \in Cores, IrqNextTask(c) PROVE UnderJobInvAt(d)'
  BY <1>0, <1>6 DEF UnderJobInvAt, IrqNextTask, rocket_job_hw_submit
<1>7. ASSUME NEW c \in Cores, IrqSignal(c) PROVE UnderJobInvAt(d)'
  BY <1>0, <1>7 DEF UnderJobInvAt, IrqSignal, drm_sched_job_done
<1>8. ASSUME NEW c \in Cores, IrqFinish(c) PROVE UnderJobInvAt(d)'
  BY <1>0, <1>8 DEF UnderJobInvAt, IrqFinish
<1>9. ASSUME NEW c \in Cores, TdrClear(c) PROVE UnderJobInvAt(d)'
  BY <1>0, <1>9 DEF UnderJobInvAt, TdrClear
<1>10. ASSUME NEW f \in Files, NEW c \in Cores,
             CloseDetach(f, c)
      PROVE  UnderJobInvAt(d)'
  BY <1>0, <1>10 DEF UnderJobInvAt, CloseDetach, closes_domain
<1>11. CASE UNCHANGED <<in_flight, attached, irq_pc, domain>>
  BY <1>0, <1>11 DEF UnderJobInvAt
<1>12. ASSUME NEW j \in Jobs, NEW f \in Files,
             SubmitFail(j, f)
      PROVE  UnderJobInvAt(d)'
  BY <1>11, <1>12 DEF SubmitFail
<1>13. ASSUME NEW j \in Jobs,
             WaitDone(j) \/ WaitExpire(j) \/ Free(j)
      PROVE  UnderJobInvAt(d)'
  BY <1>11, <1>13 DEF WaitDone, WaitExpire, Free
<1>14. ASSUME NEW c \in Cores, NEW j \in Jobs,
             RunPop(c, j) \/ TdrFire(c, j)
      PROVE  UnderJobInvAt(d)'
  BY <1>11, <1>14 DEF RunPop, TdrFire
<1>15. ASSUME NEW c \in Cores,
             \/ RunNoFence(c) \/ RunPower(c) \/ RunUnwind(c)
             \/ RunDone(c) \/ HwDone(c) \/ IrqShared(c) \/ TdrStop(c)
      PROVE  UnderJobInvAt(d)'
  BY <1>11, <1>15 DEF RunNoFence, RunPower, RunUnwind, RunDone, HwDone, IrqShared,
     TdrStop, drm_sched_stop
<1>16. ASSUME NEW c \in Cores,
             TdrRestart(c) \/ TdrReturn(c)
      PROVE  UnderJobInvAt(d)'
  BY <1>11, <1>16 DEF TdrRestart, TdrReturn
<1>17. ASSUME NEW c \in Cores, NEW bad \in Cores,
             RunPowerFail(c, bad)
      PROVE  UnderJobInvAt(d)'
  BY <1>11, <1>17 DEF RunPowerFail
<1>18. ASSUME NEW f \in Files, NEW c \in Cores,
             CloseEntity(f, c)
      PROVE  UnderJobInvAt(d)'
  BY <1>11, <1>18 DEF CloseEntity
<1>19. ASSUME NEW f \in Files, CloseDomains(f) PROVE UnderJobInvAt(d)'
  BY <1>11, <1>19 DEF CloseDomains
<1>20. CASE UNCHANGED vars
  BY <1>11, <1>20 DEF vars
<1> QED
  BY <1>1, <1>2, <1>3, <1>4, <1>5, <1>6, <1>7, <1>8, <1>9, <1>10, <1>11,
     <1>12, <1>13, <1>14, <1>15, <1>16, <1>17, <1>18, <1>19, <1>20
     DEF Next, RunWorker, IrqThread, TdrProgress, Close, Rest

\* A core without a reset stays without one until its next timeout.
LEMMA NoResetStep ==
  ASSUME IndInv, LateInv, [Next]_vars, NEW d \in Cores, NoResetYet(d)'
  PROVE  NoResetYet(d)
<1> USE SetsAssumption
    DEF pmVars, jobVars, coreVars, fileVars, routeVars, fenceVars,
        runVars, irqVars, tdrVars,
        InScheduler, Popped, IsActive, Paused, JobLockFree, JobOrNull
<1>0. /\ core_of \in [Jobs -> Cores] /\ timeout_count \in [Jobs -> Nat]
      /\ tdr_pc \in [Cores -> {"idle", "marked", "stopped", "cleared", "restarted"}]
      /\ NoResetYet(d)'
      /\ (\A j \in Jobs : JobInvAt(j) /\ TimeoutInvAt(j))
      /\ (\A c \in Cores : TdrInvAt(c))
  BY DEF IndInv, TypeOK, JobInv, TdrInv, LateInv, TimeoutInv
<1>1. ASSUME NEW j \in Jobs, NEW f \in Files, NEW id \in DomainIds, NEW m \in CoreMasks,
             Submit(j, f, id, m)
      PROVE  NoResetYet(d)
  BY <1>0, <1>1 DEF NoResetYet, JobInvAt, TimeoutInvAt, Submit
<1>2. ASSUME NEW c \in Cores, NEW j \in Jobs, TdrFire(c, j) PROVE NoResetYet(d)
  BY <1>0, <1>2 DEF NoResetYet, TdrFire
<1>3. ASSUME NEW c \in Cores, TdrStop(c) PROVE NoResetYet(d)
  BY <1>0, <1>3 DEF NoResetYet, TdrStop, drm_sched_stop
<1>4. ASSUME NEW c \in Cores, TdrClear(c) PROVE NoResetYet(d)
  BY <1>0, <1>4 DEF NoResetYet, TdrClear
<1>5. ASSUME NEW c \in Cores, TdrRestart(c) PROVE NoResetYet(d)
  BY <1>0, <1>5 DEF NoResetYet, TdrRestart, cancelled, reset_done
<1>6. ASSUME NEW c \in Cores, TdrReturn(c) PROVE NoResetYet(d)
  <2>1. tdr_job[c] \in Jobs /\ core_of[tdr_job[c]] = c
    BY <1>0, <1>6, Subjects DEF TdrReturn, TdrInvAt
  <2>2. timeout_count'[tdr_job[c]] > 0 /\ core_of' = core_of
    BY <1>0, <1>6, <2>1 DEF TdrReturn
  <2>3. d # c
    BY <1>0, <2>1, <2>2 DEF NoResetYet
  <2>4. \A j \in Jobs : core_of[j] = d => timeout_count'[j] = timeout_count[j]
    BY <1>0, <1>6, <2>1, <2>3 DEF TdrReturn
  <2> QED
    BY <1>0, <1>6, <2>2, <2>3, <2>4 DEF NoResetYet, TdrReturn
<1>7. CASE UNCHANGED <<core_of, timeout_count, tdr_pc>>
  BY <1>0, <1>7 DEF NoResetYet
<1>8. ASSUME NEW j \in Jobs, NEW f \in Files,
             SubmitFail(j, f)
      PROVE  NoResetYet(d)
  BY <1>7, <1>8 DEF SubmitFail
<1>9. ASSUME NEW j \in Jobs,
             WaitDone(j) \/ WaitExpire(j) \/ Free(j)
      PROVE  NoResetYet(d)
  BY <1>7, <1>9 DEF WaitDone, WaitExpire, Free
<1>10. ASSUME NEW c \in Cores, NEW j \in Jobs, RunPop(c, j) PROVE NoResetYet(d)
  BY <1>7, <1>10 DEF RunPop
<1>11. ASSUME NEW c \in Cores,
             \/ RunNoFence(c) \/ RunPower(c) \/ RunAttach(c)
             \/ RunAttachFail(c) \/ RunUnwind(c) \/ RunDone(c)
      PROVE  NoResetYet(d)
  BY <1>7, <1>11 DEF RunNoFence, RunPower, RunAttach, RunAttachFail,
     RunUnwind, RunDone
<1>12. ASSUME NEW c \in Cores,
             \/ HwDone(c) \/ IrqShared(c) \/ IrqEnter(c) \/ IrqNothing(c)
             \/ IrqNextTask(c) \/ IrqSignal(c) \/ IrqFinish(c)
      PROVE  NoResetYet(d)
  BY <1>7, <1>12 DEF HwDone, IrqShared, IrqEnter, IrqNothing, IrqNextTask, IrqSignal,
     IrqFinish
<1>13. ASSUME NEW c \in Cores, NEW bad \in Cores,
             RunPowerFail(c, bad)
      PROVE  NoResetYet(d)
  BY <1>7, <1>13 DEF RunPowerFail
<1>14. ASSUME NEW f \in Files, NEW c \in Cores,
             CloseEntity(f, c) \/ CloseDetach(f, c)
      PROVE  NoResetYet(d)
  BY <1>7, <1>14 DEF CloseEntity, CloseDetach
<1>15. ASSUME NEW f \in Files, CloseDomains(f) PROVE NoResetYet(d)
  BY <1>7, <1>15 DEF CloseDomains
<1>16. CASE UNCHANGED vars
  BY <1>7, <1>16 DEF vars
<1> QED
  BY <1>1, <1>2, <1>3, <1>4, <1>5, <1>6, <1>7, <1>8, <1>9, <1>10, <1>11,
     <1>12, <1>13, <1>14, <1>15, <1>16
     DEF Next, RunWorker, IrqThread, TdrProgress, Close, Rest

\* The interrupts of other devices that were taken stay taken.
LEMMA ForeignStep ==
  ASSUME IndInv, [Next]_vars, NEW d \in Cores, foreign'[d] = 0
  PROVE  foreign[d] = 0
<1> USE DEF pmVars, jobVars, coreVars, fileVars, irqVars
<1>0. foreign \in [Cores -> 0 .. MaxForeign] /\ MaxForeign \in Nat
  BY SetsAssumption DEF IndInv, TypeOK
<1>1. ASSUME NEW c \in Cores, IrqShared(c) PROVE foreign[d] = 0
  BY <1>0, <1>1 DEF IrqShared
<1>2. CASE UNCHANGED foreign
  BY <1>2
<1>3. ASSUME NEW j \in Jobs, NEW f \in Files,
             \/ SubmitFail(j, f)
             \/ \E id \in DomainIds, m \in CoreMasks : Submit(j, f, id, m)
      PROVE  foreign[d] = 0
  BY <1>2, <1>3 DEF SubmitFail, Submit
<1>4. ASSUME NEW j \in Jobs, WaitDone(j) \/ WaitExpire(j) \/ Free(j)
      PROVE  foreign[d] = 0
  BY <1>2, <1>4 DEF WaitDone, WaitExpire, Free
<1>5. ASSUME NEW c \in Cores, RunWorker(c) PROVE foreign[d] = 0
  BY <1>2, <1>5 DEF RunWorker, RunPop, RunNoFence, RunPower, RunPowerFail, RunAttach,
     RunAttachFail, RunUnwind, RunDone
<1>6. ASSUME NEW c \in Cores, HwDone(c) \/ IrqThread(c) PROVE foreign[d] = 0
  BY <1>2, <1>6 DEF HwDone, IrqThread, IrqEnter, IrqNothing, IrqNextTask, IrqSignal, IrqFinish
<1>7. ASSUME NEW c \in Cores, TdrProgress(c) \/ \E j \in Jobs : TdrFire(c, j)
      PROVE  foreign[d] = 0
  BY <1>2, <1>7 DEF TdrProgress, TdrStop, TdrClear, TdrRestart, TdrReturn, TdrFire
<1>8. ASSUME NEW f \in Files, Close(f) PROVE foreign[d] = 0
  BY <1>2, <1>8 DEF Close, CloseEntity, CloseDetach, CloseDomains
<1>9. CASE UNCHANGED vars
  BY <1>2, <1>9 DEF vars
<1> QED
  BY <1>1, <1>3, <1>4, <1>5, <1>6, <1>7, <1>8, <1>9 DEF Next, Rest

\* The hardware until the first timeout of a core.
LEMMA FirstInvStep ==
  ASSUME IndInv, LateInv, [Next]_vars PROVE FirstInv'
<1> USE SetsAssumption
    DEF pmVars, jobVars, coreVars, fileVars, routeVars, fenceVars,
        runVars, irqVars, tdrVars,
        InScheduler, Popped, IsActive, Paused, JobLockFree, JobOrNull
<1> USE DEF Open, file, task_count
<1> SUFFICES ASSUME NEW d \in Cores, NoResetYet(d)', foreign'[d] = 0 PROVE FirstInvAt(d)'
  BY DEF FirstInv, FirstInvAt
<1>n. NoResetYet(d) /\ foreign[d] = 0
  BY NoResetStep, ForeignStep
<1>0. /\ in_flight \in [Cores -> JobOrNull] /\ attached \in [Cores -> DomainOrNull]
      /\ irq_pc \in [Cores -> {"idle", "entered", "signaled"}]
      /\ irq_woken \in [Cores -> BOOLEAN] /\ hw \in [Cores -> JobOrNull]
      /\ domain \in [Jobs -> DomainOrNull] /\ next_task_idx \in [Jobs -> 0 .. task_count]
      /\ close_pc \in [Files -> 0 .. 2 * NumCores + 1] /\ 2 * NumCores \in Nat
      /\ FirstInvAt(d) /\ FlightInvAt(d) /\ NoResetYet(d) /\ foreign[d] = 0
      /\ foreign \in [Cores -> 0 .. MaxForeign] /\ MaxForeign \in Nat
      /\ ~reset_pending[d]
      /\ NumCores > 0
  BY <1>n, NumCoresAssumption
     DEF IndInv, TypeOK, FlightInv, LateInv, FirstInv, ResetInv, ResetInvAt, NoResetYet
<1>r. /\ run_job[d] # NULL => run_job[d] \in Jobs
      /\ hw[d] # NULL => /\ in_flight[d] = hw[d] /\ hw[d] \in Jobs
                         /\ place[hw[d]] # "new" /\ domain[hw[d]] \in AllDomains
  BY <1>0, Subjects DEF FirstInvAt, FlightInvAt, IndInv, TypeOK, JobInv, JobInvAt
<1>1. ASSUME NEW j \in Jobs, NEW f \in Files, NEW id \in DomainIds, NEW m \in CoreMasks,
             Submit(j, f, id, m)
      PROVE  FirstInvAt(d)'
  <2>1. hw[d] # NULL => hw[d] # j /\ domain'[hw[d]] = domain[hw[d]]
    BY <1>0, <1>1, <1>r DEF Submit, IndInv, JobInv, JobInvAt
  <2> QED
    BY <1>0, <1>1, <1>r, <2>1 DEF FirstInvAt, Submit
<1>2. ASSUME NEW c \in Cores, RunAttach(c) PROVE FirstInvAt(d)'
  <2>1. /\ run_job[c] \in Jobs /\ next_task_idx[run_job[c]] = 0 /\ in_flight[c] = NULL
    BY <1>2, Subjects DEF RunAttach, IndInv, RunInv, RunInvAt
  <2>2. CASE c # d
    BY <1>0, <1>2, <2>1, <2>2 DEF FirstInvAt, RunAttach, rocket_job_hw_submit
  <2>3. CASE c = d
    <3>1. /\ in_flight'[d] = run_job[c] /\ hw'[d] = run_job[c]
          /\ attached'[d] = domain[run_job[c]] /\ next_task_idx'[run_job[c]] = 1
          /\ UNCHANGED <<irq_pc, irq_woken, foreign, domain, close_pc>>
      BY <1>0, <1>2, <2>1, <2>3 DEF RunAttach, rocket_job_hw_submit, domain_switch
    <3>2. ~irq_woken[d] /\ irq_pc[d] = "idle"
      BY <1>0, <2>1, <2>3 DEF FirstInvAt
    <3> QED
      BY <2>1, <3>1, <3>2 DEF FirstInvAt
  <2> QED
    BY <2>2, <2>3
<1>3. ASSUME NEW c \in Cores, RunAttachFail(c) PROVE FirstInvAt(d)'
  <2>1. in_flight[c] = NULL
    BY <1>3 DEF RunAttachFail, IndInv, RunInv, RunInvAt
  <2> QED
    BY <1>0, <1>3, <2>1 DEF FirstInvAt, RunAttachFail
<1>4. ASSUME NEW c \in Cores, HwDone(c) PROVE FirstInvAt(d)'
  <2>1. /\ hw[c] # NULL /\ hw' = [hw EXCEPT ![c] = NULL]
        /\ c = d => irq_woken' = [irq_woken EXCEPT ![c] = TRUE]
        /\ c # d => irq_woken'[d] = irq_woken[d]
        /\ UNCHANGED <<in_flight, attached, irq_pc, foreign, next_task_idx, domain, close_pc>>
    BY <1>0, <1>4 DEF HwDone
  <2> QED
    BY <1>0, <2>1 DEF FirstInvAt
<1>22. ASSUME NEW c \in Cores, IrqShared(c) PROVE FirstInvAt(d)'
  <2>1. c # d
    BY <1>0, <1>22 DEF IrqShared
  <2> QED
    BY <1>0, <1>22, <2>1 DEF IrqShared, FirstInvAt
<1>5. ASSUME NEW c \in Cores, IrqEnter(c) PROVE FirstInvAt(d)'
  BY <1>0, <1>5 DEF FirstInvAt, IrqEnter
<1>6. ASSUME NEW c \in Cores, IrqNothing(c) PROVE FirstInvAt(d)'
  BY <1>0, <1>6 DEF FirstInvAt, IrqNothing
<1>7. ASSUME NEW c \in Cores, IrqNextTask(c) PROVE FirstInvAt(d)'
  BY <1>0, <1>7 DEF FirstInvAt, IrqNextTask, rocket_job_hw_submit
<1>8. ASSUME NEW c \in Cores, IrqSignal(c) PROVE FirstInvAt(d)'
  BY <1>0, <1>8 DEF FirstInvAt, IrqSignal, drm_sched_job_done
<1>9. ASSUME NEW c \in Cores, IrqFinish(c) PROVE FirstInvAt(d)'
  BY <1>0, <1>9 DEF FirstInvAt, IrqFinish
<1>10. ASSUME NEW c \in Cores, TdrClear(c) PROVE FirstInvAt(d)'
  BY <1>0, <1>10 DEF FirstInvAt, NoResetYet, TdrClear
<1>11. ASSUME NEW c \in Cores, TdrRestart(c) PROVE FirstInvAt(d)'
  BY <1>0, <1>11 DEF FirstInvAt, TdrRestart, cancelled, reset_done
<1>12. ASSUME NEW f \in Files, NEW c \in Cores,
             CloseEntity(f, c)
      PROVE  FirstInvAt(d)'
  <2>1. \A g \in Files : close_pc'[g] = 0 => close_pc[g] = 0
    BY <1>0, <1>12 DEF CloseEntity, Cores
  <2>2. UNCHANGED <<in_flight, attached, irq_pc, irq_woken, foreign, hw, next_task_idx, domain>>
    BY <1>12 DEF CloseEntity
  <2>3. hw[d] # NULL => domain[hw[d]][1] \in Files
    BY <1>r DEF AllDomains
  <2> QED
    BY <1>0, <2>1, <2>2, <2>3 DEF FirstInvAt
<1>13. ASSUME NEW f \in Files, NEW c \in Cores,
             CloseDetach(f, c)
      PROVE  FirstInvAt(d)'
  <2>1. attached'[d] # attached[d] => attached[d][1] = f
    BY <1>0, <1>13 DEF CloseDetach, closes_domain
  <2>2. \A g \in Files : close_pc'[g] = 0 => close_pc[g] = 0 /\ g # f
    BY <1>0, <1>13 DEF CloseDetach, Cores
  <2>3. hw[d] # NULL => domain[hw[d]][1] \in Files
    BY <1>r DEF AllDomains
  <2>4. UNCHANGED <<in_flight, irq_pc, irq_woken, foreign, hw, next_task_idx, domain>>
    BY <1>13 DEF CloseDetach
  <2>5. hw[d] # NULL /\ close_pc'[domain[hw[d]][1]] = 0 => attached'[d] = domain[hw[d]]
    BY <1>0, <2>1, <2>2, <2>3 DEF FirstInvAt
  <2> QED
    BY <1>0, <2>4, <2>5 DEF FirstInvAt
<1>14. ASSUME NEW f \in Files, CloseDomains(f) PROVE FirstInvAt(d)'
  BY <1>0, <1>14 DEF FirstInvAt, CloseDomains
<1>15. CASE UNCHANGED <<in_flight, attached, irq_pc, irq_woken, foreign, hw,
       next_task_idx, domain, close_pc>>
  BY <1>0, <1>15 DEF FirstInvAt
<1>16. ASSUME NEW j \in Jobs, NEW f \in Files,
             SubmitFail(j, f)
      PROVE  FirstInvAt(d)'
  BY <1>15, <1>16 DEF SubmitFail
<1>17. ASSUME NEW j \in Jobs,
             WaitDone(j) \/ WaitExpire(j) \/ Free(j)
      PROVE  FirstInvAt(d)'
  BY <1>15, <1>17 DEF WaitDone, WaitExpire, Free
<1>18. ASSUME NEW c \in Cores, NEW j \in Jobs,
             RunPop(c, j) \/ TdrFire(c, j)
      PROVE  FirstInvAt(d)'
  BY <1>15, <1>18 DEF RunPop, TdrFire
<1>19. ASSUME NEW c \in Cores,
             \/ RunNoFence(c) \/ RunPower(c) \/ RunUnwind(c)
             \/ RunDone(c) \/ TdrStop(c) \/ TdrReturn(c)
      PROVE  FirstInvAt(d)'
  BY <1>15, <1>19 DEF RunNoFence, RunPower, RunUnwind, RunDone, TdrStop,
     drm_sched_stop, TdrReturn
<1>20. ASSUME NEW c \in Cores, NEW bad \in Cores,
             RunPowerFail(c, bad)
      PROVE  FirstInvAt(d)'
  BY <1>15, <1>20 DEF RunPowerFail
<1>21. CASE UNCHANGED vars
  BY <1>15, <1>21 DEF vars
<1> QED
  BY <1>1, <1>2, <1>3, <1>4, <1>5, <1>6, <1>7, <1>8, <1>9, <1>10, <1>11,
     <1>12, <1>13, <1>14, <1>15, <1>16, <1>17, <1>18, <1>19, <1>20, <1>21, <1>22
     DEF Next, RunWorker, IrqThread, TdrProgress, Close, Rest

\* LateInv holds in every reachable state of the job engine.
THEOREM LateInvariance == Spec => []LateInv
<1>1. IndInv /\ LateInv /\ [Next]_vars => LateInv'
  BY RetiredInvStep, TimeoutInvStep, ResetInvStep, FirstInvStep, UnderJobInvStep DEF LateInv
<1> QED
  BY <1>1, InitLate, Invariance, PTL DEF Spec

\* No job is passed to the timeout handler more than twice: the branch of
\* rocket_job_timedout that gives up on a job is never taken.
THEOREM TimeoutsAreBounded == Spec => []TimeoutsBounded
<1>1. LateInv => TimeoutsBounded
  BY DEF LateInv, TimeoutInv, TimeoutInvAt, TimeoutsBounded
<1> QED
  BY <1>1, LateInvariance, PTL

\* Until a core's first timeout, and until its handler first takes another
\* device's interrupt for its own, the hardware executes only the job in flight,
\* powered, through that job's own IOMMU domain unless its file was closed.
THEOREM RunningIsTranslated == Spec => []RunningJobTranslated
<1>1. IndInv /\ LateInv => RunningJobTranslated
  <2> SUFFICES ASSUME IndInv, LateInv, NEW c \in Cores, hw[c] # NULL,
                      NoResetYet(c), foreign[c] = 0
               PROVE  /\ in_flight[c] = hw[c] /\ pm_refcount > 0
                      /\ Open(file(hw[c])) => attached[c] = domain[hw[c]]
    BY DEF RunningJobTranslated
  <2>1. in_flight[c] = hw[c] /\ (Open(file(hw[c])) => attached[c] = domain[hw[c]])
    BY DEF LateInv, FirstInv, FirstInvAt
  <2>2. c \in InFlightCores
    BY <2>1 DEF InFlightCores
  <2>3. pm_refcount > 0
    BY <2>2, UserCounted DEF IndInv, PmInv
  <2> QED
    BY <2>1, <2>3
<1> QED
  BY <1>1, Invariance, LateInvariance, PTL

\* No step takes the IOMMU domain away from under a job in flight, except a
\* reset or the close of that job's own file.
THEOREM NoDomainSwitch == Spec => NoSwitchUnderJob
<1> DEFINE Keeps == \A c \in Cores :
          (in_flight[c] # NULL /\ JobLockFree(c) /\ in_flight'[c] = in_flight[c]
             /\ Open(file(in_flight[c])))
          => attached'[c] = attached[c]
<1>1. IndInv /\ LateInv /\ [Next]_vars => Keeps
  <2> SUFFICES ASSUME IndInv, LateInv, [Next]_vars, NEW d \in Cores,
                      in_flight[d] # NULL, JobLockFree(d), in_flight'[d] = in_flight[d],
                      Open(file(in_flight[d]))
               PROVE  attached'[d] = attached[d]
    OBVIOUS
  <2> USE DEF pmVars, jobVars, coreVars, fileVars, routeVars, fenceVars,
              runVars, irqVars, tdrVars
  <2>0. attached \in [Cores -> DomainOrNull] /\ in_flight \in [Cores -> JobOrNull]
    BY DEF IndInv, TypeOK
  <2>1. ASSUME NEW c \in Cores, RunAttach(c) \/ RunAttachFail(c)
        PROVE  attached'[d] = attached[d]
    <3>1. in_flight[c] = NULL
      BY <2>1 DEF RunAttach, RunAttachFail, IndInv, RunInv, RunInvAt
    <3> QED
      BY <2>0, <2>1, <3>1 DEF RunAttach, RunAttachFail
  <2>2. ASSUME NEW c \in Cores, TdrClear(c) PROVE attached'[d] = attached[d]
    BY <2>0, <2>2 DEF TdrClear
  <2>3. ASSUME NEW f \in Files, NEW c \in Cores, CloseDetach(f, c)
        PROVE  attached'[d] = attached[d]
    <3>1. attached[d] # NULL => attached[d][1] # f
      <4>1. close_pc[f] # 0
        BY <2>3, NumCoresAssumption DEF CloseDetach, Cores
      <4>2. attached[d] # NULL => attached[d] = domain[in_flight[d]]
        BY DEF LateInv, UnderJobInv, UnderJobInvAt
      <4> QED
        BY <4>1, <4>2 DEF Open, file
    <3>2. closes_domain(f, attached[d]) => attached[d] # NULL /\ attached[d][1] = f
      BY <2>3, SetsAssumption DEF closes_domain, IndInv, TypeOK
    <3> QED
      BY <2>0, <2>3, <3>1, <3>2 DEF CloseDetach
  <2>4. CASE UNCHANGED attached
    BY <2>4
  <2>5. ASSUME NEW c \in Cores,
               \/ \E k \in Jobs : RunPop(c, k) \/ TdrFire(c, k)
               \/ RunPower(c) \/ (\E bad \in Cores : RunPowerFail(c, bad))
               \/ RunNoFence(c) \/ RunUnwind(c) \/ RunDone(c)
        PROVE  UNCHANGED attached
    BY <2>5 DEF RunPop, TdrFire, RunPower, RunPowerFail, RunNoFence, RunUnwind, RunDone
  <2>6. ASSUME NEW c \in Cores,
               \/ HwDone(c) \/ IrqShared(c) \/ IrqEnter(c) \/ IrqNothing(c) \/ IrqNextTask(c)
               \/ IrqSignal(c) \/ IrqFinish(c) \/ TdrStop(c) \/ TdrRestart(c)
               \/ TdrReturn(c)
        PROVE  UNCHANGED attached
    BY <2>6 DEF HwDone, IrqShared, IrqEnter, IrqNothing, IrqNextTask, IrqSignal, IrqFinish,
                TdrStop, TdrRestart, TdrReturn
  <2>7. ASSUME NEW k \in Jobs,
               \/ WaitDone(k) \/ WaitExpire(k) \/ Free(k)
               \/ \E f \in Files : \/ SubmitFail(k, f)
                                   \/ \E id \in DomainIds, m \in CoreMasks : Submit(k, f, id, m)
        PROVE  UNCHANGED attached
    BY <2>7 DEF WaitDone, WaitExpire, Free, SubmitFail, Submit
  <2>8. ASSUME NEW f \in Files, CloseDomains(f) \/ \E c \in Cores : CloseEntity(f, c)
        PROVE  UNCHANGED attached
    BY <2>8 DEF CloseDomains, CloseEntity
  <2>9. CASE UNCHANGED vars
    BY <2>9 DEF vars
  <2> QED
    BY <2>1, <2>2, <2>3, <2>4, <2>5, <2>6, <2>7, <2>8, <2>9
       DEF Next, RunWorker, IrqThread, TdrProgress, Close, Rest
<1>2. Spec => [][Keeps]_vars
  BY <1>1, Invariance, LateInvariance, PTL DEF Spec
<1> QED
  BY <1>2 DEF NoSwitchUnderJob


-----------------------------------------------------------------------------
(* The job engine implements NpuService (RocketServes).                     *)

\* The state of a job as the service sees it depends on nothing else.
LEMMA StateFrame ==
  ASSUME NEW j \in Jobs, place'[j] = place[j], finished'[j] = finished[j]
  PROVE  state_of(j)' = state_of(j)
  BY DEF state_of, Popped

\* A job the scheduler or the ioctl holds is allocated, no other is.
LEMMA AliveIff ==
  ASSUME IndInv, NEW j \in Jobs
  PROVE  refcount[j] > 0 <=> submit[j] = "wait" \/ InScheduler(j)
  BY DEF IndInv, JobInv, JobInvAt

\* A step that leaves what the service sees alone is a stutter of it.
LEMMA ServiceStutter ==
  ASSUME \A j \in Jobs : state_of(j)' = state_of(j),
         \A j \in Jobs : (refcount[j] > 0)' <=> (refcount[j] > 0),
         UNCHANGED <<core_of, finished, submit>>
  PROVE  UNCHANGED Service!vars
<1>1. [j \in Jobs |-> state_of(j)]' = [j \in Jobs |-> state_of(j)]
  OBVIOUS
<1>2. [j \in Jobs |-> refcount[j] > 0]' = [j \in Jobs |-> refcount[j] > 0]
  OBVIOUS
<1> QED
  BY <1>1, <1>2 DEF Service!vars

\* The active job of a core ends: RunNoFence, RunDone, IrqSignal, TdrRestart.
LEMMA ServiceEnd ==
  ASSUME IndInv, NEW j \in Jobs, NEW c \in Cores, NEW r \in Results, r # "no",
         IsActive(j, c), finished' = [finished EXCEPT ![j] = r],
         UNCHANGED <<place, core_of, submit, refcount>>
  PROVE  Service!Next
<1>0. finished \in [Jobs -> Results]
  BY DEF IndInv, TypeOK
<1>1. state_of(j) = "active" /\ state_of(j)' = "ended"
  BY <1>0 DEF IsActive, Popped, state_of
<1>2. \A k \in Jobs \ {j} : state_of(k)' = state_of(k)
  BY <1>0, StateFrame
<1>3. refcount[j] > 0
  BY AliveIff DEF IsActive, Popped, InScheduler
<1>4. [k \in Jobs |-> state_of(k)]' = [[k \in Jobs |-> state_of(k)] EXCEPT ![j] = "ended"]
  BY <1>1, <1>2
<1>5. Service!End(j, r)
  BY <1>1, <1>3, <1>4 DEF Service!End
<1> QED
  BY <1>1, <1>5 DEF Service!Next, Service!In

\* Ended jobs leave the scheduler: Free, TdrStop, TdrReturn.
LEMMA ServiceRelease ==
  ASSUME IndInv, IndInv', NEW K \in SUBSET Jobs, K # {},
         \A j \in K : Popped(j) /\ finished[j] # "no" /\ place'[j] = "retired",
         \A j \in Jobs \ K : /\ refcount'[j] = refcount[j]
                             /\ place'[j] = place[j] \/ (Popped(j) /\ Popped(j)'),
         UNCHANGED <<core_of, finished, submit>>
  PROVE  Service!Next
<1>1. \A j \in K : /\ state_of(j) = "ended" /\ state_of(j)' = "released"
                   /\ refcount[j] > 0
  BY AliveIff DEF state_of, Popped, InScheduler
<1>2. \A j \in K : (refcount[j] > 0)' <=> submit[j] = "wait"
  <2> SUFFICES ASSUME NEW j \in K PROVE (refcount[j] > 0)' <=> submit[j] = "wait"
    OBVIOUS
  <2>1. (refcount[j] = (IF submit[j] = "wait" THEN 1 ELSE 0)
                     + (IF InScheduler(j) THEN 1 ELSE 0))'
    BY DEF IndInv, JobInv, JobInvAt
  <2> QED
    BY <2>1 DEF InScheduler
<1>3. \A j \in Jobs \ K : state_of(j)' = state_of(j)
  BY DEF state_of, Popped
<1>4. [j \in Jobs |-> state_of(j)]' =
        [j \in Jobs |-> IF j \in K THEN "released" ELSE [k \in Jobs |-> state_of(k)][j]]
  BY <1>1, <1>3
<1>5. [j \in Jobs |-> refcount[j] > 0]' =
        [j \in Jobs |-> IF j \in K THEN submit[j] = "wait"
                        ELSE [k \in Jobs |-> refcount[k] > 0][j]]
  BY <1>2
<1>6. Service!Release(K)
  BY <1>1, <1>4, <1>5 DEF Service!Release
<1> QED
  BY <1>1, <1>6 DEF Service!Next, Service!In

\* The SUBMIT ioctl, from the call to its return.
LEMMA ServiceSubmit ==
  ASSUME IndInv, IndInv', NEW j \in Jobs, NEW f \in Files,
         \/ \E id \in DomainIds, m \in CoreMasks : Submit(j, f, id, m)
         \/ SubmitFail(j, f)
  PROVE  Service!Next
<1> USE DEF pmVars, jobVars, coreVars, fileVars, routeVars, fenceVars
<1>0. /\ place \in [Jobs -> Places] /\ refcount \in [Jobs -> 0 .. 2]
      /\ core_of \in [Jobs -> Cores] /\ JobInvAt(j)
      /\ submit \in [Jobs -> {"idle", "wait", "success", "timedout", "error"}]
  BY DEF IndInv, TypeOK, JobInv
<1>1. state_of(j) = "new"
  <2>1. submit[j] = "idle"
    BY DEF Submit, SubmitFail
  <2>2. place[j] = "new"
    BY <1>0, <2>1 DEF JobInvAt
  <2> QED
    BY <2>2 DEF state_of, Popped
<1>2. ASSUME NEW id \in DomainIds, NEW m \in CoreMasks, Submit(j, f, id, m)
      PROVE  Service!Next
  <2>1. /\ submit[j] = "idle" /\ submit' = [submit EXCEPT ![j] = "wait"]
        /\ core_of' = [core_of EXCEPT ![j] = pinned_core(m)] /\ finished' = finished
        /\ place' = [place EXCEPT ![j] = "queued"]
        /\ refcount' = [refcount EXCEPT ![j] = 2]
    BY <1>2 DEF Submit
  <2>2. state_of(j)' = "queued" /\ \A k \in Jobs \ {j} : state_of(k)' = state_of(k)
    BY <1>0, <2>1 DEF state_of, Popped
  <2>3. [k \in Jobs |-> state_of(k)]' = [[k \in Jobs |-> state_of(k)] EXCEPT ![j] = "queued"]
    BY <2>2
  <2>4. [k \in Jobs |-> refcount[k] > 0]' = [[k \in Jobs |-> refcount[k] > 0] EXCEPT ![j] = TRUE]
    <3>1. refcount'[j] > 0 /\ \A k \in Jobs \ {j} : refcount'[k] = refcount[k]
      BY <1>0, <2>1
    <3> QED
      BY <3>1, Zenon
  <2>5. Service!Accept(j, pinned_core(m))
    BY <1>1, <2>1, <2>3, <2>4 DEF Service!Accept
  <2> QED
    BY <2>5, PinnedCore DEF Service!Next
<1>3. ASSUME SubmitFail(j, f) PROVE Service!Next
  <2>1. /\ submit[j] = "idle" /\ submit' = [submit EXCEPT ![j] = "error"]
        /\ UNCHANGED <<core_of, finished, place, refcount>>
    BY <1>3 DEF SubmitFail
  <2>2. [k \in Jobs |-> state_of(k)]' = [k \in Jobs |-> state_of(k)]
    BY <2>1 DEF state_of, Popped
  <2>3. [k \in Jobs |-> refcount[k] > 0]' = [k \in Jobs |-> refcount[k] > 0]
    BY <2>1
  <2>4. Service!Reject(j)
    BY <1>1, <2>1, <2>2, <2>3 DEF Service!Reject
  <2> QED
    BY <2>4 DEF Service!Next
<1> QED
  BY <1>2, <1>3

\* The wait of the ioctl ends: the caller gets its answer, or gives up.
LEMMA ServiceAnswer ==
  ASSUME IndInv, LateInv, IndInv', NEW j \in Jobs, WaitDone(j) \/ WaitExpire(j)
  PROVE  Service!Next
<1> USE DEF pmVars, jobVars, coreVars, fileVars, routeVars, fenceVars
<1>0. /\ place \in [Jobs -> Places] /\ refcount \in [Jobs -> 0 .. 2] /\ JobInvAt(j)
      /\ submit \in [Jobs -> {"idle", "wait", "success", "timedout", "error"}]
  BY DEF IndInv, TypeOK, JobInv
<1>1. /\ submit[j] = "wait" /\ UNCHANGED <<place, core_of, finished>>
      /\ refcount' = [refcount EXCEPT ![j] = @ - 1]
  BY DEF WaitDone, WaitExpire
<1>2. [k \in Jobs |-> state_of(k)]' = [k \in Jobs |-> state_of(k)]
  BY <1>1 DEF state_of, Popped
<1>3. refcount[j] > 0 /\ ((refcount[j] > 0)' <=> InScheduler(j))
  BY <1>0, <1>1 DEF JobInvAt, InScheduler
<1>4. CASE WaitDone(j)
  <2>1. /\ state_of(j) \in {"ended", "released"}
        /\ state_of(j) # "released" <=> InScheduler(j)
    BY <1>0, <1>4 DEF WaitDone, JobInvAt, state_of, Popped, InScheduler, Places
  <2>2. [k \in Jobs |-> refcount[k] > 0]' =
          [[k \in Jobs |-> refcount[k] > 0] EXCEPT ![j] = state_of(j) # "released"]
    <3>1. /\ (refcount'[j] > 0) <=> (state_of(j) # "released")
          /\ \A k \in Jobs \ {j} : refcount'[k] = refcount[k]
      BY <1>0, <1>1, <1>3, <2>1
    <3>2. (state_of(j) # "released") = (refcount'[j] > 0)
      BY <3>1
    <3>3. [k \in Jobs |-> refcount[k] > 0]' =
             [[k \in Jobs |-> refcount[k] > 0] EXCEPT ![j] = (refcount'[j] > 0)]
      BY <3>1
    <3> QED
      BY <3>2, <3>3
  <2>3. Service!Reply(j)
    BY <1>1, <1>2, <1>3, <1>4, <2>1, <2>2 DEF WaitDone, Service!Reply, Service!Ended
  <2> QED
    BY <2>3 DEF Service!Next
<1>5. CASE WaitExpire(j)
  <2>1. state_of(j) \notin {"ended", "released"} /\ InScheduler(j)
    BY <1>0, <1>5
       DEF WaitExpire, LateInv, RetiredInv, JobInvAt, state_of, Popped, InScheduler, Places
  <2>2. [k \in Jobs |-> refcount[k] > 0]' = [k \in Jobs |-> refcount[k] > 0]
    BY <1>0, <1>1, <1>3, <2>1
  <2>3. Service!GiveUp(j)
    BY <1>1, <1>2, <1>5, <2>1, <2>2 DEF WaitExpire, Service!GiveUp, Service!Ended
  <2> QED
    BY <2>3 DEF Service!Next
<1> QED
  BY <1>4, <1>5

\* A run worker takes a queued job when its core has none.
LEMMA ServiceStart ==
  ASSUME IndInv, NEW c \in Cores, NEW j \in Jobs, RunPop(c, j)
  PROVE  Service!Next
<1> USE DEF pmVars, fileVars, routeVars, fenceVars, irqVars, tdrVars
<1>0. place \in [Jobs -> Places] /\ JobInvAt(j) /\ SchedInvAt(c)
  BY DEF IndInv, TypeOK, JobInv, SchedInv
<1>1. /\ place[j] = "queued" /\ core_of[j] = c /\ finished[j] = "no"
      /\ place' = [place EXCEPT ![j] = "pending"]
      /\ UNCHANGED <<core_of, finished, submit, refcount>>
  BY <1>0 DEF RunPop, JobInvAt
<1>2. \A k \in Jobs : core_of[k] = core_of[j] => state_of(k) # "active"
  <2>1. \A k \in Jobs : ~IsActive(k, c)
    BY <1>0 DEF RunPop, SchedInvAt
  <2> QED
    BY <1>0, <1>1, <2>1 DEF IsActive, state_of, Popped
<1>3. state_of(j) = "queued" /\ state_of(j)' = "active"
  BY <1>0, <1>1 DEF state_of, Popped
<1>4. \A k \in Jobs \ {j} : state_of(k)' = state_of(k)
  BY <1>0, <1>1, StateFrame
<1>5. [k \in Jobs |-> state_of(k)]' = [[k \in Jobs |-> state_of(k)] EXCEPT ![j] = "active"]
  BY <1>3, <1>4
<1>6. [k \in Jobs |-> refcount[k] > 0]' = [k \in Jobs |-> refcount[k] > 0] /\ refcount[j] > 0
  BY <1>1, AliveIff DEF InScheduler
<1>7. Service!Start(j)
  BY <1>1, <1>2, <1>3, <1>5, <1>6 DEF Service!Start
<1> QED
  BY <1>7 DEF Service!Next

\* The entity of a closed file is destroyed: what it still has queued is
\* killed, and nobody waits for it.
LEMMA ServiceKill ==
  ASSUME IndInv, IndInv', NEW f \in Files, NEW c \in Cores, CloseEntity(f, c)
  PROVE  Service!Next \/ UNCHANGED Service!vars
<1> USE DEF pmVars, coreVars, routeVars, fenceVars
<1> DEFINE K == {j \in Jobs : place[j] = "queued" /\ core_of[j] = c /\ file(j) = f}
<1>1. /\ \A j \in Jobs : submit[j] = "wait" => file(j) # f
      /\ place' = [j \in Jobs |-> IF j \in K THEN "retired" ELSE place[j]]
      /\ finished' = [j \in Jobs |-> IF j \in K THEN "ESRCH" ELSE finished[j]]
      /\ refcount' = [j \in Jobs |-> IF j \in K THEN refcount[j] - 1 ELSE refcount[j]]
      /\ UNCHANGED <<core_of, submit>>
  BY DEF CloseEntity
<1>2. /\ finished \in [Jobs -> Results] /\ place \in [Jobs -> Places]
      /\ refcount \in [Jobs -> 0 .. 2]
  BY DEF IndInv, TypeOK
<1>3. \A j \in Jobs \ K : /\ state_of(j)' = state_of(j) /\ refcount'[j] = refcount[j]
                          /\ place'[j] = place[j] /\ finished'[j] = finished[j]
  <2> SUFFICES ASSUME NEW j \in Jobs, j \notin K
               PROVE  /\ state_of(j)' = state_of(j) /\ refcount'[j] = refcount[j]
                      /\ place'[j] = place[j] /\ finished'[j] = finished[j]
    OBVIOUS
  <2>1. refcount'[j] = refcount[j] /\ place'[j] = place[j] /\ finished'[j] = finished[j]
    BY <1>1
  <2> QED
    BY <2>1, StateFrame
<1>4. CASE K = {}
  <2>1. finished' = finished
    BY <1>1, <1>2, <1>4
  <2> QED
    BY <1>1, <1>3, <1>4, <2>1, ServiceStutter
<1>5. CASE K # {}
  <2>1. \A j \in K : /\ state_of(j) = "queued" /\ submit[j] # "wait" /\ refcount[j] > 0
                     /\ state_of(j)' = "released" /\ ~(refcount[j] > 0)'
    <3> SUFFICES ASSUME NEW j \in Jobs, j \in K
                 PROVE  /\ state_of(j) = "queued" /\ submit[j] # "wait" /\ refcount[j] > 0
                        /\ state_of(j)' = "released" /\ ~(refcount[j] > 0)'
      OBVIOUS
    <3>1. place[j] = "queued" /\ file(j) = f /\ place'[j] = "retired"
      BY <1>1
    <3>2. submit[j] # "wait" /\ submit'[j] # "wait"
      BY <1>1, <3>1
    <3>3. refcount[j] > 0 /\ ~(refcount[j] > 0)'
      BY <1>1, <3>1, <3>2 DEF IndInv, JobInv, JobInvAt, InScheduler
    <3>4. state_of(j) = "queued" /\ state_of(j)' = "released"
      BY <3>1 DEF state_of, Popped
    <3> QED
      BY <3>2, <3>3, <3>4
  <2>2. [j \in Jobs |-> state_of(j)]' =
          [j \in Jobs |-> IF j \in K THEN "released" ELSE [k \in Jobs |-> state_of(k)][j]]
    BY <1>3, <2>1
  <2>3. [j \in Jobs |-> refcount[j] > 0]' =
          [j \in Jobs |-> [k \in Jobs |-> refcount[k] > 0][j] /\ j \notin K]
    <3>1. \A j \in Jobs : (refcount'[j] > 0) <=> (refcount[j] > 0 /\ j \notin K)
      BY <1>3, <2>1
    <3> HIDE DEF K
    <3>2. \A j \in Jobs : (refcount'[j] > 0) = (refcount[j] > 0 /\ j \notin K)
      BY <3>1
    <3>3. \A j \in Jobs : [k \in Jobs |-> refcount[k] > 0][j] = (refcount[j] > 0)
      OBVIOUS
    <3>4. \A j \in Jobs : (refcount'[j] > 0)
                            = ([k \in Jobs |-> refcount[k] > 0][j] /\ j \notin K)
      BY <3>2, <3>3, Zenon
    <3> QED
      BY <3>4, Zenon
  <2>4. K \in SUBSET Jobs /\ "ESRCH" \in Results
    BY DEF Results
  <2>5. finished' = [j \in Jobs |-> IF j \in K THEN "ESRCH" ELSE finished[j]]
    BY <1>1
  <2> HIDE DEF K
  <2>6. Service!Kill(K, "ESRCH")
    BY <1>1, <1>5, <2>1, <2>2, <2>3, <2>4, <2>5 DEF Service!Kill
  <2>7. K \in SUBSET Service!In("queued")
    BY <2>1, <2>4 DEF Service!In
  <2> QED
    BY <2>4, <2>6, <2>7 DEF Service!Next
<1> QED
  BY <1>4, <1>5

\* The steps of the run worker, the interrupt thread and the restart that
\* can finish a job.
LEMMA ServiceFinish ==
  ASSUME IndInv, IndInv', NEW c \in Cores,
         RunNoFence(c) \/ RunDone(c) \/ IrqSignal(c) \/ TdrRestart(c)
  PROVE  Service!Next \/ UNCHANGED Service!vars
<1> USE DEF pmVars, fileVars, routeVars, fenceVars, irqVars, tdrVars, runVars
<1>0. /\ finished \in [Jobs -> Results] /\ RunInvAt(c) /\ FlightInvAt(c)
      /\ SchedInvAt(c) /\ StopInvAt(c)
  BY DEF IndInv, TypeOK, RunInv, FlightInv, SchedInv, StopInv
<1>1. UNCHANGED <<place, core_of, submit, refcount>>
  BY DEF RunNoFence, RunDone, IrqSignal, TdrRestart
<1>2. ASSUME UNCHANGED finished PROVE UNCHANGED Service!vars
  BY <1>1, <1>2, StateFrame, ServiceStutter
<1>3. {"ok", "ENOMEM", "EATTACH", "ECANCELED"} \subseteq Results
  BY DEF Results
<1>4. CASE RunNoFence(c)
  <2>1. /\ run_job[c] \in Jobs /\ IsActive(run_job[c], c)
        /\ finished' = [finished EXCEPT ![run_job[c]] = "ENOMEM"]
    BY <1>4, Subjects DEF RunNoFence, drm_sched_job_done
  <2> QED
    BY <1>1, <1>3, <2>1, ServiceEnd
<1>5. CASE RunDone(c)
  <2>1. run_job[c] \in Jobs /\ IsActive(run_job[c], c)
    BY <1>5, Subjects DEF RunDone
  <2>2. CASE done_fence[run_job[c]] = "unsignaled"
    BY <1>2, <1>5, <2>2 DEF RunDone
  <2>3. CASE done_fence[run_job[c]] # "unsignaled"
    <3>1. PICK r \in {"ok", "EATTACH"} : finished' = [finished EXCEPT ![run_job[c]] = r]
      BY <1>5, <2>3 DEF RunDone, drm_sched_job_done
    <3> QED
      BY <1>1, <1>3, <2>1, <3>1, ServiceEnd
  <2> QED
    BY <2>2, <2>3
<1>6. CASE IrqSignal(c)
  <2>1. /\ in_flight[c] \in Jobs /\ IsActive(in_flight[c], c)
    BY <1>0, <1>6, Subjects DEF IrqSignal, FlightInvAt, JobLockFree
  <2>2. CASE armed[in_flight[c]]
    <3>1. finished' = [finished EXCEPT ![in_flight[c]] = "ok"]
      BY <1>6, <2>2 DEF IrqSignal, drm_sched_job_done
    <3> QED
      BY <1>1, <1>3, <2>1, <3>1, ServiceEnd
  <2>3. CASE ~armed[in_flight[c]]
    BY <1>2, <1>6, <2>3 DEF IrqSignal
  <2> QED
    BY <2>2, <2>3
<1>7. CASE TdrRestart(c)
  <2>1. finished' = [k \in Jobs |-> IF k \in cancelled(c) THEN "ECANCELED" ELSE finished[k]]
    BY <1>7 DEF TdrRestart
  <2>2. \A k \in cancelled(c) : k \in Jobs /\ IsActive(k, c)
    BY <1>0, <1>7 DEF cancelled, TdrRestart, StopInvAt, Paused, IsActive, Popped
  <2>3. CASE cancelled(c) = {}
    <3>1. finished' = finished
      BY <1>0, <2>1, <2>3
    <3> QED
      BY <1>2, <3>1
  <2>4. CASE cancelled(c) # {}
    <3>1. PICK k : k \in cancelled(c)
      BY <2>4
    <3>2. cancelled(c) = {k}
      BY <1>0, <2>2, <3>1 DEF SchedInvAt
    <3>3. finished' = [finished EXCEPT ![k] = "ECANCELED"]
      BY <1>0, <2>1, <3>2
    <3> QED
      BY <1>1, <1>3, <2>2, <3>1, <3>3, ServiceEnd
  <2> QED
    BY <2>3, <2>4
<1> QED
  BY <1>4, <1>5, <1>6, <1>7

\* The steps that take ended jobs off the scheduler's list.
LEMMA ServiceLetGo ==
  ASSUME IndInv, IndInv',
         (\E j \in Jobs : Free(j)) \/ (\E c \in Cores : TdrStop(c) \/ TdrReturn(c))
  PROVE  Service!Next \/ UNCHANGED Service!vars
<1> USE DEF pmVars, coreVars, fileVars, routeVars, fenceVars, irqVars, tdrVars, runVars
<1>0. /\ place \in [Jobs -> Places] /\ refcount \in [Jobs -> 0 .. 2]
  BY DEF IndInv, TypeOK
<1>1. ASSUME NEW j \in Jobs, Free(j) PROVE Service!Next
  <2>1. /\ Popped(j) /\ finished[j] # "no" /\ place'[j] = "retired"
        /\ UNCHANGED <<core_of, finished, submit>>
    BY <1>0, <1>1 DEF Free, Popped
  <2>2. \A k \in Jobs \ {j} : refcount'[k] = refcount[k] /\ place'[k] = place[k]
    BY <1>0, <1>1 DEF Free
  <2>3. {j} \in SUBSET Jobs /\ {j} # {}
    OBVIOUS
  <2> QED
    BY <2>1, <2>2, <2>3, ServiceRelease
<1>2. ASSUME NEW c \in Cores, TdrStop(c) PROVE Service!Next \/ UNCHANGED Service!vars
  <2> DEFINE onList == {k \in Jobs : core_of[k] = c /\ Popped(k)}
             kept   == {k \in onList : armed[k]}
             freed  == (onList \ kept) \ {tdr_job[c]}
  <2>1. /\ \A k \in onList \ kept : finished[k] # "no"
        /\ place' = [k \in Jobs |-> IF k \in kept THEN "pending"
                                    ELSE IF k \in freed THEN "retired" ELSE place[k]]
        /\ refcount' = [k \in Jobs |-> IF k \in freed THEN refcount[k] - 1 ELSE refcount[k]]
        /\ UNCHANGED <<core_of, finished, submit>>
    BY <1>2 DEF TdrStop, drm_sched_stop
  <2>2. \A k \in freed : Popped(k) /\ finished[k] # "no" /\ place'[k] = "retired"
    BY <2>1
  <2>3. \A k \in Jobs \ freed : /\ refcount'[k] = refcount[k]
                                /\ place'[k] = place[k] \/ (Popped(k) /\ Popped(k)')
    BY <2>1 DEF Popped
  <2>4. freed \in SUBSET Jobs
    OBVIOUS
  <2>5. CASE freed # {}
    <3> HIDE DEF freed
    <3> QED
      BY <2>1, <2>2, <2>3, <2>4, <2>5, ServiceRelease
  <2>6. CASE freed = {}
    <3> HIDE DEF freed
    <3>1. \A k \in Jobs : state_of(k)' = state_of(k) /\ refcount'[k] = refcount[k]
      BY <2>1, <2>3, <2>6 DEF state_of, Popped
    <3> QED
      BY <2>1, <3>1, ServiceStutter
  <2> QED
    BY <2>5, <2>6
<1>3. ASSUME NEW c \in Cores, TdrReturn(c) PROVE Service!Next \/ UNCHANGED Service!vars
  <2> DEFINE j == tdr_job[c]
  <2>1. j \in Jobs /\ UNCHANGED <<core_of, finished, submit>>
    BY <1>3, Subjects DEF TdrReturn
  <2>2. CASE free_guilty[c]
    <3>1. /\ Popped(j) /\ finished[j] # "no" /\ place'[j] = "retired"
      BY <1>0, <1>3, <2>1, <2>2 DEF TdrReturn, Popped, IndInv, TdrInv, TdrInvAt
    <3>2. \A k \in Jobs \ {j} : refcount'[k] = refcount[k] /\ place'[k] = place[k]
      BY <1>0, <1>3, <2>1, <2>2 DEF TdrReturn
    <3>3. {j} \in SUBSET Jobs /\ {j} # {}
      BY <2>1
    <3> HIDE DEF j
    <3> QED
      BY <2>1, <3>1, <3>2, <3>3, ServiceRelease
  <2>3. CASE ~free_guilty[c]
    <3>1. UNCHANGED <<place, refcount>>
      BY <1>3, <2>3 DEF TdrReturn
    <3> QED
      BY <2>1, <3>1, StateFrame, ServiceStutter
  <2> QED
    BY <2>2, <2>3
<1> QED
  BY <1>1, <1>2, <1>3

\* Every step of the job engine is a step of the service or a stutter of it.
LEMMA ServiceStep ==
  ASSUME IndInv, LateInv, IndInv', [Next]_vars
  PROVE  [Service!Next]_(Service!vars)
<1> USE DEF pmVars, jobVars, coreVars, fileVars, routeVars, fenceVars,
            runVars, irqVars, tdrVars
<1> DEFINE Seen == UNCHANGED <<place, core_of, finished, submit, refcount>>
<1>1. ASSUME NEW j \in Jobs, NEW f \in Files,
             \/ \E id \in DomainIds, m \in CoreMasks : Submit(j, f, id, m)
             \/ SubmitFail(j, f)
      PROVE  Service!Next
  BY <1>1, ServiceSubmit
<1>2. ASSUME NEW j \in Jobs, WaitDone(j) \/ WaitExpire(j) PROVE Service!Next
  BY <1>2, ServiceAnswer
<1>3. ASSUME NEW c \in Cores, NEW j \in Jobs, RunPop(c, j) PROVE Service!Next
  BY <1>3, ServiceStart
<1>4. ASSUME NEW c \in Cores, RunNoFence(c) \/ RunDone(c) \/ IrqSignal(c) \/ TdrRestart(c)
      PROVE  Service!Next \/ UNCHANGED Service!vars
  BY <1>4, ServiceFinish
<1>5. ASSUME (\E j \in Jobs : Free(j)) \/ (\E c \in Cores : TdrStop(c) \/ TdrReturn(c))
      PROVE  Service!Next \/ UNCHANGED Service!vars
  BY <1>5, ServiceLetGo
<1>6. ASSUME NEW f \in Files, NEW c \in Cores, CloseEntity(f, c)
      PROVE  Service!Next \/ UNCHANGED Service!vars
  BY <1>6, ServiceKill
<1>7. ASSUME Seen PROVE UNCHANGED Service!vars
  BY <1>7, StateFrame, ServiceStutter
<1>8. ASSUME NEW c \in Cores, NEW j \in Jobs, TdrFire(c, j)
      PROVE  UNCHANGED Service!vars
  <2>1. /\ UNCHANGED <<core_of, finished, submit, refcount>> /\ place[j] = "pending"
        /\ place' = [place EXCEPT ![j] = "timedout"]
    BY <1>8 DEF TdrFire
  <2>2. \A k \in Jobs : state_of(k)' = state_of(k)
    BY <2>1 DEF state_of, Popped, IndInv, TypeOK
  <2> QED
    BY <2>1, <2>2, ServiceStutter
<1>9. ASSUME NEW c \in Cores,
             \/ RunPower(c) \/ (\E bad \in Cores : RunPowerFail(c, bad))
             \/ RunAttach(c) \/ RunAttachFail(c) \/ RunUnwind(c)
      PROVE  Seen
  BY <1>9 DEF RunPower, RunPowerFail, RunAttach, RunAttachFail, RunUnwind
<1>10. ASSUME NEW c \in Cores,
              \/ HwDone(c) \/ IrqShared(c) \/ IrqEnter(c) \/ IrqNothing(c) \/ IrqNextTask(c)
              \/ IrqFinish(c) \/ TdrClear(c)
       PROVE  Seen
  BY <1>10 DEF HwDone, IrqShared, IrqEnter, IrqNothing, IrqNextTask, IrqFinish, TdrClear
<1>11. ASSUME NEW f \in Files, CloseDomains(f) \/ \E c \in Cores : CloseDetach(f, c)
       PROVE  Seen
  BY <1>11 DEF CloseDomains, CloseDetach
<1>12. CASE UNCHANGED vars
  BY <1>7, <1>12 DEF vars
<1> HIDE DEF Seen
<1> QED
  BY <1>1, <1>2, <1>3, <1>4, <1>5, <1>6, <1>7, <1>8, <1>9, <1>10, <1>11, <1>12
     DEF Next, RunWorker, IrqThread, TdrProgress, Close, Rest

\* The job engine implements the service: its initial states are the
\* service's, and each of its steps is one of the service's or invisible to
\* the callers of SUBMIT.
THEOREM EngineServes == Spec => Implements
<1>1. Init => Service!Init
  <2> SUFFICES ASSUME Init PROVE Service!Init
    OBVIOUS
  <2>1. [j \in Jobs |-> state_of(j)] = [j \in Jobs |-> "new"]
    BY DEF Init, state_of, Popped
  <2>2. [j \in Jobs |-> refcount[j] > 0] = [j \in Jobs |-> FALSE]
    <3>1. \A j \in Jobs : (refcount[j] > 0) = FALSE
      BY DEF Init
    <3> QED
      BY <3>1, Zenon
  <2>3. core_of \in [Jobs -> Cores]
    BY NumCoresAssumption DEF Init, Cores
  <2> QED
    BY <2>1, <2>2, <2>3 DEF Init, Service!Init
<1>2. IndInv /\ LateInv /\ IndInv' /\ [Next]_vars => [Service!Next]_(Service!vars)
  BY ServiceStep
<1>3. Spec => Service!Spec
  BY <1>1, <1>2, Invariance, LateInvariance, PTL DEF Spec, Service!Spec
<1> QED
  BY <1>3 DEF Implements

=============================================================================
