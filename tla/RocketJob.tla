------------------------------ MODULE RocketJob ------------------------------
(***************************************************************************)
(* The job engine of the driver (rocket_job.c, with the parts of           *)
(* rocket_drv.c and rocket_core.c it calls): the synchronous SUBMIT ioctl, *)
(* the drm_sched run worker of each core calling rocket_job_run, the       *)
(* threaded interrupt handler, the timeout handler (TDR) with its reset,   *)
(* the worker that frees finished jobs, and the close of a file.           *)
(*                                                                         *)
(* drm_sched itself is external: its part (one credit per core, the        *)
(* pending list, the fence callback, stop and start around a reset) is     *)
(* modelled from the way rocket_job.c uses it.  The hardware may hang at   *)
(* any job, so nothing ever forces HwDone.                                 *)
(***************************************************************************)
EXTENDS RocketDevice, FiniteSets

CONSTANTS
    Jobs,                   \* the rocket_job structures that get submitted
    Files,                  \* open files (struct rocket_file_priv)
    DomainIds,              \* iommu_domain_id values in use
    CoreMasks,              \* core_mask values user space passes
    MaxForeign,             \* how often IrqShared happens on a core
    NULL

ASSUME SetsAssumption ==
    /\ IsFiniteSet(Jobs)
    /\ MaxForeign \in Nat
    /\ NULL \notin Jobs \cup (Files \X DomainIds)

VARIABLES
  \* one value per job
    place,                  \* where the scheduler keeps the job
    domain,                 \* job->domain, as <<file, iommu_domain_id>>
    core_of,                \* the core whose entity the job was pushed to
    refcount,               \* job->refcount
    next_task_idx,          \* job->next_task_idx
    done_fence,             \* job->done_fence
    armed,                  \* drm_sched's callback is on done_fence
    finished,               \* s_fence->finished (inference_done_fence)
    submit,                 \* where the SUBMIT ioctl of the job is
    timeout_count,          \* job->timeout_count
  \* one value per core
    run_pc, run_job,        \* run worker, inside rocket_job_run
    credit,                 \* sched->credit_count
    in_flight,              \* core->in_flight_job
    attached,               \* core->attached_domain
    reset_pending,          \* core->reset.pending
    hw,                     \* the job the hardware is executing
    irq_woken, irq_pc,      \* threaded handler: wake-up bit, position
    foreign,                \* history: how often the hard handler has taken the
                            \* interrupt of another device for the core's own
    tdr_pc, tdr_job,        \* timeout worker, inside rocket_job_timedout
    free_guilty,            \* sched->free_guilty
  \* one value per file
    close_pc,               \* progress of rocket_postclose; 0 while open
    pool                    \* domain ids in rocket_priv->domains[]

routeVars   == <<domain, core_of>>
fenceVars   == <<done_fence, armed>>
runVars     == <<run_pc, run_job>>
irqVars     == <<irq_woken, irq_pc, foreign>>
tdrVars     == <<tdr_pc, tdr_job, free_guilty>>
jobVars  == <<place, routeVars, refcount, next_task_idx, fenceVars, finished,
              submit, timeout_count>>
coreVars == <<runVars, credit, in_flight, attached, reset_pending, hw, irqVars,
              tdrVars>>
fileVars == <<close_pc, pool>>
vars     == <<pmVars, jobVars, coreVars, fileVars>>

-----------------------------------------------------------------------------
(* State predicates and helpers.                                            *)

task_count == 1                     \* one PC program per core drives its range
JobOrNull == Jobs \cup {NULL}
AllDomains == Files \X DomainIds
DomainOrNull == AllDomains \cup {NULL}

file(j) == domain[j][1]
Open(f) == close_pc[f] = 0

\* job_lock is held across a step only by the interrupt thread, between
\* signalling the fence and clearing in_flight_job.
JobLockFree(c) == irq_pc[c] # "signaled"

InScheduler(j) == place[j] \in {"queued", "pending", "timedout"}
Popped(j) == place[j] \in {"pending", "timedout"}

\* The jobs core c has started and drm_sched has not seen finish.
Active(c) == {j \in Jobs : core_of[j] = c /\ Popped(j) /\ finished[j] = "no"}

\* The domain object is alive: the pool or a live job holds a reference.
DomainLive(d) ==
    \/ d[2] \in pool[d[1]]
    \/ \E j \in Jobs : domain[j] = d /\ refcount[j] > 0

rknpu_wait_core_index(core_mask) ==
    CASE core_mask = 2 -> 1 [] core_mask = 4 -> 2 [] OTHER -> 0

\* Mutant: without the check against num_cores.
pinned_core_unchecked(core_mask) == rknpu_wait_core_index(core_mask)

\* The core whose entity a SUBMIT is pushed to.
pinned_core(core_mask) ==
    LET ci == rknpu_wait_core_index(core_mask)
    IN  IF ci >= NumCores THEN 0 ELSE ci

\* drm_sched_job_done: the credit returns, `finished` is signalled.
drm_sched_job_done(c, j, result) ==
    /\ finished' = [finished EXCEPT ![j] = result]
    /\ credit' = [credit EXCEPT ![c] = @ - 1]

\* rocket_job_hw_submit: nothing while a reset is pending.
rocket_job_hw_submit(c, j) ==
    IF reset_pending[c]
    THEN UNCHANGED <<next_task_idx, hw>>
    ELSE /\ next_task_idx' = [next_task_idx EXCEPT ![j] = @ + 1]
         /\ hw' = [hw EXCEPT ![c] = j]

-----------------------------------------------------------------------------
Init ==
    /\ PmInit
    /\ place = [j \in Jobs |-> "new"]
    /\ domain = [j \in Jobs |-> NULL]
    /\ core_of = [j \in Jobs |-> 0]
    /\ refcount = [j \in Jobs |-> 0]
    /\ next_task_idx = [j \in Jobs |-> 0]
    /\ done_fence = [j \in Jobs |-> "none"]
    /\ armed = [j \in Jobs |-> FALSE]
    /\ finished = [j \in Jobs |-> "no"]
    /\ submit = [j \in Jobs |-> "idle"]
    /\ timeout_count = [j \in Jobs |-> 0]
    /\ run_pc = [c \in Cores |-> "idle"]
    /\ run_job = [c \in Cores |-> NULL]
    /\ credit = [c \in Cores |-> 0]
    /\ in_flight = [c \in Cores |-> NULL]
    /\ attached = [c \in Cores |-> NULL]
    /\ reset_pending = [c \in Cores |-> FALSE]
    /\ hw = [c \in Cores |-> NULL]
    /\ irq_woken = [c \in Cores |-> FALSE]
    /\ irq_pc = [c \in Cores |-> "idle"]
    /\ foreign = [c \in Cores |-> 0]
    /\ tdr_pc = [c \in Cores |-> "idle"]
    /\ tdr_job = [c \in Cores |-> NULL]
    /\ free_guilty = [c \in Cores |-> FALSE]
    /\ close_pc = [f \in Files |-> 0]
    /\ pool = [f \in Files |-> {}]

-----------------------------------------------------------------------------
(* The SUBMIT ioctl (rkopnu_ioctl_submit).                                  *)

\* kref_init and the reference taken in rocket_job_push; the domain is
\* created in the file's pool on first use.
Submit(j, f, id, core_mask) ==
    /\ submit[j] = "idle"
    /\ Open(f)
    /\ submit' = [submit EXCEPT ![j] = "wait"]
    /\ refcount' = [refcount EXCEPT ![j] = 2]
    /\ domain' = [domain EXCEPT ![j] = <<f, id>>]
    /\ core_of' = [core_of EXCEPT ![j] = pinned_core(core_mask)]
    /\ place' = [place EXCEPT ![j] = "queued"]
    /\ pool' = [pool EXCEPT ![f] = @ \cup {id}]
    /\ UNCHANGED <<pmVars, next_task_idx, fenceVars, finished, timeout_count,
                   coreVars, close_pc>>

\* vmap, allocation, job_init or domain_get fails: all is put back.
SubmitFail(j, f) ==
    /\ submit[j] = "idle"
    /\ Open(f)
    /\ submit' = [submit EXCEPT ![j] = "error"]
    /\ UNCHANGED <<pmVars, place, routeVars, refcount, next_task_idx, fenceVars,
                   finished, timeout_count, coreVars, fileVars>>

\* Mutant: the success path forgets its own reference.
WaitDone_leaks(j) ==
    /\ submit[j] = "wait"
    /\ finished[j] # "no"
    /\ submit' = [submit EXCEPT ![j] = "success"]
    /\ UNCHANGED <<pmVars, place, routeVars, refcount, next_task_idx, fenceVars,
                   finished, timeout_count, coreVars, fileVars>>

\* dma_fence_wait_timeout returns > 0 for a signalled fence whatever its
\* error: the ioctl stores task_counter = task_number and returns 0.
WaitDone(j) ==
    /\ submit[j] = "wait"
    /\ finished[j] # "no"
    /\ submit' = [submit EXCEPT ![j] = "success"]
    /\ refcount' = [refcount EXCEPT ![j] = @ - 1]
    /\ UNCHANGED <<pmVars, place, routeVars, next_task_idx, fenceVars, finished,
                   timeout_count, coreVars, fileVars>>

\* Mutant: the expired wait also frees the job the scheduler still holds.
WaitExpire_frees(j) ==
    /\ submit[j] = "wait"
    /\ finished[j] = "no"
    /\ submit' = [submit EXCEPT ![j] = "timedout"]
    /\ refcount' = [refcount EXCEPT ![j] = 0]
    /\ UNCHANGED <<pmVars, place, routeVars, next_task_idx, fenceVars, finished,
                   timeout_count, coreVars, fileVars>>

\* The 5 s bound expires first: -ETIMEDOUT, only the own reference is put.
WaitExpire(j) ==
    /\ submit[j] = "wait"
    /\ finished[j] = "no"
    /\ submit' = [submit EXCEPT ![j] = "timedout"]
    /\ refcount' = [refcount EXCEPT ![j] = @ - 1]
    /\ UNCHANGED <<pmVars, place, routeVars, next_task_idx, fenceVars, finished,
                   timeout_count, coreVars, fileVars>>

-----------------------------------------------------------------------------
(* The run worker of core c (drm_sched_run_job_work, rocket_job_run).       *)

\* drm_sched_wqueue_stop to drm_sched_wqueue_start.
Paused(c) == tdr_pc[c] \in {"stopped", "cleared"}

\* Entities are picked in no particular order; the job takes the only credit
\* and goes to the pending list, which arms the timeout.
RunPop(c, j) ==
    /\ run_pc[c] = "idle"
    /\ ~Paused(c)
    /\ credit[c] = 0
    /\ place[j] = "queued"
    /\ core_of[j] = c
    /\ place' = [place EXCEPT ![j] = "pending"]
    /\ credit' = [credit EXCEPT ![c] = @ + 1]
    /\ run_pc' = [run_pc EXCEPT ![c] = "begin"]
    /\ run_job' = [run_job EXCEPT ![c] = j]
    /\ UNCHANGED <<pmVars, routeVars, refcount, next_task_idx, fenceVars,
                   finished, submit, timeout_count, in_flight, attached,
                   reset_pending, hw, irqVars, tdrVars, fileVars>>

\* rocket_fence_create fails: drm_sched finishes the job with the error.
RunNoFence(c) ==
    LET j == run_job[c] IN
    /\ run_pc[c] = "begin"
    /\ drm_sched_job_done(c, j, "ENOMEM")
    /\ run_pc' = [run_pc EXCEPT ![c] = "idle"]
    /\ run_job' = [run_job EXCEPT ![c] = NULL]
    /\ UNCHANGED <<pmVars, place, routeVars, refcount, next_task_idx, fenceVars,
                   submit, timeout_count, in_flight, attached, reset_pending, hw,
                   irqVars, tdrVars, fileVars>>

\* done_fence is set and the power unit taken.
RunPower(c) ==
    LET j == run_job[c] IN
    /\ run_pc[c] = "begin"
    /\ done_fence' = [done_fence EXCEPT ![j] = "unsignaled"]
    /\ rocket_device_pm_get
    /\ run_pc' = [run_pc EXCEPT ![c] = "powered"]
    /\ UNCHANGED <<place, routeVars, refcount, next_task_idx, armed, finished,
                   submit, timeout_count, run_job, credit, in_flight, attached,
                   reset_pending, hw, irqVars, tdrVars, fileVars>>

\* The unit does not resume: the fence is returned unsignalled and nothing
\* will ever signal it; the job is left to the timeout.
RunPowerFail(c, bad) ==
    LET j == run_job[c] IN
    /\ run_pc[c] = "begin"
    /\ done_fence' = [done_fence EXCEPT ![j] = "unsignaled"]
    /\ pm_get_fails(bad)
    /\ run_pc' = [run_pc EXCEPT ![c] = "ran"]
    /\ UNCHANGED <<place, routeVars, refcount, next_task_idx, armed, finished,
                   submit, timeout_count, run_job, credit, in_flight, attached,
                   reset_pending, hw, irqVars, tdrVars, fileVars>>

\* Mutant: a core that has a domain keeps it.
domain_switch_once(c, j) == IF attached[c] # NULL THEN attached[c] ELSE domain[j]

\* Re-attach only on a domain change; afterwards the job's domain is on.
domain_switch(c, j) == IF attached[c] # domain[j] THEN domain[j] ELSE attached[c]

\* The job_lock section: switch the domain if it differs, publish the job,
\* program the hardware.
RunAttach(c) ==
    LET j == run_job[c] IN
    /\ run_pc[c] = "powered"
    /\ JobLockFree(c)
    /\ attached' = [attached EXCEPT ![c] = domain_switch(c, j)]
    /\ in_flight' = [in_flight EXCEPT ![c] = j]
    /\ rocket_job_hw_submit(c, j)
    /\ run_pc' = [run_pc EXCEPT ![c] = "ran"]
    /\ UNCHANGED <<pmVars, place, routeVars, refcount, fenceVars, finished,
                   submit, timeout_count, run_job, credit, reset_pending, irqVars,
                   tdrVars, fileVars>>

\* iommu_attach_group fails: the old domain is already detached.
RunAttachFail(c) ==
    LET j == run_job[c] IN
    /\ run_pc[c] = "powered"
    /\ JobLockFree(c)
    /\ attached[c] # domain[j]
    /\ attached' = [attached EXCEPT ![c] = NULL]
    /\ run_pc' = [run_pc EXCEPT ![c] = "failed"]
    /\ UNCHANGED <<pmVars, jobVars, run_job, credit, in_flight, reset_pending,
                   hw, irqVars, tdrVars, fileVars>>

\* Mutant: the failed attach leaks the reference on the power unit.
RunUnwind_leaks(c) ==
    LET j == run_job[c] IN
    /\ run_pc[c] = "failed"
    /\ done_fence' = [done_fence EXCEPT ![j] = "error"]
    /\ run_pc' = [run_pc EXCEPT ![c] = "ran"]
    /\ UNCHANGED <<pmVars, place, routeVars, refcount, next_task_idx, armed,
                   finished, submit, timeout_count, run_job, credit, in_flight,
                   attached, reset_pending, hw, irqVars, tdrVars, fileVars>>

\* The unwinding outside job_lock: put the unit, fail the fence.
RunUnwind(c) ==
    LET j == run_job[c] IN
    /\ run_pc[c] = "failed"
    /\ rocket_device_pm_put
    /\ done_fence' = [done_fence EXCEPT ![j] = "error"]
    /\ run_pc' = [run_pc EXCEPT ![c] = "ran"]
    /\ UNCHANGED <<place, routeVars, refcount, next_task_idx, armed, finished,
                   submit, timeout_count, run_job, credit, in_flight, attached,
                   reset_pending, hw, irqVars, tdrVars, fileVars>>

\* Back in drm_sched with a fence: add the callback, or finish the job at
\* once when the fence was signalled before rocket_job_run returned.
RunDone(c) ==
    LET j == run_job[c] IN
    /\ run_pc[c] = "ran"
    /\ IF done_fence[j] = "unsignaled"
       THEN /\ armed' = [armed EXCEPT ![j] = TRUE]
            /\ UNCHANGED <<finished, credit>>
       ELSE /\ drm_sched_job_done(c, j, IF done_fence[j] = "error"
                                        THEN "EATTACH" ELSE "ok")
            /\ UNCHANGED armed
    /\ run_pc' = [run_pc EXCEPT ![c] = "idle"]
    /\ run_job' = [run_job EXCEPT ![c] = NULL]
    /\ UNCHANGED <<pmVars, place, routeVars, refcount, next_task_idx,
                   done_fence, submit, timeout_count, in_flight, attached,
                   reset_pending, hw, irqVars, tdrVars, fileVars>>

\* The free worker (rocket_job_free): a finished job leaves the pending list.
Free(j) ==
    /\ place[j] = "pending"
    /\ finished[j] # "no"
    /\ ~Paused(core_of[j])
    /\ place' = [place EXCEPT ![j] = "retired"]
    /\ refcount' = [refcount EXCEPT ![j] = @ - 1]
    /\ UNCHANGED <<pmVars, routeVars, next_task_idx, fenceVars, finished,
                   submit, timeout_count, coreVars, fileVars>>

-----------------------------------------------------------------------------
(* Interrupts of core c.                                                    *)

\* The hardware ends the job it runs and raises its interrupt; the hard
\* handler masks it and wakes the thread.  A handler that ran for another
\* device before may have left the interrupt masked: then nothing is raised.
HwDone(c) ==
    /\ hw[c] # NULL
    /\ hw' = [hw EXCEPT ![c] = NULL]
    /\ \/ irq_woken' = [irq_woken EXCEPT ![c] = TRUE]
       \/ foreign[c] > 0 /\ UNCHANGED irq_woken
    /\ UNCHANGED <<pmVars, jobVars, runVars, credit, in_flight, attached,
                   reset_pending, irq_pc, foreign, tdrVars, fileVars>>

\* The line is shared (IRQF_SHARED): the hard handler also runs when another
\* device raises it, and wakes the thread if any raw status bit is set.  That
\* may be so while the hardware runs, until the thread has cleared the bits of
\* an end, and once an interrupt has been masked without being waited for.
IrqShared(c) ==
    /\ hw[c] # NULL \/ irq_pc[c] # "idle" \/ foreign[c] > 0
    /\ ~irq_woken[c]
    /\ foreign[c] < MaxForeign
    /\ irq_woken' = [irq_woken EXCEPT ![c] = TRUE]
    /\ foreign' = [foreign EXCEPT ![c] = @ + 1]
    /\ UNCHANGED <<pmVars, jobVars, runVars, credit, in_flight, attached,
                   reset_pending, hw, irq_pc, tdrVars, fileVars>>

\* The thread starts and quiesces the interrupt; it has no lock yet.
IrqEnter(c) ==
    /\ irq_pc[c] = "idle"
    /\ irq_woken[c]
    /\ irq_pc' = [irq_pc EXCEPT ![c] = "entered"]
    /\ irq_woken' = [irq_woken EXCEPT ![c] = FALSE]
    /\ UNCHANGED <<pmVars, jobVars, runVars, credit, in_flight, attached,
                   reset_pending, hw, foreign, tdrVars, fileVars>>

\* Under job_lock with no job in flight: nothing to do.
IrqNothing(c) ==
    /\ irq_pc[c] = "entered"
    /\ in_flight[c] = NULL
    /\ irq_pc' = [irq_pc EXCEPT ![c] = "idle"]
    /\ UNCHANGED <<pmVars, jobVars, runVars, credit, in_flight, attached,
                   reset_pending, hw, irq_woken, foreign, tdrVars, fileVars>>

\* Under job_lock, tasks left: program the next one.
IrqNextTask(c) ==
    LET j == in_flight[c] IN
    /\ irq_pc[c] = "entered"
    /\ j # NULL
    /\ next_task_idx[j] < task_count
    /\ rocket_job_hw_submit(c, j)
    /\ irq_pc' = [irq_pc EXCEPT ![c] = "idle"]
    /\ UNCHANGED <<pmVars, place, routeVars, refcount, fenceVars, finished,
                   submit, timeout_count, runVars, credit, in_flight, attached,
                   reset_pending, irq_woken, foreign, tdrVars, fileVars>>

\* Under job_lock, no task left: signal the fence, which runs drm_sched's
\* callback if it is there.
IrqSignal(c) ==
    LET j == in_flight[c] IN
    /\ irq_pc[c] = "entered"
    /\ j # NULL
    /\ next_task_idx[j] >= task_count
    /\ done_fence' = [done_fence EXCEPT ![j] = "signaled"]
    /\ armed' = [armed EXCEPT ![j] = FALSE]
    /\ IF armed[j] THEN drm_sched_job_done(c, j, "ok") ELSE UNCHANGED <<finished, credit>>
    /\ irq_pc' = [irq_pc EXCEPT ![c] = "signaled"]
    /\ UNCHANGED <<pmVars, place, routeVars, refcount, next_task_idx, submit,
                   timeout_count, runVars, in_flight, attached, reset_pending, hw,
                   irq_woken, foreign, tdrVars, fileVars>>

\* Still under job_lock: put the power unit, clear in_flight_job.
IrqFinish(c) ==
    /\ irq_pc[c] = "signaled"
    /\ rocket_device_pm_put
    /\ in_flight' = [in_flight EXCEPT ![c] = NULL]
    /\ irq_pc' = [irq_pc EXCEPT ![c] = "idle"]
    /\ UNCHANGED <<jobVars, runVars, credit, attached, reset_pending, hw,
                   irq_woken, foreign, tdrVars, fileVars>>

-----------------------------------------------------------------------------
(* The timeout worker of core c (drm_sched_job_timedout, rocket_job_timedout,*)
(* rocket_reset).                                                           *)

\* The head of the pending list is taken off it and the reset announced.
\* Jobs finish in list order, so the head is a finished job not yet freed
\* when there is one, and otherwise the active job.
TdrFire(c, j) ==
    /\ tdr_pc[c] = "idle"
    /\ place[j] = "pending"
    /\ core_of[j] = c
    /\ \/ finished[j] # "no"
       \/ \A k \in Jobs : (core_of[k] = c /\ place[k] = "pending") => finished[k] = "no"
    /\ place' = [place EXCEPT ![j] = "timedout"]
    /\ tdr_job' = [tdr_job EXCEPT ![c] = j]
    /\ reset_pending' = [reset_pending EXCEPT ![c] = TRUE]
    /\ tdr_pc' = [tdr_pc EXCEPT ![c] = "marked"]
    /\ UNCHANGED <<pmVars, routeVars, refcount, next_task_idx, fenceVars,
                   finished, submit, timeout_count, runVars, credit, in_flight,
                   attached, hw, irqVars, free_guilty, fileVars>>

\* drm_sched_stop, once both workers are stopped and the bad job is back on
\* the list.  A job whose callback can still be removed stays pending and
\* gives its credit back; any other has to be finished and is freed, the bad
\* one only after rocket_job_timedout returns.
drm_sched_stop(c) ==
    LET onList == {k \in Jobs : core_of[k] = c /\ Popped(k)}
        kept   == {k \in onList : armed[k]}
        bad    == tdr_job[c]
        freed  == (onList \ kept) \ {bad}
    IN
    /\ run_pc[c] = "idle"
    /\ \A k \in onList \ kept : finished[k] # "no"
    /\ armed' = [k \in Jobs |-> armed[k] /\ k \notin kept]
    /\ credit' = [credit EXCEPT ![c] = @ - Cardinality(kept)]
    /\ place' = [k \in Jobs |-> IF k \in kept THEN "pending"
                                ELSE IF k \in freed THEN "retired" ELSE place[k]]
    /\ refcount' = [k \in Jobs |-> IF k \in freed THEN refcount[k] - 1 ELSE refcount[k]]
    /\ free_guilty' = [free_guilty EXCEPT ![c] = bad \notin kept]

\* Mutant: the reset does not stop the scheduler.
TdrStop_skipped(c) ==
    /\ tdr_pc[c] = "marked"
    /\ reset_pending[c]
    /\ tdr_pc' = [tdr_pc EXCEPT ![c] = "stopped"]
    /\ UNCHANGED <<pmVars, jobVars, runVars, credit, in_flight, attached,
                   reset_pending, hw, irqVars, tdr_job, free_guilty, fileVars>>

\* rocket_reset begins: it returns at once unless a reset is pending, which
\* its caller has just made so, and stops the scheduler.
TdrStop(c) ==
    /\ tdr_pc[c] = "marked"
    /\ reset_pending[c]
    /\ drm_sched_stop(c)
    /\ tdr_pc' = [tdr_pc EXCEPT ![c] = "stopped"]
    /\ UNCHANGED <<pmVars, routeVars, next_task_idx, done_fence, finished,
                   submit, timeout_count, runVars, in_flight, attached,
                   reset_pending, hw, irqVars, tdr_job, fileVars>>

\* Mutant: the reset leaves the stuck job in flight.
TdrClear_keeps(c) ==
    /\ tdr_pc[c] = "stopped"
    /\ JobLockFree(c)
    /\ attached' = [attached EXCEPT ![c] = NULL]
    /\ tdr_pc' = [tdr_pc EXCEPT ![c] = "cleared"]
    /\ UNCHANGED <<pmVars, jobVars, runVars, credit, in_flight, reset_pending,
                   hw, irqVars, tdr_job, free_guilty, fileVars>>

\* The job_lock section of rocket_reset.
TdrClear(c) ==
    /\ tdr_pc[c] = "stopped"
    /\ JobLockFree(c)
    /\ IF in_flight[c] # NULL THEN rocket_device_pm_put_noidle ELSE UNCHANGED pmVars
    /\ attached' = [attached EXCEPT ![c] = NULL]
    /\ in_flight' = [in_flight EXCEPT ![c] = NULL]
    /\ tdr_pc' = [tdr_pc EXCEPT ![c] = "cleared"]
    /\ UNCHANGED <<jobVars, runVars, credit, reset_pending, hw, irqVars,
                   tdr_job, free_guilty, fileVars>>

\* Mutant: the pending flag stays.
reset_never_done(c) == reset_pending[c]

\* drm_sched_start: the jobs left on the pending list, which have no parent
\* fence any more.
cancelled(c) == {k \in Jobs : core_of[k] = c /\ place[k] = "pending"}

\* atomic_set(&core->reset.pending, 0)
reset_done(c) == FALSE

\* Mutant: only the work queues are started again, nothing is cancelled.
TdrRestart_wqueue(c) ==
    /\ tdr_pc[c] = "cleared"
    /\ hw' = [hw EXCEPT ![c] = NULL]
    /\ reset_pending' = [reset_pending EXCEPT ![c] = FALSE]
    /\ tdr_pc' = [tdr_pc EXCEPT ![c] = "restarted"]
    /\ UNCHANGED <<pmVars, jobVars, runVars, credit, in_flight, attached,
                   irqVars, tdr_job, free_guilty, fileVars>>

\* rocket_core_reset, the flag, and drm_sched_start: a job left on the list
\* is finished with -ECANCELED (its credit is taken and given back).
TdrRestart(c) ==
    /\ tdr_pc[c] = "cleared"
    /\ hw' = [hw EXCEPT ![c] = NULL]
    /\ reset_pending' = [reset_pending EXCEPT ![c] = reset_done(c)]
    /\ finished' = [k \in Jobs |-> IF k \in cancelled(c) THEN "ECANCELED" ELSE finished[k]]
    /\ tdr_pc' = [tdr_pc EXCEPT ![c] = "restarted"]
    /\ UNCHANGED <<pmVars, place, routeVars, refcount, next_task_idx, fenceVars,
                   submit, timeout_count, runVars, credit, in_flight, attached,
                   irqVars, tdr_job, free_guilty, fileVars>>

\* Mutant: the handler claims that nothing hung, the job goes back on the list.
TdrReturn_no_hang(c) ==
    LET j == tdr_job[c] IN
    /\ tdr_pc[c] = "restarted"
    /\ timeout_count' = [timeout_count EXCEPT ![j] = @ + 1]
    /\ place' = [place EXCEPT ![j] = IF free_guilty[c] THEN "pending" ELSE @]
    /\ free_guilty' = [free_guilty EXCEPT ![c] = FALSE]
    /\ tdr_pc' = [tdr_pc EXCEPT ![c] = "idle"]
    /\ tdr_job' = [tdr_job EXCEPT ![c] = NULL]
    /\ UNCHANGED <<pmVars, routeVars, refcount, next_task_idx, fenceVars,
                   finished, submit, runVars, credit, in_flight,
                   attached, reset_pending, hw, irqVars, fileVars>>

\* ++job->timeout_count, the return to drm_sched, and the deferred free.
TdrReturn(c) ==
    LET j == tdr_job[c] IN
    /\ tdr_pc[c] = "restarted"
    /\ timeout_count' = [timeout_count EXCEPT ![j] = @ + 1]
    /\ IF free_guilty[c]
       THEN /\ place' = [place EXCEPT ![j] = "retired"]
            /\ refcount' = [refcount EXCEPT ![j] = @ - 1]
       ELSE UNCHANGED <<place, refcount>>
    /\ free_guilty' = [free_guilty EXCEPT ![c] = FALSE]
    /\ tdr_pc' = [tdr_pc EXCEPT ![c] = "idle"]
    /\ tdr_job' = [tdr_job EXCEPT ![c] = NULL]
    /\ UNCHANGED <<pmVars, routeVars, next_task_idx, fenceVars, finished,
                   submit, runVars, credit, in_flight, attached,
                   reset_pending, hw, irqVars, fileVars>>

-----------------------------------------------------------------------------
(* The last close of file f (rocket_postclose).  No ioctl of the file runs  *)
(* any more, but a job whose wait expired may still be in the scheduler.    *)
(* close_pc counts: a step per core to destroy its entity, a step per core  *)
(* to detach, one to drop the pool.                                         *)

\* The run worker is not inside rocket_job_run for file f on core c.
entity_idle(f, c) ==
    run_pc[c] \in {"begin", "powered", "failed"} => file(run_job[c]) # f

\* drm_sched_entity_destroy waits until the run worker has left
\* rocket_job_run for this entity and kills what is still queued.
CloseEntity(f, c) ==
    LET killed == {j \in Jobs : place[j] = "queued" /\ core_of[j] = c /\ file(j) = f} IN
    /\ close_pc[f] = c
    /\ \A j \in Jobs : submit[j] = "wait" => file(j) # f
    /\ entity_idle(f, c)
    /\ place' = [j \in Jobs |-> IF j \in killed THEN "retired" ELSE place[j]]
    /\ finished' = [j \in Jobs |-> IF j \in killed THEN "ESRCH" ELSE finished[j]]
    /\ refcount' = [j \in Jobs |-> IF j \in killed THEN refcount[j] - 1 ELSE refcount[j]]
    /\ close_pc' = [close_pc EXCEPT ![f] = @ + 1]
    /\ UNCHANGED <<pmVars, routeVars, next_task_idx, fenceVars, submit,
                   timeout_count, coreVars, pool>>

\* Mutants: any attached domain is detached; none is.
closes_domain_any(f, d) == d # NULL
closes_domain_none(f, d) == FALSE

\* d is one of the domains of the file.
closes_domain(f, d) == d \in {<<f, i>> : i \in pool[f]}

\* Under job_lock: detach the core if a domain of this file is on it.
CloseDetach(f, c) ==
    /\ close_pc[f] = NumCores + c
    /\ JobLockFree(c)
    /\ attached' = [attached EXCEPT ![c] =
                        IF closes_domain(f, @) THEN NULL ELSE @]
    /\ close_pc' = [close_pc EXCEPT ![f] = @ + 1]
    /\ UNCHANGED <<pmVars, jobVars, runVars, credit, in_flight, reset_pending,
                   hw, irqVars, tdrVars, pool>>

\* rocket_iommu_domains_close: the pool drops its references.
CloseDomains(f) ==
    /\ close_pc[f] = 2 * NumCores
    /\ pool' = [pool EXCEPT ![f] = {}]
    /\ close_pc' = [close_pc EXCEPT ![f] = @ + 1]
    /\ UNCHANGED <<pmVars, jobVars, coreVars>>

-----------------------------------------------------------------------------
RunWorker(c) ==
    \/ \E j \in Jobs : RunPop(c, j)
    \/ RunNoFence(c)
    \/ RunPower(c)
    \/ \E bad \in Cores : RunPowerFail(c, bad)
    \/ RunAttach(c)
    \/ RunAttachFail(c)
    \/ RunUnwind(c)
    \/ RunDone(c)

IrqThread(c) ==
    \/ IrqEnter(c)
    \/ IrqNothing(c)
    \/ IrqNextTask(c)
    \/ IrqSignal(c)
    \/ IrqFinish(c)

TdrProgress(c) ==
    \/ TdrStop(c)
    \/ TdrClear(c)
    \/ TdrRestart(c)
    \/ TdrReturn(c)

Close(f) ==
    \/ \E c \in Cores : CloseEntity(f, c) \/ CloseDetach(f, c)
    \/ CloseDomains(f)

\* Every file is closed and no worker has anything left to do.
Quiescent ==
    /\ \A f \in Files : close_pc[f] = 2 * NumCores + 1
    /\ \A j \in Jobs : ~InScheduler(j) /\ submit[j] # "wait"
    /\ \A c \in Cores : /\ run_pc[c] = "idle" /\ irq_pc[c] = "idle" /\ ~irq_woken[c]
                        /\ tdr_pc[c] = "idle" /\ hw[c] = NULL

Rest == Quiescent /\ UNCHANGED vars

Next ==
    \/ \E j \in Jobs, f \in Files :
          \/ \E id \in DomainIds, m \in CoreMasks : Submit(j, f, id, m)
          \/ SubmitFail(j, f)
    \/ \E j \in Jobs : WaitDone(j) \/ WaitExpire(j) \/ Free(j)
    \/ \E c \in Cores : RunWorker(c) \/ HwDone(c) \/ IrqShared(c)
                         \/ IrqThread(c) \/ TdrProgress(c)
    \/ \E c \in Cores, j \in Jobs : TdrFire(c, j)
    \/ \E f \in Files : Close(f)
    \/ Rest

Spec == Init /\ [][Next]_vars

\* Work items, interrupt threads and timers get to run; a waiter whose fence
\* is signalled wakes; a close that has begun goes on.  Nothing is assumed of
\* the hardware (HwDone), of user space (Submit, the first step of Close) or
\* of the 5 s bound (WaitExpire).
Fairness ==
    /\ \A c \in Cores : /\ WF_vars(RunWorker(c))
                        /\ WF_vars(IrqThread(c))
                        /\ WF_vars(TdrProgress(c))
                        /\ WF_vars(\E j \in Jobs : TdrFire(c, j))
    /\ \A j \in Jobs : WF_vars(WaitDone(j)) /\ WF_vars(Free(j))
    /\ \A f \in Files : WF_vars(close_pc[f] > 0 /\ Close(f))

LiveSpec == Spec /\ Fairness

-----------------------------------------------------------------------------
(* Properties.                                                              *)

Places == {"new", "queued", "pending", "timedout", "retired"}
Results == {"no", "ok", "ENOMEM", "EATTACH", "ECANCELED", "ESRCH"}

\* Every variable stays in its range; in particular the counters never go
\* below zero and a core's credit count never exceeds its limit of 1.
TypeOK ==
    /\ pm_refcount \in Nat
    /\ usage \in [Cores -> Nat]
    /\ place \in [Jobs -> Places]
    /\ domain \in [Jobs -> DomainOrNull]
    /\ core_of \in [Jobs -> Cores]
    /\ refcount \in [Jobs -> 0 .. 2]
    /\ next_task_idx \in [Jobs -> 0 .. task_count]
    /\ done_fence \in [Jobs -> {"none", "unsignaled", "signaled", "error"}]
    /\ armed \in [Jobs -> BOOLEAN]
    /\ finished \in [Jobs -> Results]
    /\ submit \in [Jobs -> {"idle", "wait", "success", "timedout", "error"}]
    /\ timeout_count \in [Jobs -> Nat]
    /\ run_pc \in [Cores -> {"idle", "begin", "powered", "failed", "ran"}]
    /\ run_job \in [Cores -> JobOrNull]
    /\ credit \in [Cores -> 0 .. 1]
    /\ in_flight \in [Cores -> JobOrNull]
    /\ attached \in [Cores -> DomainOrNull]
    /\ reset_pending \in [Cores -> BOOLEAN]
    /\ hw \in [Cores -> JobOrNull]
    /\ irq_woken \in [Cores -> BOOLEAN]
    /\ irq_pc \in [Cores -> {"idle", "entered", "signaled"}]
    /\ foreign \in [Cores -> 0 .. MaxForeign]
    /\ tdr_pc \in [Cores -> {"idle", "marked", "stopped", "cleared", "restarted"}]
    /\ tdr_job \in [Cores -> JobOrNull]
    /\ free_guilty \in [Cores -> BOOLEAN]
    /\ close_pc \in [Files -> 0 .. 2 * NumCores + 1]
    /\ pool \in [Files -> SUBSET DomainIds]

\* rocket_job.c 402-408, 453-460: every get of the power unit is matched by
\* exactly one put.  The users counted are the cores with a job in flight and
\* the run workers between their pm_get and publishing or unwinding the job,
\* across completions, attach failures, failed resumes and resets that race.
InFlightCores == {c \in Cores : in_flight[c] # NULL}
StartingCores == {c \in Cores : run_pc[c] \in {"powered", "failed"}}

PmBalanced == pm_refcount = Cardinality(InFlightCores) + Cardinality(StartingCores)

\* rocket_core.c 173-205: each core keeps its never-gate reference, plus one
\* more exactly while the unit has a user, so no core's usage count reaches 0.
NeverGated == \A c \in Cores : usage[c] = 1 + (IF pm_refcount > 0 THEN 1 ELSE 0)

\* job->refcount counts the waiting ioctl and the scheduler, nothing else:
\* a job is freed exactly when both have let go of it, never twice.
JobRefExact ==
    \A j \in Jobs : refcount[j] = (IF submit[j] = "wait" THEN 1 ELSE 0)
                                  + (IF InScheduler(j) THEN 1 ELSE 0)

\* Whenever job_lock is free, the job the interrupt thread would find in
\* in_flight_job is allocated, unfinished, and its fence can be signalled.
InFlightLive ==
    \A c \in Cores : (in_flight[c] # NULL /\ JobLockFree(c)) =>
        /\ refcount[in_flight[c]] > 0
        /\ in_flight[c] \in Active(c)
        /\ done_fence[in_flight[c]] = "unsignaled"

\* rocket_job.c 658-665: a core is never left attached to a domain that has
\* been destroyed, in particular not after its file was closed.
AttachedDomainLive ==
    \A c \in Cores : attached[c] # NULL => DomainLive(attached[c])

\* One job per core at a time (credit_limit 1), and a job is handed to
\* rocket_job_run once: its two early returns for a finished or an already
\* executed job (324-332) are never taken.
RunOnce ==
    \A c \in Cores :
        /\ Cardinality(Active(c)) <= 1
        /\ run_pc[c] = "begin" => /\ finished[run_job[c]] = "no"
                                  /\ next_task_idx[run_job[c]] < task_count

\* Until a core's first timeout, and until its handler first takes another
\* device's interrupt for its own, the hardware works only for the job in
\* flight, with the unit in use, and through that job's own IOMMU domain
\* unless its file was closed under it.
NoResetYet(c) ==
    tdr_pc[c] = "idle" /\ \A j \in Jobs : core_of[j] = c => timeout_count[j] = 0

RunningJobTranslated ==
    \A c \in Cores : (hw[c] # NULL /\ NoResetYet(c) /\ foreign[c] = 0) =>
        /\ in_flight[c] = hw[c]
        /\ pm_refcount > 0
        /\ Open(file(hw[c])) => attached[c] = domain[hw[c]]

\* A reset cancels its job instead of resubmitting it: a job is passed to the
\* timeout handler at most twice, the second time when the timer fires again
\* before the free worker has run, so the branch that gives up after more
\* than 3 timeouts (503-507) is never taken.
TimeoutsBounded == \A j \in Jobs : timeout_count[j] <= 2

\* The `finished` fence of a job is signalled once and keeps its result,
\* whoever of the run worker, the interrupt, the reset and the close is first.
FinishedOnce ==
    [][\A j \in Jobs : finished[j] # "no" => finished'[j] = finished[j]]_vars

\* The IOMMU domain under a core changes only while no job of another domain
\* is in flight there, except in a reset or the close of its own file.
NoSwitchUnderJob ==
    [][\A c \in Cores :
          (in_flight[c] # NULL /\ JobLockFree(c) /\ in_flight'[c] = in_flight[c]
             /\ Open(file(in_flight[c])))
          => attached'[c] = attached[c]]_vars

\* rocket_job.c 915-921: a submit returns even when the hardware hangs and
\* the 5 s bound is not what ends it: a timeout always finishes the job.
SubmitReturns == \A j \in Jobs : (submit[j] = "wait") ~> (submit[j] # "wait")

\* Every job handed to the scheduler is freed in the end, also after its
\* submitter gave up or its file was closed.
JobsReleased == \A j \in Jobs : InScheduler(j) ~> (refcount[j] = 0)

\* A reset in progress ends and the core accepts work again.
ResetEnds == \A c \in Cores : reset_pending[c] ~> (~reset_pending[c] /\ ~Paused(c))

-----------------------------------------------------------------------------
(* Statements of the code's comments that do not hold: README, section 5.   *)

\* rocket_job.c 935-938: the ioctl reports the real outcome of the job.
SubmitTruthful == \A j \in Jobs : submit[j] = "success" => finished[j] = "ok"

\* rocket_job.c 454: no interrupt from before a reset is left to be handled,
\* so a done_fence is signalled only when the hardware has ended its job.
CompletionGenuine ==
    \A c \in Cores : hw[c] # NULL => done_fence[hw[c]] # "signaled"

\* rocket_job.c 503: the timeout handler writes job->timeout_count into a job
\* that is still allocated.
TimeoutTouchesLive ==
    \A c \in Cores : tdr_pc[c] = "restarted" => refcount[tdr_job[c]] > 0

\* rocket_job.c 843-847: the task BO is still mapped, the ioctl still waiting,
\* when rocket_job_hw_submit reads the tasks.
TasksMappedAtSubmit ==
    [][\A c \in Cores : (hw'[c] # hw[c] /\ hw'[c] # NULL)
                        => submit[hw'[c]] = "wait"]_vars

=============================================================================
