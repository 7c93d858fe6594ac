----------------------------- MODULE RocketLocks -----------------------------
(***************************************************************************)
(* The locking of the driver: the job_lock of each core and the pm_lock of *)
(* the device, as rocket_job_run, rocket_job_handle_irq, rocket_reset and  *)
(* rocket_job_close take them, together with the two places where one      *)
(* thread waits for another inside drm_sched: a reset stops the run worker *)
(* of its core, and the destruction of an entity waits until the run       *)
(* worker is not running a job of it.                                      *)
(*                                                                         *)
(* RocketJob takes a locked section as one step.  Here taking a lock, the  *)
(* work under it and its release are steps of their own, so that waiting   *)
(* and overlapping can be seen.  A job is kept only as its file.           *)
(***************************************************************************)
EXTENDS Naturals

CONSTANTS
    NumCores,
    Files,
    NULL

Cores == 0 .. NumCores - 1

Run(c)   == <<"run", c>>        \* the run worker of core c's scheduler
Irq(c)   == <<"irq", c>>        \* its threaded interrupt handler
Reset(c) == <<"reset", c>>      \* its timeout handler
Close(f) == <<"close", f>>      \* rocket_postclose of file f

Threads == ({"run", "irq", "reset"} \X Cores) \cup ({"close"} \X Files)

ASSUME LocksAssumption ==
    /\ NumCores \in Nat \ {0}
    /\ NULL \notin Threads \cup Files

VARIABLES
    at,                     \* where each thread is
    job_lock,               \* owner of core->job_lock
    pm_lock,                \* owner of rdev->pm_lock
    pm_refcount,            \* rdev->pm_refcount
    job,                    \* the file of the unfinished job of core c's scheduler
    in_flight,              \* core->in_flight_job is set
    attached,               \* the file whose domain is core->attached_domain
    next                    \* the core the loops of a close have reached

vars == <<at, job_lock, pm_lock, pm_refcount, job, in_flight, attached, next>>

Init ==
    /\ at = [t \in Threads |-> "idle"]
    /\ job_lock = [c \in Cores |-> NULL]
    /\ pm_lock = NULL
    /\ pm_refcount = 0
    /\ job = [c \in Cores |-> NULL]
    /\ in_flight = [c \in Cores |-> FALSE]
    /\ attached = [c \in Cores |-> NULL]
    /\ next = [f \in Files |-> 0]

Go(t, from, to) == at[t] = from /\ at' = [at EXCEPT ![t] = to]

LockPm(t)       == pm_lock = NULL /\ pm_lock' = t
UnlockPm        == pm_lock' = NULL
LockJob(t, c)   == job_lock[c] = NULL /\ job_lock' = [job_lock EXCEPT ![c] = t]
UnlockJob(c)    == job_lock' = [job_lock EXCEPT ![c] = NULL]

\* The job is finished and its credit is back.
JobDone(c) == job' = [job EXCEPT ![c] = NULL]

-----------------------------------------------------------------------------
(* rocket_job_run                                                           *)

\* The scheduler is not stopped by a reset, has its credit, and the entity of
\* f on this core has not been destroyed.
RunStart(c, f) ==
    /\ Go(Run(c), "idle", "get")
    /\ at[Reset(c)] \in {"idle", "stop"} /\ job[c] = NULL
    /\ at[Close(f)] = "idle" \/ (at[Close(f)] = "entities" /\ next[f] <= c)
    /\ job' = [job EXCEPT ![c] = f]
    /\ UNCHANGED <<job_lock, pm_lock, pm_refcount, in_flight, attached, next>>

\* rocket_device_pm_get, in three steps: lock, resume, unlock.
RunGet(c) ==
    /\ Go(Run(c), "get", "getting")
    /\ LockPm(Run(c))
    /\ UNCHANGED <<job_lock, pm_refcount, job, in_flight, attached, next>>

RunGot(c) ==
    /\ Go(Run(c), "getting", "attach")
    /\ UnlockPm
    /\ pm_refcount' = pm_refcount + 1
    /\ UNCHANGED <<job_lock, job, in_flight, attached, next>>

\* The unit does not resume: the job stays pending until its timeout.
RunGetFail(c) ==
    /\ pm_refcount = 0
    /\ Go(Run(c), "getting", "idle")
    /\ UnlockPm
    /\ UNCHANGED <<job_lock, pm_refcount, job, in_flight, attached, next>>

RunLock(c) ==
    /\ Go(Run(c), "attach", IF attached[c] # job[c] THEN "switch" ELSE "publish")
    /\ LockJob(Run(c), c)
    /\ UNCHANGED <<pm_lock, pm_refcount, job, in_flight, attached, next>>

\* Mutant: the attach does not take pm_lock.
RunSwitch_unlocked(c) ==
    /\ Go(Run(c), "switch", "switching")
    /\ UNCHANGED <<job_lock, pm_lock, pm_refcount, job, in_flight, attached, next>>

\* A domain change takes pm_lock inside job_lock.
RunSwitch(c) ==
    /\ Go(Run(c), "switch", "switching")
    /\ LockPm(Run(c))
    /\ UNCHANGED <<job_lock, pm_refcount, job, in_flight, attached, next>>

RunSwitched(c) ==
    /\ Go(Run(c), "switching", "publish")
    /\ UnlockPm
    /\ attached' = [attached EXCEPT ![c] = job[c]]
    /\ UNCHANGED <<job_lock, pm_refcount, job, in_flight, next>>

RunPublish(c) ==
    /\ Go(Run(c), "publish", "idle")
    /\ in_flight' = [in_flight EXCEPT ![c] = TRUE]
    /\ UnlockJob(c)
    /\ UNCHANGED <<pm_lock, pm_refcount, job, attached, next>>

\* iommu_attach_group fails: both locks go, then the unit is put.
RunSwitchFail(c) ==
    /\ Go(Run(c), "switching", "put")
    /\ UnlockPm
    /\ attached' = [attached EXCEPT ![c] = NULL]
    /\ UnlockJob(c)
    /\ UNCHANGED <<pm_refcount, job, in_flight, next>>

RunPut(c) ==
    /\ Go(Run(c), "put", "putting")
    /\ LockPm(Run(c))
    /\ UNCHANGED <<job_lock, pm_refcount, job, in_flight, attached, next>>

RunPutDone(c) ==
    /\ Go(Run(c), "putting", "idle")
    /\ UnlockPm
    /\ pm_refcount' = pm_refcount - 1
    /\ JobDone(c)
    /\ UNCHANGED <<job_lock, in_flight, attached, next>>

-----------------------------------------------------------------------------
(* rocket_job_handle_irq                                                    *)

\* An interrupt of a job; a reset may come first, and the thread finds none.
IrqStart(c) ==
    /\ job[c] # NULL
    /\ Go(Irq(c), "idle", "irq")
    /\ UNCHANGED <<job_lock, pm_lock, pm_refcount, job, in_flight, attached, next>>

IrqNothing(c) ==
    /\ Go(Irq(c), "irq", "idle")
    /\ job_lock[c] = NULL /\ ~in_flight[c]
    /\ UNCHANGED <<job_lock, pm_lock, pm_refcount, job, in_flight, attached, next>>

\* The fence is signalled, which finishes the job, with job_lock held.
IrqLock(c) ==
    /\ Go(Irq(c), "irq", "put")
    /\ in_flight[c]
    /\ LockJob(Irq(c), c)
    /\ JobDone(c)
    /\ UNCHANGED <<pm_lock, pm_refcount, in_flight, attached, next>>

IrqPut(c) ==
    /\ Go(Irq(c), "put", "putting")
    /\ LockPm(Irq(c))
    /\ UNCHANGED <<job_lock, pm_refcount, job, in_flight, attached, next>>

IrqDone(c) ==
    /\ Go(Irq(c), "putting", "idle")
    /\ UnlockPm
    /\ pm_refcount' = pm_refcount - 1
    /\ in_flight' = [in_flight EXCEPT ![c] = FALSE]
    /\ UnlockJob(c)
    /\ UNCHANGED <<job, attached, next>>

-----------------------------------------------------------------------------
(* rocket_job_timedout, rocket_reset                                        *)

ResetStart(c) ==
    /\ job[c] # NULL
    /\ Go(Reset(c), "idle", "stop")
    /\ UNCHANGED <<job_lock, pm_lock, pm_refcount, job, in_flight, attached, next>>

\* drm_sched_stop returns once the run worker has left rocket_job_run.
ResetStop(c) ==
    /\ at[Run(c)] = "idle"
    /\ Go(Reset(c), "stop", "reset")
    /\ UNCHANGED <<job_lock, pm_lock, pm_refcount, job, in_flight, attached, next>>

\* Where the section goes on once the put, if one was due, is done.
after_put(c) == IF attached[c] # NULL THEN "switch" ELSE "end"

ResetLock(c) ==
    /\ Go(Reset(c), "reset", IF in_flight[c] THEN "put" ELSE after_put(c))
    /\ LockJob(Reset(c), c)
    /\ UNCHANGED <<pm_lock, pm_refcount, job, in_flight, attached, next>>

ResetPut(c) ==
    /\ Go(Reset(c), "put", "putting")
    /\ LockPm(Reset(c))
    /\ UNCHANGED <<job_lock, pm_refcount, job, in_flight, attached, next>>

\* Mutant: pm_lock is not released between the put and the detach.
ResetPutDone_keeps(c) ==
    /\ Go(Reset(c), "putting", after_put(c))
    /\ UNCHANGED pm_lock
    /\ pm_refcount' = pm_refcount - 1
    /\ UNCHANGED <<job_lock, job, in_flight, attached, next>>

ResetPutDone(c) ==
    /\ Go(Reset(c), "putting", after_put(c))
    /\ UnlockPm
    /\ pm_refcount' = pm_refcount - 1
    /\ UNCHANGED <<job_lock, job, in_flight, attached, next>>

ResetSwitch(c) ==
    /\ Go(Reset(c), "switch", "switching")
    /\ LockPm(Reset(c))
    /\ UNCHANGED <<job_lock, pm_refcount, job, in_flight, attached, next>>

ResetSwitched(c) ==
    /\ Go(Reset(c), "switching", "end")
    /\ UnlockPm
    /\ attached' = [attached EXCEPT ![c] = NULL]
    /\ UNCHANGED <<job_lock, pm_refcount, job, in_flight, next>>

\* The job is dropped; the core is reset and its scheduler started again.
ResetEnd(c) ==
    /\ Go(Reset(c), "end", "idle")
    /\ in_flight' = [in_flight EXCEPT ![c] = FALSE]
    /\ JobDone(c)
    /\ UnlockJob(c)
    /\ UNCHANGED <<pm_lock, pm_refcount, attached, next>>

-----------------------------------------------------------------------------
(* rocket_job_close; afterwards the file may be opened anew.                *)

CloseStart(f) ==
    /\ Go(Close(f), "idle", "entities")
    /\ UNCHANGED <<job_lock, pm_lock, pm_refcount, job, in_flight, attached, next>>

\* The run worker of core c is inside rocket_job_run for file f.
running(c, f) == at[Run(c)] # "idle" /\ job[c] = f

\* drm_sched_entity_destroy for one core.
CloseEntity(f) ==
    /\ at[Close(f)] = "entities" /\ next[f] < NumCores
    /\ ~running(next[f], f)
    /\ next' = [next EXCEPT ![f] = @ + 1]
    /\ UNCHANGED <<at, job_lock, pm_lock, pm_refcount, job, in_flight, attached>>

CloseEntitiesDone(f) ==
    /\ next[f] = NumCores
    /\ Go(Close(f), "entities", "detach")
    /\ next' = [next EXCEPT ![f] = 0]
    /\ UNCHANGED <<job_lock, pm_lock, pm_refcount, job, in_flight, attached>>

CloseSkip(f) ==
    /\ at[Close(f)] = "detach" /\ next[f] < NumCores
    /\ job_lock[next[f]] = NULL /\ attached[next[f]] # f
    /\ next' = [next EXCEPT ![f] = @ + 1]
    /\ UNCHANGED <<at, job_lock, pm_lock, pm_refcount, job, in_flight, attached>>

\* Mutant: the core is detached without job_lock.
CloseLock_unlocked(f) ==
    /\ next[f] < NumCores /\ attached[next[f]] = f
    /\ Go(Close(f), "detach", "switching")
    /\ UNCHANGED <<job_lock, pm_lock, pm_refcount, job, in_flight, attached, next>>

\* The detach is done under job_lock alone.
CloseLock(f) ==
    /\ next[f] < NumCores /\ attached[next[f]] = f
    /\ Go(Close(f), "detach", "switching")
    /\ LockJob(Close(f), next[f])
    /\ UNCHANGED <<pm_lock, pm_refcount, job, in_flight, attached, next>>

CloseDetached(f) ==
    /\ Go(Close(f), "switching", "detach")
    /\ attached' = [attached EXCEPT ![next[f]] = NULL]
    /\ UnlockJob(next[f])
    /\ next' = [next EXCEPT ![f] = @ + 1]
    /\ UNCHANGED <<pm_lock, pm_refcount, job, in_flight>>

CloseEnd(f) ==
    /\ next[f] = NumCores
    /\ Go(Close(f), "detach", "idle")
    /\ next' = [next EXCEPT ![f] = 0]
    /\ UNCHANGED <<job_lock, pm_lock, pm_refcount, job, in_flight, attached>>

-----------------------------------------------------------------------------
RunGoesOn(c) ==
    \/ RunGet(c) \/ RunGot(c) \/ RunGetFail(c) \/ RunLock(c)
    \/ RunSwitch(c) \/ RunSwitched(c) \/ RunSwitchFail(c) \/ RunPublish(c)
    \/ RunPut(c) \/ RunPutDone(c)

IrqGoesOn(c) == IrqNothing(c) \/ IrqLock(c) \/ IrqPut(c) \/ IrqDone(c)

ResetGoesOn(c) ==
    \/ ResetStop(c) \/ ResetLock(c) \/ ResetPut(c) \/ ResetPutDone(c)
    \/ ResetSwitch(c) \/ ResetSwitched(c) \/ ResetEnd(c)

CloseGoesOn(f) ==
    \/ CloseEntity(f) \/ CloseEntitiesDone(f) \/ CloseSkip(f) \/ CloseLock(f)
    \/ CloseDetached(f) \/ CloseEnd(f)

Next ==
    \/ \E c \in Cores :
          \/ \E f \in Files : RunStart(c, f)
          \/ IrqStart(c) \/ ResetStart(c)
          \/ RunGoesOn(c) \/ IrqGoesOn(c) \/ ResetGoesOn(c)
    \/ \E f \in Files : CloseStart(f) \/ CloseGoesOn(f)

Spec == Init /\ [][Next]_vars

-----------------------------------------------------------------------------
(* Properties.                                                              *)

Labels == {"idle", "get", "getting", "attach", "switch", "switching", "publish",
           "put", "putting", "irq", "stop", "reset", "end", "entities", "detach"}

\* Every variable stays in its range; the unit's count does not underflow.
TypeOK ==
    /\ at \in [Threads -> Labels]
    /\ job_lock \in [Cores -> Threads \cup {NULL}]
    /\ pm_lock \in Threads \cup {NULL}
    /\ pm_refcount \in Nat
    /\ in_flight \in [Cores -> BOOLEAN]
    /\ job \in [Cores -> Files \cup {NULL}]
    /\ attached \in [Cores -> Files \cup {NULL}]
    /\ next \in [Files -> 0 .. NumCores]

\* The threads that must go on before t can: the owner of the mutex t is about
\* to take, or the run worker that t waits for inside drm_sched.
Owner(lock) == {lock} \ {NULL}
Busy(c) == {t \in {Run(c)} : at[t] # "idle"}

WaitsFor(t) ==
    CASE at[t] \in {"get", "put", "switch"} -> Owner(pm_lock)
      [] at[t] \in {"attach", "irq", "reset"} -> Owner(job_lock[t[2]])
      [] at[t] = "detach" /\ next[t[2]] \in Cores -> Owner(job_lock[next[t[2]]])
      [] at[t] = "stop" -> Busy(t[2])
      [] at[t] = "entities" /\ next[t[2]] \in Cores ->
             {u \in Busy(next[t[2]]) : running(next[t[2]], t[2])}
      [] OTHER -> {}

\* rocket_job.c 379-383: no threads wait for one another in a circle, a thread
\* for itself included: job_lock comes before pm_lock, and who waits inside
\* drm_sched holds neither.
NoCircularWait ==
    \A S \in SUBSET {t \in Threads : WaitsFor(t) # {}} :
        (\A t \in S : WaitsFor(t) \cap S # {}) => S = {}

\* The unit is being resumed or released by t.
InTransition(t) ==
    \/ at[t] = "getting" /\ pm_refcount = 0
    \/ at[t] = "putting" /\ pm_refcount = 1

\* rocket_job.c 360-373, 462-467: the run worker and the reset change the
\* domain of a core only while nobody resumes or releases the power unit.
SwitchSerialized ==
    \A c \in Cores, u \in Threads :
        at[Run(c)] = "switching" \/ at[Reset(c)] = "switching" => ~InTransition(u)

\* The threads that are changing the domain of core c or publishing a job.
Switching(c) ==
    {t \in {Run(c), Reset(c)} : at[t] \in {"switching", "publish"}}
      \cup {t \in {Close(f) : f \in Files} : at[t] = "switching" /\ next[t[2]] = c}

\* rocket_job.c 356-358: attached_domain of a core is changed by one thread at
\* a time, and not while a job is being published on the core.
OneSwitchPerCore == \A c \in Cores : \A t, u \in Switching(c) : t = u

-----------------------------------------------------------------------------
(* Statements of the code's comments that do not hold: README, section 5.   *)

\* rocket_job.c 360-373: no domain change at all, the one of a closing file
\* included, races a transition of the power unit.
EverySwitchSerialized ==
    \A t, u \in Threads : at[t] = "switching" => ~InTransition(u)

=============================================================================
