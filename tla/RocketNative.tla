----------------------------- MODULE RocketNative -----------------------------
(***************************************************************************)
(* The native rocket uAPI: rocket_ioctl_create_bo and rocket_ioctl_prep_bo *)
(* of rocket_gem.c, rocket_ioctl_submit of rocket_job.c.  They are         *)
(* compiled but not registered; the comments of both files ask that they   *)
(* stay correct, for a driver that registers them again, and that driver   *)
(* is what is modelled.                                                    *)
(*                                                                         *)
(* A submit call is made on one of several open files and carries an array *)
(* of jobs; a job names the buffers it reads and the buffers it writes.    *)
(* Jobs of one file are kept in order by the file's scheduler entity, jobs *)
(* of different files, which may share a buffer through a dmabuf, only by  *)
(* the write fences in the buffers' reservation objects.  The scheduler,   *)
(* the GEM handle tables and the reservation objects are external.         *)
(***************************************************************************)
EXTENDS Naturals, Sequences, FiniteSets

CONSTANTS
    Bos, Jobs,
    Files,                  \* open files, each with its sched_entity
    Calls,                  \* submit calls
    Preps,                  \* prep_bo calls
    NumCores

ASSUME NativeAssumption ==
    /\ NumCores \in Nat \ {0}
    /\ IsFiniteSet(Bos) /\ IsFiniteSet(Jobs)

\* rocket_ioctl_create_bo builds a buffer in this order.
Stages == <<"object", "domain", "node", "mapping">>

VARIABLES
    built, gemref,          \* of each buffer: stages built, references
    made,                   \* "none", "building", "made", "failed"
    handle,                 \* the handles there are, as <<file, buffer>>
    kept,                   \* history: references failed lookups did not drop
    fences,                 \* jobs whose fence is a write fence of the buffer
    file, call, jobs,       \* of each submit call: file, position, jobs so far
    pc,                     \* of each job: its position in submit_job
    in_bos, out_bos,        \* handles the job names
    held,                   \* its references, as <<array, buffer>>
    tasks,                  \* rjob->tasks: NULL, allocated, freed
    frees,                  \* times the array was freed
    ref,                    \* rjob->refcount
    place, deps,            \* of each job: in the scheduler, what it waits for
    order,                  \* the jobs pushed to the entities, in order
    prep                    \* of each prep call: position, buffer, jobs before it

callVars == <<file, call, jobs>>
boVars  == <<built, gemref, made, handle, kept>>
jobVars == <<in_bos, out_bos, held, tasks, frees, ref>>
schVars == <<place, deps, order>>
vars    == <<boVars, fences, callVars, pc, jobVars, schVars, prep>>

Init ==
    /\ built = [b \in Bos |-> 0]
    /\ gemref = [b \in Bos |-> 0]
    /\ made = [b \in Bos |-> "none"]
    /\ handle = {}
    /\ kept = [b \in Bos |-> 0]
    /\ fences = [b \in Bos |-> {}]
    /\ file \in [Calls -> Files]
    /\ call = [t \in Calls |-> "idle"]
    /\ jobs = [t \in Calls |-> {}]
    /\ pc = [j \in Jobs |-> "idle"]
    /\ in_bos = [j \in Jobs |-> {}]
    /\ out_bos = [j \in Jobs |-> {}]
    /\ held = [j \in Jobs |-> {}]
    /\ tasks = [j \in Jobs |-> "NULL"]
    /\ frees = [j \in Jobs |-> 0]
    /\ ref = [j \in Jobs |-> 0]
    /\ place = [j \in Jobs |-> "none"]
    /\ deps = [j \in Jobs |-> {}]
    /\ order = <<>>
    /\ prep = [p \in Preps |-> [at |-> "idle", bo |-> {}, before |-> {}]]

Get(bs) == [b \in Bos |-> gemref[b] + IF b \in bs THEN 1 ELSE 0]
Drop(bs) == [b \in Bos |-> gemref[b] - IF b \in bs THEN 1 ELSE 0]

Arrays == {"in", "out"}
Refs(h, b) == {a \in Arrays : <<a, b>> \in h}
DropHeld(h) == [b \in Bos |-> gemref[b] - Cardinality(Refs(h, b))]

Unfinished(j) == place[j] \in {"queued", "oops"}

-----------------------------------------------------------------------------
(* rocket_ioctl_create_bo, rocket_gem_bo_free, drm_gem_handle_delete        *)

\* The next of: the object, its domain (always 0), a node of the domain's
\* allocator, the mapping of its pages there.
CreateBuild(b) ==
    /\ made[b] \in {"none", "building"} /\ built[b] < Len(Stages)
    /\ built' = [built EXCEPT ![b] = @ + 1]
    /\ gemref' = [gemref EXCEPT ![b] = 1]
    /\ made' = [made EXCEPT ![b] = "building"]
    /\ UNCHANGED <<handle, kept, fences, callVars, pc, jobVars, schVars, prep>>

\* A stage failed, or the handle did: the ladder of gotos undoes the rest.  A
\* map result of 2 GiB or more does not fit the int it is kept in and fails
\* too, with the pages mapped; RocketGem has what becomes of them.
CreateFail(b) ==
    /\ made[b] = "building"
    /\ gemref' = [gemref EXCEPT ![b] = 0]
    /\ made' = [made EXCEPT ![b] = "failed"]
    /\ UNCHANGED <<built, handle, kept, fences, callVars, pc, jobVars, schVars, prep>>

\* The handle takes its reference and the creator's goes.
CreateHandle(f, b) ==
    /\ made[b] = "building" /\ built[b] = Len(Stages)
    /\ made' = [made EXCEPT ![b] = "made"]
    /\ handle' = handle \cup {<<f, b>>}
    /\ UNCHANGED <<built, gemref, kept, fences, callVars, pc, jobVars, schVars, prep>>

\* File f exports the buffer, g imports the dmabuf: the same object, another
\* handle.
Share(f, g, b) ==
    /\ <<f, b>> \in handle /\ <<g, b>> \notin handle
    /\ handle' = handle \cup {<<g, b>>}
    /\ gemref' = Get({b})
    /\ UNCHANGED <<built, made, kept, fences, callVars, pc, jobVars, schVars, prep>>

HandleDelete(f, b) ==
    /\ <<f, b>> \in handle
    /\ handle' = handle \ {<<f, b>>}
    /\ gemref' = Drop({b})
    /\ UNCHANGED <<built, made, kept, fences, callVars, pc, jobVars, schVars, prep>>

\* With the last reference gone the mapping, the node, the domain reference
\* and the object go, in this order, in the error ladder and in the free.
Undo(b) ==
    /\ gemref[b] = 0 /\ built[b] > 0
    /\ built' = [built EXCEPT ![b] = @ - 1]
    /\ UNCHANGED <<gemref, made, handle, kept, fences, callVars, pc, jobVars, schVars, prep>>

-----------------------------------------------------------------------------
(* rocket_ioctl_submit                                                      *)

\* The call is between two of its jobs.
BetweenJobs(t) == call[t] = "jobs" /\ \A j \in jobs[t] : pc[j] = "done"

\* j is the next element of the call's array.
NextJob(t, j) ==
    /\ BetweenJobs(t) /\ pc[j] = "idle"
    /\ jobs' = [jobs EXCEPT ![t] = @ \cup {j}]

\* The arguments are in order and the array of jobs is copied.
SubmitCall(t) ==
    /\ call[t] = "idle"
    /\ call' = [call EXCEPT ![t] = "jobs"]
    /\ UNCHANGED <<boVars, fences, file, jobs, pc, jobVars, schVars, prep>>

\* A bad size or reserved field, no memory, or a fault in the copy: no job is
\* looked at.
SubmitReject(t) ==
    /\ call[t] = "idle"
    /\ call' = [call EXCEPT ![t] = "error"]
    /\ UNCHANGED <<boVars, fences, file, jobs, pc, jobVars, schVars, prep>>

\* The result of rocket_ioctl_submit_job is not looked at.
SubmitReturn(t) ==
    /\ BetweenJobs(t)
    /\ call' = [call EXCEPT ![t] = "ok"]
    /\ UNCHANGED <<boVars, fences, file, jobs, pc, jobVars, schVars, prep>>

-----------------------------------------------------------------------------
(* rocket_ioctl_submit_job                                                  *)

Step(j, from, to) == pc[j] = from /\ pc' = [pc EXCEPT ![j] = to]

\* task_count is zero, or there is no memory for the job.
JobReject(t, j) ==
    /\ NextJob(t, j)
    /\ Step(j, "idle", "done")
    /\ UNCHANGED <<boVars, fences, file, call, jobVars, schVars, prep>>

JobInit(t, j, in, out) ==
    /\ NextJob(t, j)
    /\ Step(j, "idle", "tasks")
    /\ in_bos' = [in_bos EXCEPT ![j] = in]
    /\ out_bos' = [out_bos EXCEPT ![j] = out]
    /\ ref' = [ref EXCEPT ![j] = 1]
    /\ UNCHANGED <<boVars, fences, file, call, held, tasks, frees, schVars, prep>>

\* rocket_copy_tasks: every task copied and its regcmd_count not zero.
CopyTasks(j) ==
    /\ Step(j, "tasks", "in")
    /\ tasks' = [tasks EXCEPT ![j] = "allocated"]
    /\ UNCHANGED <<boVars, fences, callVars, in_bos, out_bos, held, frees, ref, schVars, prep>>

\* The struct is too small or the array is not allocated.
CopyTasksNone(j) ==
    /\ Step(j, "tasks", "fail")
    /\ UNCHANGED <<boVars, fences, callVars, jobVars, schVars, prep>>

\* A fault, or an empty task: the array is freed and the pointer kept.
CopyTasksFail(j) ==
    /\ Step(j, "tasks", "fail")
    /\ tasks' = [tasks EXCEPT ![j] = "freed"]
    /\ frees' = [frees EXCEPT ![j] = @ + 1]
    /\ UNCHANGED <<boVars, fences, callVars, in_bos, out_bos, held, ref, schVars, prep>>

\* The buffers of the array that the file of the job's call has a handle for.
Live(j, bs) == {b \in bs : \E t \in Calls : j \in jobs[t] /\ <<file[t], b>> \in handle}

\* Mutant: the objects are used without a reference of the job.
Lookup_borrowed(j, bs, from, to) ==
    /\ Live(j, bs) = bs
    /\ Step(j, from, to)
    /\ UNCHANGED <<boVars, fences, callVars, jobVars, schVars, prep>>

\* drm_gem_objects_lookup finds every handle; the count is stored.
Lookup(j, bs, from, to) ==
    /\ Live(j, bs) = bs
    /\ Step(j, from, to)
    /\ gemref' = Get(bs)
    /\ held' = [held EXCEPT ![j] = @ \cup ({from} \X bs)]
    /\ UNCHANGED <<built, made, handle, kept, fences, callVars, in_bos, out_bos, tasks,
                   frees, ref, schVars, prep>>

\* It stops at the first handle it does not find, one whose buffer the file
\* has let go of or one there never was, leaving references to the buffers
\* before it to its caller, which has not stored the count.
LookupFail(j, bs, found, from) ==
    /\ found \subseteq Live(j, bs)
    /\ Step(j, from, "fail")
    /\ gemref' = Get(found)
    /\ kept' = [b \in Bos |-> kept[b] + IF b \in found THEN 1 ELSE 0]
    /\ UNCHANGED <<built, made, handle, fences, callVars, jobVars, schVars, prep>>

\* rocket_iommu_domain_get for domain 0, which may be out of memory.
DomainGet(j) ==
    /\ pc[j] = "domain"
    /\ \E to \in {"push", "fail"} : Step(j, "domain", to)
    /\ UNCHANGED <<boVars, fences, callVars, jobVars, schVars, prep>>

-----------------------------------------------------------------------------
(* rocket_job_push                                                          *)

Locked == {b \in Bos : \E k \in Jobs : pc[k] \in {"locked", "attach"}
                                     /\ b \in in_bos[k] \cup out_bos[k]}

\* All reservations of the job at once, as a ww_mutex ticket gets them.  A
\* buffer named twice is an error.
PushLock(j) ==
    /\ in_bos[j] \cap out_bos[j] = {}
    /\ (in_bos[j] \cup out_bos[j]) \cap Locked = {}
    /\ Step(j, "push", "locked")
    /\ UNCHANGED <<boVars, fences, callVars, jobVars, schVars, prep>>

PushLockFail(j) ==
    /\ Step(j, "push", "fail")
    /\ UNCHANGED <<boVars, fences, callVars, jobVars, schVars, prep>>

\* Mutant: the inputs are not waited for.
acquire_object_fences_out(j) == UNION {fences[b] : b \in out_bos[j]}

\* rocket_acquire_object_fences, for the inputs and the outputs: what the job
\* waits for are the write fences of its buffers.  Readers leave no fence, so
\* asking for them too, as for the outputs, finds none.
acquire_object_fences(j) == UNION {fences[b] : b \in in_bos[j] \cup out_bos[j]}

\* Under sched_lock: armed, its dependencies taken, pushed, with a reference
\* for the scheduler.
PushQueue(j) ==
    /\ Step(j, "locked", "attach")
    /\ deps' = [deps EXCEPT ![j] = {k \in acquire_object_fences(j) : Unfinished(k)}]
    /\ ref' = [ref EXCEPT ![j] = @ + 1]
    /\ place' = [place EXCEPT ![j] = "queued"]
    /\ order' = Append(order, j)
    /\ UNCHANGED <<boVars, fences, callVars, in_bos, out_bos, held, tasks, frees, prep>>

\* No room for a fence or a dependency.
PushFail(j) ==
    /\ Step(j, "locked", "fail")
    /\ UNCHANGED <<boVars, fences, callVars, jobVars, schVars, prep>>

\* Mutant: the outputs get no fence.
PushAttach_none(j) ==
    /\ Step(j, "attach", "put")
    /\ UNCHANGED <<boVars, fences, callVars, jobVars, schVars, prep>>

\* rocket_attach_object_fences on the outputs; the reservations are unlocked.
PushAttach(j) ==
    /\ Step(j, "attach", "put")
    /\ fences' = [b \in Bos |-> IF b \in out_bos[j] THEN fences[b] \cup {j} ELSE fences[b]]
    /\ UNCHANGED <<boVars, callVars, jobVars, schVars, prep>>

\* Mutant: the outputs' references are forgotten.
put_job_inputs(j) ==
    /\ ref' = [ref EXCEPT ![j] = @ - 1]
    /\ IF ref[j] > 1 THEN UNCHANGED <<held, gemref, frees, tasks>>
       ELSE /\ gemref' = DropHeld(held[j] \cap ({"in"} \X Bos))
            /\ held' = [held EXCEPT ![j] = {}]
            /\ frees' = [frees EXCEPT ![j] = IF tasks[j] = "NULL" THEN @ ELSE @ + 1]
            /\ tasks' = [tasks EXCEPT ![j] = "NULL"]

\* rocket_job_put and, with the last reference, rocket_job_cleanup.
put_job(j) ==
    /\ ref' = [ref EXCEPT ![j] = @ - 1]
    /\ IF ref[j] > 1 THEN UNCHANGED <<held, gemref, frees, tasks>>
       ELSE /\ gemref' = DropHeld(held[j])
            /\ held' = [held EXCEPT ![j] = {}]
            /\ frees' = [frees EXCEPT ![j] = IF tasks[j] = "NULL" THEN @ ELSE @ + 1]
            /\ tasks' = [tasks EXCEPT ![j] = "NULL"]

\* The end of submit_job, pushed or failed.
JobPut(j) ==
    /\ pc[j] \in {"put", "fail"}
    /\ pc' = [pc EXCEPT ![j] = "done"]
    /\ put_job(j)
    /\ UNCHANGED <<built, made, handle, kept, fences, callVars, in_bos, out_bos, schVars, prep>>

-----------------------------------------------------------------------------
(* The scheduler and rocket_job_run                                         *)

FreeCore == Cardinality({j \in Jobs : place[j] = "oops"}) < NumCores

Precedes(i, j) == \E m, n \in DOMAIN order : m < n /\ order[m] = i /\ order[n] = j

SameEntity(i, j) == \E t, u \in Calls : i \in jobs[t] /\ j \in jobs[u] /\ file[t] = file[u]

\* An entity's jobs run in the order of their pushes, and as it stays on its
\* core while it has unfinished ones, one at a time; fences of the entity's
\* own jobs are not waited for, those of others are.
Ready(j) ==
    /\ place[j] = "queued"
    /\ \A i \in Jobs : Unfinished(i) =>
          IF SameEntity(i, j) THEN ~Precedes(i, j) ELSE i \notin deps[j]

\* rocket_job_run gets as far as rocket_job_hw_submit, which takes the first
\* task from job->rk_tasks.  Only rkopnu_ioctl_submit sets that; here it is
\* NULL, and the worker ends with the core's job_lock held.
Run(j) ==
    /\ Ready(j) /\ FreeCore
    /\ place' = [place EXCEPT ![j] = "oops"]
    /\ UNCHANGED <<boVars, fences, callVars, pc, jobVars, deps, order, prep>>

\* The fence, the power unit or the attachment of the domain fails: the job
\* ends with an error, at once or by its timeout.
RunFail(j) ==
    /\ Ready(j) /\ FreeCore
    /\ place' = [place EXCEPT ![j] = "finished"]
    /\ UNCHANGED <<boVars, fences, callVars, pc, jobVars, deps, order, prep>>

\* free_job: the scheduler's reference.
SchedFree(j) ==
    /\ place[j] = "finished"
    /\ place' = [place EXCEPT ![j] = "freed"]
    /\ put_job(j)
    /\ UNCHANGED <<built, made, handle, kept, fences, callVars, pc, in_bos, out_bos, deps, order, prep>>

-----------------------------------------------------------------------------
(* rocket_ioctl_prep_bo                                                     *)

Submitted == {j \in Jobs : place[j] # "none" /\ pc[j] \in {"put", "done"}}

PrepLookup(p, b) ==
    /\ prep[p].at = "idle" /\ \E f \in Files : <<f, b>> \in handle
    /\ gemref' = Get({b})
    /\ prep' = [prep EXCEPT ![p] = [at |-> "wait", bo |-> {b}, before |-> Submitted]]
    /\ UNCHANGED <<built, made, handle, kept, fences, callVars, pc, jobVars, schVars>>

\* A reserved field is set, or there is no such handle.
PrepReject(p) ==
    /\ prep[p].at = "idle"
    /\ prep' = [prep EXCEPT ![p].at = "error"]
    /\ UNCHANGED <<boVars, fences, callVars, pc, jobVars, schVars>>

\* Every write fence has signalled; the caches are synchronised.
PrepDone(p) ==
    /\ prep[p].at = "wait"
    /\ \A b \in prep[p].bo : \A j \in fences[b] : ~Unfinished(j)
    /\ prep' = [prep EXCEPT ![p].at = "ready"]
    /\ UNCHANGED <<boVars, fences, callVars, pc, jobVars, schVars>>

\* timeout_ns has passed.
PrepTimeout(p) ==
    /\ prep[p].at = "wait"
    /\ prep' = [prep EXCEPT ![p].at = "late"]
    /\ UNCHANGED <<boVars, fences, callVars, pc, jobVars, schVars>>

PrepReturn(p) ==
    /\ prep[p].at \in {"ready", "late"}
    /\ gemref' = Drop(prep[p].bo)
    /\ prep' = [prep EXCEPT ![p].at = IF @ = "ready" THEN "ok" ELSE "error"]
    /\ UNCHANGED <<built, made, handle, kept, fences, callVars, pc, jobVars, schVars>>

\* rocket_ioctl_fini_bo holds its reference only over one cache operation; what
\* that does to the contents of the buffer is in RocketSync.

-----------------------------------------------------------------------------
Next ==
    \/ \E b \in Bos : CreateBuild(b) \/ CreateFail(b) \/ Undo(b)
    \/ \E f \in Files, b \in Bos : CreateHandle(f, b) \/ HandleDelete(f, b)
    \/ \E f, g \in Files, b \in Bos : Share(f, g, b)
    \/ \E t \in Calls : SubmitCall(t) \/ SubmitReject(t) \/ SubmitReturn(t)
    \/ \E t \in Calls, j \in Jobs : JobReject(t, j)
    \/ \E t \in Calls, j \in Jobs, in, out \in SUBSET Bos : JobInit(t, j, in, out)
    \/ \E j \in Jobs : CopyTasks(j) \/ CopyTasksNone(j) \/ CopyTasksFail(j)
    \/ \E j \in Jobs : Lookup(j, in_bos[j], "in", "out")
                       \/ Lookup(j, out_bos[j], "out", "domain")
    \/ \E j \in Jobs, found \in SUBSET Bos :
          LookupFail(j, in_bos[j], found, "in") \/ LookupFail(j, out_bos[j], found, "out")
    \/ \E j \in Jobs : DomainGet(j) \/ PushLock(j) \/ PushLockFail(j) \/ PushQueue(j)
                       \/ PushFail(j) \/ PushAttach(j) \/ JobPut(j)
    \/ \E j \in Jobs : Run(j) \/ RunFail(j) \/ SchedFree(j)
    \/ \E p \in Preps, b \in Bos : PrepLookup(p, b)
    \/ \E p \in Preps : PrepReject(p) \/ PrepDone(p) \/ PrepTimeout(p) \/ PrepReturn(p)

Spec == Init /\ [][Next]_vars

-----------------------------------------------------------------------------
(* Properties.                                                              *)

\* The types of the variables: no reference count of a job is put once too
\* often (rocket_job.c 258-300), and what was pushed is in the scheduler.
TypeOK ==
    /\ built \in [Bos -> 0 .. Len(Stages)]
    /\ gemref \in [Bos -> Nat]
    /\ made \in [Bos -> {"none", "building", "made", "failed"}]
    /\ handle \in SUBSET (Files \X Bos)
    /\ kept \in [Bos -> Nat]
    /\ fences \in [Bos -> SUBSET Jobs]
    /\ file \in [Calls -> Files]
    /\ call \in [Calls -> {"idle", "jobs", "ok", "error"}]
    /\ jobs \in [Calls -> SUBSET Jobs]
    /\ pc \in [Jobs -> {"idle", "tasks", "in", "out", "domain", "push", "locked",
                        "attach", "put", "fail", "done"}]
    /\ held \in [Jobs -> SUBSET (Arrays \X Bos)]
    /\ tasks \in [Jobs -> {"NULL", "allocated", "freed"}]
    /\ frees \in [Jobs -> Nat]
    /\ ref \in [Jobs -> 0 .. 2]
    /\ place \in [Jobs -> {"none", "queued", "oops", "finished", "freed"}]
    /\ \A i \in DOMAIN order : place[order[i]] # "none"

\* A buffer has exactly the references of its handles (or its creator), of the
\* jobs that name it, of the prep calls that wait on it, and those that a
\* lookup took before the handle it failed at: no other is lost or dropped
\* twice when a submission fails part of the way (rocket_job.c 697-761).
BoRefsExact ==
    \A b \in Bos :
        gemref[b] = Cardinality({x \in Jobs \X Arrays : <<x[2], b>> \in held[x[1]]})
                    + Cardinality({p \in Preps : prep[p].at \in {"wait", "ready", "late"}
                                                 /\ b \in prep[p].bo})
                    + Cardinality({f \in Files : <<f, b>> \in handle})
                    + kept[b] + IF made[b] = "building" THEN 1 ELSE 0

\* The buffers of a job that is queued or on a core are mapped, whatever became
\* of their handles.
JobBosMapped ==
    \A j \in Jobs : Unfinished(j) =>
        \A b \in in_bos[j] \cup out_bos[j] : built[b] = Len(Stages)

\* rocket_accel_uapi.h 114-116, 167: a job does not start before the jobs
\* pushed earlier that write what it reads or writes have ended.
OutputsOrdered ==
    \A i, j \in Jobs :
        /\ Precedes(i, j) /\ place[j] \in {"oops", "finished", "freed"}
        /\ out_bos[i] \cap (in_bos[j] \cup out_bos[j]) # {}
        => ~Unfinished(i)

\* A prep call succeeds only when the jobs submitted before it that write the
\* buffer have ended.
PrepAfterWriters ==
    \A p \in Preps : prep[p].at \in {"ready", "ok"} =>
        \A j \in prep[p].before : out_bos[j] \cap prep[p].bo # {} => ~Unfinished(j)

-----------------------------------------------------------------------------
(* Statements of the code's comments that do not hold: README, section 5.   *)

\* rocket_job.c 726-738: a failed lookup keeps no reference.
LookupsDropAll == \A b \in Bos : kept[b] = 0

\* rocket_accel_uapi.h 114-116: nor before the jobs pushed earlier that only
\* read what it writes.
InputsOrdered ==
    \A i, j \in Jobs :
        /\ Precedes(i, j) /\ place[j] \in {"oops", "finished", "freed"}
        /\ in_bos[i] \cap out_bos[j] # {}
        => ~Unfinished(i)

\* rocket_accel_uapi.h 56: a prep call waits for the jobs that read the buffer
\* as well.
PrepAfterUsers ==
    \A p \in Preps : prep[p].at \in {"ready", "ok"} =>
        \A j \in prep[p].before :
            (in_bos[j] \cup out_bos[j]) \cap prep[p].bo # {} => ~Unfinished(j)

\* rocket_job.c 124-126, 283: the task array of a job is freed at most once.
TasksFreedOnce == \A j \in Jobs : frees[j] <= 1

\* rocket_job.c 740-742: a native job that reaches a core is run by it.
NativeJobsRun == \A j \in Jobs : place[j] # "oops"

=============================================================================
