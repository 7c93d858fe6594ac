----------------------------- MODULE RocketBorrow -----------------------------
(***************************************************************************)
(* The ioctls that work on a buffer they did not create, against           *)
(* MEM_DESTROY and the close of the file: SUBMIT and MEM_SYNC name the     *)
(* buffer by the pointer MEM_CREATE gave out, MEM_MAP by its handle.       *)
(* SUBMIT takes a reference of its own, MEM_MAP gets one from the lookup,  *)
(* MEM_SYNC takes none.  Nothing checks the pointers, so a call may name a *)
(* buffer that is already destroyed.  SUBMIT is followed through each of   *)
(* its exits, with what its job holds.                                     *)
(*                                                                         *)
(* A step is what happens between two moments at which another thread of   *)
(* the file may run.  RocketGem models what the free of a buffer does;     *)
(* here it is one step.  RocketJob models what becomes of a pushed job.    *)
(***************************************************************************)
EXTENDS Naturals, FiniteSets

CONSTANTS
    Bos,
    Ioctls,                 \* calls, each made at most once
    NULL

ASSUME BorrowAssumption == NULL \notin Bos

VARIABLES
    gemref, freed,          \* of each buffer: references, whether it was freed
    handle,                 \* the file has a handle of the buffer
    dmabuf,                 \* a dmabuf exported from it is open
    mapped,                 \* vmap use count of the buffer
    offset,                 \* the buffer has an mmap offset
    at, bo,                 \* of each call: position, buffer it names
    held,                   \* of each SUBMIT: what there is of its job (Parts)
    closed,                 \* the file is closed
    raced                   \* of each buffer: a call named it without having a
                            \* reference when MEM_DESTROY came, or later (history)

bufVars == <<gemref, freed, handle, dmabuf, mapped, offset>>
vars == <<bufVars, at, bo, held, closed, raced>>

\* The ioctl's reference on the job and the scheduler's, the initialised
\* drm_sched part, and the job's reference on its domain.
Parts == {"job", "sched", "init", "domain"}

Init ==
    /\ gemref = [b \in Bos |-> 1]
    /\ freed = [b \in Bos |-> FALSE]
    /\ handle = [b \in Bos |-> TRUE]
    /\ dmabuf = [b \in Bos |-> FALSE]
    /\ mapped = [b \in Bos |-> 0]
    /\ offset = [b \in Bos |-> FALSE]
    /\ at = [i \in Ioctls |-> "idle"]
    /\ bo = [i \in Ioctls |-> NULL]
    /\ held = [i \in Ioctls |-> {}]
    /\ closed = FALSE
    /\ raced = [b \in Bos |-> FALSE]

Go(i, from, to) == at[i] = from /\ at' = [at EXCEPT ![i] = to]

\* A call that has ended, or failed, names no buffer.
End(i, from) ==
    /\ Go(i, from, "done")
    /\ bo' = [bo EXCEPT ![i] = NULL]

get(b) == gemref' = [gemref EXCEPT ![b] = @ + 1] /\ UNCHANGED freed
put(b) == /\ gemref' = [gemref EXCEPT ![b] = @ - 1]
          /\ freed' = [freed EXCEPT ![b] = @ \/ gemref[b] = 1]

-----------------------------------------------------------------------------
(* SUBMIT: the task buffer                                                  *)

\* A pointer is taken from the arguments as it is; it came from MEM_CREATE, but
\* the buffer may be gone.
name(i, b, as) ==
    /\ ~closed
    /\ Go(i, "idle", as)
    /\ bo' = [bo EXCEPT ![i] = b]
    /\ raced' = [raced EXCEPT ![b] = @ \/ ~handle[b]]
    /\ UNCHANGED <<bufVars, held, closed>>

SubmitStart(i, b) == name(i, b, "submit")

\* task_number is 0 or task_obj_addr is NULL.
SubmitNothing(i) ==
    /\ ~closed
    /\ End(i, "idle")
    /\ UNCHANGED <<bufVars, held, closed, raced>>

SubmitGet(i) ==
    /\ Go(i, "submit", "submit_ref")
    /\ get(bo[i])
    /\ UNCHANGED <<handle, dmabuf, mapped, offset, bo, held, closed, raced>>

SubmitVmap(i) ==
    /\ Go(i, "submit_ref", "vmapped")
    /\ mapped' = [mapped EXCEPT ![bo[i]] = @ + 1]
    /\ UNCHANGED <<gemref, freed, handle, dmabuf, offset, bo, held, closed, raced>>

SubmitVmapFail(i) ==
    /\ End(i, "submit_ref")
    /\ put(bo[i])
    /\ UNCHANGED <<handle, dmabuf, mapped, offset, held, closed, raced>>

-----------------------------------------------------------------------------
(* SUBMIT: the job.  Each step adds to it or jumps to one of the labels.    *)

Adds(i, from, to, part) ==
    /\ Go(i, from, to)
    /\ held' = [held EXCEPT ![i] = @ \cup {part}]
    /\ UNCHANGED <<bufVars, bo, closed, raced>>

Jumps(i, from, label) ==
    /\ Go(i, from, label)
    /\ UNCHANGED <<bufVars, bo, held, closed, raced>>

JobAlloc(i)     == Adds(i, "vmapped", "allocated", "job")
JobAllocFail(i) == Jumps(i, "vmapped", "out_vunmap")

JobInit(i)     == Adds(i, "allocated", "initialised", "init")
JobInitFail(i) == Jumps(i, "allocated", "out_put_job")

\* Mutant: the jump the comment warns of, past the clean-up of the job.
DomainGetFail_put_job(i) == Jumps(i, "initialised", "out_put_job")

DomainGet(i)     == Adds(i, "initialised", "ready", "domain")
DomainGetFail(i) == Jumps(i, "initialised", "out_cleanup")

\* rocket_job_push: from here the scheduler owns a reference, or nothing.
JobPush(i)     == Adds(i, "ready", "waiting", "sched")
JobPushFail(i) == Jumps(i, "ready", "out_cleanup")

\* The job has finished; ret is 0, so out_cleanup does nothing.
WaitDone(i) == Jumps(i, "waiting", "out_put_job")

\* The wait expires while the scheduler has the job.
WaitExpire(i) ==
    /\ "sched" \in held[i]
    /\ Jumps(i, "waiting", "out_put_job")

\* rocket_job_put: the last reference takes the domain's with it.
without(h, owner) ==
    IF h \cap {"job", "sched"} = {owner} THEN h \ {owner, "domain"} ELSE h \ {owner}

OutCleanup(i) ==
    /\ Go(i, "out_cleanup", "out_put_job")
    /\ held' = [held EXCEPT ![i] = @ \ {"init"}]
    /\ UNCHANGED <<bufVars, bo, closed, raced>>

OutPutJob(i) ==
    /\ Go(i, "out_put_job", "out_vunmap")
    /\ held' = [held EXCEPT ![i] = without(@, "job")]
    /\ UNCHANGED <<bufVars, bo, closed, raced>>

\* rocket_job_free, called by the scheduler for a finished job.
JobFree(i) ==
    /\ "sched" \in held[i]
    /\ held' = [held EXCEPT ![i] = without(@ \ {"init"}, "sched")]
    /\ UNCHANGED <<bufVars, at, bo, closed, raced>>

OutVunmap(i) ==
    /\ Go(i, "out_vunmap", "out_put")
    /\ mapped' = [mapped EXCEPT ![bo[i]] = @ - 1]
    /\ UNCHANGED <<gemref, freed, handle, dmabuf, offset, bo, held, closed, raced>>

SubmitPut(i) ==
    /\ End(i, "out_put")
    /\ put(bo[i])
    /\ UNCHANGED <<handle, dmabuf, mapped, offset, held, closed, raced>>

-----------------------------------------------------------------------------
(* MEM_MAP and MEM_SYNC                                                     *)

\* Mutant: the reference of the lookup is put before the offset is there.
MapLookup_put(i, b) ==
    /\ ~closed /\ handle[b]
    /\ Go(i, "idle", "map")
    /\ bo' = [bo EXCEPT ![i] = b]
    /\ UNCHANGED <<bufVars, held, closed, raced>>

\* drm_gem_object_lookup: a reference, or -ENOENT (as SubmitNothing).
MapLookup(i, b) ==
    /\ ~closed /\ handle[b]
    /\ Go(i, "idle", "map")
    /\ bo' = [bo EXCEPT ![i] = b]
    /\ get(b)
    /\ UNCHANGED <<handle, dmabuf, mapped, offset, held, closed, raced>>

\* drm_gem_create_mmap_offset, which may fail.
MapOffset(i) ==
    /\ Go(i, "map", "map_done")
    /\ \E ok \in BOOLEAN : offset' = [offset EXCEPT ![bo[i]] = @ \/ ok]
    /\ UNCHANGED <<gemref, freed, handle, dmabuf, mapped, bo, held, closed, raced>>

MapPut(i) ==
    /\ End(i, "map_done")
    /\ put(bo[i])
    /\ UNCHANGED <<handle, dmabuf, mapped, offset, held, closed, raced>>

\* obj_addr, then the sg table of the buffer, without a reference.
SyncStart(i, b) == name(i, b, "sync")

SyncDone(i) ==
    /\ End(i, "sync")
    /\ UNCHANGED <<bufVars, held, closed, raced>>

-----------------------------------------------------------------------------
(* MEM_DESTROY, PRIME and close                                             *)

\* Calls that name the buffer and hold no reference.
Borrowers(b) == {i \in Ioctls : bo[i] = b /\ at[i] \in {"submit", "sync"}}

MemDestroy(b) ==
    /\ ~closed /\ handle[b]
    /\ handle' = [handle EXCEPT ![b] = FALSE]
    /\ put(b)
    /\ raced' = [raced EXCEPT ![b] = @ \/ Borrowers(b) # {}]
    /\ UNCHANGED <<dmabuf, mapped, offset, at, bo, held, closed>>

\* The handle is exported; the dmabuf outlives handle and file.
Export(b) ==
    /\ ~closed /\ handle[b] /\ ~dmabuf[b]
    /\ dmabuf' = [dmabuf EXCEPT ![b] = TRUE]
    /\ get(b)
    /\ UNCHANGED <<handle, mapped, offset, at, bo, held, closed, raced>>

\* Its last user closes it.
DmabufRelease(b) ==
    /\ dmabuf[b]
    /\ dmabuf' = [dmabuf EXCEPT ![b] = FALSE]
    /\ put(b)
    /\ UNCHANGED <<handle, mapped, offset, at, bo, held, closed, raced>>

\* The last close comes after the file's calls have returned.
CloseFile ==
    /\ ~closed /\ \A i \in Ioctls : at[i] \in {"idle", "done"}
    /\ closed' = TRUE
    /\ gemref' = [b \in Bos |-> gemref[b] - IF handle[b] THEN 1 ELSE 0]
    /\ freed' = [b \in Bos |-> freed[b] \/ (handle[b] /\ gemref[b] = 1)]
    /\ handle' = [b \in Bos |-> FALSE]
    /\ UNCHANGED <<dmabuf, mapped, offset, at, bo, held, raced>>

-----------------------------------------------------------------------------
JobSteps(i) ==
    \/ JobAlloc(i) \/ JobAllocFail(i) \/ JobInit(i) \/ JobInitFail(i)
    \/ DomainGet(i) \/ DomainGetFail(i) \/ JobPush(i) \/ JobPushFail(i)
    \/ WaitDone(i) \/ WaitExpire(i) \/ OutCleanup(i) \/ OutPutJob(i) \/ JobFree(i)

Next ==
    \/ \E i \in Ioctls, b \in Bos : SubmitStart(i, b) \/ MapLookup(i, b) \/ SyncStart(i, b)
    \/ \E i \in Ioctls :
          \/ SubmitNothing(i) \/ SubmitGet(i) \/ SubmitVmap(i) \/ SubmitVmapFail(i)
          \/ JobSteps(i) \/ OutVunmap(i) \/ SubmitPut(i)
          \/ MapOffset(i) \/ MapPut(i) \/ SyncDone(i)
    \/ \E b \in Bos : MemDestroy(b) \/ Export(b) \/ DmabufRelease(b)
    \/ CloseFile

Spec == Init /\ [][Next]_vars

-----------------------------------------------------------------------------
(* Properties.                                                              *)

Positions == {"idle", "submit", "submit_ref", "vmapped", "allocated", "initialised",
              "ready", "waiting", "out_cleanup", "out_put_job", "out_vunmap", "out_put",
              "map", "map_done", "sync", "done"}

\* The types of the variables: a buffer's references are put no more often
\* than they were taken (rocket_job.c 841, 966).
TypeOK ==
    /\ gemref \in [Bos -> Nat]
    /\ freed \in [Bos -> BOOLEAN]
    /\ handle \in [Bos -> BOOLEAN]
    /\ dmabuf \in [Bos -> BOOLEAN]
    /\ mapped \in [Bos -> Nat]
    /\ offset \in [Bos -> BOOLEAN]
    /\ at \in [Ioctls -> Positions]
    /\ bo \in [Ioctls -> Bos \cup {NULL}]
    /\ held \in [Ioctls -> SUBSET Parts]
    /\ closed \in BOOLEAN
    /\ raced \in [Bos -> BOOLEAN]

\* rocket_job.c 835-840, rkopnu_ioctl.c 166-213: no call works on a buffer
\* that has been freed, whenever MEM_DESTROY comes, unless user space named the
\* buffer to SUBMIT or MEM_SYNC after it had destroyed it, or destroyed it
\* before the call had a reference (MEM_SYNC never has one).
BorrowedAlive ==
    \A i \in Ioctls : bo[i] # NULL /\ ~raced[bo[i]] => ~freed[bo[i]]

\* rocket_job.c 848-967: whatever failed, a SUBMIT that has returned left its
\* job complete to the scheduler or left nothing of it.  When the file is
\* closed, no kernel mapping of a buffer's pages is left, and a buffer that was
\* not misused is freed unless an exported dmabuf still keeps it.
NothingLeft ==
    /\ \A i \in Ioctls : at[i] = "done" => held[i] \in {{}, {"sched", "init", "domain"}}
    /\ closed => \A b \in Bos : /\ mapped[b] = 0
                                /\ ~raced[b] => (freed[b] <=> ~dmabuf[b])

=============================================================================
