# Verification of rkopnu

rkopnu is an out-of-tree DRM accel driver for the Rockchip RK3588 NPU.  It is a
fork of the mainline `rocket` driver that answers the vendor's `rknpu` ioctl ABI,
so that the closed user-space library can run on it.  This directory models the
parts of the driver where state, threads and failures meet, checks them with TLC
on small instances, and proves the main invariants with TLAPS for instances of
any size.

## 1. The system

### Components

| Component | Source | State it keeps | Operations |
|---|---|---|---|
| Job engine | `rocket_job.c`, `rocket_job.h` | per job: kref, `next_task_idx`, `done_fence`, `timeout_count`, domain; per core: `in_flight_job`, `attached_domain`, `reset.pending`, the scheduler | SUBMIT ioctl, `rocket_job_run`, hard and threaded interrupt handler, `rocket_job_timedout` / `rocket_reset`, `rocket_job_free`, `rocket_job_close` |
| Power unit | `rocket_device.c` | `pm_refcount`, the runtime-PM usage count of each core | `rocket_device_pm_get`, `_put`, `_put_noidle`, resume and release of the unit |
| IOMMU domain pool | `rocket_drv.c` | `domains[]` of a file, kref and `drm_mm` of each domain | `rocket_iommu_domain_get`, `_put`, `rocket_iommu_domains_close` |
| Buffers | `rkopnu_ioctl.c`, `rocket_gem.c` | GEM reference, `drm_mm` node, IOMMU mapping, domain, cache lines of each buffer | MEM_CREATE, MEM_MAP, MEM_SYNC, MEM_DESTROY, `rocket_gem_bo_free` |
| Task ranges | `rocket_job.c` (`rknpu_wait_core_index`, `rocket_job_hw_submit`) | `rk_subcore[]`, `rk_task_start`, `rk_task_number` of a job | core and slot selection, range check |
| PC block | `rocket_job.c` (`rocket_job_hw_submit`, the handlers), `rocket_registers.h` | the registers of a core, its interrupt bits | programming, hard and threaded handler |
| Locks | `rocket_job.c`, `rocket_device.c` | `job_lock` of each core, `pm_lock` | taking, nesting and releasing them |
| Core bring-up | `rocket_core.c` | clocks, never-gate reference, IOMMU group, scheduler | `rocket_core_init`, `_fini` |
| Probe and remove | `rocket_drv.c`, `rocket_device.c` | `rdev`, `num_cores`, `cores[]` | `rocket_probe`, `rocket_remove`, runtime-PM callbacks, open, close, module load and unload |
| Native uAPI | `rocket_gem.c`, `rocket_job.c`, `rocket_accel_uapi.h` | buffers and write fences, jobs with arrays of handles | `rocket_ioctl_create_bo`, `_prep_bo`, `_fini_bo`, `_submit`; compiled, not in `rkopnu_ioctls[]` |

### How they interact

- The SUBMIT ioctl is synchronous for its caller: it creates a job, takes the
  domain of `iommu_domain_id`, pushes the job to the scheduler entity of one core
  and waits up to 5 s for the job's `finished` fence.  Job and waiter each hold a
  reference on the job.
- Each core has a drm_sched instance with one credit.  Its *run worker* calls
  `rocket_job_run`, which takes the power unit, switches the IOMMU domain under
  `job_lock`, publishes the job in `in_flight_job` and programs the hardware.
- The *interrupt thread* takes `job_lock`, signals `done_fence` (drm_sched's
  callback runs inside), puts the power unit and clears `in_flight_job`.
- After 500 ms the *timeout worker* calls `rocket_job_timedout`: it stops the
  scheduler, puts the unit if a job is in flight, detaches the domain, resets the
  core and restarts the scheduler.  A *free worker* drops the scheduler's
  reference of finished jobs.
- All cores share one interconnect.  `pm_refcount` counts its users, and only its
  first get and its last put touch the usage counts of the core devices.
- A file owns a pool of domains, filled on first use by MEM_CREATE and SUBMIT.  A
  buffer and a job hold a reference on the domain they use.  `rocket_postclose`
  destroys the entities, detaches the file's domains from every core and drops
  the pool; jobs whose wait expired and buffers that were exported may outlive it.

### What is hard

Four workers per core and any number of ioctls and closes touch the same job,
power count and domain.  Completion races timeout; a reset races an interrupt
thread that is already running; the 5 s bound of the ioctl races all of them; a
close races a job being started; an attach or a resume fails half-way; two first
uses of a domain slot allocate outside the lock; a dmabuf outlives its file; the
range check adds numbers that wrap, and its result is signed; the size of a mapping is
kept in an `int`; user space's pointers to buffers are used unchecked; `num_cores`
changes while files and jobs use it; an interrupt line is shared; the caches fetch and
evict when they like.  The `hazards` of `PROJECT.json` list each of them at its line,
with the properties aimed at it.

### What makes each component correct

- *Job engine*: a job is freed exactly once, by its last owner; it is finished
  once; it runs once, with no other job on the core; what the interrupt thread
  finds in flight is alive; the hardware works through the job's own domain; a core
  never keeps a destroyed domain; every submit returns and every reset ends.
- *Power unit*: gets and puts match on every path, and no core loses its
  never-gate reference.
- *Domain pool*: the reference count is exact; one domain per slot.
- *Buffers*: mappings are disjoint, present while the buffer can be reached, and
  gone when the domain is.
- *Buffers in use*: no call works on a freed buffer; both sides see the last write.
- *Task ranges*: a core reads tasks of its own job only, and those of its slot.
- *PC block*: the hardware is started with exactly the job in flight, and its end is
  reported, not before it happens.
- *Locks*: nobody waits in a circle; a domain change meets neither another one on the
  core nor a transition of the power unit.
- *Probe and remove*: the counted slots of `cores[]` are the bound cores, the DRM
  device lives as long as they do, open files reach all of them, and no job takes a
  core's never-gate reference away.
- *Native uAPI*: references of buffers are exact, jobs follow their buffers' writers.

## 2. Modules

| Module | Models | Extended by |
|---|---|---|
| `RocketDevice` | the power unit, as operators over `pm_refcount` and `usage` | `RocketJob` |
| `RocketJob` | the job engine, composed with the power unit | `MCRocketJob`, `RocketServes` |
| `RocketJobProofs` | inductive invariants, theorems, and the proof of the refinement | |
| `NpuService` | what the engine promises to the callers of SUBMIT: the abstract specification | instantiated by `RocketServes` |
| `RocketServes` | the refinement mapping from `RocketJob` to `NpuService` | `MCRocketServes`, `RocketJobProofs` |
| `RocketGem` | the domain pool of a file and its buffers | `MCRocketGem`, `RocketGemProofs` |
| `RocketBorrow` | the calls that work on a buffer they did not create | `MCRocketBorrow`, `RocketBorrowProofs` |
| `RocketSync` | the contents of a buffer between caches and memory | `MCRocketSync`, `RocketSyncProofs` |
| `TaskRange` | which tasks a core is programmed with | `MCTaskRange`, `HwSubmitProofs` |
| `RocketPc` | the register writes of a job and its interrupt | `MCRocketPc`, `HwSubmitProofs` |
| `HwSubmitProofs` | theorems about the two halves of `rocket_job_hw_submit` | |
| `RocketLocks` | `job_lock`, `pm_lock` and the waits inside drm_sched, step by step | `MCRocketLocks`, `RocketLocksProofs` |
| `RocketProbe` | the life of the driver: load, probe, use, unbind, unload | `MCRocketProbe`, `RocketProbeProofs` |
| `RocketNative` | the native uAPI | `MCRocketNative`, `RocketNativeProofs` |
| `Rocket...Proofs` | for each of the others, the inductive invariant and the theorems | |

`MC...` modules hold only the symmetry sets and the constant values a `.cfg` cannot
express.  Definitions named with a suffix (`WaitExpire_frees`, `TdrStop_skipped`,
`undo_swapped`, `domain_switch_once`, ...) are mutants: plausible bugs, used to show
that a property would notice them.  They are part of no specification.

### RocketJob and the code

Names follow the source: `refcount`, `next_task_idx`, `done_fence`,
`timeout_count`, `in_flight`, `attached`, `reset_pending` are the fields of
`struct rocket_job` and `struct rocket_core`.  Added are the positions of the
workers (`run_pc`, `irq_pc`, `tdr_pc`, `close_pc`), what drm_sched keeps (`place`,
`armed`, `finished`, `credit`, `free_guilty`), the hardware (`hw`) and one history
variable: `foreign` counts how often a core's hard handler took another device's
interrupt for its own.

| Actions | Code |
|---|---|
| `Submit`, `SubmitFail`, `WaitDone`, `WaitExpire` | `rkopnu_ioctl_submit`, `rocket_job_push` |
| `RunPop`, `RunNoFence`, `RunPower`, `RunPowerFail`, `RunAttach`, `RunAttachFail`, `RunUnwind`, `RunDone` | drm_sched's run worker around `rocket_job_run`, `rocket_job_hw_submit` |
| `Free` | `rocket_job_free` |
| `HwDone`, `IrqShared`, `IrqEnter`, `IrqNothing`, `IrqNextTask`, `IrqSignal`, `IrqFinish` | `rocket_job_irq_handler`, `rocket_job_handle_irq` |
| `TdrFire`, `TdrStop`, `TdrClear`, `TdrRestart`, `TdrReturn` | `rocket_job_timedout`, `rocket_reset` |
| `CloseEntity`, `CloseDetach`, `CloseDomains` | `rocket_postclose`, `rocket_job_close`, `rocket_iommu_domains_close` |

A handler is cut into steps where another thread can come in: between two lock
sections, and at a callback that runs inside one.  A `job_lock` section is one
step, except that of the interrupt thread, which signals a fence in its middle:
from there other threads see the job finished while it is still in flight, so it
is two steps and `JobLockFree` keeps other holders of the lock out in between.
Sections under `pm_lock` are single steps (`RocketLocks` opens them).  Three decisions
deserve a note.

- *drm_sched is external.*  It is modelled from how the driver uses it: a credit
  limit of 1, the pending list, the callback on the returned fence (or immediate
  completion when the fence is already signalled), `drm_sched_stop` waiting for the
  workers and removing the callbacks that can still be removed, `drm_sched_start`
  finishing a job without a parent fence with `-ECANCELED`, and
  `drm_sched_entity_destroy` waiting for the run worker and killing queued jobs.
- *The hardware may hang at any job.*  `HwDone` is never forced.  This also covers
  a job whose start is lost because a late interrupt thread clears
  `OPERATION_ENABLE` after the next job was programmed.  An interrupt that reports a
  DMA error takes the same path as any other: the hard handler warns and wakes the
  thread, and the job completes as a success.
- *The interrupt line is shared* (`IRQF_SHARED`, `rocket_job.c:576`), and the hard
  handler takes any raw status bit for its own (`rocket_job.c:545`).  `IrqShared` is that
  handler run by another device: while the hardware runs, when raw bits of units on the
  way may be set; until the thread has cleared the bits of an end; and, after an
  interrupt was masked that nobody waits for, at any later time.  The thread it wakes
  completes whatever is in flight.  `HwDone` raises no interrupt when such a handler has
  left it masked.  `MaxForeign` bounds the occurrences on a core; the proofs hold for
  any bound.

Left out of this module: the GEM reference on the task buffer (`RocketBorrow`; the job
keeps a raw pointer into the mapping, and `TasksMappedAtSubmit` states when it is
valid); register values (`RocketPc`); `rocket_reset_work`, which nothing queues.
`num_cores` is constant (`RocketProbe` changes it).

### NpuService and RocketServes

`NpuService` knows no threads.  A job is accepted or rejected, started when its core
has no active job, ended once with one result, and released; its caller gets an answer
after the end or gives up before it; its memory goes in the very step in which the
later of caller and service lets go.  `RocketServes` maps the engine to it: a job is
*active* from `RunPop` until its `finished` fence is signalled, *ended* until the free
worker (or the reset) has taken it, and its memory is there while `refcount > 0`.
`Implements` is the service's specification under this mapping; the steps inside
`rocket_job_run`, the interrupt thread and the reset stutter.  It is about safety: the
service promises no progress, which the liveness properties of `JobLive` cover.

### RocketGem and the code

One open file.  A MEM_CREATE is a thread named by the buffer it makes, a SUBMIT by
its job; `pc` is its position.  A step is one section under `domains_lock` or
`mm_lock`, or one call into the IOMMU.  `GetLookup`, `GetCreate`, `GetCreateFail`
and `GetInstall` are `rocket_iommu_domain_get` with its allocation outside the
lock; `Pages`, `Insert`, `Map`, `HandleCreate`, `CreateReturn` are MEM_CREATE and
`CreateFail` enters its error ladder.  `Map` has two outcomes: the result of
`iommu_map_sgtable` is a `ssize_t` kept in an `int` (`rkopnu_ioctl.c:75, 124-129`), so that
of a buffer of 2 GiB or more comes out negative or too small, is taken for a failure, and
the ladder is entered below the unmap, with the pages mapped.  The history variable
`left` has the buffers given up that way; the properties say what holds for all others
and that nothing else is left behind.  (Mapping over an entry that was left behind may
fail or succeed, which is up to the IOMMU driver.)  `Unmap`, `RemoveNode`, `PutDomain` are both
the ladder and `rocket_gem_bo_free`, which undo the same things in the same order;
`HandleDelete` is MEM_DESTROY; `Export` and `DmabufRelease` are PRIME;
`CloseBegin` ... `CloseDone` are the close.  The memory of a destroyed domain may be
reused by a later one.  A buffer takes one page slot of the aperture, which is all
that "no two mappings overlap" needs.

### RocketBorrow and RocketSync

`RocketBorrow` follows SUBMIT through each of its exits, against `MemDestroy`, `Export`,
`DmabufRelease` and `CloseFile`:

| Actions | Code |
|---|---|
| `SubmitStart`, `SubmitNothing`, `SubmitGet`, `SubmitVmap`, `SubmitVmapFail` | the pointer, the reference, the kernel mapping (`rocket_job.c:824-852`) |
| `JobAlloc`, `JobInit`, `DomainGet`, `JobPush`, and each with `Fail` | the job, and the label each failure jumps to (`854-920`) |
| `WaitDone`, `WaitExpire` | the wait |
| `OutCleanup`, `OutPutJob`, `OutVunmap`, `SubmitPut` | the labels at the end, which fall through (`945-967`) |
| `JobFree` | `rocket_job_free`, called by the scheduler |
| `MapLookup`, `MapOffset`, `MapPut`; `SyncStart`, `SyncDone` | MEM_MAP; MEM_SYNC |

`held` is what there is of a call's job: the ioctl's and the scheduler's reference, the
initialised scheduler part, the domain reference.  SUBMIT and MEM_SYNC take the buffer
from a pointer in their arguments, unchecked; the model lets them name any buffer
MEM_CREATE ever gave out, also one that is destroyed.  (A number that never was such a
pointer has no defined effect and is not modelled.)  `raced` has the buffers that user
space destroyed while a call named them without holding a reference, or named after
they were destroyed.

`RocketSync` splits a buffer into regions of whole cache lines.  The caches fetch and
evict on their own (`Fetch`, `Evict`); user space writes what it owns, and hands
regions over by `MemSyncToDevice`, `MemSyncFromDevice`, `MemSyncBoth` or the native
`FiniBo`, `PrepBo`, `PrepBoLate`.  MEM_SYNC ignores the offset and the size it is given
and works on the whole scatter list, so the operators `cleaned` and `invalidated` are
applied to all regions while the ownership changes only for those user space named.
`mixed` records that a part was taken back while user space owned another part.

### TaskRange and the code

The numbers of `struct rknpu_submit` and of its five subcore slots, the core and
slot a mask selects, and the check that replaces a slot that is empty or leaves the
job's range.  The sums are taken modulo `Word`, as the code's 32-bit sums are, and the
range it ends up with is converted to two signed ints (`to_int`), which index
`rk_tasks[]`.  A mask is any u32.

### RocketPc and the code

Register values are sets of bit numbers and the fields of the eleven registers the
driver uses are sets of positions, as in `rocket_registers.h`; `register_writes` is the
list of writes of `rocket_job_hw_submit` in their order, which `Publish` starts.
`Write` performs one of them, `INTERRUPT_CLEAR` clears raw bits and `OP_EN` makes the
hardware read what it is to do (`Decode`).  `HwUnit` sets raw bits on the way, `HwDone`
the final ones.  `IrqHandler` masks and wakes; `ThreadStop`, `ThreadClear` and
`ThreadSignal` are `rocket_job_handle_irq` before and under `job_lock`, with
`ThreadNextTask` for a job that was published while a reset was pending and therefore
has `next_task_idx` 0.  `TimedOut`, `ResetClear` and `CoreReset` are the reset of the
core under all this: pending, the job taken out of flight under `job_lock` (nothing is
published from there), the hardware back in its initial state.  Nothing waits for the
handler thread; `late` records that a reset has left one that was woken or running.  The
line is requested with `IRQF_SHARED`, so the handler may also run for another device;
`foreign` records that it then took the core's raw bits for a new interrupt.  `Asked` is
what a job is, told without registers, and `Representable` says that the fields can hold
it: addresses aligned to 16 bytes and below 4 GB, at most 2^17 register commands with
the four extra, fewer than 4096 tasks.  The driver checks none of these, so
`StartedExact` claims nothing for other jobs.

### RocketLocks and the code

Four kinds of thread: the run worker, the interrupt thread and the timeout handler of
each core, and the close of each file.  Taking a lock, the work under it and the
release are steps of their own (`RunGet`/`RunGot`, `RunLock`/`RunSwitch`/`RunSwitched`/
`RunPublish`, `IrqLock`/`IrqPut`/`IrqDone`, `ResetLock`/`ResetPut`/`ResetSwitch`/...,
`CloseLock`/`CloseDetached`).  Two waits are not for a lock: `ResetStop` waits for the
run worker in `drm_sched_stop`, `CloseEntity` in `drm_sched_entity_destroy`.

### RocketProbe and the code

`pc` and `dev` are the probe or removal the driver core is running, one at a time;
`Open`, `CloseFile`, `JobStart`, `JobEnd` and `RuntimeSuspend` run beside it.
`DeviceInit` is `rocket_device_init`, `CoreClaim` the use of the next slot of `cores[]`,
`CoreResources` ... `CoreReady` are `rocket_core_init` with a failure at each stage,
`CoreUnwind`, `CoreUnwindJob` and `ProbeUndo` its error paths, `RemoveFini` ...
`RemoveDrop` are `rocket_remove`, and `UnloadStart`, `UnloadEnd` the end of the module,
which open files keep loaded.  A job is only its reference on the power unit.
`CoreClaimBeyond` writes behind the end of `cores[]` and counts what it wrote, and
`DeviceKnown` uses an error pointer; they lead to the states `overrun` and `oops`, and
what follows from there is not modelled.  Two history variables say how the driver was used:
`quiet`, that no core came or was unbound while there were files or jobs, and `ordered`,
that every core that went was the last one bound, which is what unloading does.

### RocketNative and the code

Several open files, submit calls with several jobs each, and prep calls.  A buffer may
have a handle in each file, as a dmabuf gives them (`Share`).  `CreateBuild` ... `Undo`
are `rocket_ioctl_create_bo` and the free; `SubmitCall` ... `SubmitReturn` and
`JobReject` ... `JobPut` are `rocket_ioctl_submit` and `rocket_ioctl_submit_job` with
the copy of the tasks, the two lookups and `rocket_job_push`, whose reservation locks
keep `PushLock` ... `PushAttach` together; `Run`, `RunFail` and `SchedFree` are the
scheduler, which runs the jobs of one file's entity one at a time in the order of their
pushes, without regard to their fences among themselves, and waits for the fences of
other files' jobs (`Ready`).  A lookup fails at a handle user space has destroyed or
never had, after any number of handles it found; `kept` counts the references that
leaves behind.  `PrepLookup` ... `PrepReturn` are `rocket_ioctl_prep_bo`.  This code is
not reachable through `rkopnu_ioctls[]`; its comment says it is "kept correct not
deleted", and the module shows how far that goes.

## 3. Runs

| Run | Question | Bounds | States |
|---|---|---|---|
| `JobServes` | Do domains, references and results stay right when two files share a core and are closed with jobs queued, starting or in flight, and does the engine implement `NpuService`? | 1 core, 2 jobs, 2 files, 1 foreign interrupt | 960,000 |
| `JobCores` | Is the power unit's count exact over two cores? | 2 cores, 2 jobs of one file, masks 2, 4, 7, 1 foreign interrupt on each | 1,780,000 |
| `JobLive` | Does every submit return, every job get freed, every reset end? | 1 core, 2 jobs, 1 foreign interrupt, no symmetry | 249,000 |
| `JobTruthful` | Does the ioctl report the real outcome, as its comment says? It does not: section 5. | 1 core, 1 job | 49 at the violation |
| `GemPool` | Do references and mappings stay exact under races, failures at every rung, truncated map results, exports and the close? | 3 buffers, 1 job, 3 domain objects, 2 slots, 2 pages, ids -1 to 2 | 822,000 |
| `BorrowBuffers` | Does any call work on a freed buffer, does any exit of SUBMIT leave a part of its job, does a close leave a buffer? | 2 buffers, 3 calls | 323,000 |
| `SyncRanges` | Do NPU and user space see the last write? | 3 regions, 3 writes to each | 83,000 |
| `TaskRanges` | Does every kind of slot under every kind of mask give a range of the job? | 4-bit words, 2 cores, masks 1, 2, 3, 4, 7, 15 | 750,000 |
| `PcProgram` | Is the hardware started with the right job, and each end reported, through resets? | 4 programs on core 2, side bits 0 and 6 | 264,000 |
| `LockOrder` | Can threads wait for each other in a circle, or change a domain at a wrong moment? | 2 cores, 2 files | 918,000 |
| `ProbeCores` | How do the table of cores, the DRM device, entities and usage counts survive probes, failures, unbinds and unloads in use? | 3 cores, 1 file, 5 probes | 3,400,000 |
| `NativeSubmit` | Are references exact and jobs ordered, whatever fails? | 1 buffer, 2 files, 2 jobs, 2 calls, 1 prep, 2 cores | 2,040,000 |

The `Job`, `Gem`, `Task`, `Lock` and `Sync` runs check for deadlock; in the first three
the `Rest` action lets a system stop only when all files are closed and no worker has
anything to do.  The others do not: in `BorrowBuffers`, `NativeSubmit` and `ProbeCores`
every call is made once or the bound on probes is reached (`oops` and `overrun` are ends
as well), and in `PcProgram` user space may stop submitting.

Why the bounds are enough to be interesting: a race needs two jobs or two files on one
core (`JobServes`), and the shared count needs two cores (`JobCores`; mask 4 then names
a core that does not exist and falls back to core 0).  In `GemPool` the third domain
object is the candidate that loses the creation race while both slots are taken, two
pages make the allocator run out, and a third buffer takes the address a truncated map
result has left mapped.  `TaskRanges` has starts and lengths whose sums pass 16, so
wrapped ends occur, starts from 8, whose index is negative, and a mask with a bit above
the cores.  The programs of `PcProgram` have odd and even numbers of register commands,
completions inside and outside the bits of the units, and one more tasks than
`TASK_NUMBER` holds; a reset may come at any point.  In `LockOrder` a file closes while
the other's jobs run, are completed and are reset on both cores.  Three cores and five
probes let a core fail and come back, a core other than the last go first, and a later
probe take a slot beyond the end of the table.  In `NativeSubmit` one buffer, which each
array of each job may name and of which each of two files may have a handle, is enough
for jobs to depend on each other, inside an entity and across two, and for a lookup to
fail after the handle it found.  Three calls in `BorrowBuffers` let two share a buffer
while a third names it too late.  Jobs, files, domain ids, buffers, domain objects,
pages, calls, regions and core devices are interchangeable, so the safety runs use
symmetry over them; liveness does not.  The bounds in the guards are `MaxProbes` in
`RocketProbe`, `MaxWrites` in `RocketSync` and `MaxForeign` in `RocketJob` (1 in each
`Job` run: one such interrupt is enough to complete a job early and to leave the next
one's masked); elsewhere every job, call and buffer is used once, and a core times out
at most as often as its jobs can.

Every module has a type invariant, `TypeOK`.  That of `RocketJob`, which says that no
count leaves its range, is checked and proved; those of `RocketGem`, `RocketBorrow`,
`RocketSync`, `RocketLocks`, `RocketProbe`, `RocketNative`, `TaskRange` (`RangeTypeOK`) and
`RocketPc` are proved as part of their inductive invariants.  What the passing properties say:

- `PmBalanced`, `NeverGated`: `pm_refcount` is the number of cores with a job in
  flight plus run workers between their get and the publication (or unwinding) of
  their job; each core's usage count is one plus one while the unit is used.
- `JobRefExact`, `InFlightLive`, `RunOnce`, `FinishedOnce`: ownership and life cycle
  of a job.  `RunOnce` also shows that the two early returns of `rocket_job_run` are
  never taken, and `TimeoutsBounded` that the branch "stuck after %u timeouts" is
  not: a reset cancels the job instead of running it again, and it can be handed to
  the handler at most twice.
- `AttachedDomainLive`, `NoSwitchUnderJob`, `RunningJobTranslated`: the IOMMU domain
  of a core.  The last one is claimed until the core's first timeout and until its
  handler first takes another device's interrupt for its own: a late interrupt thread
  after a reset, or such an interrupt at any time, may complete a job the hardware still
  runs (section 5), and then nothing keeps its domain attached.
- `DomainRefExact`, `OneDomainPerSlot`, `MappingsDisjoint`, `MappedWhileReachable`,
  `DestroyedEmpty`: pool and buffers.  The last three except the mappings that truncated
  map results have left behind (`left`), and nothing else.
- `RangeInside`, `OwnSlot`: task ranges, where no end wraps (`NoWrap`) and the end of the
  job fits an int (`EndFitsInt`).  Wrapped ends pass the check in both directions, and
  from task 2^31 on the index is negative (section 5), so nothing is claimed for them.
- `SubmitReturns`, `JobsReleased`, `ResetEnds`: liveness.
- `Implements`: the refinement described in section 2.
- `BorrowedAlive`, `NothingLeft`: buffers in use.  `BorrowedAlive` excepts the buffers
  that user space destroyed while a call named them without a reference, or named after
  destroying them; it shows that there is no other way.  `NothingLeft` says that a SUBMIT
  that has returned, through whichever exit, has left its job complete to the scheduler or
  nothing of it, and that after the close the buffers that are left, of those user space
  did not misuse, are exactly those a dmabuf keeps.
- `NpuSeesLatest`, `CpuSeesLatest`: contents, as long as user space takes no part of a
  buffer back while it owns another.
- `StartedExact`, `CompletionAfterEnd`, `CompletionDelivered`: the PC block, through
  resets.  The first two are claimed until another device's interrupt was taken for the
  core's own (`foreign`) or a handler thread has outlived a reset (`late`), and show that
  there is no third way to an early completion.  The last one holds after both too: an end
  is never lost between masking, clearing and the next submit.
- `NoCircularWait`, `SwitchSerialized`, `OneSwitchPerCore`: the locks.
- `SlotsExact`, `DrmWhileBound`: the table of cores and the DRM device while cores go
  in the reverse order of their coming, whatever fails and whoever uses the device; a
  bound core keeps the DRM device in any order.  `EntitiesReady`, `NeverGateKept`: files
  and power while, in addition, no core comes or is unbound in use.
- `BoRefsExact`, `JobBosMapped`, `OutputsOrdered`, `PrepAfterWriters`: the native uAPI.
  The first one counts what failed lookups have left behind (`kept`) and shows that
  nothing else is lost.

**Fairness.**  `RocketJob!LiveSpec`: weak fairness of the run worker, the interrupt thread, the
timeout timer, the steps of a reset, a waiter whose fence is signalled, the free
worker, and a close that has begun.  These are kernel work items, threads and timers,
which run when they are runnable.  Nothing is assumed of the hardware, of user space,
or of the 5 s bound, so `SubmitReturns` shows that the timeout alone ends a wait on
hung hardware, also when the unit does not resume and `rocket_job_run` returns a
fence nobody will signal.  `RocketPc!LiveSpec`: weak fairness of the run worker inside
its locked section, of the interrupt while an unmasked bit is set, and of the interrupt
thread, and of a reset that has begun; nothing of the hardware, of the timeout, of user
space or of the other devices on the line.

## 4. Proofs

Every safety property of the passing runs is proved for every value of the constants.
Each proofs module states one inductive invariant as a conjunction of named parts, shows
in one lemma per part that no action disturbs it, and derives the properties.  Every
invariant was model-checked on the instance of a run before it was
proved.

| Module | Theorem | Property |
|---|---|---|
| `RocketJobProofs` | `TypeCorrect` | `TypeOK` |
| | `PowerAccounting` | `PmBalanced`, `NeverGated` |
| | `JobReferences`, `InFlightIsLive`, `AttachedIsLive`, `RunsOnce` | `JobRefExact`, `InFlightLive`, `AttachedDomainLive`, `RunOnce` |
| | `FinishedForGood`, `NoDomainSwitch` | the action properties `FinishedOnce`, `NoSwitchUnderJob` |
| | `TimeoutsAreBounded`, `RunningIsTranslated` | `TimeoutsBounded`, `RunningJobTranslated` |
| | `EngineServes` | `Implements`: the engine refines `NpuService` |
| `RocketLocksProofs` | `DeadlockFree`, `SwitchesSerialized`, `SwitchesExclusive` | `NoCircularWait`, `SwitchSerialized`, `OneSwitchPerCore` |
| `RocketGemProofs` | `DomainReferences`, `SlotsAgree` | `DomainRefExact`, `OneDomainPerSlot` |
| | `MappingsAreDisjoint`, `ReachableIsMapped`, `DestroyedIsEmpty` | `MappingsDisjoint`, `MappedWhileReachable`, `DestroyedEmpty` |
| `RocketBorrowProofs` | `BorrowsAlive`, `CloseLeavesNothing` | `BorrowedAlive`, `NothingLeft` |
| `RocketSyncProofs` | `NpuSees`, `CpuSees` | `NpuSeesLatest`, `CpuSeesLatest` |
| `RocketProbeProofs` | `TableIsExact`, `DrmLives`, `EntitiesAreReady`, `NeverGated` | `SlotsExact`, `DrmWhileBound`, `EntitiesReady`, `NeverGateKept` |
| | `NoOverrun` | no probe takes a slot behind the end of `cores[]` while cores go in the reverse order |
| `RocketNativeProofs` | `BoReferences` | `BoRefsExact` |
| | `JobsMapped`, `WritersFirst`, `PrepWaits` | `JobBosMapped`, `OutputsOrdered`, `PrepAfterWriters` |
| `HwSubmitProofs` | `RangeStaysInside`, `SlotHonoured` | `RangeInside`, `OwnSlot` |
| | `TaskNumberFits` | a SUBMIT of fewer than 4096 tasks never overflows `TASK_NUMBER`, under the conditions of `RangeInside` |
| | `StartsExactly`, `CompletesAfterEnd` | `StartedExact`, `CompletionAfterEnd` |

Each module also states type correctness (`TypeCorrect`; in
`HwSubmitProofs`, `RangeTypeCorrect` and `PcTypeCorrect`).  It is seldom a formality: that
no counter goes below zero needs to know who holds its references, and that only words
are written needs to know what is left to write, so `TypeOK` is inductive only together
with the rest.

**Assumptions.**  `RocketJob`: one to three cores (the size of `cores[]`), finitely many
jobs, any natural number `MaxForeign`.  `RocketLocks`: at least one core.
`RocketProbe`: a finite non-empty set of core devices.  `RocketNative`: at least one
core, finitely many buffers and jobs.  `RocketGem`: at least one slot, integer domain
ids, buffers that are not jobs.  In each module with a `NULL`, that it is none of the
values it stands beside.  `TaskRange`: the ranges of its inputs, where a mask is any
natural number.  `RocketPc`: the widths of the fields of a job (`ProgramsAssumption`),
and that no unit sets a bit of a job's `last_int_mask` on the way to its end
(`SideBitsAssumption`; the driver takes the mask from user space unchecked, and a job
that asks for an earlier bit is completed earlier).  Sets not mentioned (files, calls,
regions, domain objects, pages, buffers and jobs of `RocketGem`, buffers and calls of
`RocketBorrow`) are arbitrary; that the users of a counter are finitely many at any time
is then part of the invariant.

### The job engine

    IndInv == TypeOK /\ JobInv /\ SchedInv /\ RunInv /\ FlightInv
              /\ TdrInv /\ StopInv /\ PoolInv /\ CloseInv /\ PmInv

- `JobInv`: per job, how its place, reference count, fences, result and ioctl fit
  together (a new job has nothing, a finished one is out of the queue, ...);
- `SchedInv`: a core's credit is taken exactly while it has an active job that the
  reset has not taken off, and there is at most one such job;
- `RunInv`: the run worker's job is that active job, with the fence its position
  implies;
- `FlightInv`: the job in flight is alive and unfinished, or is being completed by
  the thread that holds `job_lock`;
- `TdrInv`, `StopInv`: what the timeout handler knows of its job, and that between
  stop and start no worker is inside the core;
- `PoolInv`, `CloseInv`: a job's domain is in its file's pool until that is
  dropped, and what each step of a close has already achieved, which is what makes
  an attached domain live;
- `PmInv`: the power accounting.

The lemmas `PmGet`, `PmGetFails`, `PmPut`, `UsersFinite` and `UserCounted` say what the
operators of `RocketDevice` do to the accounting.

A second invariant, `LateInv`, is proved on top of `IndInv`.  `TimeoutInv` and
`ResetInv` say that a job on the pending list has timed out at most once and has a
result from then on, which bounds the timeouts; `FirstInv` says that on a core that was
never reset and took no other device's interrupt for its own the hardware, the job in
flight and the interrupt agree; `UnderJobInv` that whatever is attached under a job in
flight is that job's domain.

`EngineServes` is the refinement: the initial states map to initial states, the lemmas
`ServiceSubmit`, `ServiceStart`, `ServiceFinish`, `ServiceKill`, `ServiceAnswer`,
`ServiceRelease` and `ServiceLetGo` show which step of `NpuService` each kind of step of
the engine is, and `ServiceStutter` that the others change nothing of what the mapping
sees.  `IndInv` and `LateInv` supply what the mapping itself does not know (for instance
that the job an interrupt completes was started and had no result).

### The other components

- `RocketLocks`: `PlaceInv` (where each thread can be), `PmLockInv` and `JobLockInv` (a
  mutex is held exactly at certain places), `JobInv` (a reset works only while the run
  worker is stopped), `CountInv` (the users of the power unit).  `DeadlockFree` follows
  from an order of the places: who waits inside drm_sched, for `job_lock`, for `pm_lock`
  waits for a thread that is further on, and the holder of `pm_lock` waits for nobody.
- `RocketGem`: `PlaceInv` (a position says what a user holds), `GemInv` and `RefInv` (the
  counts of buffers and domains), `NodeInv` and `BoInv` (allocator and page table, seen
  from the entries and from the buffers), `OneDomainPerSlot`.
- `RocketBorrow`: `RefInv` and `MapInv` count the calls that hold and map a buffer,
  `LifeInv` says that a freed buffer is referenced again only by a call user space should
  not have made, `HeldInv` what there can be of a job at each position of its SUBMIT,
  `CallInv` and `ClosedInv` when a call names a buffer and what a close leaves.
- `RocketSync`: per region, where the newest contents are.  The two properties alone are
  not inductive: a clean line that differs from memory could be evicted.
- `RocketProbe`: `DriverInv` (the one probe or removal), `RdevInv` (no device with a slot
  goes uncounted, in any order), `SlotInv` (the table, in the reverse order, in which the
  lemma `ClaimFits` finds a slot for every probe), `UnitInv`,
  `ClkInv`, and `QuietInv` (entities and usage counts, in quiet use).
- `RocketNative`: `JobInv`, `RefInv` and `BoInv` for the references; `LockInv` (jobs that
  hold their reservations share no buffer), `FenceInv`, `QueueInv`, `DepsInv` and
  `PrepInv` for the order, with `OrderInv` for the entities.  `RefInv` counts exactly,
  with the references failed lookups keep (section 5).
- `TaskRange`: `RangeInv`, what `range` holds in each phase.  The lemmas `SmallInt`,
  `ToIntType` and `HalfWord` say when the conversion to an int keeps a number, `ThreeCores`
  which masks have three cores in use.
- `RocketPc`: `PcInv`.  `PhaseInv` says which job a reset leaves where, `WritesInv` that
  what is left to write is the end of `register_writes` of the job in flight, and
  `LoadInv` that each register whose last write is behind holds that job's word, the
  interrupt mask excepted, which the hard handler may have emptied; these hold on a
  shared line and after resets too.  As long as no foreign interrupt was taken and no
  thread has outlived a reset, `RunInv` (the hardware runs the job in flight, of whose
  interrupt only side bits can be set), `HandlerInv` (a handler is at work only after
  the end, with the interrupt masked) and `QuietInv` (between a completion and the next
  start nothing is pending) hold as well.  `StartedExact` alone is not inductive: it
  says nothing of the registers before the start.  What turns `LoadInv` into
  `running.job = Asked(p)` is the lemma `Decoded`: the words put together by shifts and
  ORs, taken apart by fields, are the job.  It rests on lemmas about fields of one bit,
  low fields and aligned addresses, on the size of numbers and their bits (`HighBits`,
  `Bits12`, `Bits16`), and on `Amount`, the rounding of `REGISTER_AMOUNTS`.

### Only model-checked

- `SubmitReturns`, `JobsReleased`, `ResetEnds` and `CompletionDelivered`: liveness under
  fairness needs `ENABLED`, which the prover does not handle.
- `SubmitTruthful`, which fails (section 5).

## 5. Where the code and its comments disagree

`JobTruthful` is a run that TLC ends with a counterexample.  The other statements are
definitions at the end of their modules; naming one as an `INVARIANT` (`PROPERTY` for
`TasksMappedAtSubmit`) in the `.cfg` given here makes TLC print the behaviour.

1. `SubmitTruthful`, run `JobTruthful`: the ioctl tests only `tout <= 0`, but a fence
   that is signalled with an error gives a positive result, so a job that never ran is
   reported as a success.  TLC's trace is the shortest case, a failed fence allocation
   (`Submit`, `RunPop`, `RunNoFence`, `WaitDone`); a job cancelled by a reset and one whose
   domain could not be attached fare alike.  The comment at `rocket_job.c:935-938` promises "the
   real outcome".
2. `CompletionGenuine`, `JobLive.cfg` with `MaxForeign = 0` (with 1, TLC shows item 12
   instead): `rocket_reset` says "Remaining interrupts have
   been handled" (`rocket_job.c:454`), but nothing waits for the interrupt thread: one
   woken before the reset can complete the next job before the hardware has run it.
   `CompletionAfterEnd` without `late`, `PcProgram.cfg`, shows it at the registers.
3. `TimeoutTouchesLive`, `JobLive.cfg`: `rocket_job_timedout` increments
   `job->timeout_count` (`rocket_job.c:503`) after the scheduler was restarted.  When
   the submitter has given up, the free worker can have freed the job by then.
4. `TasksMappedAtSubmit`, `JobLive.cfg`: a wait can expire with the job still queued.
   The ioctl then unmaps the task buffer, and the run worker later reads it, against the
   comment at `rocket_job.c:846-847`.
5. `TakedownEmpty`, `GemPool.cfg`: a dmabuf keeps a buffer's node in the allocator past
   the close of the file, which `rocket_drv.c:146-150` calls "provably empty".
6. `SiblingsDriven`, `TaskRanges.cfg`: the comment at `rocket_job.c:34-36` says that the
   sibling cores of a mask are driven from the job's completion path.  A job has one
   task and one core; the siblings' ranges are never programmed, and all tasks are
   reported done.
7. `EverySwitchSerialized`, `LockOrder.cfg`: `rocket_job_close` detaches under
   `job_lock` alone (`rocket_job.c:679`), while the comment at `rocket_job.c:360-373`
   explains why every attach and detach is also serialised against `pm_lock`.
8. `NeverGateKept` without `quiet`, `ProbeCores.cfg`: a job that starts
   before a core is counted and ends after takes one usage reference more from the new
   core than it gave (`rocket_drv.c:256`), against the comment at
   `rocket_core.c:201-204`, "it just never drives the usage count to zero".
   `EntitiesReady` without `quiet`: a file opened in between has no entity, or one
   without a run queue, on a later core.
9. `SlotsExact` and `DrmWhileBound` without `ordered`, `ProbeCores.cfg`: `rocket_remove`
   decrements `num_cores` and leaves `cores[]` as it is.  When a core other than the
   last of the table goes first, the last one is not found any more, and the DRM device
   stays registered without a core.
10. `ClocksWhileBound`, `ProbeCores.cfg`: runtime PM is disabled with the device active
    (`rocket_core.c:221`), so the clock reference of the resume stays, against "for as
    long as the driver is bound" (`rocket_core.c:70-71`).
11. `ProbeHasDevice`, `ProbeCores.cfg`: `rdev` keeps the error pointer of a failed
    `rocket_device_init` (`rocket_drv.c:241`) and the next probe uses it.
12. `CompletionAfterEnd` without `foreign`, `PcProgram.cfg`: on a shared line the hard
    handler can run again before the thread has cleared the raw bits, and the second
    wake-up completes the next job.  `RunningJobTranslated` without `foreign`,
   `JobServes.cfg`, shows where that leads: without any timeout, the next job may switch the
   domain under one the hardware still runs.
13. `StartedExact` without its condition on the task number, `PcProgram.cfg`: a count of
    4096 or more spills from `TASK_NUMBER` into `TASK_PP_EN` (`rocket_job.c:177`).
    `TaskNumberFits` bounds it by the count of the SUBMIT, which nothing checks.
14. `CpuSeesLatest` without `mixed`, `SyncRanges.cfg`: MEM_SYNC from the device drops
    the lines of the whole buffer, although it is given an offset and a size
    (`rknpu_ioctl.h:196-197`).
15. `BorrowedAlive` without `raced`, `BorrowBuffers.cfg`: the comment at
    `rocket_job.c:836-838` says that the reference protects against a concurrent
    MEM_DESTROY; one that comes before the reference, while the call has the pointer or
    before the call was made, is not covered.  MEM_SYNC takes no reference at all.
16. `PrepAfterUsers`, `InputsOrdered`, `TasksFreedOnce`, `LookupsDropAll`, `NativeJobsRun`
    in `NativeSubmit.cfg`: in the native code, fences are attached to output buffers only,
    so a writer does not wait for the readers before it in another file that shares the
    buffer by a dmabuf (inside one file its entity keeps the order); a task array whose copy
    fails is freed twice; a lookup that fails after its first handle keeps its references,
    because the count is stored only on success (`rocket_job.c:726-738`); and a native job
    has no `rk_tasks` for `rocket_job_hw_submit`.
17. `FailedCreateUnmaps`, `GemPool.cfg`: MEM_CREATE keeps the `ssize_t` of
    `iommu_map_sgtable` in an `int` (`rkopnu_ioctl.c:75, 124-129`; `rocket_gem.c:111-120` does
    the same).  A buffer of 2 GiB or more is mapped, taken for a failure and given up below
    the unmap: its pages are freed while the NPU can still reach them.
18. `RangeInsideWords`, `TaskRanges.cfg`: the range check compares unsigned and indexes
    signed (`rocket_job.c:133, 149-159`).  A job that starts at task 2^31 or later has a
    negative index into `rk_tasks[]`, which the comment says the check defends against.
19. `CoresSuffice`, `ProbeCores.cfg`: `cores[]` has an entry for every core
    (`rocket_device.c:32-36`), but removals in another order than the reverse leave
    `num_cores` too high (item 9), and a later probe writes behind the end and counts what it
    wrote (`rocket_drv.c:248-256`).

## 6. Not modelled

- The ACTION ioctl: a switch over constants that reads and writes no state.
- System sleep (`pm_runtime_force_suspend` and `_resume`): the kernel's helpers.
- `rocket_reset_work`, which nothing queues.
- The registers the driver does not use (4,100 lines of generated constants), the
  allocation flags the driver ignores, the device tree and the build files.

## 7. Plan

Done, in this order: `RocketDevice` and `RocketJob`; `RocketGem`; `TaskRange`;
the inductive invariant of the job engine and its theorems; the theorems of
`TaskRange`; `RocketProbe`; `RocketLocks`; `RocketPc`; `NpuService` and the refinement;
`RocketBorrow`, `RocketSync` and `RocketNative`; the second invariant of the job engine
and the proof of its refinement; the proofs of `RocketLocks`, `RocketSync`,
`RocketBorrow`, `RocketGem`, `RocketNative` and `RocketProbe`; the inductive invariant of
`RocketPc`, its theorems, and the bound that joins it to `TaskRange`.

What is left is liveness, which stays with TLC, and the two hazards of `PROJECT.json`
without a property (items 3 and 4 of section 5), where the code does not do what a
property would say.
