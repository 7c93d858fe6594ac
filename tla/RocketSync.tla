----------------------------- MODULE RocketSync -----------------------------
(***************************************************************************)
(* The contents of a buffer, between the caches of the CPU and the memory  *)
(* the NPU reads and writes.  MEM_SYNC (rkopnu_ioctl.c) and the native     *)
(* prep_bo and fini_bo (rocket_gem.c) hand a buffer back and forth.        *)
(*                                                                         *)
(* The buffer is split into regions of whole cache lines.  User space      *)
(* follows the rules of its ABI: it touches only the regions it owns,      *)
(* gives a region to the NPU by a sync to the device and takes it back,    *)
(* after the job, by a sync from the device.  The CPU's caches fetch and   *)
(* evict lines as they like.                                               *)
(***************************************************************************)
EXTENDS Naturals

CONSTANTS
    Regions,
    MaxWrites,              \* bound: writes to one region
    NULL

ASSUME SyncAssumption == MaxWrites \in Nat /\ NULL \notin Nat

\* What user space may name in a MEM_SYNC.
Ranges == SUBSET Regions \ {{}}

VARIABLES
    mem,                    \* of each region: what the memory holds
    line,                   \* what the cache holds, or NULL
    dirty,                  \* the cache has still to write it back
    latest,                 \* what was written last, by the CPU or the NPU
    owner,                  \* "cpu" or "npu", as user space sees it
    job,                    \* "none", "reads" or "writes"
    mixed                   \* a part was synced from the device while user space
                            \* owned another part (history)

vars == <<mem, line, dirty, latest, owner, job, mixed>>

\* The allocation cleans the caches; user space starts as the owner.
Init ==
    /\ mem = [r \in Regions |-> 0]
    /\ line = [r \in Regions |-> NULL]
    /\ dirty = [r \in Regions |-> FALSE]
    /\ latest = [r \in Regions |-> 0]
    /\ owner = [r \in Regions |-> "cpu"]
    /\ job = "none"
    /\ mixed = FALSE

-----------------------------------------------------------------------------
(* The CPU and its caches                                                   *)

CpuWrite(r) ==
    /\ owner[r] = "cpu" /\ latest[r] < MaxWrites
    /\ latest' = [latest EXCEPT ![r] = @ + 1]
    /\ line' = [line EXCEPT ![r] = latest[r] + 1]
    /\ dirty' = [dirty EXCEPT ![r] = TRUE]
    /\ UNCHANGED <<mem, owner, job, mixed>>

\* A read or a prefetch, of any region at any time.
Fetch(r) ==
    /\ line[r] = NULL
    /\ line' = [line EXCEPT ![r] = mem[r]]
    /\ UNCHANGED <<mem, dirty, latest, owner, job, mixed>>

Evict(r) ==
    /\ line[r] # NULL
    /\ mem' = [mem EXCEPT ![r] = IF dirty[r] THEN line[r] ELSE @]
    /\ line' = [line EXCEPT ![r] = NULL]
    /\ dirty' = [dirty EXCEPT ![r] = FALSE]
    /\ UNCHANGED <<latest, owner, job, mixed>>

-----------------------------------------------------------------------------
(* dma_sync_sgtable_for_device and _for_cpu, on the lines of the regions R  *)

\* Dirty lines are written back and stay.
cleaned(R) ==
    /\ mem' = [r \in Regions |-> IF r \in R /\ dirty[r] THEN line[r] ELSE mem[r]]
    /\ dirty' = [r \in Regions |-> dirty[r] /\ r \notin R]
    /\ UNCHANGED line

\* Lines are dropped, dirty or not.
invalidated(R) ==
    /\ line' = [r \in Regions |-> IF r \in R THEN NULL ELSE line[r]]
    /\ dirty' = [r \in Regions |-> dirty[r] /\ r \notin R]
    /\ UNCHANGED mem

\* The first, then the second.
cleaned_and_invalidated(R) ==
    /\ mem' = [r \in Regions |-> IF r \in R /\ dirty[r] THEN line[r] ELSE mem[r]]
    /\ line' = [r \in Regions |-> IF r \in R THEN NULL ELSE line[r]]
    /\ dirty' = [r \in Regions |-> dirty[r] /\ r \notin R]

-----------------------------------------------------------------------------
(* MEM_SYNC.  Its offset and size are not looked at: the whole scatter list *)
(* is synchronised, whatever range user space named.                        *)

\* Mutant: the flag is tested against the wrong bit, and nothing is cleaned.
sync_to_device_none == UNCHANGED <<mem, line, dirty>>

sync_to_device == cleaned(Regions)

\* Mutant: the lines are cleaned, as if the data went the other way.
sync_from_device_cleans == cleaned(Regions)

sync_from_device == invalidated(Regions)

MemSyncToDevice(R) ==
    /\ job = "none" /\ \A r \in R : owner[r] = "cpu"
    /\ sync_to_device
    /\ owner' = [r \in Regions |-> IF r \in R THEN "npu" ELSE owner[r]]
    /\ UNCHANGED <<latest, job, mixed>>

\* SUBMIT has returned, so that no job is left.
MemSyncFromDevice(R) ==
    /\ job = "none" /\ \A r \in R : owner[r] = "npu"
    /\ sync_from_device
    /\ owner' = [r \in Regions |-> IF r \in R THEN "cpu" ELSE owner[r]]
    /\ mixed' = (mixed \/ \E r \in Regions \ R : owner[r] = "cpu")
    /\ UNCHANGED <<latest, job>>

\* Both flags in one call: user space keeps what it has.
MemSyncBoth(R) ==
    /\ job = "none" /\ \A r \in R : owner[r] = "cpu"
    /\ cleaned_and_invalidated(Regions)
    /\ UNCHANGED <<latest, owner, job, mixed>>

-----------------------------------------------------------------------------
(* rocket_ioctl_prep_bo, rocket_ioctl_fini_bo: always the whole buffer      *)

\* The wait for the fences of the jobs that write the buffer.
prep_waited == job # "writes"

PrepBo ==
    /\ prep_waited /\ \A r \in Regions : owner[r] = "npu"
    /\ invalidated(Regions)
    /\ owner' = [r \in Regions |-> "cpu"]
    /\ UNCHANGED <<latest, job, mixed>>

\* The wait timed out.  The lines are dropped all the same, and user space,
\* which gets an error, does not take the buffer.
PrepBoLate ==
    /\ ~prep_waited /\ \A r \in Regions : owner[r] = "npu"
    /\ invalidated(Regions)
    /\ UNCHANGED <<latest, owner, job, mixed>>

FiniBo ==
    /\ \A r \in Regions : owner[r] = "cpu"
    /\ cleaned(Regions)
    /\ owner' = [r \in Regions |-> "npu"]
    /\ UNCHANGED <<latest, job, mixed>>

-----------------------------------------------------------------------------
(* The NPU                                                                  *)

JobStart(kind) ==
    /\ job = "none" /\ \E r \in Regions : owner[r] = "npu"
    /\ job' = kind
    /\ UNCHANGED <<mem, line, dirty, latest, owner, mixed>>

NpuWrite(r) ==
    /\ job = "writes" /\ owner[r] = "npu" /\ latest[r] < MaxWrites
    /\ mem' = [mem EXCEPT ![r] = latest[r] + 1]
    /\ latest' = [latest EXCEPT ![r] = @ + 1]
    /\ UNCHANGED <<line, dirty, owner, job, mixed>>

JobEnd ==
    /\ job # "none"
    /\ job' = "none"
    /\ UNCHANGED <<mem, line, dirty, latest, owner, mixed>>

Next ==
    \/ \E r \in Regions : CpuWrite(r) \/ Fetch(r) \/ Evict(r) \/ NpuWrite(r)
    \/ \E R \in Ranges : MemSyncToDevice(R) \/ MemSyncFromDevice(R) \/ MemSyncBoth(R)
    \/ PrepBo \/ PrepBoLate \/ FiniBo
    \/ \E kind \in {"reads", "writes"} : JobStart(kind)
    \/ JobEnd

Spec == Init /\ [][Next]_vars

-----------------------------------------------------------------------------
(* Properties.                                                              *)

\* The types of the variables; a dirty line is there.
TypeOK ==
    /\ mem \in [Regions -> 0 .. MaxWrites]
    /\ line \in [Regions -> (0 .. MaxWrites) \cup {NULL}]
    /\ dirty \in [Regions -> BOOLEAN]
    /\ latest \in [Regions -> 0 .. MaxWrites]
    /\ owner \in [Regions -> {"cpu", "npu"}]
    /\ job \in {"none", "reads", "writes"}
    /\ mixed \in BOOLEAN
    /\ \A r \in Regions : dirty[r] => line[r] # NULL

\* rkopnu_ioctl.c 206-207, rocket_gem.c 205: as long as user space takes no
\* part of the buffer back while it owns another, the NPU finds in memory what
\* was written last into the regions it was given, and no line of them that
\* the caches write back later can overwrite its results.
NpuSeesLatest ==
    ~mixed => \A r \in Regions : owner[r] = "npu" => mem[r] = latest[r] /\ ~dirty[r]

\* What a read of the CPU returns.
CpuView(r) == IF line[r] = NULL THEN mem[r] ELSE line[r]

\* rkopnu_ioctl.c 208-209, rocket_gem.c 179: under the same rule, user space
\* reads in a region of its own what was written last: its own writes, and the
\* results of the jobs from before it took the region back.  The rule is needed
\* because MEM_SYNC drops the lines of the whole buffer.
CpuSeesLatest ==
    ~mixed => \A r \in Regions : owner[r] = "cpu" => CpuView(r) = latest[r]

=============================================================================
