------------------------------ MODULE TaskRange ------------------------------
(***************************************************************************)
(* Which tasks of a SUBMIT a core is programmed with                       *)
(* (rkopnu_ioctl_submit, rocket_job_hw_submit in rocket_job.c).            *)
(*                                                                         *)
(* User space hands over a task array, the job's range [task_start,        *)
(* task_start + task_number) in it, a core mask, and five subcore slots    *)
(* with a range each.  The job runs one program, on the core its mask      *)
(* selects, over the range of that core's slot; a slot that is empty or    *)
(* leaves the job's range is replaced by the whole range.  User space's    *)
(* numbers are u32, so sums and comparisons are unsigned and wrap at Word; *)
(* the range is kept in two ints, which index rk_tasks[] with their sign.  *)
(***************************************************************************)
EXTENDS Integers

CONSTANTS
    Word,                   \* 2^32
    NumCores,               \* rdev->num_cores
    Masks,                  \* core_mask values
    Starts, Numbers,        \* values of task_start and task_number
    SlotRanges              \* ranges user space puts in a subcore slot

ASSUME TaskRangeAssumption ==
    /\ Word \in Nat \ {0}
    /\ NumCores \in 1 .. 3
    /\ Masks \subseteq Nat
    /\ Starts \subseteq 0 .. Word - 1
    /\ Numbers \subseteq 0 .. Word - 1
    /\ SlotRanges \subseteq (0 .. Word - 1) \X (0 .. Word - 1)

VARIABLES
    phase,                  \* "new", "queued", "running", "done"
    core_mask,              \* args->core_mask
    start, number,          \* rk_task_start, rk_task_number
    subcore,                \* rk_subcore[0..4]: <<task_start, task_number>>
    range,                  \* ts and tn: the range the core was programmed with
    task_counter            \* args->task_counter

rangeVars == <<phase, core_mask, start, number, subcore, range, task_counter>>

SubcoreSlots == 0 .. 4

RangeInit ==
    /\ phase = "new"
    /\ core_mask \in Masks
    /\ start \in Starts
    /\ number \in Numbers
    /\ subcore \in [SubcoreSlots -> SlotRanges]
    /\ range = <<0, 0>>
    /\ task_counter = 0

-----------------------------------------------------------------------------
\* rknpu_wait_core_index and the check against num_cores.
core_index(mask) ==
    LET ci == CASE mask = 2 -> 1 [] mask = 4 -> 2 [] OTHER -> 0
    IN  IF ci >= NumCores THEN 0 ELSE ci

\* hweight32(core_mask & 0x7)
use_core_num(mask) == (mask % 2) + ((mask \div 2) % 2) + ((mask \div 4) % 2)

\* Mutant: every mask reads the slot of its core.
subcore_slot_flat(mask) == core_index(mask)

\* The subcore slot: three cores in use read two places further on.
subcore_slot(mask) ==
    IF use_core_num(mask) = 3 THEN core_index(mask) + 2 ELSE core_index(mask)

\* Mutant: the slot's length is compared with the job's, not its end.
escapes_number(ts, tn) == tn = 0 \/ ts < start \/ tn > number

\* The slot is empty or leaves the job's range; both sums wrap.
escapes(ts, tn) ==
    \/ tn = 0
    \/ ts < start
    \/ (ts + tn) % Word > (start + number) % Word

\* A u32 assigned to an int.
to_int(x) == IF x < Word \div 2 THEN x ELSE x - Word

task_range(mask) ==
    LET r == subcore[subcore_slot(mask)]
        t == IF escapes(r[1], r[2]) THEN <<start, number>> ELSE r
    IN  <<to_int(t[1]), to_int(t[2])>>

-----------------------------------------------------------------------------
\* A SUBMIT without tasks succeeds at once.
SubmitNothing ==
    /\ phase = "new"
    /\ number = 0
    /\ phase' = "done"
    /\ UNCHANGED <<core_mask, start, number, subcore, range, task_counter>>

Submit ==
    /\ phase = "new"
    /\ number # 0
    /\ phase' = "queued"
    /\ UNCHANGED <<core_mask, start, number, subcore, range, task_counter>>

hw_submit ==
    /\ phase = "queued"
    /\ range' = task_range(core_mask)
    /\ phase' = "running"
    /\ UNCHANGED <<core_mask, start, number, subcore, task_counter>>

\* task_count is 1: the first completion completes the job.
Complete ==
    /\ phase = "running"
    /\ task_counter' = number
    /\ phase' = "done"
    /\ UNCHANGED <<core_mask, start, number, subcore, range>>

Rest == phase = "done" /\ UNCHANGED rangeVars

RangeNext == SubmitNothing \/ Submit \/ hw_submit \/ Complete \/ Rest

RangeSpec == RangeInit /\ [][RangeNext]_rangeVars

-----------------------------------------------------------------------------
(* Properties.                                                              *)

Tasks(r) == r[1] .. r[1] + r[2] - 1

\* The indices into rk_tasks[] of the first and the last task of a range.
first(r) == r[1]
last(r)  == to_int((r[1] + r[2] - 1) % Word)

\* Every variable stays in its range.
RangeTypeOK ==
    /\ phase \in {"new", "queued", "running", "done"}
    /\ core_mask \in Masks
    /\ start \in Starts
    /\ number \in Numbers
    /\ subcore \in [SubcoreSlots -> SlotRanges]
    /\ range \in (-Word .. Word - 1) \X (-Word .. Word - 1)
    /\ task_counter \in 0 .. Word - 1

\* No sum of the check wraps: the job's end and every slot's end fit a word.
NoWrap ==
    /\ start + number < Word
    /\ \A i \in SubcoreSlots : subcore[i][1] + subcore[i][2] < Word

\* The end of the job fits an int.
EndFitsInt == start + number < Word \div 2

\* rocket_job.c 149-152: a core is programmed with at least one task, and the
\* first and the last entry of rk_tasks[] it reads are tasks of the job,
\* whatever is in the slots, as long as no end wraps and the job's fits an int.
RangeInside ==
    (phase = "running" /\ NoWrap /\ EndFitsInt) =>
        /\ range[2] > 0
        /\ start <= first(range)
        /\ first(range) <= last(range)
        /\ last(range) < start + number

\* rocket_drv.h 64-68: the range a core is programmed with is the one its own
\* slot holds when that is a range of the job.  Three cores in use read the
\* third slot, whatever higher bits the mask has.
Fits(r) == r[2] > 0 /\ r[1] >= start /\ r[1] + r[2] <= start + number

OwnSlot ==
    (phase = "running" /\ NoWrap /\ EndFitsInt) =>
        LET r == subcore[CASE core_mask = 2 /\ NumCores > 1 -> 1
                           [] core_mask = 4 /\ NumCores > 2 -> 2
                           [] core_mask % 8 = 7 -> 2
                           [] OTHER -> 0]
        IN  Fits(r) => range = r

-----------------------------------------------------------------------------
(* Statements of the code's comments that do not hold: README, section 5.   *)

\* rocket_job.c 149-152: the check defends against indexing rk_tasks[] out of
\* the job's range, whenever no end wraps.  From task 2^31 on, the index is
\* negative.
RangeInsideWords ==
    (phase = "running" /\ NoWrap) =>
        start <= first(range) /\ last(range) < start + number

\* rocket_job.c 32-37: the siblings of a multi-core mask are driven too, so
\* when the slots of the mask's cores share out the job's tasks, all of them
\* have run when the job reports that they have.
SlotsOf(mask) == CASE mask = 3 -> {0, 1} [] mask = 7 -> {2, 3, 4} [] OTHER -> {}

SiblingsDriven ==
    (phase = "done" /\ task_counter = number /\ SlotsOf(core_mask) # {}
       /\ (\A i \in SlotsOf(core_mask) : Fits(subcore[i]))
       /\ UNION {Tasks(subcore[i]) : i \in SlotsOf(core_mask)} = Tasks(<<start, number>>))
    => Tasks(range) = Tasks(<<start, number>>)
=============================================================================
