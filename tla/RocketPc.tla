------------------------------ MODULE RocketPc ------------------------------
(***************************************************************************)
(* One core at the level of its registers: rocket_job_hw_submit programs   *)
(* the PC block register by register, the hardware runs what it finds      *)
(* there, the hard and the threaded interrupt handler acknowledge the      *)
(* interrupt, the first without any lock and the second with two register  *)
(* writes before it takes job_lock, and a timeout resets the core under    *)
(* whatever the handlers are doing.                                        *)
(*                                                                         *)
(* A 32-bit word is the set of its one bits, so OR is union, AND is        *)
(* intersection and a field of a register is the set of its bits.  The     *)
(* hardware is external: it is modelled from the registers it is driven    *)
(* through.                                                                *)
(***************************************************************************)
EXTENDS Naturals, Sequences, FiniteSets, FiniteSetsExt

CONSTANTS
    Programs,               \* the jobs' parameters, as records of words
    CoreIndex,              \* core->index
    SideBits,               \* raw bits the hardware sets besides the completion
    NULL

Bit == 0 .. 31
\* The bits of a number below 2^31: an amount is half of a u32.
Bits(n) == {i \in 0 .. 30 : (n \div 2^i) % 2 = 1}
Shl(w, k) == {i + k : i \in w} \cap Bit

\* The fields of rknpu_task and of the job, with their widths.
ASSUME ProgramsAssumption ==
    /\ Programs \subseteq [regcmd_addr : SUBSET (0 .. 63), regcfg_amount : Nat,
                           first_int_mask : SUBSET Bit, last_int_mask : SUBSET Bit,
                           pp_en : SUBSET {0}, tn : SUBSET Bit,
                           task_base_addr : SUBSET (0 .. 63)]
    /\ NULL \notin Programs
    /\ CoreIndex \in Nat

\* A job asks for the interrupt of its end, which no unit sets on the way.
ASSUME SideBitsAssumption ==
    /\ SideBits \subseteq Bit
    /\ \A p \in Programs : p.last_int_mask \cap SideBits = {}

\* FIELD(v), as the generated header defines it, and its inverse.
Put(v, field) == Shl(v, Min(field)) \cap field
Get(w, field) == {i - Min(field) : i \in w \cap field}

-----------------------------------------------------------------------------
(* The registers the driver uses (rocket_registers.h).                      *)

OPERATION_ENABLE == [OP_EN |-> {0}, RESERVED_0 |-> 1 .. 31]
BASE_ADDRESS     == [PC_SEL |-> {0}, RESERVED_0 |-> 1 .. 3, PC_SOURCE_ADDR |-> 4 .. 31]
REGISTER_AMOUNTS == [PC_DATA_AMOUNT |-> 0 .. 15, RESERVED_0 |-> 16 .. 31]
TASK_CON         == [TASK_NUMBER |-> 0 .. 11, TASK_PP_EN |-> {12},
                     TASK_COUNT_CLEAR |-> {13}, RESERVED_0 |-> 14 .. 31]
TASK_DMA_BASE_ADDR == [RESERVED_0 |-> 0 .. 3, DMA_BASE_ADDR |-> 4 .. 31]

CNA_S_POINTER ==
    [POINTER |-> {0}, POINTER_PP_EN |-> {1}, EXECUTER_PP_EN |-> {2},
     POINTER_PP_MODE |-> {3}, POINTER_PP_CLEAR |-> {4}, EXECUTER_PP_CLEAR |-> {5},
     RESERVED_1 |-> 6 .. 15, EXECUTER |-> {16}, RESERVED_0 |-> 17 .. 31]

CORE_S_POINTER ==
    [POINTER |-> {0}, POINTER_PP_EN |-> {1}, EXECUTER_PP_EN |-> {2},
     POINTER_PP_MODE |-> {3}, POINTER_PP_CLEAR |-> {4}, EXECUTER_PP_CLEAR |-> {5},
     RESERVED_1 |-> 6 .. 15, EXECUTER |-> {16}, RESERVED_0 |-> 17 .. 31]

\* INTERRUPT_MASK, _CLEAR and _RAW_STATUS have one bit per unit and half;
\* RESERVED_0 is where the vendor runtime's completions appear.
INTERRUPT_MASK == [units |-> 0 .. 13, RESERVED_0 |-> 14 .. 31]
INTERRUPT_CLEAR == [units |-> 0 .. 13, RESERVED_0 |-> 14 .. 31]
INTERRUPT_RAW_STATUS == [units |-> 0 .. 13, RESERVED_0 |-> 14 .. 31]

Registers == {"OPERATION_ENABLE", "BASE_ADDRESS", "REGISTER_AMOUNTS", "TASK_CON",
              "INTERRUPT_MASK", "TASK_DMA_BASE_ADDR", "CNA_S_POINTER",
              "CORE_S_POINTER"}

-----------------------------------------------------------------------------
(* rocket_job_hw_submit: the values written, in their order.                *)

extra_bit == Bits(CoreIndex) \* times 0x10000000, that is, shifted by 28

s_pointer(regs) ==
    Put({0}, regs.POINTER_PP_EN) \cup Put({0}, regs.EXECUTER_PP_EN)
      \cup Put({0}, regs.POINTER_PP_MODE) \cup Shl(extra_bit, 28)

\* Mutant: rounded down.
register_amounts_floor(n) == (n + 4) \div 2 - 1

register_amounts(n) == (n + 4 + 2 - 1) \div 2 - 1

task_con(pp_en, tn) == Shl(Bits(6) \cup pp_en, 12) \cup tn

register_writes(p) ==
    << <<"BASE_ADDRESS", {0}>>,
       <<"CNA_S_POINTER", s_pointer(CNA_S_POINTER)>>,
       <<"CORE_S_POINTER", s_pointer(CORE_S_POINTER)>>,
       <<"BASE_ADDRESS", p.regcmd_addr \cap Bit>>,
       <<"REGISTER_AMOUNTS", Bits(register_amounts(p.regcfg_amount))>>,
       <<"INTERRUPT_MASK", p.last_int_mask>>,
       <<"INTERRUPT_CLEAR", p.first_int_mask>>,
       <<"TASK_CON", task_con(p.pp_en, p.tn)>>,
       <<"TASK_DMA_BASE_ADDR", p.task_base_addr \cap Bit>>,
       <<"OPERATION_ENABLE", {0}>>,
       <<"OPERATION_ENABLE", {}>> >>

-----------------------------------------------------------------------------
VARIABLES
    regs,                   \* the registers
    raw,                    \* INTERRUPT_RAW_STATUS
    running,                \* what the hardware is executing, as it read it, and
                            \* the raw bits its last task sets
    in_flight,              \* core->in_flight_job, as its parameters
    next_task_idx,          \* ... and its next_task_idx
    writes,                 \* what hw_submit has still to write (job_lock held)
    woken, thread,          \* threaded handler: wake-up bit, position
    reset,                  \* the reset: "none", "pending", "cleared" (in_flight_job)
    foreign,                \* the handler has taken the interrupt of another device
                            \* on the line for its own (history)
    late                    \* a reset has left a handler thread that was still to
                            \* run (history)

resetVars == <<reset, late>>
vars == <<regs, raw, running, in_flight, next_task_idx, writes, woken, thread,
          resetVars, foreign>>

Init ==
    /\ regs = [r \in Registers |-> {}]
    /\ raw = {}
    /\ running = NULL
    /\ in_flight = NULL
    /\ next_task_idx = 0
    /\ writes = <<>>
    /\ woken = FALSE
    /\ thread = "idle"
    /\ reset = "none"
    /\ foreign = FALSE
    /\ late = FALSE

\* What a job is, read from the registers as their fields.
Decode(R) ==
    [addr |-> Get(R["BASE_ADDRESS"], BASE_ADDRESS.PC_SOURCE_ADDR),
     direct |-> Get(R["BASE_ADDRESS"], BASE_ADDRESS.PC_SEL),
     amount |-> Get(R["REGISTER_AMOUNTS"], REGISTER_AMOUNTS.PC_DATA_AMOUNT),
     tasks |-> Get(R["TASK_CON"], TASK_CON.TASK_NUMBER),
     pp |-> Get(R["TASK_CON"], TASK_CON.TASK_PP_EN),
     clear |-> Get(R["TASK_CON"], TASK_CON.TASK_COUNT_CLEAR),
     dma |-> Get(R["TASK_DMA_BASE_ADDR"], TASK_DMA_BASE_ADDR.DMA_BASE_ADDR),
     pointer |-> Get(R["CNA_S_POINTER"], CNA_S_POINTER.POINTER)
                   \cup Get(R["CORE_S_POINTER"], CORE_S_POINTER.POINTER),
     executer |-> Get(R["CNA_S_POINTER"], CNA_S_POINTER.EXECUTER)
                   \cup Get(R["CORE_S_POINTER"], CORE_S_POINTER.EXECUTER),
     pingpong |-> Get(R["CNA_S_POINTER"], CNA_S_POINTER.POINTER_PP_EN)
                   \cap Get(R["CORE_S_POINTER"], CORE_S_POINTER.POINTER_PP_EN)]

task_count == 1                     \* one PC program per job

\* rocket_job_hw_submit, of a job that has had idx tasks: nothing while a reset
\* is pending.
rocket_job_hw_submit(p, idx) ==
    IF reset # "none"
    THEN next_task_idx' = idx /\ UNCHANGED writes
    ELSE next_task_idx' = idx + 1 /\ writes' = register_writes(p)

\* rocket_job_run publishes the job and calls hw_submit, holding job_lock.  A
\* reset that has stopped the scheduler lets no job run.
Publish(p) ==
    /\ in_flight = NULL /\ writes = <<>>
    /\ reset # "cleared"
    /\ in_flight' = p
    /\ rocket_job_hw_submit(p, 0)
    /\ UNCHANGED <<regs, raw, running, woken, thread, resetVars, foreign>>

\* One register write: a one in INTERRUPT_CLEAR clears the raw bit, a one in
\* OP_EN starts the hardware.
Write ==
    /\ writes # <<>>
    /\ writes' = Tail(writes)
    /\ LET reg == Head(writes)[1]
           val == Head(writes)[2]
       IN  /\ raw' = IF reg = "INTERRUPT_CLEAR" THEN raw \ val ELSE raw
           /\ regs' = IF reg \in Registers THEN [regs EXCEPT ![reg] = val] ELSE regs
           /\ running' = IF reg = "OPERATION_ENABLE" /\ val = {0}
                         THEN [job |-> Decode(regs), ends |-> in_flight.last_int_mask]
                         ELSE running
    /\ UNCHANGED <<in_flight, next_task_idx, woken, thread, resetVars, foreign>>

\* The hardware sets the raw bit of a unit on its way.
HwUnit(b) ==
    /\ running # NULL
    /\ raw' = raw \cup {b}
    /\ UNCHANGED <<regs, running, in_flight, next_task_idx, writes, woken, thread,
                   resetVars, foreign>>

\* The last task is done: its interrupt bits are set.
HwDone ==
    /\ running # NULL
    /\ raw' = raw \cup running.ends
    /\ running' = NULL
    /\ UNCHANGED <<regs, in_flight, next_task_idx, writes, woken, thread, resetVars,
                   foreign>>

\* Mutant: the handler leaves the interrupt unmasked.
IrqHandler_unmasked ==
    /\ raw # {}
    /\ foreign' = (foreign \/ raw \cap regs["INTERRUPT_MASK"] = {})
    /\ woken' = TRUE
    /\ UNCHANGED <<regs, raw, running, in_flight, next_task_idx, writes, thread,
                   resetVars>>

\* Mutant: the handler takes only the bits of the units for its own.
IrqHandler_units ==
    /\ raw \cap INTERRUPT_RAW_STATUS.units # {}
    /\ foreign' = (foreign \/ raw \cap regs["INTERRUPT_MASK"] = {})
    /\ regs' = [regs EXCEPT !["INTERRUPT_MASK"] = {}]
    /\ woken' = TRUE
    /\ UNCHANGED <<raw, running, in_flight, next_task_idx, writes, thread, resetVars>>

\* rocket_job_irq_handler: runs when the line is raised, by this core or by
\* another device that shares it, and takes any raw bit for its own.
IrqHandler ==
    /\ raw # {}
    /\ foreign' = (foreign \/ raw \cap regs["INTERRUPT_MASK"] = {})
    /\ regs' = [regs EXCEPT !["INTERRUPT_MASK"] = {}]
    /\ woken' = TRUE
    /\ UNCHANGED <<raw, running, in_flight, next_task_idx, writes, thread, resetVars>>

\* rocket_job_handle_irq, before its lock: operation off, all bits cleared.
ThreadStop ==
    /\ thread = "idle" /\ woken
    /\ woken' = FALSE
    /\ regs' = [regs EXCEPT !["OPERATION_ENABLE"] = {}]
    /\ thread' = "stopped"
    /\ UNCHANGED <<raw, running, in_flight, next_task_idx, writes, resetVars, foreign>>

ThreadClear ==
    /\ thread = "stopped"
    /\ raw' = raw \ Bit
    /\ thread' = "cleared"
    /\ UNCHANGED <<regs, running, in_flight, next_task_idx, writes, woken, resetVars,
                   foreign>>

\* Under job_lock: a job that has a task left gets it ...
ThreadNextTask ==
    /\ thread = "cleared" /\ writes = <<>>
    /\ in_flight # NULL /\ next_task_idx < task_count
    /\ rocket_job_hw_submit(in_flight, next_task_idx)
    /\ thread' = "idle"
    /\ UNCHANGED <<regs, raw, running, in_flight, woken, resetVars, foreign>>

\* ... and any other job in flight is complete.
ThreadSignal ==
    /\ thread = "cleared" /\ writes = <<>>
    /\ in_flight # NULL => next_task_idx >= task_count
    /\ in_flight' = NULL
    /\ thread' = "idle"
    /\ UNCHANGED <<regs, raw, running, next_task_idx, writes, woken, resetVars, foreign>>

\* rocket_job_timedout announces the reset, also for a job that has finished
\* and was not freed in time.
TimedOut ==
    /\ reset = "none"
    /\ reset' = "pending"
    /\ UNCHANGED <<regs, raw, running, in_flight, next_task_idx, writes, woken, thread,
                   foreign, late>>

\* rocket_reset, once drm_sched_stop has waited for the run worker: the
\* job_lock section takes the job out of flight.
ResetClear ==
    /\ reset = "pending" /\ writes = <<>>
    /\ in_flight' = NULL
    /\ reset' = "cleared"
    /\ UNCHANGED <<regs, raw, running, next_task_idx, writes, woken, thread, foreign,
                   late>>

\* rocket_core_reset puts the hardware back into its initial state; the
\* handler thread is neither waited for nor told.
CoreReset ==
    /\ reset = "cleared"
    /\ regs' = [r \in Registers |-> {}]
    /\ raw' = {}
    /\ running' = NULL
    /\ reset' = "none"
    /\ late' = (late \/ woken \/ thread # "idle")
    /\ UNCHANGED <<in_flight, next_task_idx, writes, woken, thread, foreign>>

Next ==
    \/ \E p \in Programs : Publish(p)
    \/ Write
    \/ \E b \in SideBits : HwUnit(b)
    \/ HwDone
    \/ IrqHandler
    \/ ThreadStop \/ ThreadClear \/ ThreadNextTask \/ ThreadSignal
    \/ TimedOut \/ ResetClear \/ CoreReset

Spec == Init /\ [][Next]_vars

\* The run worker inside its section, the interrupt, its thread and a reset that
\* has begun get to run.  Nothing is assumed of the hardware, of the timeout or
\* of user space.
Fairness ==
    /\ WF_vars(Write)
    /\ WF_vars(IrqHandler /\ raw \cap regs["INTERRUPT_MASK"] # {})
    /\ WF_vars(ThreadStop \/ ThreadClear \/ ThreadNextTask \/ ThreadSignal)
    /\ WF_vars(ResetClear \/ CoreReset)

LiveSpec == Spec /\ Fairness

-----------------------------------------------------------------------------
(* Properties.                                                              *)

\* Every variable stays in its range, every value written is a 32-bit word, and
\* the registers are written only for the job that is in flight.
TypeOK ==
    /\ regs \in [Registers -> SUBSET Bit]
    /\ raw \subseteq Bit
    /\ in_flight \in Programs \cup {NULL}
    /\ next_task_idx \in 0 .. task_count
    /\ writes # <<>> => in_flight # NULL
    /\ \A i \in DOMAIN writes : writes[i][2] \subseteq Bit
    /\ woken \in BOOLEAN
    /\ thread \in {"idle", "stopped", "cleared"}
    /\ reset \in {"none", "pending", "cleared"}

\* The registers can hold the job: its addresses are aligned and below 4 GB, and
\* its register commands and tasks are not too many.
Representable(p) ==
    /\ p.regcmd_addr \subseteq BASE_ADDRESS.PC_SOURCE_ADDR
    /\ p.task_base_addr \subseteq TASK_DMA_BASE_ADDR.DMA_BASE_ADDR
    /\ p.regcfg_amount + 4 <= 2 * 2^16
    /\ p.tn \subseteq TASK_CON.TASK_NUMBER

\* What a job asks for, independently of how the registers are packed: all its
\* register commands and four more, two to a unit, counted from zero.
Asked(p) ==
    [addr |-> {i - 4 : i \in p.regcmd_addr},
     direct |-> {},
     amount |-> Bits(CHOOSE a \in 0 .. p.regcfg_amount + 4 :
                        /\ 2 * (a + 1) >= p.regcfg_amount + 4
                        /\ 2 * a < p.regcfg_amount + 4),
     tasks |-> p.tn,
     pp |-> p.pp_en,
     clear |-> {0},
     dma |-> {i - 4 : i \in p.task_base_addr},
     pointer |-> {},
     executer |-> {},
     pingpong |-> {0}]

\* rocket_job.c 161-180: the hardware is started with exactly the job that is
\* in flight: no register is left from the job before or written too late, and
\* no value spills into another field, as long as the registers can hold the job,
\* no other device's interrupt was taken for the core's own and no handler thread
\* has outlived a reset; a job a reset took out of flight runs until the core is
\* reset.
StartedExact ==
    ~foreign /\ ~late /\ reset # "cleared" /\ running # NULL =>
        \E p \in Programs :
            /\ in_flight = p
            /\ Representable(p) => running.job = Asked(p)

\* The handler thread is about to report a job complete only when the hardware
\* has ended it, unless an interrupt of another device on the shared line was
\* taken for the core's own or a thread woken before a reset has outlived it.
CompletionAfterEnd ==
    ~foreign /\ ~late /\ thread = "cleared" /\ in_flight # NULL => running = NULL

\* A completion is never lost between the masking, the clearing and the next
\* submit: the end of a job is always reported, without a timeout.
CompletionDelivered ==
    (in_flight # NULL /\ writes = <<>> /\ running = NULL) ~> (in_flight = NULL)

=============================================================================
