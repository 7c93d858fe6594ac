--------------------------- MODULE HwSubmitProofs ---------------------------
(***************************************************************************)
(* Proofs about rocket_job_hw_submit: the range of tasks it selects        *)
(* (TaskRange), for every width of the numbers and any contents of the     *)
(* subcore slots, and the registers it writes and the interrupt that ends  *)
(* the job (RocketPc), for any jobs.                                       *)
(***************************************************************************)
EXTENDS TaskRange, RocketPc, TLAPS

-----------------------------------------------------------------------------
(* The range of tasks.                                                      *)

\* The inductive invariant: a queued job has tasks, and what a running core
\* was programmed with is what task_range computes.
RangeInv ==
    /\ RangeTypeOK
    /\ phase \in {"queued", "running"} => number > 0
    /\ phase = "running" => range = task_range(core_mask)

\* A number that fits a word is its own remainder.
LEMMA SmallMod ==
  ASSUME NEW w \in Nat \ {0}, NEW a \in Nat, a < w
  PROVE  a % w = a
  OBVIOUS

\* A word that is small enough keeps its value as an int.
LEMMA SmallInt ==
  ASSUME NEW x \in Nat, x < Word \div 2
  PROVE  to_int(x) = x
  BY DEF to_int

\* Any word becomes an int of the same width.
LEMMA ToIntType ==
  ASSUME NEW x \in 0 .. Word - 1
  PROVE  to_int(x) \in -Word .. Word - 1
  BY TaskRangeAssumption DEF to_int

\* A number below half a word is a word.
LEMMA HalfWord == ASSUME NEW x \in Nat, x < Word \div 2 PROVE x < Word
  BY TaskRangeAssumption

\* Three cores in use: the low three bits of the mask are set.
LEMMA ThreeCores == ASSUME NEW m \in Nat PROVE use_core_num(m) = 3 <=> m % 8 = 7
  BY DEF use_core_num

\* Each mask selects one of the five slots.
LEMMA SlotInRange == ASSUME NEW m \in Masks PROVE subcore_slot(m) \in SubcoreSlots
<1>1. NumCores \in 1 .. 3 /\ core_index(m) \in 0 .. 2
  BY TaskRangeAssumption DEF core_index
<1> QED
  BY <1>1 DEF subcore_slot, SubcoreSlots

\* A core is programmed with a pair of ints.
LEMMA RangeType ==
  ASSUME RangeTypeOK
  PROVE  task_range(core_mask) \in (-Word .. Word - 1) \X (-Word .. Word - 1)
<1>1. subcore_slot(core_mask) \in SubcoreSlots
  BY SlotInRange DEF RangeTypeOK
<1>2. subcore[subcore_slot(core_mask)] \in (0 .. Word - 1) \X (0 .. Word - 1)
  BY <1>1, TaskRangeAssumption DEF RangeTypeOK
<1>3. start \in 0 .. Word - 1 /\ number \in 0 .. Word - 1
  BY TaskRangeAssumption DEF RangeTypeOK
<1> DEFINE r == subcore[subcore_slot(core_mask)]
           t == IF escapes(r[1], r[2]) THEN <<start, number>> ELSE r
<1>4. t[1] \in 0 .. Word - 1 /\ t[2] \in 0 .. Word - 1
  BY <1>2, <1>3
<1>5. task_range(core_mask) = <<to_int(t[1]), to_int(t[2])>>
  BY DEF task_range
<1>6. to_int(t[1]) \in -Word .. Word - 1 /\ to_int(t[2]) \in -Word .. Word - 1
  BY <1>4, ToIntType
<1> QED
  BY <1>5, <1>6

\* The invariant is kept by every step.
LEMMA RangeInvStep == RangeInv /\ [RangeNext]_rangeVars => RangeInv'
<1> SUFFICES ASSUME RangeInv, [RangeNext]_rangeVars PROVE RangeInv'
  OBVIOUS
<1>0. number \in 0 .. Word - 1 /\ Word \in Nat
  BY TaskRangeAssumption DEF RangeInv, RangeTypeOK
<1>1. CASE SubmitNothing
  BY <1>1 DEF RangeInv, RangeTypeOK, SubmitNothing
<1>2. CASE Submit
  BY <1>0, <1>2 DEF RangeInv, RangeTypeOK, Submit
<1>3. CASE hw_submit
  <2>1. UNCHANGED <<core_mask, start, number, subcore, task_counter>>
    BY <1>3 DEF hw_submit
  <2>2. task_range(core_mask)' = task_range(core_mask)
    BY <2>1 DEF task_range, escapes
  <2>3. range' = task_range(core_mask) /\ phase = "queued" /\ phase' = "running"
    BY <1>3 DEF hw_submit
  <2>4. range' \in (-Word .. Word - 1) \X (-Word .. Word - 1)
    BY <2>3, RangeType DEF RangeInv
  <2> QED
    BY <2>1, <2>2, <2>3, <2>4 DEF RangeInv, RangeTypeOK
<1>4. CASE Complete
  BY <1>0, <1>4 DEF RangeInv, RangeTypeOK, Complete
<1>5. CASE UNCHANGED rangeVars
  BY <1>5 DEF RangeInv, RangeTypeOK, rangeVars, task_range, escapes
<1> QED
  BY <1>1, <1>2, <1>3, <1>4, <1>5 DEF RangeNext, Rest

\* The invariant holds in every reachable state.
THEOREM RangeInvariance == RangeSpec => []RangeInv
<1>1. RangeInit => RangeInv
  BY TaskRangeAssumption DEF RangeInit, RangeInv, RangeTypeOK
<1> QED
  BY <1>1, RangeInvStep, PTL DEF RangeSpec

\* Every variable of the selection stays in its range.
THEOREM RangeTypeCorrect == RangeSpec => []RangeTypeOK
<1>1. RangeInv => RangeTypeOK
  BY DEF RangeInv
<1> QED
  BY <1>1, RangeInvariance, PTL

\* Without a wrap, the modular comparison is the comparison of the ends.
LEMMA FitsIsNotEscapes ==
  ASSUME RangeTypeOK, NoWrap, NEW i \in SubcoreSlots
  PROVE  Fits(subcore[i]) <=> ~escapes(subcore[i][1], subcore[i][2])
<1>1. /\ Word \in Nat \ {0} /\ start \in Nat /\ number \in Nat
      /\ subcore[i][1] \in Nat /\ subcore[i][2] \in Nat
  BY TaskRangeAssumption DEF RangeTypeOK
<1>2. start + number < Word /\ subcore[i][1] + subcore[i][2] < Word
  BY DEF NoWrap
<1>3. /\ (start + number) % Word = start + number
      /\ (subcore[i][1] + subcore[i][2]) % Word = subcore[i][1] + subcore[i][2]
  <2>1. start + number \in Nat /\ subcore[i][1] + subcore[i][2] \in Nat
    BY <1>1
  <2> QED
    BY <1>1, <1>2, <2>1, SmallMod
<1> QED
  BY <1>1, <1>3 DEF Fits, escapes

\* Where the ends fit, a running core was programmed with its slot, or with the
\* job's range if the slot is no range of the job, and the ints are the words.
LEMMA RangeChosen ==
  ASSUME RangeInv, phase = "running", NoWrap, EndFitsInt
  PROVE  /\ subcore_slot(core_mask) \in SubcoreSlots
         /\ Fits(subcore[subcore_slot(core_mask)])
              => range = subcore[subcore_slot(core_mask)]
         /\ range[1] \in Nat /\ range[2] \in Nat
         /\ Fits(range)
<1> DEFINE s == subcore_slot(core_mask)
           r == subcore[s]
           t == IF Fits(r) THEN r ELSE <<start, number>>
<1>1. /\ start \in Nat /\ number \in Nat /\ number > 0 /\ core_mask \in Masks
      /\ subcore \in [SubcoreSlots -> SlotRanges]
  BY TaskRangeAssumption DEF RangeInv, RangeTypeOK
<1>2. s \in SubcoreSlots
  BY <1>1, SlotInRange
<1>3. r \in (0 .. Word - 1) \X (0 .. Word - 1)
  BY <1>1, <1>2, TaskRangeAssumption
<1>4. r = <<r[1], r[2]>> /\ r[1] \in Nat /\ r[2] \in Nat
  BY <1>3, TaskRangeAssumption
<1>5. Fits(r) <=> ~escapes(r[1], r[2])
  BY <1>2, FitsIsNotEscapes DEF RangeInv
<1>6. range = <<to_int(t[1]), to_int(t[2])>>
  BY <1>5 DEF RangeInv, task_range
<1>7. t = <<t[1], t[2]>> /\ t[1] \in Nat /\ t[2] \in Nat /\ Fits(t)
  BY <1>1, <1>4 DEF Fits
<1>8. t[1] < Word \div 2 /\ t[2] < Word \div 2
  <2>1. start + number < Word \div 2 /\ Word \div 2 \in Int
    BY TaskRangeAssumption DEF EndFitsInt
  <2> HIDE DEF t
  <2>2. t[1] + t[2] <= start + number
    BY <1>7 DEF Fits
  <2> QED
    BY <1>1, <1>7, <2>1, <2>2
<1>9. to_int(t[1]) = t[1] /\ to_int(t[2]) = t[2]
  BY <1>7, <1>8, SmallInt
<1>10. range = t
  BY <1>6, <1>7, <1>9
<1> QED
  BY <1>2, <1>7, <1>10

\* As long as no end wraps and the job's fits an int, a core never reads a task
\* outside the job's own range, whatever user space put in the subcore slots and
\* in the mask (rocket_job.c 149-159).
THEOREM RangeStaysInside == RangeSpec => []RangeInside
<1>1. RangeInv => RangeInside
  <2> SUFFICES ASSUME RangeInv, phase = "running", NoWrap, EndFitsInt
               PROVE  /\ range[2] > 0 /\ start <= first(range)
                      /\ first(range) <= last(range) /\ last(range) < start + number
    BY DEF RangeInside
  <2>1. /\ start \in Nat /\ number \in Nat /\ Word \in Nat \ {0}
        /\ range[1] \in Nat /\ range[2] \in Nat
    BY TaskRangeAssumption, RangeChosen DEF RangeInv, RangeTypeOK
  <2>2. range[2] > 0 /\ range[1] >= start /\ range[1] + range[2] <= start + number
    BY RangeChosen DEF Fits
  <2> DEFINE e == range[1] + range[2] - 1
  <2>3. e \in Nat /\ e < Word \div 2
    <3>1. start + number < Word \div 2 /\ Word \div 2 \in Int
      BY TaskRangeAssumption DEF EndFitsInt
    <3> QED
      BY <2>1, <2>2, <3>1
  <2>4. e % Word = e /\ to_int(e) = e
    <3> HIDE DEF e
    <3>1. e < Word
      BY <2>3, HalfWord
    <3> QED
      BY <2>1, <2>3, <3>1, SmallMod, SmallInt
  <2>5. last(range) = e /\ first(range) = range[1]
    BY <2>4 DEF last, first
  <2> QED
    BY <2>1, <2>2, <2>5
<1> QED
  BY <1>1, RangeInvariance, PTL

\* A slot that holds a range of the job is honoured as it stands.
THEOREM SlotHonoured == RangeSpec => []OwnSlot
<1>1. RangeInv => OwnSlot
  <2> SUFFICES ASSUME RangeInv, phase = "running", NoWrap, EndFitsInt PROVE OwnSlot
    BY DEF OwnSlot
  <2> DEFINE s == CASE core_mask = 2 /\ NumCores > 1 -> 1
                    [] core_mask = 4 /\ NumCores > 2 -> 2
                    [] core_mask % 8 = 7 -> 2
                    [] OTHER -> 0
  <2>1. core_mask \in Nat /\ NumCores \in 1 .. 3
    BY TaskRangeAssumption DEF RangeInv, RangeTypeOK
  <2>2. s = subcore_slot(core_mask)
    <3>1. use_core_num(core_mask) = 3 <=> core_mask % 8 = 7
      BY <2>1, ThreeCores
    <3>2. core_mask % 8 = 7 => core_mask # 2 /\ core_mask # 4
      BY <2>1
    <3> QED
      BY <2>1, <3>1, <3>2 DEF subcore_slot, core_index
  <2>3. Fits(subcore[s]) => range = subcore[s]
    BY <2>2, RangeChosen
  <2> QED
    BY <2>3 DEF OwnSlot
<1> QED
  BY <1>1, RangeInvariance, PTL

-----------------------------------------------------------------------------
(* Words and fields.                                                        *)

\* The powers of two, as an operator that is expanded only for numbers.
Power(i) == 2^i

\* Their values.
LEMMA PowerValues ==
  /\ Power(0) = 1 /\ Power(1) = 2 /\ Power(2) = 4 /\ Power(3) = 8 /\ Power(4) = 16 /\ Power(5) = 32
  /\ Power(6) = 64 /\ Power(7) = 128 /\ Power(8) = 256 /\ Power(9) = 512 /\ Power(10) = 1024
  /\ Power(11) = 2048 /\ Power(12) = 4096 /\ Power(13) = 8192 /\ Power(14) = 16384 /\ Power(15) = 32768
  /\ Power(16) = 65536 /\ Power(17) = 131072 /\ Power(18) = 262144 /\ Power(19) = 524288
  /\ Power(20) = 1048576 /\ Power(21) = 2097152 /\ Power(22) = 4194304 /\ Power(23) = 8388608
  /\ Power(24) = 16777216 /\ Power(25) = 33554432 /\ Power(26) = 67108864 /\ Power(27) = 134217728
  /\ Power(28) = 268435456 /\ Power(29) = 536870912 /\ Power(30) = 1073741824
  BY DEF Power

\* How large they are.
LEMMA Powers ==
  \A i \in 0 .. 30 : /\ Power(i) \in Nat \ {0}
                     /\ i >= 3 => Power(i) >= 8
                     /\ i >= 12 => Power(i) >= 4096
                     /\ i >= 16 => Power(i) >= 65536
  BY PowerValues

\* A number has no bits beyond its size.
LEMMA QuotientZero ==
  ASSUME NEW n \in Nat, NEW d \in Nat \ {0}, n < d PROVE n \div d = 0
  OBVIOUS

\* The same, for a bit of a word.
LEMMA HighBits ==
  ASSUME NEW n \in Nat, NEW i \in 0 .. 30, n < Power(i) PROVE i \notin Bits(n)
<1>1. n \div Power(i) = 0
  BY Powers, QuotientZero
<1>2. n \div 2^i = 0
  BY <1>1, Zenon DEF Power
<1>3. 0 % 2 # 1
  OBVIOUS
<1>4. (n \div 2^i) % 2 # 1
  BY <1>2, <1>3, Zenon
<1> QED
  BY <1>4, Zenon DEF Bits

\* Every bit of a word is one of its thirty-one.
LEMMA BitsRange == ASSUME NEW n PROVE Bits(n) \subseteq 0 .. 30
  BY Zenon DEF Bits

\* The numbers that fit TASK_NUMBER, twelve bits.
LEMMA Bits12 == ASSUME NEW n \in Nat, n < 4096 PROVE Bits(n) \subseteq 0 .. 11
<1> SUFFICES ASSUME NEW i \in 0 .. 30, i \notin 0 .. 11 PROVE i \notin Bits(n)
  BY BitsRange
<1>1. Power(i) \in Nat /\ n < Power(i)
  BY Powers
<1> QED
  BY <1>1, HighBits

\* And PC_DATA_AMOUNT, sixteen bits.
LEMMA Bits16 == ASSUME NEW n \in Nat, n < Power(16) PROVE Bits(n) \subseteq 0 .. 15
<1> SUFFICES ASSUME NEW i \in 0 .. 30, i \notin 0 .. 15 PROVE i \notin Bits(n)
  BY BitsRange
<1>0. Power(16) = 65536
  BY PowerValues
<1>1. Power(i) \in Nat /\ n < Power(i)
  BY <1>0, Powers
<1> QED
  BY <1>1, HighBits

\* 0x6, the constant of TASK_CON.
LEMMA BitsOfSix == Bits(6) = {1, 2}
<1>1. ASSUME NEW i \in 3 .. 30 PROVE i \notin Bits(6)
  <2>1. Power(i) \in Nat /\ 6 < Power(i)
    BY Powers
  <2> QED
    BY <2>1, HighBits
<1>2. 0 \notin Bits(6) /\ 1 \in Bits(6) /\ 2 \in Bits(6)
  <2>1. (6 \div 2^0) % 2 # 1 /\ (6 \div 2^1) % 2 = 1 /\ (6 \div 2^2) % 2 = 1
    OBVIOUS
  <2>2. 0 \in 0 .. 30 /\ 1 \in 0 .. 30 /\ 2 \in 0 .. 30
    OBVIOUS
  <2> QED
    BY <2>1, <2>2, Zenon DEF Bits
<1>3. \A i \in Bits(6) : i \in 0 .. 30
  BY BitsRange
<1> QED
  BY <1>1, <1>2, <1>3

\* Where a field starts.
LEMMA MinOfField ==
  /\ \A a \in Nat : Min({a}) = a
  /\ \A a, b \in Nat : a <= b => Min(a .. b) = a
<1>1. ASSUME NEW a \in Nat PROVE Min({a}) = a
  BY DEF Min
<1>2. ASSUME NEW a \in Nat, NEW b \in Nat, a <= b PROVE Min(a .. b) = a
  BY <1>2 DEF Min
<1> QED
  BY <1>1, <1>2

\* Of a field of one bit: what is put there, and what is read.
LEMMA OneBit ==
  ASSUME NEW a \in Bit, NEW w \in SUBSET Bit
  PROVE  /\ Put({0}, {a}) = {a}
         /\ Get(w, {a}) = IF a \in w THEN {0} ELSE {}
<1>1. Min({a}) = a
  BY MinOfField DEF Bit
<1>2. {i + a : i \in {0}} = {a}
  BY DEF Bit
<1>3. Put({0}, {a}) = {a}
  BY <1>1, <1>2 DEF Put, Shl
<1>4. {i - a : i \in {a}} = {0}
  BY DEF Bit
<1>5. CASE a \in w
  <2>1. w \cap {a} = {a}
    BY <1>5
  <2> QED
    BY <1>1, <1>3, <1>4, <1>5, <2>1 DEF Get
<1>6. CASE a \notin w
  <2>1. w \cap {a} = {}
    BY <1>6
  <2> QED
    BY <1>1, <1>3, <1>6, <2>1 DEF Get
<1> QED
  BY <1>5, <1>6

-----------------------------------------------------------------------------
(* What rocket_job_hw_submit packs into the registers, the hardware reads.  *)

\* The pointer registers: ping-pong on, the index of the core far above.
LEMMA SPointer ==
  ASSUME NEW w, w \in {s_pointer(CNA_S_POINTER), s_pointer(CORE_S_POINTER)}
  PROVE  w \subseteq Bit /\ 1 \in w /\ 0 \notin w /\ 16 \notin w
<1>1. Put({0}, {1}) = {1} /\ Put({0}, {2}) = {2} /\ Put({0}, {3}) = {3}
  BY OneBit DEF Bit
<1>2. w = ({1} \cup {2}) \cup {3} \cup Shl(extra_bit, 28)
  BY <1>1 DEF s_pointer, CNA_S_POINTER, CORE_S_POINTER
<1>3. extra_bit \subseteq 0 .. 30
  BY BitsRange DEF extra_bit
<1>4. Shl(extra_bit, 28) \subseteq 28 .. 31
  BY <1>3 DEF Shl, Bit
<1> QED
  BY <1>2, <1>4 DEF Bit

\* REGISTER_AMOUNTS: rounded up, in units of two, counted from zero.
LEMMA Amount ==
  ASSUME NEW n \in Nat, n + 4 <= 2 * Power(16)
  PROVE  /\ register_amounts(n) \in Nat /\ register_amounts(n) < Power(16)
         /\ register_amounts(n) = CHOOSE a \in 0 .. n + 4 : /\ 2 * (a + 1) >= n + 4
                                                            /\ 2 * a < n + 4
<1> DEFINE r == (n + 5) \div 2 - 1
           P(a) == 2 * (a + 1) >= n + 4 /\ 2 * a < n + 4
<1>1. register_amounts(n) = r
  BY DEF register_amounts
<1>2. r \in Nat /\ r < Power(16) /\ r \in 0 .. n + 4 /\ P(r)
  BY PowerValues
<1>3. ASSUME NEW a \in 0 .. n + 4, P(a) PROVE a = r
  BY <1>3
<1> HIDE DEF r, P
<1>4. r = CHOOSE a \in 0 .. n + 4 : P(a)
  <2>1. \E a \in 0 .. n + 4 : P(a)
    BY <1>2
  <2>2. LET c == CHOOSE a \in 0 .. n + 4 : P(a) IN c \in 0 .. n + 4 /\ P(c)
    BY <2>1, Zenon
  <2> QED
    BY <1>3, <2>2, Zenon
<1> QED
  BY <1>1, <1>2, <1>4, Zenon DEF P

\* TASK_CON: bit 12 is the job's ping-pong flag, bit 13 clears the counter.
LEMMA TaskCon ==
  ASSUME NEW pp \in SUBSET {0}, NEW tn \in SUBSET (0 .. 11)
  PROVE  /\ task_con(pp, tn) \subseteq Bit
         /\ task_con(pp, tn) \cap (0 .. 11) = tn
         /\ 12 \in task_con(pp, tn) <=> 0 \in pp
         /\ 13 \in task_con(pp, tn)
<1> DEFINE T == Shl({1, 2} \cup pp, 12)
<1>1. task_con(pp, tn) = T \cup tn
  BY BitsOfSix, Zenon DEF task_con
<1>2. \A k : k \in T <=> k = 13 \/ k = 14 \/ (k = 12 /\ 0 \in pp)
  BY DEF Shl, Bit
<1> HIDE DEF T
<1>3. T \cup tn \subseteq Bit
  <2>1. \A k \in T : k \in Bit
    BY <1>2 DEF Bit
  <2>2. \A k \in tn : k \in Bit
    BY DEF Bit
  <2> QED
    BY <2>1, <2>2, Zenon
<1>4. (T \cup tn) \cap (0 .. 11) = tn
  <2>1. \A k \in T : k \notin 0 .. 11
    BY <1>2
  <2> QED
    BY <2>1, Zenon
<1>5. (12 \in T \cup tn <=> 0 \in pp) /\ 13 \in T \cup tn
  BY <1>2
<1> QED
  BY <1>1, <1>3, <1>4, <1>5, Zenon

\* The registers hold job p.
Loaded(R, p) ==
    /\ R["BASE_ADDRESS"] = p.regcmd_addr \cap Bit
    /\ R["REGISTER_AMOUNTS"] = Bits(register_amounts(p.regcfg_amount))
    /\ R["TASK_CON"] = task_con(p.pp_en, p.tn)
    /\ R["TASK_DMA_BASE_ADDR"] = p.task_base_addr \cap Bit
    /\ R["CNA_S_POINTER"] = s_pointer(CNA_S_POINTER)
    /\ R["CORE_S_POINTER"] = s_pointer(CORE_S_POINTER)

\* An address that is aligned and below 4 GB is read as it was written.
LEMMA Address ==
  ASSUME NEW a \in SUBSET (4 .. 31)
  PROVE  /\ Get(a \cap Bit, 4 .. 31) = {i - 4 : i \in a}
         /\ 0 \notin a \cap Bit
<1>1. Min(4 .. 31) = 4
  <2>1. 4 \in Nat /\ 31 \in Nat /\ 4 <= 31
    OBVIOUS
  <2> QED
    BY <2>1, MinOfField, Zenon
<1>2. \A i \in a : i \in Bit /\ i \in 4 .. 31
  BY DEF Bit
<1>3. 0 \notin 4 .. 31
  OBVIOUS
<1>4. (a \cap Bit) \cap (4 .. 31) = a
  BY <1>2, Zenon
<1> QED
  BY <1>1, <1>2, <1>3, <1>4, Zenon DEF Get

\* A field at the low end of a register is read as it stands.
LEMMA LowField ==
  ASSUME NEW b \in Nat, NEW w \in SUBSET Nat
  PROVE  Get(w, 0 .. b) = w \cap (0 .. b)
<1>1. Min(0 .. b) = 0
  BY MinOfField
<1>2. \A i \in w \cap (0 .. b) : i - 0 = i
  OBVIOUS
<1>3. {i - 0 : i \in w \cap (0 .. b)} = w \cap (0 .. b)
  BY <1>2
<1> QED
  BY <1>1, <1>3 DEF Get

\* The job the hardware reads is the job that was asked for.
LEMMA Decoded ==
  ASSUME NEW p \in Programs, Representable(p), NEW R, Loaded(R, p)
  PROVE  Decode(R) = Asked(p)
<1>0. /\ p.regcmd_addr \in SUBSET (4 .. 31) /\ p.task_base_addr \in SUBSET (4 .. 31)
      /\ p.regcfg_amount \in Nat
      /\ p.tn \in SUBSET (0 .. 11) /\ p.pp_en \in SUBSET {0}
  BY ProgramsAssumption DEF Representable, BASE_ADDRESS, TASK_DMA_BASE_ADDR, TASK_CON
<1>1. /\ Get(R["BASE_ADDRESS"], BASE_ADDRESS.PC_SOURCE_ADDR) = {i - 4 : i \in p.regcmd_addr}
      /\ Get(R["BASE_ADDRESS"], BASE_ADDRESS.PC_SEL) = {}
  <2>1. /\ R["BASE_ADDRESS"] = p.regcmd_addr \cap Bit /\ BASE_ADDRESS.PC_SEL = {0}
        /\ BASE_ADDRESS.PC_SOURCE_ADDR = 4 .. 31
    BY DEF Loaded, BASE_ADDRESS
  <2>2. p.regcmd_addr \cap Bit \in SUBSET Bit /\ 0 \in Bit
    BY DEF Bit
  <2> QED
    BY <1>0, <2>1, <2>2, Address, OneBit
<1>2. Get(R["REGISTER_AMOUNTS"], REGISTER_AMOUNTS.PC_DATA_AMOUNT) = Asked(p).amount
  <2> DEFINE r == register_amounts(p.regcfg_amount)
  <2>0. p.regcfg_amount + 4 <= 2 * Power(16)
    BY Zenon DEF Representable, Power
  <2>1. /\ r \in Nat /\ r < Power(16)
        /\ r = CHOOSE a \in 0 .. p.regcfg_amount + 4 : /\ 2 * (a + 1) >= p.regcfg_amount + 4
                                                        /\ 2 * a < p.regcfg_amount + 4
    BY <1>0, <2>0, Amount, Zenon
  <2>2. Bits(r) = Asked(p).amount
    BY <2>1, Zenon DEF Asked
  <2>3. R["REGISTER_AMOUNTS"] = Bits(r) /\ REGISTER_AMOUNTS.PC_DATA_AMOUNT = 0 .. 15
    BY DEF Loaded, REGISTER_AMOUNTS
  <2>4. r \in Nat /\ r < Power(16)
    BY <2>1, Zenon
  <2> HIDE DEF r
  <2>5. Bits(r) \subseteq 0 .. 15
    BY <2>4, Bits16, Zenon
  <2>6. Bits(r) \in SUBSET Nat /\ 15 \in Nat
    BY <2>5
  <2>7. Get(Bits(r), 0 .. 15) = Bits(r) \cap (0 .. 15)
    BY <2>6, LowField, Zenon
  <2>8. Get(Bits(r), 0 .. 15) = Bits(r)
    BY <2>5, <2>7, Zenon
  <2> QED
    BY <2>2, <2>3, <2>8, Zenon
<1>3. /\ Get(R["TASK_CON"], TASK_CON.TASK_NUMBER) = p.tn
      /\ Get(R["TASK_CON"], TASK_CON.TASK_PP_EN) = p.pp_en
      /\ Get(R["TASK_CON"], TASK_CON.TASK_COUNT_CLEAR) = {0}
  <2> DEFINE w == task_con(p.pp_en, p.tn)
  <2>1. /\ w \in SUBSET Bit /\ w \cap (0 .. 11) = p.tn /\ 13 \in w
        /\ 12 \in w <=> 0 \in p.pp_en
    BY <1>0, TaskCon
  <2>2. /\ R["TASK_CON"] = w /\ TASK_CON.TASK_NUMBER = 0 .. 11
        /\ TASK_CON.TASK_PP_EN = {12} /\ TASK_CON.TASK_COUNT_CLEAR = {13}
    BY DEF Loaded, TASK_CON
  <2> HIDE DEF w
  <2>3. w \in SUBSET Nat /\ 12 \in Bit /\ 13 \in Bit
    BY <2>1 DEF Bit
  <2>4. /\ Get(w, 0 .. 11) = p.tn /\ Get(w, {13}) = {0}
        /\ Get(w, {12}) = IF 0 \in p.pp_en THEN {0} ELSE {}
    BY <2>1, <2>3, LowField, OneBit
  <2>5. p.pp_en = IF 0 \in p.pp_en THEN {0} ELSE {}
    BY <1>0
  <2> QED
    BY <2>2, <2>4, <2>5
<1>4. Get(R["TASK_DMA_BASE_ADDR"], TASK_DMA_BASE_ADDR.DMA_BASE_ADDR)
        = {i - 4 : i \in p.task_base_addr}
  BY <1>0, Address DEF Loaded, TASK_DMA_BASE_ADDR
<1>5. ASSUME NEW w, w \in {R["CNA_S_POINTER"], R["CORE_S_POINTER"]}
      PROVE  Get(w, {0}) = {} /\ Get(w, {16}) = {} /\ Get(w, {1}) = {0}
  <2>1. w \in SUBSET Bit /\ 1 \in w /\ 0 \notin w /\ 16 \notin w
    BY <1>5, SPointer DEF Loaded
  <2>2. 0 \in Bit /\ 1 \in Bit /\ 16 \in Bit
    BY DEF Bit
  <2> QED
    BY <2>1, <2>2, OneBit
<1>6. /\ CNA_S_POINTER.POINTER = {0} /\ CORE_S_POINTER.POINTER = {0}
      /\ CNA_S_POINTER.EXECUTER = {16} /\ CORE_S_POINTER.EXECUTER = {16}
      /\ CNA_S_POINTER.POINTER_PP_EN = {1} /\ CORE_S_POINTER.POINTER_PP_EN = {1}
  BY DEF CNA_S_POINTER, CORE_S_POINTER
<1> QED
  BY <1>1, <1>2, <1>3, <1>4, <1>5, <1>6 DEF Decode, Asked

-----------------------------------------------------------------------------
(* The inductive invariant of RocketPc.                                     *)

\* A register write: the register and a word.
RegisterWrite == (Registers \cup {"INTERRUPT_CLEAR"}) \X (SUBSET Bit)

\* The variables are in their ranges, and so are the bits a job will set.
WordInv ==
    /\ regs \in [Registers -> SUBSET Bit]
    /\ raw \in SUBSET Bit
    /\ in_flight \in Programs \cup {NULL}
    /\ woken \in BOOLEAN
    /\ thread \in {"idle", "stopped", "cleared"}
    /\ foreign \in BOOLEAN
    /\ running # NULL => running.ends \in SUBSET Bit

\* A job in flight that was not started waits for a reset, and a reset that has
\* begun leaves no job in flight.
PhaseInv ==
    /\ next_task_idx \in {0, 1}
    /\ reset \in {"none", "pending", "cleared"} /\ late \in BOOLEAN
    /\ reset = "cleared" => in_flight = NULL /\ writes = <<>>
    /\ in_flight # NULL /\ next_task_idx = 0 => reset = "pending" /\ writes = <<>>

\* What is still to be written are the last of the writes of the job in flight.
WritesInv ==
    /\ writes \in Seq(RegisterWrite)
    /\ Len(writes) \in 0 .. 11
    /\ Len(writes) > 0 => in_flight # NULL
    /\ \A i \in 1 .. Len(writes) :
          writes[i] = register_writes(in_flight)[(11 - Len(writes)) + i]

\* What has been written is in the registers, except that the hard handler may
\* have masked the interrupt since.
LoadInv ==
    in_flight # NULL /\ next_task_idx = 1 =>
        /\ Len(writes) <= 9 => regs["CNA_S_POINTER"] = s_pointer(CNA_S_POINTER)
        /\ Len(writes) <= 8 => regs["CORE_S_POINTER"] = s_pointer(CORE_S_POINTER)
        /\ Len(writes) <= 7 => regs["BASE_ADDRESS"] = in_flight.regcmd_addr \cap Bit
        /\ Len(writes) <= 6 => regs["REGISTER_AMOUNTS"]
                                 = Bits(register_amounts(in_flight.regcfg_amount))
        /\ Len(writes) <= 5 => regs["INTERRUPT_MASK"] \in {in_flight.last_int_mask, {}}
        /\ Len(writes) <= 3 => regs["TASK_CON"] = task_con(in_flight.pp_en, in_flight.tn)
        /\ Len(writes) <= 2 => regs["TASK_DMA_BASE_ADDR"] = in_flight.task_base_addr \cap Bit

\* The hardware runs the job in flight, whose interrupt is still to come.
RunInv ==
    running # NULL =>
        /\ in_flight # NULL /\ Len(writes) <= 1
        /\ ~woken /\ thread = "idle"
        /\ raw \subseteq SideBits
        /\ running.ends = in_flight.last_int_mask
        /\ Representable(in_flight) => running.job = Asked(in_flight)

\* The handlers are at work only when the hardware has ended the job in flight.
HandlerInv ==
    /\ woken \/ thread # "idle" =>
          /\ running = NULL
          /\ in_flight # NULL /\ next_task_idx = 1 /\ Len(writes) <= 1
          /\ regs["INTERRUPT_MASK"] = {}
    /\ woken => thread = "idle"
    /\ thread = "cleared" => raw = {}

\* Between a completion and the next start nothing is pending.
QuietInv ==
    in_flight = NULL \/ next_task_idx = 0 \/ Len(writes) >= 2 => raw = {} /\ running = NULL

\* No interrupt of another device was taken for the core's, no handler thread has
\* outlived a reset, and no job is running that a reset has given up.
Regular == ~foreign /\ ~late /\ reset # "cleared"

\* The inductive invariant: what has been written is in the registers always,
\* the rest while nothing irregular has happened.
PcInv ==
    /\ WordInv /\ PhaseInv /\ WritesInv /\ LoadInv
    /\ Regular => RunInv /\ HandlerInv /\ QuietInv

\* The fields of a job are words.
LEMMA Fields ==
  ASSUME NEW p \in Programs
  PROVE  /\ p.regcmd_addr \cap Bit \in SUBSET Bit /\ p.task_base_addr \cap Bit \in SUBSET Bit
         /\ p.first_int_mask \in SUBSET Bit /\ p.last_int_mask \in SUBSET Bit
         /\ p.pp_en \in SUBSET {0} /\ p.tn \in SUBSET Bit /\ p # NULL
  BY ProgramsAssumption

\* The words hw_submit puts together are words.
LEMMA PackedWords ==
  ASSUME NEW p \in Programs
  PROVE  /\ s_pointer(CNA_S_POINTER) \in SUBSET Bit /\ s_pointer(CORE_S_POINTER) \in SUBSET Bit
         /\ Bits(register_amounts(p.regcfg_amount)) \in SUBSET Bit
         /\ task_con(p.pp_en, p.tn) \in SUBSET Bit
         /\ {0} \in SUBSET Bit
<1>1. s_pointer(CNA_S_POINTER) \in SUBSET Bit /\ s_pointer(CORE_S_POINTER) \in SUBSET Bit
  BY SPointer
<1>2. 0 .. 30 \subseteq Bit /\ 0 \in Bit
  BY DEF Bit
<1>3. Bits(register_amounts(p.regcfg_amount)) \in SUBSET Bit
  BY <1>2, BitsRange
<1>4. task_con(p.pp_en, p.tn) \in SUBSET Bit
  BY Fields, Zenon DEF task_con, Shl
<1> QED
  BY <1>1, <1>2, <1>3, <1>4, Zenon

\* There are eleven writes, each of a word.
LEMMA ElevenWrites ==
  ASSUME NEW p \in Programs
  PROVE  register_writes(p) \in Seq(RegisterWrite) /\ Len(register_writes(p)) = 11
<1> DEFINE ca == s_pointer(CNA_S_POINTER)
           co == s_pointer(CORE_S_POINTER)
           ba == p.regcmd_addr \cap Bit
           am == Bits(register_amounts(p.regcfg_amount))
           tc == task_con(p.pp_en, p.tn)
           da == p.task_base_addr \cap Bit
<1>1. /\ ca \in SUBSET Bit /\ co \in SUBSET Bit /\ ba \in SUBSET Bit /\ am \in SUBSET Bit
      /\ tc \in SUBSET Bit /\ da \in SUBSET Bit /\ {0} \in SUBSET Bit /\ {} \in SUBSET Bit
      /\ p.first_int_mask \in SUBSET Bit /\ p.last_int_mask \in SUBSET Bit
  BY Fields, PackedWords, Zenon
<1>2. register_writes(p) =
        << <<"BASE_ADDRESS", {0}>>, <<"CNA_S_POINTER", ca>>, <<"CORE_S_POINTER", co>>,
           <<"BASE_ADDRESS", ba>>, <<"REGISTER_AMOUNTS", am>>,
           <<"INTERRUPT_MASK", p.last_int_mask>>, <<"INTERRUPT_CLEAR", p.first_int_mask>>,
           <<"TASK_CON", tc>>, <<"TASK_DMA_BASE_ADDR", da>>,
           <<"OPERATION_ENABLE", {0}>>, <<"OPERATION_ENABLE", {}>> >>
  BY Zenon DEF register_writes
<1> HIDE DEF ca, co, ba, am, tc, da
<1>3. /\ <<"BASE_ADDRESS", {0}>> \in RegisterWrite /\ <<"CNA_S_POINTER", ca>> \in RegisterWrite
      /\ <<"CORE_S_POINTER", co>> \in RegisterWrite /\ <<"BASE_ADDRESS", ba>> \in RegisterWrite
      /\ <<"REGISTER_AMOUNTS", am>> \in RegisterWrite
      /\ <<"INTERRUPT_MASK", p.last_int_mask>> \in RegisterWrite
      /\ <<"INTERRUPT_CLEAR", p.first_int_mask>> \in RegisterWrite
      /\ <<"TASK_CON", tc>> \in RegisterWrite /\ <<"TASK_DMA_BASE_ADDR", da>> \in RegisterWrite
      /\ <<"OPERATION_ENABLE", {0}>> \in RegisterWrite
      /\ <<"OPERATION_ENABLE", {}>> \in RegisterWrite
  BY <1>1 DEF RegisterWrite, Registers
<1> QED
  BY <1>2, <1>3

\* The write that is next, by the number of writes left.
LEMMA NextWrite ==
  ASSUME WritesInv, writes # <<>>
  PROVE  /\ Len(writes) \in 1 .. 11 /\ in_flight # NULL
         /\ Head(writes) = register_writes(in_flight)[12 - Len(writes)]
         /\ Head(writes) \in RegisterWrite
         /\ Tail(writes) \in Seq(RegisterWrite) /\ Len(Tail(writes)) = Len(writes) - 1
         /\ \A i \in 1 .. Len(Tail(writes)) : Tail(writes)[i] = writes[i + 1]
<1>1. /\ writes \in Seq(RegisterWrite) /\ Len(writes) \in 0 .. 11
      /\ Len(writes) > 0 => in_flight # NULL
      /\ \A i \in 1 .. Len(writes) :
            writes[i] = register_writes(in_flight)[(11 - Len(writes)) + i]
  BY Zenon DEF WritesInv
<1>2. Len(writes) \in 1 .. 11
  BY <1>1
<1>3. Head(writes) = writes[1] /\ Head(writes) \in RegisterWrite
  BY <1>1, <1>2
<1>4. writes[1] = register_writes(in_flight)[(11 - Len(writes)) + 1]
  BY <1>1, <1>2
<1>5. (11 - Len(writes)) + 1 = 12 - Len(writes)
  BY <1>2
<1>6. /\ Tail(writes) \in Seq(RegisterWrite) /\ Len(Tail(writes)) = Len(writes) - 1
      /\ \A i \in 1 .. Len(Tail(writes)) : Tail(writes)[i] = writes[i + 1]
  BY <1>1, <1>2
<1>7. in_flight # NULL
  BY <1>1, <1>2
<1> QED
  BY <1>2, <1>3, <1>4, <1>5, <1>6, <1>7, Zenon

\* The registers and the words, in their order.
LEMMA Order ==
  ASSUME NEW p, NEW n \in 1 .. 11, NEW h, h = register_writes(p)[12 - n]
  PROVE  /\ n = 11 => h = <<"BASE_ADDRESS", {0}>>
         /\ n = 10 => h = <<"CNA_S_POINTER", s_pointer(CNA_S_POINTER)>>
         /\ n = 9 => h = <<"CORE_S_POINTER", s_pointer(CORE_S_POINTER)>>
         /\ n = 8 => h = <<"BASE_ADDRESS", p.regcmd_addr \cap Bit>>
         /\ n = 7 => h = <<"REGISTER_AMOUNTS", Bits(register_amounts(p.regcfg_amount))>>
         /\ n = 6 => h = <<"INTERRUPT_MASK", p.last_int_mask>>
         /\ n = 5 => h = <<"INTERRUPT_CLEAR", p.first_int_mask>>
         /\ n = 4 => h = <<"TASK_CON", task_con(p.pp_en, p.tn)>>
         /\ n = 3 => h = <<"TASK_DMA_BASE_ADDR", p.task_base_addr \cap Bit>>
         /\ n = 2 => h = <<"OPERATION_ENABLE", {0}>>
         /\ n = 1 => h = <<"OPERATION_ENABLE", {}>>
<1> DEFINE ca == s_pointer(CNA_S_POINTER)
           co == s_pointer(CORE_S_POINTER)
           ba == p.regcmd_addr \cap Bit
           am == Bits(register_amounts(p.regcfg_amount))
           tc == task_con(p.pp_en, p.tn)
           da == p.task_base_addr \cap Bit
<1>1. register_writes(p) =
        << <<"BASE_ADDRESS", {0}>>, <<"CNA_S_POINTER", ca>>, <<"CORE_S_POINTER", co>>,
           <<"BASE_ADDRESS", ba>>, <<"REGISTER_AMOUNTS", am>>,
           <<"INTERRUPT_MASK", p.last_int_mask>>, <<"INTERRUPT_CLEAR", p.first_int_mask>>,
           <<"TASK_CON", tc>>, <<"TASK_DMA_BASE_ADDR", da>>,
           <<"OPERATION_ENABLE", {0}>>, <<"OPERATION_ENABLE", {}>> >>
  BY Zenon DEF register_writes
<1> HIDE DEF ca, co, ba, am, tc, da
<1>2. /\ n = 11 => h = <<"BASE_ADDRESS", {0}>>
      /\ n = 10 => h = <<"CNA_S_POINTER", ca>>
      /\ n = 9 => h = <<"CORE_S_POINTER", co>>
      /\ n = 8 => h = <<"BASE_ADDRESS", ba>>
      /\ n = 7 => h = <<"REGISTER_AMOUNTS", am>>
      /\ n = 6 => h = <<"INTERRUPT_MASK", p.last_int_mask>>
      /\ n = 5 => h = <<"INTERRUPT_CLEAR", p.first_int_mask>>
      /\ n = 4 => h = <<"TASK_CON", tc>>
      /\ n = 3 => h = <<"TASK_DMA_BASE_ADDR", da>>
      /\ n = 2 => h = <<"OPERATION_ENABLE", {0}>>
      /\ n = 1 => h = <<"OPERATION_ENABLE", {}>>
  BY <1>1
<1> QED
  BY <1>2, Zenon DEF ca, co, ba, am, tc, da

\* What one register write changes.
LEMMA Written ==
  ASSUME WordInv, WritesInv, Write
  PROVE  /\ Len(writes) \in 1 .. 11 /\ in_flight \in Programs /\ in_flight # NULL
         /\ Len(writes') = Len(writes) - 1
         /\ regs' \in [Registers -> SUBSET Bit]
         /\ \A r \in Registers :
               regs'[r] = IF r = Head(writes)[1] THEN Head(writes)[2] ELSE regs[r]
         /\ raw' \in SUBSET Bit /\ (raw = {} => raw' = {}) /\ raw' \subseteq raw
         /\ Head(writes)[1] # "INTERRUPT_CLEAR" => raw' = raw
         /\ running' = IF Len(writes) = 2
                       THEN [job |-> Decode(regs), ends |-> in_flight.last_int_mask]
                       ELSE running
<1>0. /\ writes # <<>> /\ writes' = Tail(writes)
      /\ raw' = IF Head(writes)[1] = "INTERRUPT_CLEAR" THEN raw \ Head(writes)[2] ELSE raw
      /\ regs' = IF Head(writes)[1] \in Registers
                 THEN [regs EXCEPT ![Head(writes)[1]] = Head(writes)[2]] ELSE regs
      /\ running' = IF Head(writes)[1] = "OPERATION_ENABLE" /\ Head(writes)[2] = {0}
                    THEN [job |-> Decode(regs), ends |-> in_flight.last_int_mask]
                    ELSE running
  BY Zenon DEF Write
<1>1. /\ Len(writes) \in 1 .. 11 /\ in_flight # NULL
      /\ Head(writes) = register_writes(in_flight)[12 - Len(writes)]
      /\ Head(writes) \in RegisterWrite /\ Len(Tail(writes)) = Len(writes) - 1
  BY <1>0, NextWrite, Zenon
<1>2. in_flight \in Programs
  BY <1>1, Zenon DEF WordInv
<1>3. regs \in [Registers -> SUBSET Bit] /\ raw \in SUBSET Bit
  BY Zenon DEF WordInv
<1>4. Head(writes)[2] \in SUBSET Bit
  BY <1>1 DEF RegisterWrite
<1>5. /\ regs' \in [Registers -> SUBSET Bit]
      /\ \A r \in Registers :
            regs'[r] = IF r = Head(writes)[1] THEN Head(writes)[2] ELSE regs[r]
  BY <1>0, <1>3, <1>4
<1>6. /\ raw' \in SUBSET Bit /\ (raw = {} => raw' = {}) /\ raw' \subseteq raw
      /\ Head(writes)[1] # "INTERRUPT_CLEAR" => raw' = raw
  BY <1>0, <1>3
<1>7. (Head(writes)[1] = "OPERATION_ENABLE" /\ Head(writes)[2] = {0}) <=> Len(writes) = 2
  <2> DEFINE h == Head(writes)
             n == Len(writes)
  <2>1. /\ n = 11 => h = <<"BASE_ADDRESS", {0}>>
        /\ n = 10 => h = <<"CNA_S_POINTER", s_pointer(CNA_S_POINTER)>>
        /\ n = 9 => h = <<"CORE_S_POINTER", s_pointer(CORE_S_POINTER)>>
        /\ n = 8 => h = <<"BASE_ADDRESS", in_flight.regcmd_addr \cap Bit>>
        /\ n = 7 => h = <<"REGISTER_AMOUNTS", Bits(register_amounts(in_flight.regcfg_amount))>>
        /\ n = 6 => h = <<"INTERRUPT_MASK", in_flight.last_int_mask>>
        /\ n = 5 => h = <<"INTERRUPT_CLEAR", in_flight.first_int_mask>>
        /\ n = 4 => h = <<"TASK_CON", task_con(in_flight.pp_en, in_flight.tn)>>
        /\ n = 3 => h = <<"TASK_DMA_BASE_ADDR", in_flight.task_base_addr \cap Bit>>
        /\ n = 2 => h = <<"OPERATION_ENABLE", {0}>>
        /\ n = 1 => h = <<"OPERATION_ENABLE", {}>>
    BY <1>1, Order, Zenon
  <2>2. n \in 1 .. 11
    BY <1>1
  <2>3. {0} # {}
    OBVIOUS
  <2> HIDE DEF h, n
  <2>4. (h[1] = "OPERATION_ENABLE" /\ h[2] = {0}) <=> n = 2
    BY <2>1, <2>2, <2>3
  <2> QED
    BY <2>4 DEF h, n
<1>8. running' = IF Len(writes) = 2
                 THEN [job |-> Decode(regs), ends |-> in_flight.last_int_mask]
                 ELSE running
  BY <1>0, <1>7, Zenon
<1>9. Len(writes') = Len(writes) - 1
  BY <1>0, <1>1, Zenon
<1> QED
  BY <1>1, <1>2, <1>5, <1>6, <1>8, <1>9, Zenon

\* After it the writes left are still the last ones of the job.
LEMMA WriteLeft ==
  ASSUME WritesInv, Write PROVE WritesInv'
<1>0. writes # <<>> /\ writes' = Tail(writes) /\ in_flight' = in_flight
  BY Zenon DEF Write
<1>1. /\ Len(writes) \in 1 .. 11 /\ in_flight # NULL
      /\ Tail(writes) \in Seq(RegisterWrite) /\ Len(Tail(writes)) = Len(writes) - 1
      /\ \A i \in 1 .. Len(Tail(writes)) : Tail(writes)[i] = writes[i + 1]
  BY <1>0, NextWrite, Zenon
<1>2. \A i \in 1 .. Len(writes) : writes[i] = register_writes(in_flight)[(11 - Len(writes)) + i]
  BY Zenon DEF WritesInv
<1>3. ASSUME NEW i \in 1 .. Len(Tail(writes))
      PROVE  Tail(writes)[i] = register_writes(in_flight)[(11 - Len(Tail(writes))) + i]
  <2>1. i + 1 \in 1 .. Len(writes)
    BY <1>1
  <2>2. (11 - Len(writes)) + (i + 1) = (11 - Len(Tail(writes))) + i
    BY <1>1
  <2>3. writes[i + 1] = register_writes(in_flight)[(11 - Len(writes)) + (i + 1)]
    BY <1>2, <2>1, Zenon
  <2> QED
    BY <1>1, <2>2, <2>3, Zenon
<1>4. Len(Tail(writes)) \in 0 .. 11
  <2>1. Len(writes) \in 1 .. 11
    BY <1>1, Zenon
  <2>2. Len(writes) - 1 \in 0 .. 11
    BY <2>1
  <2> QED
    BY <1>1, <2>2, Zenon
<1> QED
  BY <1>0, <1>1, <1>3, <1>4, Zenon DEF WritesInv

\* And what has been written is in the registers: each of them is written for
\* the last time where LoadInv says, and by no write after that.
LEMMA WriteLoads ==
  ASSUME WordInv, PhaseInv, WritesInv, LoadInv, Write PROVE LoadInv'
<1> DEFINE h == Head(writes)
           n == Len(writes)
           ca == s_pointer(CNA_S_POINTER)
           co == s_pointer(CORE_S_POINTER)
           ba == in_flight.regcmd_addr \cap Bit
           am == Bits(register_amounts(in_flight.regcfg_amount))
           la == in_flight.last_int_mask
           fi == in_flight.first_int_mask
           tc == task_con(in_flight.pp_en, in_flight.tn)
           da == in_flight.task_base_addr \cap Bit
<1>1. /\ n \in 1 .. 11 /\ in_flight \in Programs /\ in_flight # NULL /\ Len(writes') = n - 1
      /\ \A r \in Registers : regs'[r] = IF r = h[1] THEN h[2] ELSE regs[r]
  BY Written, Zenon
<1>2. in_flight' = in_flight /\ writes # <<>> /\ next_task_idx' = next_task_idx
  BY Zenon DEF Write
<1>2a. next_task_idx = 1
  BY <1>1, <1>2, Zenon DEF PhaseInv
<1>3. h = register_writes(in_flight)[12 - n]
  BY <1>2, NextWrite, Zenon
<1>4. /\ n = 11 => h = <<"BASE_ADDRESS", {0}>>
      /\ n = 10 => h = <<"CNA_S_POINTER", ca>>
      /\ n = 9 => h = <<"CORE_S_POINTER", co>>
      /\ n = 8 => h = <<"BASE_ADDRESS", ba>>
      /\ n = 7 => h = <<"REGISTER_AMOUNTS", am>>
      /\ n = 6 => h = <<"INTERRUPT_MASK", la>>
      /\ n = 5 => h = <<"INTERRUPT_CLEAR", fi>>
      /\ n = 4 => h = <<"TASK_CON", tc>>
      /\ n = 3 => h = <<"TASK_DMA_BASE_ADDR", da>>
      /\ n = 2 => h = <<"OPERATION_ENABLE", {0}>>
      /\ n = 1 => h = <<"OPERATION_ENABLE", {}>>
  BY <1>1, <1>3, Order, Zenon
<1>5. /\ n <= 9 => regs["CNA_S_POINTER"] = ca
      /\ n <= 8 => regs["CORE_S_POINTER"] = co
      /\ n <= 7 => regs["BASE_ADDRESS"] = ba
      /\ n <= 6 => regs["REGISTER_AMOUNTS"] = am
      /\ n <= 5 => regs["INTERRUPT_MASK"] \in {la, {}}
      /\ n <= 3 => regs["TASK_CON"] = tc
      /\ n <= 2 => regs["TASK_DMA_BASE_ADDR"] = da
  BY <1>1, <1>2a, Zenon DEF LoadInv
<1> SUFFICES /\ n - 1 <= 9 => regs'["CNA_S_POINTER"] = ca
             /\ n - 1 <= 8 => regs'["CORE_S_POINTER"] = co
             /\ n - 1 <= 7 => regs'["BASE_ADDRESS"] = ba
             /\ n - 1 <= 6 => regs'["REGISTER_AMOUNTS"] = am
             /\ n - 1 <= 5 => regs'["INTERRUPT_MASK"] \in {la, {}}
             /\ n - 1 <= 3 => regs'["TASK_CON"] = tc
             /\ n - 1 <= 2 => regs'["TASK_DMA_BASE_ADDR"] = da
  BY <1>1, <1>2, Zenon DEF LoadInv
<1> HIDE DEF h, n, ca, co, ba, am, la, fi, tc, da
<1>6. n - 1 <= 9 => regs'["CNA_S_POINTER"] = ca
  BY <1>1, <1>4, <1>5 DEF Registers
<1>7. n - 1 <= 8 => regs'["CORE_S_POINTER"] = co
  BY <1>1, <1>4, <1>5 DEF Registers
<1>8. n - 1 <= 7 => regs'["BASE_ADDRESS"] = ba
  BY <1>1, <1>4, <1>5 DEF Registers
<1>9. n - 1 <= 6 => regs'["REGISTER_AMOUNTS"] = am
  BY <1>1, <1>4, <1>5 DEF Registers
<1>10. n - 1 <= 5 => regs'["INTERRUPT_MASK"] \in {la, {}}
  BY <1>1, <1>4, <1>5 DEF Registers
<1>11. n - 1 <= 3 => regs'["TASK_CON"] = tc
  BY <1>1, <1>4, <1>5 DEF Registers
<1>12. n - 1 <= 2 => regs'["TASK_DMA_BASE_ADDR"] = da
  BY <1>1, <1>4, <1>5 DEF Registers
<1> QED
  BY <1>6, <1>7, <1>8, <1>9, <1>10, <1>11, <1>12, Zenon

\* A register write keeps the invariant; the one that starts the hardware finds
\* the job in the registers.
LEMMA WriteKeeps ==
  ASSUME PcInv, Write PROVE PcInv'
<1>0. /\ WordInv /\ PhaseInv /\ WritesInv /\ LoadInv
      /\ Regular => RunInv /\ HandlerInv /\ QuietInv
  BY Zenon DEF PcInv
<1>1. /\ in_flight' = in_flight /\ woken' = woken /\ thread' = thread /\ foreign' = foreign
      /\ next_task_idx' = next_task_idx /\ reset' = reset /\ late' = late /\ writes # <<>>
  BY Zenon DEF Write, resetVars
<1>1a. next_task_idx = 1 /\ reset # "cleared" /\ 1 # 0
  BY <1>0, <1>1, Written, Zenon DEF PhaseInv
<1>1b. PhaseInv'
  BY <1>0, <1>1, <1>1a, Zenon DEF PhaseInv
<1>2. /\ Len(writes) \in 1 .. 11 /\ in_flight \in Programs /\ in_flight # NULL
      /\ Len(writes') = Len(writes) - 1
      /\ regs' \in [Registers -> SUBSET Bit]
      /\ \A r \in Registers :
            regs'[r] = IF r = Head(writes)[1] THEN Head(writes)[2] ELSE regs[r]
      /\ raw' \in SUBSET Bit /\ (raw = {} => raw' = {}) /\ raw' \subseteq raw
      /\ Head(writes)[1] # "INTERRUPT_CLEAR" => raw' = raw
      /\ running' = IF Len(writes) = 2
                    THEN [job |-> Decode(regs), ends |-> in_flight.last_int_mask]
                    ELSE running
  BY <1>0, Written, Zenon
<1>3. WritesInv' /\ LoadInv'
  BY <1>0, WriteLeft, WriteLoads, Zenon
<1>4. WordInv'
  <2>1. in_flight.last_int_mask \in SUBSET Bit
    BY <1>2, Fields, Zenon
  <2>2. running' # NULL => running'.ends \in SUBSET Bit
    <3>1. CASE Len(writes) = 2
      BY <1>2, <2>1, <3>1
    <3>2. CASE Len(writes) # 2
      BY <1>0, <1>2, <3>2, Zenon DEF WordInv
    <3> QED
      BY <3>1, <3>2, Zenon
  <2> QED
    BY <1>0, <1>1, <1>2, <2>2, Zenon DEF WordInv
<1>5. ASSUME Regular' PROVE (RunInv /\ HandlerInv /\ QuietInv)'
  <2>0. RunInv /\ HandlerInv /\ QuietInv
    BY <1>0, <1>1, <1>5, Zenon DEF Regular
  <2>1. CASE Len(writes) >= 3
    <3>1. /\ raw = {} /\ running = NULL /\ ~woken /\ thread = "idle"
      BY <1>2, <2>0, <2>1 DEF QuietInv, HandlerInv
    <3>2. running' = NULL /\ raw' = {} /\ ~woken' /\ thread' = "idle"
      BY <1>1, <1>2, <2>1, <3>1
    <3> QED
      BY <3>2 DEF RunInv, HandlerInv, QuietInv
  <2>2. CASE Len(writes) = 2
    <3>0. Len(writes) >= 2 /\ ~(Len(writes) <= 1)
      BY <2>2
    <3>1. /\ raw = {} /\ ~woken /\ thread = "idle"
      BY <2>0, <3>0, Zenon DEF QuietInv, HandlerInv
    <3>2. /\ raw' = {} /\ ~woken' /\ thread' = "idle" /\ Len(writes') = 1
      BY <1>1, <1>2, <2>2, <3>1
    <3>3. running' = [job |-> Decode(regs), ends |-> in_flight.last_int_mask]
      BY <1>2, <2>2, Zenon
    <3>4. running'.job = Decode(regs) /\ running'.ends = in_flight.last_int_mask
      BY <3>3
    <3>5. /\ Len(writes) <= 9 /\ Len(writes) <= 8 /\ Len(writes) <= 7 /\ Len(writes) <= 6
          /\ Len(writes) <= 3 /\ Len(writes) <= 2
      BY <2>2
    <3>6. Loaded(regs, in_flight)
      BY <1>0, <1>1a, <1>2, <3>5, Zenon DEF LoadInv, Loaded
    <3>7. Representable(in_flight) => running'.job = Asked(in_flight)
      BY <1>2, <3>4, <3>6, Decoded, Zenon
    <3>8. Len(writes') <= 1 /\ ~(Len(writes') >= 2)
      BY <3>2
    <3>9. in_flight' # NULL /\ next_task_idx' # 0
      BY <1>1, <1>1a, <1>2, Zenon
    <3>10. RunInv'
      BY <1>1, <3>2, <3>4, <3>7, <3>8, <3>9, Zenon DEF RunInv
    <3>11. HandlerInv'
      BY <3>2 DEF HandlerInv
    <3>12. QuietInv'
      BY <3>8, <3>9, Zenon DEF QuietInv
    <3> QED
      BY <3>10, <3>11, <3>12, Zenon
  <2>3. CASE Len(writes) = 1
    <3>1. Len(writes') <= 1 /\ ~(Len(writes') >= 2) /\ running' = running
      BY <1>2, <2>3
    <3>2. Head(writes) = <<"OPERATION_ENABLE", {}>>
      <4>1. writes # <<>>
        BY Zenon DEF Write
      <4>2. Head(writes) = register_writes(in_flight)[12 - Len(writes)]
        BY <1>0, <4>1, NextWrite, Zenon
      <4> QED
        BY <1>2, <2>3, <4>2, Order, Zenon
    <3>3. Head(writes)[1] = "OPERATION_ENABLE"
      BY <3>2
    <3>4. raw' = raw /\ regs'["INTERRUPT_MASK"] = regs["INTERRUPT_MASK"]
      BY <1>2, <3>3 DEF Registers
    <3>5. in_flight' # NULL /\ next_task_idx' # 0
      BY <1>1, <1>1a, <1>2, Zenon
    <3>6. RunInv'
      BY <1>1, <2>0, <3>1, <3>4, <3>5, Zenon DEF RunInv
    <3>7. HandlerInv'
      BY <1>1, <2>0, <3>1, <3>4, <3>5, Zenon DEF HandlerInv
    <3>8. QuietInv'
      BY <3>1, <3>5, Zenon DEF QuietInv
    <3> QED
      BY <3>6, <3>7, <3>8, Zenon
  <2> QED
    BY <1>2, <2>1, <2>2, <2>3
<1> QED
  BY <1>1, <1>1b, <1>3, <1>4, <1>5, Zenon DEF PcInv

\* Publishing a job keeps it: nothing is written yet, and nothing is pending.
LEMMA PublishKeeps ==
  ASSUME PcInv, NEW p \in Programs, Publish(p) PROVE PcInv'
<1>0. /\ WordInv /\ PhaseInv /\ WritesInv /\ LoadInv
      /\ Regular => RunInv /\ HandlerInv /\ QuietInv
  BY Zenon DEF PcInv
<1>1. /\ in_flight = NULL /\ in_flight' = p /\ writes = <<>> /\ reset # "cleared"
      /\ regs' = regs /\ raw' = raw /\ running' = running /\ woken' = woken
      /\ thread' = thread /\ foreign' = foreign /\ reset' = reset /\ late' = late
      /\ rocket_job_hw_submit(p, 0)
  BY Zenon DEF Publish, resetVars
<1>2. p # NULL /\ register_writes(p) \in Seq(RegisterWrite) /\ Len(register_writes(p)) = 11
  BY <1>1, Fields, ElevenWrites, Zenon
<1>3. \/ reset = "none" /\ next_task_idx' = 1 /\ writes' = register_writes(p)
      \/ reset = "pending" /\ next_task_idx' = 0 /\ writes' = <<>>
  <2>1. 0 + 1 = 1
    OBVIOUS
  <2> QED
    BY <1>0, <1>1, <2>1, Zenon DEF rocket_job_hw_submit, PhaseInv
<1>4. 1 # 0 /\ 0 \in {0, 1} /\ 1 \in {0, 1} /\ "none" # "cleared" /\ "pending" # "cleared"
  OBVIOUS
<1>5. WordInv'
  BY <1>0, <1>1, Zenon DEF WordInv
<1>6. PhaseInv'
  BY <1>0, <1>1, <1>3, <1>4, Zenon DEF PhaseInv
<1>7. WritesInv'
  <2>1. CASE writes' = register_writes(p)
    <3>1. \A i \in 1 .. 11 : (11 - 11) + i = i
      OBVIOUS
    <3>2. 11 \in 0 .. 11
      OBVIOUS
    <3> QED
      BY <1>1, <1>2, <2>1, <3>1, <3>2, Zenon DEF WritesInv
  <2>2. CASE writes' = <<>>
    <3>1. writes' \in Seq(RegisterWrite)
      BY <1>0, <1>1, <2>2, Zenon DEF WritesInv
    <3> QED
      BY <2>2, <3>1 DEF WritesInv
  <2> QED
    BY <1>3, <2>1, <2>2, Zenon
<1>8. LoadInv'
  <2>1. CASE next_task_idx' = 0
    BY <1>4, <2>1, Zenon DEF LoadInv
  <2>2. CASE next_task_idx' = 1 /\ writes' = register_writes(p)
    <3>1. Len(writes') = 11
      BY <1>2, <2>2, Zenon
    <3> QED
      BY <3>1 DEF LoadInv
  <2> QED
    BY <1>3, <2>1, <2>2, Zenon
<1>9. ASSUME Regular' PROVE (RunInv /\ HandlerInv /\ QuietInv)'
  <2>1. RunInv /\ HandlerInv /\ QuietInv
    BY <1>0, <1>1, <1>9, Zenon DEF Regular
  <2>2. raw = {} /\ running = NULL /\ ~woken /\ thread = "idle"
    BY <1>1, <2>1, Zenon DEF QuietInv, HandlerInv
  <2>3. raw' = {} /\ running' = NULL /\ ~woken' /\ thread' = "idle"
    BY <1>1, <2>2, Zenon
  <2> QED
    BY <2>3 DEF RunInv, HandlerInv, QuietInv
<1> QED
  BY <1>5, <1>6, <1>7, <1>8, <1>9, Zenon DEF PcInv

\* The bits that units of the hardware set on the way are not the job's end.
LEMMA HwUnitKeeps ==
  ASSUME PcInv, NEW b \in SideBits, HwUnit(b) PROVE PcInv'
<1>0. /\ WordInv /\ PhaseInv /\ WritesInv /\ LoadInv
      /\ Regular => RunInv /\ HandlerInv /\ QuietInv
  BY Zenon DEF PcInv
<1>1. /\ running # NULL /\ raw' = raw \cup {b}
      /\ regs' = regs /\ running' = running /\ in_flight' = in_flight /\ writes' = writes
      /\ woken' = woken /\ thread' = thread /\ foreign' = foreign
      /\ next_task_idx' = next_task_idx /\ reset' = reset /\ late' = late
  BY Zenon DEF HwUnit, resetVars
<1>p. PhaseInv'
  BY <1>0, <1>1, Zenon DEF PhaseInv
<1>2. WordInv'
  <2>1. b \in Bit
    BY SideBitsAssumption, Zenon
  <2>2. raw' \in SUBSET Bit
    BY <1>0, <1>1, <2>1, Zenon DEF WordInv
  <2> QED
    BY <1>0, <1>1, <2>2, Zenon DEF WordInv
<1>3. WritesInv' /\ LoadInv'
  BY <1>0, <1>1, Zenon DEF WritesInv, LoadInv
<1>4. ASSUME Regular' PROVE (RunInv /\ HandlerInv /\ QuietInv)'
  <2>1. RunInv /\ HandlerInv /\ QuietInv
    BY <1>0, <1>1, <1>4, Zenon DEF Regular
  <2>2. /\ in_flight # NULL /\ Len(writes) <= 1 /\ ~woken /\ thread = "idle"
        /\ raw' \subseteq SideBits
    BY <1>1, <2>1, Zenon DEF RunInv
  <2>3. ~(in_flight = NULL \/ next_task_idx = 0 \/ Len(writes) >= 2)
    BY <1>1, <2>1, Zenon DEF QuietInv
  <2>4. RunInv'
    BY <1>1, <2>1, <2>2, Zenon DEF RunInv
  <2>5. HandlerInv'
    BY <1>1, <2>2 DEF HandlerInv
  <2>6. QuietInv'
    BY <1>1, <2>3, Zenon DEF QuietInv
  <2> QED
    BY <2>4, <2>5, <2>6, Zenon
<1> QED
  BY <1>1, <1>2, <1>3, <1>4, <1>p, Zenon DEF PcInv

\* Nor does the end of the job break it: the handlers have yet to run.
LEMMA HwDoneKeeps ==
  ASSUME PcInv, HwDone PROVE PcInv'
<1>0. /\ WordInv /\ PhaseInv /\ WritesInv /\ LoadInv
      /\ Regular => RunInv /\ HandlerInv /\ QuietInv
  BY Zenon DEF PcInv
<1>1. /\ running # NULL /\ raw' = raw \cup running.ends /\ running' = NULL
      /\ regs' = regs /\ in_flight' = in_flight /\ writes' = writes
      /\ woken' = woken /\ thread' = thread /\ foreign' = foreign
      /\ next_task_idx' = next_task_idx /\ reset' = reset /\ late' = late
  BY Zenon DEF HwDone, resetVars
<1>p. PhaseInv'
  BY <1>0, <1>1, Zenon DEF PhaseInv
<1>2. WordInv'
  <2>1. raw' \in SUBSET Bit
    BY <1>0, <1>1, Zenon DEF WordInv
  <2> QED
    BY <1>0, <1>1, <2>1, Zenon DEF WordInv
<1>3. WritesInv' /\ LoadInv'
  BY <1>0, <1>1, Zenon DEF WritesInv, LoadInv
<1>4. ASSUME Regular' PROVE (RunInv /\ HandlerInv /\ QuietInv)'
  <2>1. RunInv /\ HandlerInv /\ QuietInv
    BY <1>0, <1>1, <1>4, Zenon DEF Regular
  <2>2. ~woken /\ thread = "idle"
    BY <1>1, <2>1, Zenon DEF RunInv
  <2>3. ~(in_flight = NULL \/ next_task_idx = 0 \/ Len(writes) >= 2)
    BY <1>1, <2>1, Zenon DEF QuietInv
  <2>4. RunInv'
    BY <1>1, Zenon DEF RunInv
  <2>5. HandlerInv'
    BY <1>1, <2>2 DEF HandlerInv
  <2>6. QuietInv'
    BY <1>1, <2>3, Zenon DEF QuietInv
  <2> QED
    BY <2>4, <2>5, <2>6, Zenon
<1> QED
  BY <1>1, <1>2, <1>3, <1>4, <1>p, Zenon DEF PcInv

\* The hard handler, when the interrupt is the core's own: only the end of the
\* job can have raised it.
LEMMA IrqHandlerKeeps ==
  ASSUME PcInv, IrqHandler PROVE PcInv'
<1>0. /\ WordInv /\ PhaseInv /\ WritesInv /\ LoadInv
      /\ Regular => RunInv /\ HandlerInv /\ QuietInv
  BY Zenon DEF PcInv
<1>1. /\ raw # {} /\ foreign' = (foreign \/ raw \cap regs["INTERRUPT_MASK"] = {})
      /\ regs' = [regs EXCEPT !["INTERRUPT_MASK"] = {}] /\ woken' = TRUE
      /\ raw' = raw /\ running' = running /\ in_flight' = in_flight /\ writes' = writes
      /\ thread' = thread
      /\ next_task_idx' = next_task_idx /\ reset' = reset /\ late' = late
  BY Zenon DEF IrqHandler, resetVars
<1>p. PhaseInv'
  BY <1>0, <1>1, Zenon DEF PhaseInv
<1>2. /\ regs' \in [Registers -> SUBSET Bit]
      /\ \A r \in Registers : regs'[r] = IF r = "INTERRUPT_MASK" THEN {} ELSE regs[r]
  BY <1>0, <1>1 DEF WordInv
<1>3. WordInv'
  <2>1. foreign' \in BOOLEAN /\ woken' \in BOOLEAN
    BY <1>1, Zenon
  <2> QED
    BY <1>0, <1>1, <1>2, <2>1, Zenon DEF WordInv
<1>4. WritesInv'
  BY <1>0, <1>1, Zenon DEF WritesInv
<1>5. LoadInv'
  <2>1. /\ regs'["CNA_S_POINTER"] = regs["CNA_S_POINTER"]
        /\ regs'["CORE_S_POINTER"] = regs["CORE_S_POINTER"]
        /\ regs'["BASE_ADDRESS"] = regs["BASE_ADDRESS"]
        /\ regs'["REGISTER_AMOUNTS"] = regs["REGISTER_AMOUNTS"]
        /\ regs'["INTERRUPT_MASK"] = {}
        /\ regs'["TASK_CON"] = regs["TASK_CON"]
        /\ regs'["TASK_DMA_BASE_ADDR"] = regs["TASK_DMA_BASE_ADDR"]
    BY <1>2 DEF Registers
  <2> QED
    BY <1>0, <1>1, <2>1, Zenon DEF LoadInv
<1>6. ASSUME Regular' PROVE (RunInv /\ HandlerInv /\ QuietInv)'
  <2>1. Regular /\ raw \cap regs["INTERRUPT_MASK"] # {}
    BY <1>1, <1>6, Zenon DEF Regular
  <2>2. RunInv /\ HandlerInv /\ QuietInv
    BY <1>0, <2>1, Zenon
  <2>3. in_flight # NULL /\ ~(Len(writes) >= 2) /\ next_task_idx # 0
    BY <1>1, <2>2, Zenon DEF QuietInv
  <2>3a. next_task_idx = 1
    BY <1>0, <2>3 DEF PhaseInv
  <2>4. Len(writes) <= 1 /\ Len(writes) <= 5
    BY <1>0, <2>3 DEF WritesInv
  <2>5. thread = "idle"
    BY <2>1, <2>2, Zenon DEF HandlerInv
  <2>6. in_flight \in Programs /\ regs["INTERRUPT_MASK"] = in_flight.last_int_mask
    BY <1>0, <2>1, <2>3, <2>3a, <2>4, Zenon DEF LoadInv, WordInv
  <2>7. in_flight.last_int_mask \cap SideBits = {}
    BY <2>6, SideBitsAssumption, Zenon
  <2>8. running = NULL
    <3> SUFFICES ASSUME running # NULL PROVE FALSE
      BY Zenon
    <3>1. raw \subseteq SideBits
      BY <2>2, Zenon DEF RunInv
    <3> QED
      BY <2>1, <2>6, <2>7, <3>1, Zenon
  <2>9. regs'["INTERRUPT_MASK"] = {}
    BY <1>2 DEF Registers
  <2>10. "idle" # "cleared"
    OBVIOUS
  <2>11. RunInv'
    BY <1>1, <2>8, Zenon DEF RunInv
  <2>12. HandlerInv'
    BY <1>1, <2>3, <2>3a, <2>4, <2>5, <2>8, <2>9, <2>10, Zenon DEF HandlerInv
  <2>13. QuietInv'
    BY <1>1, <2>3, Zenon DEF QuietInv
  <2> QED
    BY <2>11, <2>12, <2>13, Zenon
<1> QED
  BY <1>3, <1>4, <1>5, <1>6, <1>p, Zenon DEF PcInv

\* The threaded handler, before its lock: it turns the operation off ...
LEMMA ThreadStopKeeps ==
  ASSUME PcInv, ThreadStop PROVE PcInv'
<1>0. /\ WordInv /\ PhaseInv /\ WritesInv /\ LoadInv
      /\ Regular => RunInv /\ HandlerInv /\ QuietInv
  BY Zenon DEF PcInv
<1>1. /\ thread = "idle" /\ woken /\ woken' = FALSE /\ thread' = "stopped"
      /\ regs' = [regs EXCEPT !["OPERATION_ENABLE"] = {}]
      /\ raw' = raw /\ running' = running /\ in_flight' = in_flight /\ writes' = writes
      /\ foreign' = foreign
      /\ next_task_idx' = next_task_idx /\ reset' = reset /\ late' = late
  BY Zenon DEF ThreadStop, resetVars
<1>p. PhaseInv'
  BY <1>0, <1>1, Zenon DEF PhaseInv
<1>2. /\ regs' \in [Registers -> SUBSET Bit]
      /\ \A r \in Registers : r # "OPERATION_ENABLE" => regs'[r] = regs[r]
  BY <1>0, <1>1 DEF WordInv
<1>3. /\ regs'["CNA_S_POINTER"] = regs["CNA_S_POINTER"]
      /\ regs'["CORE_S_POINTER"] = regs["CORE_S_POINTER"]
      /\ regs'["BASE_ADDRESS"] = regs["BASE_ADDRESS"]
      /\ regs'["REGISTER_AMOUNTS"] = regs["REGISTER_AMOUNTS"]
      /\ regs'["INTERRUPT_MASK"] = regs["INTERRUPT_MASK"]
      /\ regs'["TASK_CON"] = regs["TASK_CON"]
      /\ regs'["TASK_DMA_BASE_ADDR"] = regs["TASK_DMA_BASE_ADDR"]
  BY <1>2 DEF Registers
<1>4. WordInv'
  <2>1. woken' \in BOOLEAN /\ thread' \in {"idle", "stopped", "cleared"}
    BY <1>1
  <2> QED
    BY <1>0, <1>1, <1>2, <2>1, Zenon DEF WordInv
<1>5. WritesInv' /\ LoadInv'
  BY <1>0, <1>1, <1>3, Zenon DEF WritesInv, LoadInv
<1>6. ASSUME Regular' PROVE (RunInv /\ HandlerInv /\ QuietInv)'
  <2>1. RunInv /\ HandlerInv /\ QuietInv
    BY <1>0, <1>1, <1>6, Zenon DEF Regular
  <2>2. running = NULL
    BY <1>1, <2>1, Zenon DEF HandlerInv
  <2>3. "stopped" # "cleared"
    OBVIOUS
  <2>4. RunInv'
    BY <1>1, <2>2, Zenon DEF RunInv
  <2>5. HandlerInv'
    BY <1>1, <1>3, <2>1, <2>3, Zenon DEF HandlerInv
  <2>6. QuietInv'
    BY <1>1, <2>1, Zenon DEF QuietInv
  <2> QED
    BY <2>4, <2>5, <2>6, Zenon
<1> QED
  BY <1>1, <1>4, <1>5, <1>6, <1>p, Zenon DEF PcInv

\* ... and clears every interrupt.
LEMMA ThreadClearKeeps ==
  ASSUME PcInv, ThreadClear PROVE PcInv'
<1>0. /\ WordInv /\ PhaseInv /\ WritesInv /\ LoadInv
      /\ Regular => RunInv /\ HandlerInv /\ QuietInv
  BY Zenon DEF PcInv
<1>1. /\ thread = "stopped" /\ raw' = raw \ Bit /\ thread' = "cleared"
      /\ regs' = regs /\ running' = running /\ in_flight' = in_flight /\ writes' = writes
      /\ woken' = woken /\ foreign' = foreign
      /\ next_task_idx' = next_task_idx /\ reset' = reset /\ late' = late
  BY Zenon DEF ThreadClear, resetVars
<1>p. PhaseInv'
  BY <1>0, <1>1, Zenon DEF PhaseInv
<1>2. raw' = {} /\ raw' \in SUBSET Bit
  BY <1>0, <1>1, Zenon DEF WordInv
<1>3. "stopped" # "idle" /\ "cleared" \in {"idle", "stopped", "cleared"}
  OBVIOUS
<1>4. WordInv'
  BY <1>0, <1>1, <1>2, <1>3, Zenon DEF WordInv
<1>5. WritesInv' /\ LoadInv'
  BY <1>0, <1>1, Zenon DEF WritesInv, LoadInv
<1>6. ASSUME Regular' PROVE (RunInv /\ HandlerInv /\ QuietInv)'
  <2>1. RunInv /\ HandlerInv /\ QuietInv
    BY <1>0, <1>1, <1>6, Zenon DEF Regular
  <2>2. running = NULL /\ ~woken
    BY <1>1, <1>3, <2>1, Zenon DEF HandlerInv
  <2>3. RunInv'
    BY <1>1, <2>2, Zenon DEF RunInv
  <2>4. HandlerInv'
    BY <1>1, <1>2, <1>3, <2>1, <2>2, Zenon DEF HandlerInv
  <2>5. QuietInv'
    BY <1>1, <1>2, <2>1, Zenon DEF QuietInv
  <2> QED
    BY <2>3, <2>4, <2>5, Zenon
<1> QED
  BY <1>1, <1>4, <1>5, <1>6, <1>p, Zenon DEF PcInv

\* Under the lock the job is complete, and nothing of it is left.
LEMMA ThreadSignalKeeps ==
  ASSUME PcInv, ThreadSignal PROVE PcInv'
<1>0. /\ WordInv /\ PhaseInv /\ WritesInv /\ LoadInv
      /\ Regular => RunInv /\ HandlerInv /\ QuietInv
  BY Zenon DEF PcInv
<1>1. /\ thread = "cleared" /\ writes = <<>> /\ in_flight' = NULL /\ thread' = "idle"
      /\ regs' = regs /\ raw' = raw /\ running' = running /\ writes' = writes
      /\ woken' = woken /\ foreign' = foreign
      /\ next_task_idx' = next_task_idx /\ reset' = reset /\ late' = late
  BY Zenon DEF ThreadSignal, resetVars
<1>p. PhaseInv'
  BY <1>0, <1>1, Zenon DEF PhaseInv
<1>2. "cleared" # "idle" /\ "idle" \in {"idle", "stopped", "cleared"}
  OBVIOUS
<1>3. WordInv'
  BY <1>0, <1>1, <1>2, Zenon DEF WordInv
<1>4. WritesInv'
  <2>1. writes' = <<>> /\ writes' \in Seq(RegisterWrite)
    BY <1>0, <1>1, Zenon DEF WritesInv
  <2> QED
    BY <2>1 DEF WritesInv
<1>5. LoadInv'
  BY <1>1, Zenon DEF LoadInv
<1>6. ASSUME Regular' PROVE (RunInv /\ HandlerInv /\ QuietInv)'
  <2>1. RunInv /\ HandlerInv /\ QuietInv
    BY <1>0, <1>1, <1>6, Zenon DEF Regular
  <2>2. running = NULL /\ ~woken /\ raw = {}
    BY <1>1, <1>2, <2>1, Zenon DEF HandlerInv
  <2>3. RunInv'
    BY <1>1, <2>2, Zenon DEF RunInv
  <2>4. HandlerInv'
    BY <1>1, <1>2, <2>2, Zenon DEF HandlerInv
  <2>5. QuietInv'
    BY <1>1, <2>2, Zenon DEF QuietInv
  <2> QED
    BY <2>3, <2>4, <2>5, Zenon
<1> QED
  BY <1>1, <1>3, <1>4, <1>5, <1>6, <1>p, Zenon DEF PcInv

\* A job that was not started finds the reset pending: nothing is written for
\* it, and while nothing irregular has happened no thread gets there.
LEMMA ThreadNextTaskKeeps ==
  ASSUME PcInv, ThreadNextTask PROVE PcInv'
<1>0. /\ WordInv /\ PhaseInv /\ WritesInv /\ LoadInv
      /\ Regular => RunInv /\ HandlerInv /\ QuietInv
  BY Zenon DEF PcInv
<1>1. /\ thread = "cleared" /\ thread' = "idle" /\ in_flight # NULL
      /\ next_task_idx < task_count /\ rocket_job_hw_submit(in_flight, next_task_idx)
      /\ regs' = regs /\ raw' = raw /\ running' = running /\ in_flight' = in_flight
      /\ woken' = woken /\ foreign' = foreign /\ reset' = reset /\ late' = late
  BY Zenon DEF ThreadNextTask, resetVars
<1>2. next_task_idx = 0
  BY <1>0, <1>1 DEF PhaseInv, task_count
<1>3. reset = "pending"
  BY <1>0, <1>1, <1>2, Zenon DEF PhaseInv
<1>4. next_task_idx' = next_task_idx /\ writes' = writes
  BY <1>1, <1>3 DEF rocket_job_hw_submit
<1>5. "cleared" # "idle" /\ "idle" \in {"idle", "stopped", "cleared"} /\ 0 # 1
  OBVIOUS
<1>6. WordInv'
  BY <1>0, <1>1, <1>5, Zenon DEF WordInv
<1>7. PhaseInv'
  BY <1>0, <1>1, <1>4, Zenon DEF PhaseInv
<1>8. WritesInv' /\ LoadInv'
  BY <1>0, <1>1, <1>4, Zenon DEF WritesInv, LoadInv
<1>9. ~Regular'
  <2>1. Regular => HandlerInv
    BY <1>0, Zenon
  <2>2. ~Regular
    BY <1>1, <1>2, <1>5, <2>1, Zenon DEF HandlerInv
  <2> QED
    BY <1>1, <2>2, Zenon DEF Regular
<1> QED
  BY <1>6, <1>7, <1>8, <1>9, Zenon DEF PcInv

\* Announcing a reset changes nothing else.
LEMMA TimedOutKeeps ==
  ASSUME PcInv, TimedOut PROVE PcInv'
<1>0. /\ WordInv /\ PhaseInv /\ WritesInv /\ LoadInv
      /\ Regular => RunInv /\ HandlerInv /\ QuietInv
  BY Zenon DEF PcInv
<1>1. /\ reset = "none" /\ reset' = "pending"
      /\ regs' = regs /\ raw' = raw /\ running' = running /\ in_flight' = in_flight
      /\ writes' = writes /\ next_task_idx' = next_task_idx /\ woken' = woken
      /\ thread' = thread /\ foreign' = foreign /\ late' = late
  BY Zenon DEF TimedOut
<1>2. /\ "none" # "cleared" /\ "pending" # "cleared" /\ "none" # "pending"
      /\ "pending" \in {"none", "pending", "cleared"}
  OBVIOUS
<1>3. WordInv'
  BY <1>0, <1>1, Zenon DEF WordInv
<1>4. PhaseInv'
  BY <1>0, <1>1, <1>2, Zenon DEF PhaseInv
<1>5. WritesInv' /\ LoadInv'
  BY <1>0, <1>1, Zenon DEF WritesInv, LoadInv
<1>6. Regular' => Regular
  BY <1>1, <1>2, Zenon DEF Regular
<1>7. RunInv /\ HandlerInv /\ QuietInv => (RunInv /\ HandlerInv /\ QuietInv)'
  BY <1>1, Zenon DEF RunInv, HandlerInv, QuietInv
<1> QED
  BY <1>0, <1>3, <1>4, <1>5, <1>6, <1>7, Zenon DEF PcInv

\* The reset takes the job out of flight, under job_lock.
LEMMA ResetClearKeeps ==
  ASSUME PcInv, ResetClear PROVE PcInv'
<1>0. WordInv /\ PhaseInv /\ WritesInv
  BY Zenon DEF PcInv
<1>1. /\ writes = <<>> /\ in_flight' = NULL /\ reset' = "cleared"
      /\ regs' = regs /\ raw' = raw /\ running' = running /\ writes' = writes
      /\ next_task_idx' = next_task_idx /\ woken' = woken /\ thread' = thread
      /\ foreign' = foreign /\ late' = late
  BY Zenon DEF ResetClear
<1>2. "cleared" \in {"none", "pending", "cleared"}
  OBVIOUS
<1>3. WordInv'
  BY <1>0, <1>1, Zenon DEF WordInv
<1>4. PhaseInv'
  BY <1>0, <1>1, <1>2, Zenon DEF PhaseInv
<1>5. WritesInv'
  <2>1. writes' = <<>> /\ writes' \in Seq(RegisterWrite)
    BY <1>0, <1>1, Zenon DEF WritesInv
  <2> QED
    BY <2>1 DEF WritesInv
<1>6. LoadInv'
  BY <1>1, Zenon DEF LoadInv
<1>7. ~Regular'
  BY <1>1, Zenon DEF Regular
<1> QED
  BY <1>3, <1>4, <1>5, <1>6, <1>7, Zenon DEF PcInv

\* After the core reset all is quiet, unless a handler thread is still to run.
LEMMA CoreResetKeeps ==
  ASSUME PcInv, CoreReset PROVE PcInv'
<1>0. WordInv /\ PhaseInv /\ WritesInv
  BY Zenon DEF PcInv
<1>1. /\ reset = "cleared" /\ reset' = "none" /\ regs' = [r \in Registers |-> {}]
      /\ raw' = {} /\ running' = NULL /\ late' = (late \/ woken \/ thread # "idle")
      /\ in_flight' = in_flight /\ next_task_idx' = next_task_idx /\ writes' = writes
      /\ woken' = woken /\ thread' = thread /\ foreign' = foreign
  BY Zenon DEF CoreReset
<1>2. in_flight = NULL /\ writes = <<>>
  BY <1>0, <1>1, Zenon DEF PhaseInv
<1>3. "none" # "cleared" /\ "none" \in {"none", "pending", "cleared"} /\ "idle" # "cleared"
  OBVIOUS
<1>4. WordInv'
  <2>1. regs' \in [Registers -> SUBSET Bit] /\ raw' \in SUBSET Bit
    BY <1>1
  <2> QED
    BY <1>0, <1>1, <2>1, Zenon DEF WordInv
<1>5. PhaseInv'
  <2>1. late' \in BOOLEAN
    BY <1>1, Zenon
  <2> QED
    BY <1>0, <1>1, <1>2, <1>3, <2>1, Zenon DEF PhaseInv
<1>6. WritesInv'
  BY <1>0, <1>1, Zenon DEF WritesInv
<1>7. LoadInv'
  BY <1>1, <1>2, Zenon DEF LoadInv
<1>8. ASSUME Regular' PROVE (RunInv /\ HandlerInv /\ QuietInv)'
  <2>1. ~woken' /\ thread' = "idle"
    BY <1>1, <1>8, Zenon DEF Regular
  <2> QED
    BY <1>1, <1>3, <2>1, Zenon DEF RunInv, HandlerInv, QuietInv
<1> QED
  BY <1>4, <1>5, <1>6, <1>7, <1>8, Zenon DEF PcInv

-----------------------------------------------------------------------------
(* The theorems about the registers and the interrupt.                      *)

\* The invariant holds at first, ...
LEMMA PcInitial == ASSUME Init PROVE PcInv
<1>1. /\ regs = [r \in Registers |-> {}] /\ raw = {} /\ running = NULL /\ in_flight = NULL
      /\ writes = <<>> /\ woken = FALSE /\ thread = "idle" /\ foreign = FALSE
      /\ next_task_idx = 0 /\ reset = "none" /\ late = FALSE
  BY Zenon DEF Init
<1>p. PhaseInv
  BY <1>1 DEF PhaseInv
<1>2. WordInv
  <2>1. regs \in [Registers -> SUBSET Bit]
    BY <1>1
  <2>2. thread \in {"idle", "stopped", "cleared"} /\ raw \in SUBSET Bit
    BY <1>1
  <2> QED
    BY <1>1, <2>1, <2>2, Zenon DEF WordInv
<1>3. WritesInv
  BY <1>1 DEF WritesInv
<1>4. LoadInv
  BY <1>1, Zenon DEF LoadInv
<1>5. "idle" # "cleared"
  OBVIOUS
<1>6. RunInv /\ HandlerInv /\ QuietInv
  BY <1>1, <1>5, Zenon DEF RunInv, HandlerInv, QuietInv
<1> QED
  BY <1>2, <1>3, <1>4, <1>6, <1>p, Zenon DEF PcInv

\* ... and every step keeps it.
LEMMA PcStep == ASSUME PcInv, [Next]_vars PROVE PcInv'
<1>1. CASE \E p \in Programs : Publish(p)
  BY <1>1, PublishKeeps, Zenon
<1>2. CASE Write
  BY <1>2, WriteKeeps, Zenon
<1>3. CASE \E b \in SideBits : HwUnit(b)
  BY <1>3, HwUnitKeeps, Zenon
<1>4. CASE HwDone
  BY <1>4, HwDoneKeeps, Zenon
<1>5. CASE IrqHandler
  BY <1>5, IrqHandlerKeeps, Zenon
<1>6. CASE ThreadStop
  BY <1>6, ThreadStopKeeps, Zenon
<1>7. CASE ThreadClear
  BY <1>7, ThreadClearKeeps, Zenon
<1>8. CASE ThreadSignal
  BY <1>8, ThreadSignalKeeps, Zenon
<1>10. CASE ThreadNextTask
  BY <1>10, ThreadNextTaskKeeps, Zenon
<1>11. CASE TimedOut
  BY <1>11, TimedOutKeeps, Zenon
<1>12. CASE ResetClear
  BY <1>12, ResetClearKeeps, Zenon
<1>13. CASE CoreReset
  BY <1>13, CoreResetKeeps, Zenon
<1>9. CASE UNCHANGED vars
  <2>1. /\ regs' = regs /\ raw' = raw /\ running' = running /\ in_flight' = in_flight
        /\ writes' = writes /\ woken' = woken /\ thread' = thread /\ foreign' = foreign
        /\ next_task_idx' = next_task_idx /\ reset' = reset /\ late' = late
    BY <1>9, Zenon DEF vars, resetVars
  <2>2. /\ WordInv /\ PhaseInv /\ WritesInv /\ LoadInv
        /\ Regular => RunInv /\ HandlerInv /\ QuietInv
    BY Zenon DEF PcInv
  <2>3. WordInv'
    BY <2>1, <2>2, Zenon DEF WordInv
  <2>4. WritesInv'
    BY <2>1, <2>2, Zenon DEF WritesInv
  <2>5. LoadInv'
    BY <2>1, <2>2, Zenon DEF LoadInv
  <2>7. PhaseInv'
    BY <2>1, <2>2, Zenon DEF PhaseInv
  <2>6. Regular' => (RunInv /\ HandlerInv /\ QuietInv)'
    BY <2>1, <2>2, Zenon DEF Regular, RunInv, HandlerInv, QuietInv
  <2> QED
    BY <2>3, <2>4, <2>5, <2>6, <2>7, Zenon DEF PcInv
<1> QED
  BY <1>1, <1>2, <1>3, <1>4, <1>5, <1>6, <1>7, <1>8, <1>9,
     <1>10, <1>11, <1>12, <1>13, Zenon DEF Next

\* The invariant of the register writes, the hardware and the two handlers.
THEOREM PcInvariance == Spec => []PcInv
<1>1. Init => PcInv
  BY PcInitial, Zenon
<1>2. PcInv /\ [Next]_vars => PcInv'
  BY PcStep, Zenon
<1> QED
  BY <1>1, <1>2, PTL DEF Spec

\* Every variable stays in its range; the words rocket_job_hw_submit puts
\* together are 32-bit words whatever the job, and they are written only for
\* the job in flight.
THEOREM PcTypeCorrect == Spec => []TypeOK
<1>1. PcInv => TypeOK
  <2> SUFFICES ASSUME PcInv PROVE TypeOK
    BY Zenon
  <2>1. WordInv /\ WritesInv /\ PhaseInv
    BY Zenon DEF PcInv
  <2>2. writes # <<>> => in_flight # NULL
    BY <2>1, NextWrite, Zenon
  <2>3. \A i \in DOMAIN writes : writes[i] \in RegisterWrite
    BY <2>1 DEF WritesInv
  <2>4. \A w \in RegisterWrite : w[2] \subseteq Bit
    BY DEF RegisterWrite
  <2>5. \A i \in DOMAIN writes : writes[i][2] \subseteq Bit
    BY <2>3, <2>4, Zenon
  <2>6. next_task_idx \in 0 .. task_count
    BY <2>1 DEF PhaseInv, task_count
  <2> QED
    BY <2>1, <2>2, <2>5, <2>6, Zenon DEF TypeOK, WordInv, PhaseInv
<1> QED
  BY <1>1, PcInvariance, PTL

\* rocket_job.c 161-180: whatever the jobs, the hardware is started with exactly
\* the job in flight, as long as the registers can hold it, no interrupt of
\* another device on the line was taken for the core's own and no handler thread
\* has outlived a reset.
THEOREM StartsExactly == Spec => []StartedExact
<1>1. PcInv => StartedExact
  <2> SUFFICES ASSUME PcInv, ~foreign, ~late, reset # "cleared", running # NULL
               PROVE  \E p \in Programs : /\ in_flight = p
                                          /\ Representable(p) => running.job = Asked(p)
    BY Zenon DEF StartedExact
  <2>1. WordInv /\ RunInv
    BY Zenon DEF PcInv, Regular
  <2>2. in_flight \in Programs
    BY <2>1, Zenon DEF WordInv, RunInv
  <2> QED
    BY <2>1, <2>2, Zenon DEF RunInv
<1> QED
  BY <1>1, PcInvariance, PTL

\* rocket_job_irq_handler and rocket_job_handle_irq report a job complete only
\* when the hardware has ended it, unless the interrupt of another device on the
\* shared line was taken for the core's own or a thread woken before a reset has
\* outlived it.
THEOREM CompletesAfterEnd == Spec => []CompletionAfterEnd
<1>1. PcInv => CompletionAfterEnd
  <2> SUFFICES ASSUME PcInv, ~foreign, ~late, thread = "cleared", in_flight # NULL
               PROVE  running = NULL
    BY Zenon DEF CompletionAfterEnd
  <2>1. reset # "cleared" /\ "cleared" # "idle"
    BY Zenon DEF PcInv, PhaseInv
  <2>2. HandlerInv
    BY <2>1, Zenon DEF PcInv, Regular
  <2> QED
    BY <2>1, <2>2, Zenon DEF HandlerInv
<1> QED
  BY <1>1, PcInvariance, PTL

-----------------------------------------------------------------------------
(* The two together.                                                        *)

\* The number of tasks hw_submit selects fits TASK_NUMBER when the number of
\* the whole SUBMIT does, whatever is in the subcore slots: of the conditions
\* of Representable, the one on the tasks is then met by every such job.
THEOREM TaskNumberFits ==
  RangeSpec => [](phase = "running" /\ NoWrap /\ EndFitsInt /\ number < 4096
                    => Bits(range[2]) \subseteq TASK_CON.TASK_NUMBER)
<1> DEFINE Fit == phase = "running" /\ NoWrap /\ EndFitsInt /\ number < 4096
                    => Bits(range[2]) \subseteq TASK_CON.TASK_NUMBER
<1>1. RangeInv => Fit
  <2> SUFFICES ASSUME RangeInv, phase = "running", NoWrap, EndFitsInt, number < 4096
               PROVE  Bits(range[2]) \subseteq TASK_CON.TASK_NUMBER
    OBVIOUS
  <2>1. range[1] \in Nat /\ range[2] \in Nat /\ Fits(range)
    BY RangeChosen
  <2>2. start \in Nat /\ number \in Nat
    BY TaskRangeAssumption DEF RangeInv, RangeTypeOK
  <2>3. range[1] >= start /\ range[1] + range[2] <= start + number
    BY <2>1 DEF Fits
  <2>4. range[2] < 4096
    BY <2>1, <2>2, <2>3
  <2>5. Bits(range[2]) \subseteq 0 .. 11
    BY <2>1, <2>4, Bits12
  <2>6. TASK_CON.TASK_NUMBER = 0 .. 11
    BY DEF TASK_CON
  <2> QED
    BY <2>5, <2>6
<1> QED
  BY <1>1, RangeInvariance, PTL

=============================================================================
