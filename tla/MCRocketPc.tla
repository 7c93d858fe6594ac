----------------------------- MODULE MCRocketPc -----------------------------
(* Instances of RocketPc for TLC.                                           *)
EXTENDS RocketPc

\* Words as sets of bits: page-aligned addresses, an odd and an even number of
\* register commands, completion on bit 30 or 31 as the vendor's runtime asks
\* for it or on the DPU's bits 8 and 9, one task and several.
Matmul ==
    [regcmd_addr |-> {12, 31}, regcfg_amount |-> 107, first_int_mask |-> {30},
     last_int_mask |-> {30}, pp_en |-> {0}, tn |-> {0}, task_base_addr |-> {13}]
Convolution ==
    [regcmd_addr |-> {14, 20}, regcfg_amount |-> 64, first_int_mask |-> {8, 9},
     last_int_mask |-> {8, 9}, pp_en |-> {}, tn |-> {0, 2, 11}, task_base_addr |-> {4, 16}]
Pooling ==
    [regcmd_addr |-> {12}, regcfg_amount |-> 1, first_int_mask |-> {9},
     last_int_mask |-> {31}, pp_en |-> {0}, tn |-> {1}, task_base_addr |-> {}]

\* 4097 tasks: one more than the field holds, and one.
Long == [Convolution EXCEPT !.tn = {0, 12}]

MCPrograms == {Matmul, Convolution, Pooling, Long}
=============================================================================
