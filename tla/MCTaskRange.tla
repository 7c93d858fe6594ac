----------------------------- MODULE MCTaskRange -----------------------------
(* Instances of TaskRange for TLC: words of four bits.                      *)
EXTENDS TaskRange

\* An empty slot, ranges inside and outside of a job's, and one that wraps.
MCSlotRanges == {<<0, 0>>, <<0, 1>>, <<1, 2>>, <<2, 2>>, <<5, 14>>}
=============================================================================
