---------------------------- MODULE MCRocketBorrow ----------------------------
(* Instances of RocketBorrow for TLC.                                       *)
EXTENDS RocketBorrow, TLC

\* Buffers and calls are interchangeable.
Symmetry == Permutations(Bos) \cup Permutations(Ioctls)
=============================================================================
