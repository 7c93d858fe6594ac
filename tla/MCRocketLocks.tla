---------------------------- MODULE MCRocketLocks ----------------------------
(* Instances of RocketLocks for TLC.                                        *)
EXTENDS RocketLocks, TLC

\* Files are interchangeable.
Symmetry == Permutations(Files)
=============================================================================
