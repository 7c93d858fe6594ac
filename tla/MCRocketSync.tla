---------------------------- MODULE MCRocketSync ----------------------------
(* Instances of RocketSync for TLC.                                         *)
EXTENDS RocketSync, TLC

\* Regions are interchangeable.
Symmetry == Permutations(Regions)
=============================================================================
