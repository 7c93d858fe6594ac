---------------------------- MODULE MCRocketServes ----------------------------
(* Instances of RocketServes for TLC.                                       *)
EXTENDS RocketServes, TLC

\* Jobs, files and domain ids are interchangeable.
Symmetry == Permutations(Jobs) \cup Permutations(Files) \cup Permutations(DomainIds)
=============================================================================
