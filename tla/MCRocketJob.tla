----------------------------- MODULE MCRocketJob -----------------------------
(* Instances of RocketJob for TLC.                                          *)
EXTENDS RocketJob, TLC

\* Jobs, files and domain ids are interchangeable.
Symmetry == Permutations(Jobs) \cup Permutations(Files) \cup Permutations(DomainIds)
=============================================================================
