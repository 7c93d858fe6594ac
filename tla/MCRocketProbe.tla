---------------------------- MODULE MCRocketProbe ----------------------------
(* Instances of RocketProbe for TLC.                                        *)
EXTENDS RocketProbe, TLC

\* Core devices and files are interchangeable.
Symmetry == Permutations(Devices) \cup Permutations(Files)
=============================================================================
