---------------------------- MODULE MCRocketNative ----------------------------
(* Instances of RocketNative for TLC.                                       *)
EXTENDS RocketNative, TLC

\* Buffers, jobs, files and calls are interchangeable.
Symmetry == Permutations(Bos) \cup Permutations(Jobs) \cup Permutations(Files)
            \cup Permutations(Calls)
=============================================================================
