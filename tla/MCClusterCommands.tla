------------------------- MODULE MCClusterCommands -------------------------
(* Commands and profiles are interchangeable.                                 *)
EXTENDS ClusterCommands, TLC

Symmetry == Permutations(Procs) \cup Permutations(Profiles)
=============================================================================
