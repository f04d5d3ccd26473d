------------------------ MODULE MCClusterController ------------------------
(* Instances of ClusterController for TLC. *)
EXTENDS ClusterController
=============================================================================
