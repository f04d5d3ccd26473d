----------------------- MODULE MCClusterRegistration -----------------------
(* Instances of ClusterRegistration for TLC. *)
EXTENDS ClusterRegistration
=============================================================================
