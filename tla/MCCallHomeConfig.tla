-------------------------- MODULE MCCallHomeConfig --------------------------
(* Instances of CallHomeConfig for TLC. *)
EXTENDS CallHomeConfig
=============================================================================
