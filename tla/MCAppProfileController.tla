----------------------- MODULE MCAppProfileController -----------------------
(* Instances of AppProfileController for TLC. *)
EXTENDS AppProfileController
=============================================================================
