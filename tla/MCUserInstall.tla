--------------------------- MODULE MCUserInstall ---------------------------
(* An instance of UserInstall for TLC. *)
EXTENDS UserInstall
=============================================================================
