--------------------------- MODULE MCAttribution ---------------------------
(* An instance of Attribution for TLC. *)
EXTENDS Attribution
=============================================================================
