----------------------------- MODULE MCSessions -----------------------------
(***************************************************************************)
(* Instances of Sessions for TLC.  Session ids, instances and paths are    *)
(* interchangeable, and so are callers where no liveness is checked.       *)
(***************************************************************************)
EXTENDS Sessions, TLC

Symmetry == Permutations(SessionIds) \cup Permutations(Instances)
            \cup Permutations(Paths) \cup Permutations(Callers)
=============================================================================
