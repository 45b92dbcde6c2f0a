-------------------------- MODULE MCSnapshotStore --------------------------
(***************************************************************************)
(* Instances of SnapshotStore for TLC.  No action tells one session id,    *)
(* caller, collector or hash from another.                                 *)
(***************************************************************************)
EXTENDS SnapshotStore, TLC

Symmetry == Permutations(SessionIds) \cup Permutations(Callers)
            \cup Permutations(Collectors) \cup Permutations(Hashes)
=============================================================================
