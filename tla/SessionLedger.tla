--------------------------- MODULE SessionLedger ---------------------------
(***************************************************************************)
(* What the session service promises its callers, with no calls, clock or  *)
(* snapshots: a session begins once within its owner's limit, ends once,   *)
(* and only the step that finishes it credits edits to it, none of which   *)
(* was credited before.  An edit interval (from, to] of a path stands for  *)
(* the versions of the file written between a baseline and a finish.       *)
(* brief is an input: the pairs of sessions of which the first ended so    *)
(* soon after the second began that the ledger may take them for apart.    *)
(***************************************************************************)
EXTENDS Integers, FiniteSets

CONSTANTS SessionIds, Instances, NoInstance, Paths, MaxActive

VARIABLES state, owner, credit, brief

ledger == <<state, owner, credit>>

\* Two credited intervals share no version of the same file.
Apart(e, f) ==
    \/ e.path # f.path
    \/ e.to <= f.from
    \/ f.to <= e.from

ActiveOf(i) == {s \in SessionIds : state[s] = "active" /\ owner[s] = i}

Init ==
    /\ state = [s \in SessionIds |-> "absent"]
    /\ owner = [s \in SessionIds |-> NoInstance]
    /\ credit = {}

Begin(s, i) ==
    /\ state[s] = "absent"
    /\ MaxActive > 0 => Cardinality(ActiveOf(i)) < MaxActive
    /\ state' = [state EXCEPT ![s] = "active"]
    /\ owner' = [owner EXCEPT ![s] = i]
    /\ UNCHANGED credit

Finish(s) ==
    /\ state[s] = "active"
    /\ state' = [state EXCEPT ![s] = "finished"]
    /\ credit \subseteq credit'
    /\ \A e \in credit' \ credit :
          /\ e.sid = s
          /\ \A f \in credit : Apart(e, f) \/ <<f.sid, s>> \in brief'
    /\ UNCHANGED owner

Fail(S) ==
    /\ \A s \in S : state[s] = "active"
    /\ state' = [s \in SessionIds |-> IF s \in S THEN "failed" ELSE state[s]]
    /\ UNCHANGED <<owner, credit>>

Next ==
    \/ \E s \in SessionIds, i \in Instances : Begin(s, i)
    \/ \E s \in SessionIds : Finish(s)
    \/ \E S \in SUBSET SessionIds : Fail(S)

Spec == Init /\ [][Next]_ledger
=============================================================================
