---------------------------- MODULE Attribution ----------------------------
(***************************************************************************)
(* The provenance of one file's lines over several sessions: the edit      *)
(* script between a session's snapshot and the file (internal/diff), the   *)
(* rows it leaves and those it carries on (internal/app/session.go,        *)
(* internal/provenance), the commit that replaces them (internal/storage), *)
(* and the verification of what git sees as added (internal/provenance/    *)
(* verify.go).  Anyone may edit the file at any time; the program cannot   *)
(* tell who did.  Leases, times and errors are those of Sessions.          *)
(***************************************************************************)
EXTENDS LineIdentity, CoverageVerify

CONSTANTS
    SessionIds,     \* the sessions that may run, numbers, as ids are ordered
    Contents,       \* what a line may be
    MaxLen,         \* bound: the lines of the file
    MaxEdits,       \* bound: the edits made to it
    MaxDiffEdits    \* the budget of a diff, 4096 in Finish

ASSUME IdsAssumption == SessionIds \subseteq Nat
ASSUME BoundsAssumption == MaxLen \in Nat /\ MaxEdits \in Nat /\ MaxDiffEdits \in Nat

VARIABLES
    file,       \* the lines of the file
    session,    \* the sessions: state, the snapshot's lines, and whether
                \* another session finished a change since
    rows,       \* the current rows of line_provenance
    plan,       \* what a finish is about to commit
    edits,      \* how many edits were made
    earned,     \* history: how often a session inserted a line, by content
    serial,     \* history: no two sessions were active at once, and every
                \* edit fell into a session that finished
    raced,      \* history: a change was committed next to a prepared finish
    clashed     \* history: the unique index refused a row

vars == <<file, session, rows, plan, edits, earned, serial, raced, clashed>>

Path == "f"

Files == UNION {[1..n -> Contents] : n \in 0..MaxLen}

NoPlan == [prepared |-> FALSE, lines |-> {}, removed |-> {}, edits |-> <<>>]

\* A session that ended is not read again: only its state is kept.
Ended(state) == [state |-> state, base |-> <<>>, stale |-> FALSE]

States == {"none", "active", "finished", "failed"}

Active == {s \in SessionIds : session[s].state = "active"}

\* Sessions whose finish has not looked at the file yet.
Open == {s \in Active : ~plan[s].prepared}

-----------------------------------------------------------------------------

Init ==
    /\ file = <<>>
    /\ session = [s \in SessionIds |-> [state |-> "none", base |-> <<>>, stale |-> FALSE]]
    /\ rows = {}
    /\ plan = [s \in SessionIds |-> NoPlan]
    /\ edits = 0
    /\ earned = [s \in SessionIds |-> [c \in Contents |-> 0]]
    /\ serial = TRUE /\ raced = FALSE /\ clashed = FALSE

\* Environment: a line is typed or deleted.
EditFile ==
    /\ edits < MaxEdits
    /\ \E i \in 1..(Len(file) + 1) :
         \/ /\ Len(file) < MaxLen
            /\ \E c \in Contents : file' = InsertAt(file, i, c)
         \/ i <= Len(file) /\ file' = RemoveAt(file, i)
    /\ edits' = edits + 1
    /\ serial' = (serial /\ Open # {})
    /\ UNCHANGED <<session, rows, plan, earned, raced, clashed>>

\* Session ids are random: that they are used in order only spares TLC the
\* renamings of a behaviour.
Start(s) ==
    /\ session[s].state = "none"
    /\ \A t \in SessionIds : t < s => session[t].state # "none"
    /\ session' = [session EXCEPT ![s] = [state |-> "active", base |-> file, stale |-> FALSE]]
    /\ serial' = (serial /\ Active = {})
    /\ UNCHANGED <<file, rows, plan, edits, earned, raced, clashed>>

\* The session fails: an abandon, a lease that expires.
Fail(s) ==
    /\ session[s].state = "active"
    /\ session' = [session EXCEPT ![s] = Ended("failed")]
    /\ serial' = (serial /\ session[s].base = file)
    /\ UNCHANGED <<file, rows, plan, edits, earned, raced, clashed>>

RowId(s, carried, e) == <<s, IF carried THEN 1 ELSE 2, e>>

AI == "AI"

\* Fault: the row is looked up by the place the line has in the new file.
CarriedByPlace(before, after, script, e) ==
    LET i == Taken(script, e, "delete")
    IN  {r \in rows : i <= Len(before) /\ r.identity = Identities(before)[i]}

\* Fault: the row is looked up by the identity the line has now.
CarriedByAfter(before, after, script, e) ==
    LET i == Taken(script, e, "delete")
    IN  {r \in rows : r.identity = Identities(after)[i]}

\* The row an equal edit carries on, by the identity the line had before.
Carried(before, after, script, e) ==
    LET i == Taken(script, e, "insert")
    IN  {r \in rows : r.identity = Identities(before)[i]}

AfterIdentity(after, script, e) ==
    Identities(after)[Taken(script, e, "delete")]

ProvenanceForEdits(s, before, after, script) ==
    LET row(e, carried, origin, source) ==
          [path |-> Path, id |-> RowId(s, carried, e),
           identity |-> AfterIdentity(after, script, e),
           content |-> script[e].line, source |-> source, origin |-> origin]
    IN  (UNION {{row(e, TRUE, r.origin, r.source) : r \in Carried(before, after, script, e)}
                  : e \in {k \in DOMAIN script : script[k].op = "equal"}})
        \cup {row(e, FALSE, s, AI) : e \in {k \in DOMAIN script : script[k].op = "insert"}}

\* Fault: only the rows of lines that are not carried are superseded.
RemovedIfDropped(lines) ==
    {r.id : r \in {q \in rows : ~\E l \in lines : l.id[2] = 1 /\ l.content = q.content}}

\* Every current row of the file is superseded.
Removed(lines) == {r.id : r \in rows}

Conflict(s) == session[s].stale

\* Finish up to its commit: the scan, the diff, the conflict check, the rows.
\* A file without changes leaves an empty plan.
Prepare(s) ==
    LET diff == Myers(session[s].base, file, MaxDiffEdits)
        changes == ~diff.failed /\ HasChanges(diff.edits)
        lines == ProvenanceForEdits(s, session[s].base, file, diff.edits)
    IN  /\ session[s].state = "active" /\ ~plan[s].prepared
        /\ \/ /\ diff.failed \/ (changes /\ Conflict(s))
              /\ session' = [session EXCEPT ![s] = Ended("failed")]
              /\ serial' = FALSE
              /\ UNCHANGED plan
           \/ /\ ~diff.failed /\ ~(changes /\ Conflict(s))
              /\ plan' = [plan EXCEPT ![s] =
                   [prepared |-> TRUE, edits |-> diff.edits,
                    lines |-> IF changes THEN lines ELSE {},
                    removed |-> IF changes THEN Removed(lines) ELSE {}]]
              /\ UNCHANGED <<session, serial>>
        /\ UNCHANGED <<file, rows, edits, earned, raced, clashed>>

Kept(s) == {r \in rows : r.id \notin plan[s].removed}

\* Two current rows with one identity: the partial unique index.
Clash(s) ==
    \/ \E l \in plan[s].lines, r \in Kept(s) : l.identity = r.identity
    \/ \E l, m \in plan[s].lines : l # m /\ l.identity = m.identity

\* The transaction of CommitFinish.  Only the session's row is guarded by its
\* state.
CommitFinish(s) ==
    LET changed == HasChanges(plan[s].edits)
        finishes == session[s].state = "active"
    IN  /\ plan[s].prepared /\ ~Clash(s)
        /\ rows' = Kept(s) \cup plan[s].lines
        /\ session' = [t \in SessionIds |->
             IF t = s THEN IF finishes THEN Ended("finished") ELSE session[s]
             ELSE IF finishes /\ changed /\ session[t].state = "active"
                  THEN [session[t] EXCEPT !.stale = TRUE] ELSE session[t]]
        /\ plan' = [plan EXCEPT ![s] = NoPlan]
        /\ earned' = [earned EXCEPT ![s] = [c \in Contents |->
             Cardinality({e \in DOMAIN plan[s].edits : plan[s].edits[e] = Edit("insert", c)})]]
        /\ raced' = (raced \/ (changed /\ \E t \in SessionIds \ {s} : plan[t].prepared))
        /\ UNCHANGED <<file, edits, serial, clashed>>

\* The index refuses a row: everything is rolled back, the session stays.
CommitClashes(s) ==
    /\ plan[s].prepared /\ Clash(s)
    /\ plan' = [plan EXCEPT ![s] = NoPlan]
    /\ clashed' = TRUE
    /\ serial' = FALSE
    /\ UNCHANGED <<file, session, rows, edits, earned, raced>>

Next ==
    \/ EditFile
    \/ \E s \in SessionIds :
         Start(s) \/ Fail(s) \/ Prepare(s) \/ CommitFinish(s) \/ CommitClashes(s)

Spec == Init /\ [][Next]_vars

-----------------------------------------------------------------------------
\* External: what git diff may report as added.  Every choice of lines of the
\* file is what it adds to some earlier version, the one with the others.
GitAdded ==
    LET shown == {i \in DOMAIN file : ~IsBlank(file[i])}
        choices(n) == {at \in [1..n -> shown] : \A i, j \in 1..n : i < j => at[i] < at[j]}
    IN  {[i \in DOMAIN at |-> file[at[i]]] : at \in UNION {choices(n) : n \in 0..Len(file)}}

Verified(added) ==
    Verify(IF added = <<>> THEN <<>> ELSE <<[path |-> Path, lines |-> added]>>, rows, FALSE)

-----------------------------------------------------------------------------

\* A line that no session inserted is never reported as an agent's, nor as that
\* of a session that did not insert it, whatever diff git shows and even when
\* finishes race.
OnlyInsertedIsAI ==
    \A added \in GitAdded :
        LET reports == Verified(added).reports
        IN  \A n \in DOMAIN reports : \A i \in DOMAIN added :
                reports[n][i].source = "AI" => earned[reports[n][i].session][added[i]] > 0

\* No session is ever credited with more lines of a content than it inserted,
\* however often its rows are carried on and its lines copied, unless two
\* finishes raced.
NeverOverCredited ==
    raced \/ \A s \in SessionIds, c \in Contents :
        Cardinality({r \in rows : r.origin = s /\ r.content = c}) <= earned[s][c]

\* When sessions follow one another and every edit is made in one, each line
\* git may show as added is covered: no row is lost to a change of neighbours,
\* to duplicates or to blank lines.
SerialIsCovered ==
    (serial /\ Active = {}) => \A added \in GitAdded : Verified(added).status = "ok"

\* The index on current identities never refuses a finish, so that the rows
\* of one finish replace those of the one before, unless two finishes raced.
ReplacedAsOne ==
    raced \/ (~clashed /\ \A r, q \in rows : r.id[1] = q.id[1])

\* What is covered and what is not add up, a content is covered exactly as far
\* as it has rows, and the sessions listed are those the lines name.
VerifyAddsUp ==
    \A added \in GitAdded :
        LET v == Verified(added)
            count(c) == Cardinality({i \in DOMAIN added : added[i] = c})
            covered(c) == Cardinality({i \in DOMAIN added :
                             added[i] = c /\ v.reports[1][i].source = "AI"})
            have(c) == Cardinality({r \in rows : r.content = c})
        IN  /\ v.ai + v.untracked = Len(added) /\ v.total = Len(added)
            /\ (v.status = "ok") = (v.ai = v.total)
            /\ added # <<>> =>
                 /\ \A c \in Contents : covered(c) = Least(count(c), have(c))
                 /\ Range(v.sessions) = {v.reports[1][i].session : i \in
                      {j \in DOMAIN added : v.reports[1][j].source = "AI"}}
=============================================================================
