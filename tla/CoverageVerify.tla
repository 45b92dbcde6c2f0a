--------------------------- MODULE CoverageVerify ---------------------------
(***************************************************************************)
(* internal/provenance/verify.go: how many of the added lines of a diff    *)
(* the provenance rows cover.  A diff is a sequence of files, each with    *)
(* its path and its added lines; a row has the path, id, content, source   *)
(* and origin session of a line; an id is <<session, 1 for a carried line  *)
(* and 2 for an inserted one, edit>>, in the order of its text.            *)
(***************************************************************************)
EXTENDS Integers, Sequences, FiniteSets, SequencesExt

Nth(lines, i) == Cardinality({j \in 1..i : lines[j] = lines[i]})

Before(p, q) ==
    \E n \in DOMAIN p : p[n] < q[n] /\ \A k \in 1..(n - 1) : p[k] = q[k]

\* The keys in order.
Ranked(keys) ==
    [n \in 1..Cardinality(keys) |->
       CHOOSE p \in keys : Cardinality({q \in keys : Before(q, p)}) = n - 1]

CurrentAIByFile(rows, path) == {r \in rows : r.path = path /\ r.source = "AI"}

\* The rows a content's lines are matched to, at most one row for each line.
Queue(fd, rows, content) ==
    LET matching == {r \in CurrentAIByFile(rows, fd.path) : r.content = content}
        ids == Ranked({r.id : r \in matching})
        added == {i \in DOMAIN fd.lines : fd.lines[i] = content}
    IN  [n \in {m \in DOMAIN ids : m <= Cardinality(added)} |->
           CHOOSE r \in matching : r.id = ids[n]]

Contributors(fd, rows) ==
    UNION {{Queue(fd, rows, c)[i].origin : i \in DOMAIN Queue(fd, rows, c)} : c \in Range(fd.lines)}

\* Fault: the lines of one content all name the first session.
ReportFirst(fd, rows) ==
    [i \in DOMAIN fd.lines |->
       LET q == Queue(fd, rows, fd.lines[i])
       IN  IF Nth(fd.lines, i) \in DOMAIN q
           THEN [source |-> "AI", session |-> q[1].origin]
           ELSE [source |-> "unknown"]]

\* Each line takes the next row of its content's queue.
Report(fd, rows) ==
    [i \in DOMAIN fd.lines |->
       LET q == Queue(fd, rows, fd.lines[i])
       IN  IF Nth(fd.lines, i) \in DOMAIN q
           THEN [source |-> "AI", session |-> q[Nth(fd.lines, i)].origin]
           ELSE [source |-> "unknown"]]

Verify(diffs, rows, strict) ==
    LET reports == [i \in DOMAIN diffs |-> Report(diffs[i], rows)]
        added == UNION {{i} \X DOMAIN diffs[i].lines : i \in DOMAIN diffs}
        as(source) == {p \in added : reports[p[1]][p[2]].source = source}
        listed == Ranked(UNION {Contributors(diffs[i], rows) \X {i} : i \in DOMAIN diffs})
    IN  [total |-> Cardinality(added),
         ai |-> Cardinality(as("AI")), untracked |-> Cardinality(as("unknown")),
         status |-> IF as("unknown") = {} THEN "ok" ELSE IF strict THEN "failed" ELSE "warning",
         sessions |-> [n \in DOMAIN listed |-> listed[n][1]],
         uncoveredFiles |-> {diffs[p[1]].path : p \in as("unknown")},
         reports |-> reports]
=============================================================================
