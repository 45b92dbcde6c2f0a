------------------------------ MODULE LineDiff ------------------------------
(***************************************************************************)
(* internal/diff: the shortest edit script between two files, found by     *)
(* Myers' greedy search and a walk back over its trace.  A text is the     *)
(* sequence of the pieces between its newlines, so an empty file is        *)
(* <<"">>; NoFile, which has no piece, is a file that is not there.        *)
(***************************************************************************)
EXTENDS Integers, Sequences, FiniteSets

NoFile == <<>>

IsBlank(line) == line \in {"", " "}

Least(x, y) == IF x < y THEN x ELSE y

Classify(before, after) ==
    CASE before = NoFile -> "added"
      [] before # NoFile /\ after = NoFile -> "deleted"
      [] NoFile \notin {before, after} /\ before = after -> "unchanged"
      [] OTHER -> "modified"

\* The empty text has no line, and the newline that ends a text starts none.
Lines(text) ==
    IF text = <<"">> \/ text = NoFile THEN <<>>
    ELSE IF text[Len(text)] = "" THEN SubSeq(text, 1, Len(text) - 1) ELSE text

\* How many lines are equal from (x, y) on, along the diagonal.
Snake(a, b, x, y) ==
    LET equal(i) == x + i <= Len(a) /\ y + i <= Len(b) /\ a[x + i] = b[y + i]
    IN  CHOOSE r \in 0..Len(a) : (\A i \in 1..r : equal(i)) /\ ~equal(r + 1)

Diagonals(d) == {k \in -d..d : (k + d) % 2 = 0}

\* Diagonal k is reached from the one above it, by an insertion.
Down(v, k, d) == k = -d \/ (k # d /\ v[k - 1] < v[k + 1])

\* The furthest x on every diagonal after d edits, from that after one less.
Furthest(a, b, v, d) ==
    [k \in Diagonals(d) |->
       LET x == IF Down(v, k, d) THEN v[k + 1] ELSE v[k - 1] + 1
       IN  x + Snake(a, b, x, x - k)]

Frontier(a, b) ==
    LET front[d \in 0..(Len(a) + Len(b))] ==
          Furthest(a, b, IF d = 0 THEN [k \in {1} |-> 0] ELSE front[d - 1], d)
    IN  front

Edit(op, line) == [op |-> op, line |-> line]

Equals(a, x, n) == [i \in 1..n |-> Edit("equal", a[x + i])]

\* One level of the walk back over the trace: from where it stands, along the
\* diagonal and over the edit that led there from the frontier v.
StepBack(a, b, v, d, at) ==
    LET k == at.x - at.y
        from == IF Down(v, k, d) THEN k + 1 ELSE k - 1
        n == Least(at.x - v[from], at.y - (v[from] - from))
        same == IF n > 0 THEN n ELSE 0
        x == at.x - same
        y == at.y - same
    IN  IF x = v[from]
        THEN [x |-> x, y |-> y - 1,
              edits |-> <<Edit("insert", b[y])>> \o Equals(a, x, same) \o at.edits]
        ELSE [x |-> x - 1, y |-> y,
              edits |-> <<Edit("delete", a[x])>> \o Equals(a, x, same) \o at.edits]

\* What is left of both files when no edit of the trace is.
StepOut(a, b, at) ==
    LET n == Least(at.x, at.y)
    IN  [i \in 1..(at.y - n) |-> Edit("insert", b[i])]
        \o [i \in 1..(at.x - n) |-> Edit("delete", a[i])]
        \o Equals(a, at.x - n, n) \o at.edits

\* The walk starts at the end of both files.
Walk(a, b, distance) ==
    LET walk[i \in 0..distance] ==
          IF i = 0 THEN [x |-> Len(a), y |-> Len(b), edits |-> <<>>]
          ELSE StepBack(a, b, Frontier(a, b)[distance - i], distance - i + 1, walk[i - 1])
    IN  walk

Backtrack(a, b, distance) == StepOut(a, b, Walk(a, b, distance)[distance])

ResourceLimit == [failed |-> TRUE, edits |-> <<>>]

\* Fault: the budget is spent one edit early.
LimitOneShort(a, b, maxEdits) == Least(Len(a) + Len(b), maxEdits - 1)

Limit(a, b, maxEdits) == Least(Len(a) + Len(b), maxEdits)

\* The search ends at the first d whose frontier holds the end of both files.
Arrivals(a, b, maxEdits) ==
    {d \in 0..Limit(a, b, maxEdits) : \E k \in Diagonals(d) :
        Frontier(a, b)[d][k] >= Len(a) /\ Frontier(a, b)[d][k] - k >= Len(b)}

Myers(a, b, maxEdits) ==
    LET found == Arrivals(a, b, maxEdits)
    IN  IF found = {} THEN ResourceLimit
        ELSE [failed |-> FALSE,
              edits |-> Backtrack(a, b, CHOOSE d \in found : \A e \in found : d <= e)]

DiffWithLimit(before, after, maxEdits) == Myers(Lines(before), Lines(after), maxEdits)

NonBlank(edits, op) ==
    Cardinality({i \in DOMAIN edits : edits[i].op = op /\ ~IsBlank(edits[i].line)})

\* How many lines of one side the first e edits take: all but those with the
\* other side's operation.
Taken(edits, e, other) == Cardinality({k \in 1..e : edits[k].op # other})

HasChanges(edits) == \E i \in DOMAIN edits : edits[i].op # "equal"

-----------------------------------------------------------------------------
\* What a script should be: it rebuilds both sides, and no script is shorter.

\* The lines of the edits without the other side's operation are the file.
IsSide(edits, other, file) ==
    /\ Taken(edits, Len(edits), other) = Len(file)
    /\ \A e \in DOMAIN edits : edits[e].op # other =>
          /\ Taken(edits, e, other) \in DOMAIN file
          /\ edits[e].line = file[Taken(edits, e, other)]

Rebuilds(edits, a, b) == IsSide(edits, "insert", a) /\ IsSide(edits, "delete", b)

LongestCommon(a, b) ==
    LET longest[at \in (0..Len(a)) \X (0..Len(b))] ==
          LET i == at[1] j == at[2]
          IN  IF i = 0 \/ j = 0 THEN 0
              ELSE IF a[i] = b[j] THEN longest[<<i - 1, j - 1>>] + 1
              ELSE LET p == longest[<<i - 1, j>>] q == longest[<<i, j - 1>>]
                   IN  IF p > q THEN p ELSE q
    IN  longest[<<Len(a), Len(b)>>]

ShortestLength(a, b) == Len(a) + Len(b) - 2 * LongestCommon(a, b)
=============================================================================
