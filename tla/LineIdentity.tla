---------------------------- MODULE LineIdentity ----------------------------
(***************************************************************************)
(* internal/provenance/identity.go: what a line is recognised by.  A hash  *)
(* is the value it is the hash of, so a line is its own ContentHash, and   *)
(* the file's path, the same for all lines compared, is left out.          *)
(***************************************************************************)
EXTENDS LineDiff

NoLine == ""

\* The nearest line with text on either side of line i.
AnchorBefore(lines, i) ==
    LET texts == {j \in 1..(i - 1) : ~IsBlank(lines[j])}
    IN  IF texts = {} THEN NoLine ELSE lines[CHOOSE j \in texts : \A k \in texts : k <= j]

AnchorAfter(lines, i) ==
    LET texts == {j \in (i + 1)..Len(lines) : ~IsBlank(lines[j])}
    IN  IF texts = {} THEN NoLine ELSE lines[CHOOSE j \in texts : \A k \in texts : j <= k]

\* Fault: equal lines with equal neighbours are not told apart.
IdentitiesUncounted(lines) ==
    [i \in DOMAIN lines |-> [content |-> lines[i], occurrence |-> 1,
                             before |-> AnchorBefore(lines, i),
                             after |-> AnchorAfter(lines, i)]]

\* Fault: any neighbour is an anchor, blank or not.
IdentitiesNextTo(lines) ==
    [i \in DOMAIN lines |->
       [content |-> lines[i],
        occurrence |-> Cardinality({j \in 1..i : lines[j] = lines[i]}),
        before |-> IF i = 1 THEN NoLine ELSE lines[i - 1],
        after |-> IF i = Len(lines) THEN NoLine ELSE lines[i + 1]]]

Identities(lines) ==
    [i \in DOMAIN lines |->
       [content |-> lines[i],
        occurrence |-> Cardinality({j \in 1..i : lines[j] = lines[i]}),
        before |-> AnchorBefore(lines, i),
        after |-> AnchorAfter(lines, i)]]

-----------------------------------------------------------------------------
BlankLine == ""

\* The text with a blank line put behind its first lines, and where its line i
\* is then.
BlankPut(lines, at) == SubSeq(lines, 1, at) \o <<BlankLine>> \o SubSeq(lines, at + 1, Len(lines))

Shifted(at, i) == IF i <= at THEN i ELSE i + 1
=============================================================================
