--------------------------- MODULE GitDiffParser ---------------------------
(***************************************************************************)
(* internal/git/diff.go: the added lines of every file, read from what git *)
(* diff prints.  A printed line is a record that says what git meant by    *)
(* it; what the parser takes it for depends only on its first characters.  *)
(***************************************************************************)
EXTENDS Integers, Sequences, SequencesExt

\* Texts whose first characters matter, each with what follows "++ ".
AfterPlusPlusBlank == [c \in {"++ x"} |-> "x"]
PlusPlus == {"++x"} \cup DOMAIN AfterPlusPlusBlank

\* External: after a name with a space in it git prints a tab.
Printed == [p \in {"a b"} |-> "a b\t"]

BlankText(content) == content \in {"", " "}

\* What git prints for a file: its header follows only where hunks do.
GitPrints(f) ==
    LET says(w, p, c) == [says |-> w, path |-> p, content |-> c]
        header == <<says("diff", f.path, "")>>
        added == [i \in DOMAIN f.added |-> says("added", f.path, f.added[i])]
    IN  CASE f.kind = "renamed" -> header
          [] f.kind = "deleted" -> header \o <<says("file", "/dev/null", ""), says("removed", f.path, "x")>>
          [] OTHER -> header \o <<says("file", f.path, "")>> \o added

\* A header, or an added line that looks like one.
IsHeader(l) ==
    l.says = "file" \/ (l.says = "added" /\ l.content \in DOMAIN AfterPlusPlusBlank)

ParseDiffPath(l) ==
    IF l.says = "added" THEN AfterPlusPlusBlank[l.content]
    ELSE IF l.path \in DOMAIN Printed THEN Printed[l.path] ELSE l.path

NoneYet == [out |-> <<>>, cur |-> <<>>]

\* Fault: what was recorded is not put away.
FlushKeeps(acc) ==
    [acc EXCEPT !.out = IF acc.cur # <<>> /\ acc.cur[1].lines # <<>>
                        THEN @ \o acc.cur ELSE @]

Flush(acc) ==
    [out |-> IF acc.cur # <<>> /\ acc.cur[1].lines # <<>>
             THEN acc.out \o acc.cur ELSE acc.out,
     cur |-> <<>>]

\* One line of output: the next file's diff ends the one before, a header
\* starts a file, and drops one that was begun without recording it.
ParseLine(acc, l) ==
    CASE l.says = "diff" -> Flush(acc)
      [] IsHeader(l) ->
           [acc EXCEPT !.cur = IF l.path = "/dev/null" /\ l.says = "file" THEN <<>>
                               ELSE <<[path |-> ParseDiffPath(l), lines |-> <<>>]>>]
      [] l.says = "added" /\ ~IsHeader(l) /\ acc.cur # <<>> /\ l.content \notin PlusPlus
         /\ ~BlankText(l.content) ->
           [acc EXCEPT !.cur[1].lines = Append(@, l.content)]
      [] OTHER -> acc

ParseDiff(printed) ==
    LET after[n \in 0..Len(printed)] ==
          IF n = 0 THEN NoneYet ELSE ParseLine(after[n - 1], printed[n])
    IN  Flush(after[Len(printed)]).out

ReadDiff(files) == ParseDiff(FlattenSeq([i \in DOMAIN files |-> GitPrints(files[i])]))

-----------------------------------------------------------------------------
\* The lines that are not blank.
Effective(lines) ==
    FlattenSeq([i \in DOMAIN lines |-> IF BlankText(lines[i]) THEN <<>> ELSE <<lines[i]>>])

\* What ReadDiff promises: per file, its added lines that are not blank.
AddedPerFile(files) ==
    LET of(f) == [path |-> f.path, lines |-> Effective(f.added)]
        read == [i \in DOMAIN files |-> of(files[i])]
        has(i) == files[i].kind = "modified" /\ read[i].lines # <<>>
    IN  FlattenSeq([i \in DOMAIN files |-> IF has(i) THEN <<read[i]>> ELSE <<>>])

\* No line looks like a header and no name has a space.
Plain(files) ==
    \A i \in DOMAIN files : files[i].path \notin DOMAIN Printed
                            /\ Range(files[i].added) \cap PlusPlus = {}
=============================================================================
