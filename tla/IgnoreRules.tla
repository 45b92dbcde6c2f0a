---------------------------- MODULE IgnoreRules ----------------------------
(***************************************************************************)
(* internal/workspace: which files a scan tracks.  A path is the sequence  *)
(* of its parts.  A rule has its pattern's segments and the marks parsing  *)
(* found: a "!" before it, a "/" before it, a "/" after it.  A segment     *)
(* matches a part as path.Match does: a star all, another segment itself.  *)
(***************************************************************************)
EXTENDS Integers, Sequences, FiniteSets

MatchSegment(segment, part) == segment \in {"*", "**"} \/ segment = part

HasSlash(rule) == Len(rule.pattern) > 1

\* matchIgnorePath, on what is left of the pattern from i and of the name from j.
MatchPath(pattern, name) ==
    LET m[at \in (1..(Len(pattern) + 1)) \X (1..(Len(name) + 1))] ==
          LET i == at[1] j == at[2]
          IN  IF i > Len(pattern) THEN j > Len(name)
              ELSE IF pattern[i] = "**" THEN \E k \in j..(Len(name) + 1) : m[<<i + 1, k>>]
              ELSE j <= Len(name) /\ MatchSegment(pattern[i], name[j]) /\ m[<<i + 1, j + 1>>]
    IN  m[<<1, 1>>]

\* A rule for directories matches what is beneath one, too.
Matches(rule, parts, isDir) ==
    IF ~rule.directory
    THEN IF HasSlash(rule) THEN MatchPath(rule.pattern, parts)
         ELSE /\ rule.rooted => Len(parts) = 1
              /\ MatchSegment(rule.pattern[1], parts[Len(parts)])
    ELSE \E end \in 1..(IF isDir THEN Len(parts) ELSE Len(parts) - 1) :
           IF HasSlash(rule) THEN MatchPath(rule.pattern, SubSeq(parts, 1, end))
           ELSE (rule.rooted => end = 1) /\ MatchSegment(rule.pattern[1], parts[end])

\* The last rule that matches, 0 when none does.
LastMatch(rules, parts, isDir) ==
    LET matching == {0} \cup {i \in DOMAIN rules : Matches(rules[i], parts, isDir)}
    IN  CHOOSE i \in matching : \A j \in matching : j <= i

Ignored(rules, parts, isDir) ==
    LET last == LastMatch(rules, parts, isDir) IN last # 0 /\ ~rules[last].negated

\* Fault: "**" stands for at least one part.
MayHavePrefixSome(pattern, prefix) ==
    LET m[at \in (1..(Len(pattern) + 1)) \X (1..(Len(prefix) + 1))] ==
          LET i == at[1] j == at[2]
          IN  IF j > Len(prefix) THEN TRUE
              ELSE IF i > Len(pattern) THEN FALSE
              ELSE IF pattern[i] = "**" THEN m[<<i + 1, j + 1>>]
              ELSE MatchSegment(pattern[i], prefix[j]) /\ m[<<i + 1, j + 1>>]
    IN  m[<<1, 1>>]

\* Whether something beneath the directory may match the pattern.
MayHavePrefix(pattern, prefix) ==
    LET m[at \in (1..(Len(pattern) + 1)) \X (1..(Len(prefix) + 1))] ==
          LET i == at[1] j == at[2]
          IN  IF j > Len(prefix) THEN TRUE
              ELSE IF i > Len(pattern) THEN FALSE
              ELSE IF pattern[i] = "**" THEN m[<<i + 1, j>>] \/ m[<<i, j + 1>>]
              ELSE MatchSegment(pattern[i], prefix[j]) /\ m[<<i + 1, j + 1>>]
    IN  m[<<1, 1>>]

MayIncludeDescendant(rules, dir) ==
    \E i \in DOMAIN rules :
        rules[i].negated /\ (HasSlash(rules[i]) => MayHavePrefix(rules[i].pattern, dir))

ProtectedDir(dir) == dir[1] \in {".git", ".ai-provenance"}

Pruned(rules, dir) ==
    ProtectedDir(dir) \/ (Ignored(rules, dir, TRUE) /\ ~MayIncludeDescendant(rules, dir))

Ancestors(path) == {SubSeq(path, 1, n) : n \in 1..(Len(path) - 1)}

\* What Scan makes of a file, by the order of its tests.
Outcome(rules, file) ==
    CASE file.path = <<".gitignore">> \/ \E d \in Ancestors(file.path) : Pruned(rules, d)
           -> "unseen"
      [] file.kind = "symlink" -> "symlink"
      [] file.kind # "symlink" /\ Ignored(rules, file.path, FALSE) -> "ignored"
      [] OTHER -> file.kind

Scan(rules, files) == {f \in files : Outcome(rules, f) = "text"}

-----------------------------------------------------------------------------

\* A later "!" rule is never out of reach: a directory that an earlier rule
\* ignores is walked when a later negated rule decides about a file in it.
NegationIsReached(rules, path) ==
    LET last == LastMatch(rules, path, FALSE)
    IN  (last # 0 /\ rules[last].negated) =>
          \A d \in Ancestors(path) :
              (~ProtectedDir(d) /\ LastMatch(rules, d, TRUE) < last) => ~Pruned(rules, d)
=============================================================================
