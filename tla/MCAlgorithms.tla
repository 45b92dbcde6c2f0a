---------------------------- MODULE MCAlgorithms ----------------------------
(***************************************************************************)
(* The pure functions of the program, evaluated over all small inputs: one *)
(* action chooses an input of each function, and the properties say what   *)
(* the function must make of it.                                           *)
(***************************************************************************)
EXTENDS LineIdentity

CONSTANT Limits

VARIABLE input

Diff == INSTANCE GitDiffParser
Tree == INSTANCE IgnoreRules
Conf == INSTANCE ConfigFile
Hook == INSTANCE CommitMsgHook
Cover == INSTANCE CoverageVerify

Wanted(of) == [kind |-> "none", of |-> of]

UpTo(S, n) == UNION {[1..k -> S] : k \in 0..n}

\* Two texts of at most MaxPieces pieces, and the most edits allowed.
MaxPieces == 4
Texts == UpTo({"", "x", "y"}, MaxPieces)
Budgets == {0, 1, 3, 8}

DiffInput ==
    /\ input = Wanted("texts")
    /\ \E before, after \in Texts, budget \in Budgets :
         input' = [kind |-> "texts", before |-> before, after |-> after, budget |-> budget]

\* What git says of at most two files.
GitPaths == {"a", "a b"}
GitLines == {"x", "", "++x", "++ x"}
GitChanges ==
    {[path |-> p, kind |-> "modified", added |-> a] : p \in GitPaths, a \in UpTo(GitLines, 2)}
    \cup {[path |-> "a", kind |-> k, added |-> <<>>] : k \in {"deleted", "renamed"}}

GitInput ==
    /\ input = Wanted("files")
    /\ \E files \in UpTo(GitChanges, 2) : input' = [kind |-> "files", files |-> files]

\* At most two rules, and a path.
Patterns == {<<"a">>, <<"*">>, <<"a", "b">>, <<"**", "b">>, <<"a", "**", "b">>, <<"*", "b">>}
Rules == [pattern : Patterns, negated : BOOLEAN, rooted : BOOLEAN, directory : BOOLEAN]
Paths == UpTo({"a", "b"}, 3) \ {<<>>}

IgnoreInput ==
    /\ input = Wanted("rules")
    /\ \E rules \in UpTo(Rules, 2), path \in Paths :
         input' = [kind |-> "rules", rules |-> rules, path |-> path]

\* A message that ai-prov may have written to before, what verify says now and
\* what it says when the commit is amended.
Pieces == {Hook!Blank, Hook!Words("t", <<>>), Hook!Words("t", <<7>>),
           Hook!Ours("AI-Lines", 7), Hook!Mark}
Results == {[total |-> t[2], ai |-> t[1], untracked |-> t[2] - t[1], sessions |-> s,
             status |-> IF t[1] = t[2] THEN "ok" ELSE "warning"] :
              t \in {<<0, 0>>, <<1, 2>>, <<2, 2>>}, s \in {<<1>>}}
Settings ==
    [strict : {FALSE}, writeTrailer : BOOLEAN, titleCoverage : BOOLEAN,
     trailer : [fields : {<<"lines", "agent">>, <<"coverage", "provenance-id">>},
                comments : BOOLEAN]]
Agents == [s \in {1} |-> "agent"]

MessageInput ==
    /\ input = Wanted("message")
    /\ \E msg \in UpTo(Pieces, 4) \ {<<>>}, settings \in Settings, first, second \in Results :
         input' = [kind |-> "message", msg |-> msg, settings |-> settings,
                   first |-> first, second |-> second]

\* A file by hand or by ai-prov, and the fields hook config set is given.
Maybe(S) == UpTo(S, 1)
HookSections ==
    [strict : Maybe(BOOLEAN), writeTrailer : Maybe(BOOLEAN), titleCoverage : Maybe(BOOLEAN),
     trailer : Maybe([fields : {<<>>, <<"agent">>}, comments : Maybe({TRUE})])]
ConfigFiles ==
    [schema : Maybe({1, 2}), maxFileBytes : Maybe({0, 7}), strictVerify : Maybe(BOOLEAN),
     limits : [Limits -> Maybe({-1, 0, 7})], hook : Maybe(HookSections)]
FieldChoices == {<<>>, <<"lines", "lines">>, <<"other">>, <<"agent", "coverage">>}

ConfigInput ==
    /\ input = Wanted("config")
    /\ \E file \in ConfigFiles : input' = [kind |-> "config", file |-> file]

\* Two files' added lines and the rows of two sessions.
RowsOf(path, sessions) ==
    {[path |-> path, id |-> <<s, 2, n>>, content |-> "x", source |-> "AI", origin |-> s] :
        s \in sessions, n \in 1..2}

VerifyInput ==
    /\ input = Wanted("verify")
    /\ \E a, b \in UpTo({"x", "y"}, 3), s, t \in SUBSET {1, 2} :
         input' = [kind |-> "verify", rows |-> RowsOf("a", s) \cup RowsOf("b", t),
                   diffs |-> <<[path |-> "a", lines |-> a], [path |-> "b", lines |-> b]>>]

Init == input \in {Wanted(of) : of \in {"texts", "files", "rules", "message", "config", "verify"}}

Next == \/ DiffInput
        \/ GitInput
        \/ IgnoreInput
        \/ MessageInput
        \/ ConfigInput
        \/ VerifyInput

Spec == Init /\ [][Next]_input
-----------------------------------------------------------------------------

\* A diff that succeeds rebuilds both texts and no script is shorter; it fails
\* exactly when the shortest one needs more edits than are allowed.
ScriptIsShortest ==
    input.kind = "texts" =>
      LET a == Lines(input.before)
          b == Lines(input.after)
          shortest == ShortestLength(a, b)
          diff == DiffWithLimit(input.before, input.after, input.budget)
      IN  IF shortest > input.budget THEN diff.failed
          ELSE /\ ~diff.failed
               /\ Rebuilds(diff.edits, a, b)
               /\ Cardinality({i \in DOMAIN diff.edits : diff.edits[i].op # "equal"}) = shortest

\* A blank line put anywhere into a text changes what no line with text is
\* recognised by: its content, its count and its neighbours with text.
BlankLinesKeepIdentity ==
    input.kind = "texts" =>
      \A at \in 0..Len(input.before), i \in DOMAIN input.before :
        ~IsBlank(input.before[i]) =>
          Identities(BlankPut(input.before, at))[Shifted(at, i)] = Identities(input.before)[i]

\* Unless a name has a space or a line looks like a header, every modified
\* file is read with exactly its added lines that are not blank, in order,
\* and no line goes to the file before or after it.
PlainDiffIsRead ==
    (input.kind = "files" /\ Diff!Plain(input.files)) =>
        Diff!ReadDiff(input.files) = Diff!AddedPerFile(input.files)

\* A file that a "!" rule takes back is never out of the scan's reach, unless
\* a rule after the "!" rule ignores a directory above it.
NegationIsReached ==
    input.kind = "rules" => Tree!NegationIsReached(input.rules, input.path)

\* A commit that is amended carries one record: the hook over its own result
\* gives what it gives over the message as it was.
AmendNeverStacks ==
    input.kind = "message" =>
        Hook!AmendNeverStacks(input.msg, input.first, input.second, Agents, input.settings)

\* The hook keeps the foreign lines and their order, and records once.
OnlyOursIsReplaced ==
    input.kind = "message" =>
        Hook!OnlyOursIsReplaced(input.msg, input.first, Agents, input.settings)

\* What hook config set, reset and the install save can be loaded again and
\* changes of the hook's behaviour only what they are for.
EditsKeepTheRest ==
    input.kind = "config" =>
        \A fields \in FieldChoices : Conf!EditsKeepTheRest(input.file, fields)

-----------------------------------------------------------------------------
\* What a comment says and the code does not do.

\* The path of a diff is the project's path of the file.
DiffPathIsProjectRelative ==
    (input.kind = "files"
     /\ \A i \in DOMAIN input.files : \A j \in DOMAIN input.files[i].added :
          input.files[i].added[j] \notin Diff!PlusPlus) =>
        Diff!ReadDiff(input.files) = Diff!AddedPerFile(input.files)

\* A session that contributed to two files is listed once.
SessionsAreUnique ==
    input.kind = "verify" =>
      LET listed == Cover!Verify(input.diffs, input.rows, FALSE).sessions
      IN  \A i, j \in DOMAIN listed : i # j => listed[i] # listed[j]
=============================================================================
