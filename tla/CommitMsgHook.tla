--------------------------- MODULE CommitMsgHook ---------------------------
(***************************************************************************)
(* internal/cli/hook_trailer.go and RunCommitMsgHook: what the commit-msg  *)
(* hook makes of a commit message.  A message is the sequence of the       *)
(* pieces between its newlines; a piece is a text with the coverage        *)
(* suffixes it ends in, one of ai-prov's trailers, or its comment mark.    *)
(* Texts do not end in spaces.                                             *)
(***************************************************************************)
EXTENDS Integers, Sequences, FiniteSets, SequencesExt

Words(text, suffixes) == [is |-> "text", text |-> text, ai |-> suffixes]
Ours(key, value) == [is |-> "ours", key |-> key, value |-> value]
Mark == [is |-> "mark"]
Blank == Words("", <<>>)

\* math.Round of the coverage in percent; a whole coverage is 1.
Percent(res) == IF res.untracked = 0 THEN 100
                ELSE (200 * res.ai + res.total) \div (2 * res.total)

\* One line per field; ids and agents are those of the sessions that count.
RenderTrailer(res, agents, settings) ==
    LET line(field) ==
          CASE field = "coverage" -> <<Ours("AI-Contribution", Percent(res))>>
            [] field = "lines" -> <<Ours("AI-Lines", <<res.ai, res.total>>)>>
            [] field = "agent" -> <<Ours("AI-Agent", IF agents = {} THEN {"unknown"} ELSE agents)>>
            [] OTHER -> IF res.sessions = <<>> THEN <<>>
                        ELSE <<Ours("AI-Provenance-ID", res.sessions)>>
        fields == settings.trailer.fields
        lines == FlattenSeq([i \in DOMAIN fields |-> line(fields[i])])
    IN  IF res.total = 0 \/ lines = <<>> THEN <<>>
        ELSE IF settings.trailer.comments THEN <<Mark>> \o lines ELSE lines

\* Fault: the mark is not taken for ai-prov's own.
IsOurTrailerOnly(piece) == piece.is = "ours"

IsOurs(piece) == piece.is \in {"ours", "mark"}

\* The first piece loses its last suffix and gets the new one.
RewriteTitleCoverage(pieces, res, titleCoverage) ==
    LET title == pieces[1]
        bare == IF title.ai = <<>> THEN <<>> ELSE Front(title.ai)
        suffixes == IF titleCoverage /\ res.total > 0 THEN Append(bare, Percent(res)) ELSE bare
    IN  <<[title EXCEPT !.ai = suffixes]>> \o Tail(pieces)

\* The pieces at some places, in their order.
PiecesAt(pieces, places) ==
    FlattenSeq([i \in DOMAIN pieces |-> IF i \in places THEN <<pieces[i]>> ELSE <<>>])

\* Of blank pieces in a row after the first piece, one is left.
Collapse(pieces) ==
    PiecesAt(pieces, {i \in DOMAIN pieces :
      ~(i > 1 /\ i < Len(pieces) /\ pieces[i] = Blank /\ pieces[i + 1] = Blank)})

\* Fault: the blank pieces at the end stay.
TrimRightNot(pieces) == pieces

TrimRight(pieces) ==
    LET texts == {1} \cup {i \in DOMAIN pieces : pieces[i] # Blank}
    IN  SubSeq(pieces, 1, CHOOSE i \in texts : \A j \in texts : j <= i)

Rewrite(msg, trailer, res, titleCoverage) ==
    LET kept == PiecesAt(msg, {i \in DOMAIN msg : ~IsOurs(msg[i])})
        pieces == IF kept = <<>> THEN <<Blank>> ELSE kept
        cleaned == TrimRight(Collapse(RewriteTitleCoverage(pieces, res, titleCoverage)))
    IN  IF trailer = <<>> THEN Append(cleaned, Blank)
        ELSE cleaned \o <<Blank>> \o trailer \o <<Blank>>

SessionAgents(sessions, agentOf) == {agentOf[s] : s \in Range(sessions) \cap DOMAIN agentOf}

\* The message is written before the strictness is looked at.
RunCommitMsgHook(msg, res, agentOf, settings) ==
    LET trailer == IF settings.writeTrailer
                   THEN RenderTrailer(res, SessionAgents(res.sessions, agentOf), settings)
                   ELSE <<>>
    IN  [msg |-> Rewrite(msg, trailer, res, settings.titleCoverage),
         blocked |-> settings.strict /\ res.status # "ok"]

-----------------------------------------------------------------------------

\* What is not ai-prov's: the pieces with text, the first without a suffix.
Foreign(msg) ==
    LET kept == PiecesAt(msg, {i \in DOMAIN msg : msg[i].is = "text"})
        bare == [i \in DOMAIN kept |-> [kept[i] EXCEPT !.ai = IF i = 1 THEN <<>> ELSE @]]
    IN  PiecesAt(bare, {i \in DOMAIN bare : bare[i] # Blank})

\* An amend never stacks: the hook run over its own result gives what it gives
\* over the original, whatever it recorded the first time.
AmendNeverStacks(msg, first, second, agentOf, settings) ==
    RunCommitMsgHook(RunCommitMsgHook(msg, first, agentOf, settings).msg,
                     second, agentOf, settings).msg
      = RunCommitMsgHook(msg, second, agentOf, settings).msg

\* Everything that is not ai-prov's stays, in its order, and what is ai-prov's
\* is there once, at the end, when there is something to record.
OnlyOursIsReplaced(msg, res, agentOf, settings) ==
    LET out == RunCommitMsgHook(msg, res, agentOf, settings).msg
        ours == {i \in DOMAIN out : out[i].is # "text"}
    IN  /\ Foreign(out) = Foreign(msg)
        /\ \A i, j \in ours : i # j => out[i] # out[j]
        /\ \A i \in ours, j \in DOMAIN out \ ours : j < i \/ out[j] = Blank
        /\ ours = {} <=> (~settings.writeTrailer \/ res.total = 0)
=============================================================================
