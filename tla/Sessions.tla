------------------------------ MODULE Sessions ------------------------------
(***************************************************************************)
(* The session service (internal/app/session.go) over the ai_session and   *)
(* ai_change_event tables (internal/storage/storage.go), called at once by *)
(* several callers: tool calls of one MCP server, other servers, the CLI.  *)
(* A step is one database statement or transaction, one pass over the      *)
(* workspace or one look at the caller's context; pc[c] names the next     *)
(* step of the call c is in, job[c] its local variables, reply[c] the last *)
(* answer.  A file's content is its version, the number of edits made to   *)
(* it, so a session's change to a path is the interval between two         *)
(* versions.  Clock readings that are stored differ (nanoseconds): each    *)
(* moves now to a later one of Instants.  Instants and MaxVersion bound    *)
(* the clock and the edits.                                                *)
(***************************************************************************)
EXTENDS Timestamps, FiniteSets

CONSTANTS Callers,       \* who calls the service
          SessionIds,    \* the UUIDs that may be drawn
          Instances,     \* agent instance ids
          NoInstance,    \* a request that names no instance
          Paths,         \* tracked files
          Ops,           \* the operations the callers use
          LeaseTimeout,  \* Service.LeaseTimeout in ticks, 0 when off
          MaxActive,     \* Service.MaxActivePerAgentInstance, 0 when off
          StoreMayFail,  \* may a statement fail (locked database, I/O)?
          Instants,      \* the readings of the clock, from 0
          MaxVersion

AllOps == {"start", "finish", "abandon", "heartbeat", "status"}

ASSUME OpsAssumption == Ops \subseteq AllOps
ASSUME NamesAssumption ==
    /\ NoInstance \notin Instances
    /\ "none" \notin SessionIds /\ IsFiniteSet(SessionIds)
ASSUME BoundsAssumption ==
    /\ LeaseTimeout \in Nat /\ MaxActive \in Nat
    /\ Instants \subseteq Nat /\ 0 \in Instants /\ MaxVersion \in Nat
    /\ StoreMayFail \in BOOLEAN

VARIABLES now,       \* the clock
          file,      \* version of each tracked file
          row,       \* ai_session
          baseline,  \* manifest of each session's snapshot
          change,    \* ai_change_event and the lines committed with it
          pc, job, reply

db == <<row, baseline, change>>
vars == <<now, file, row, baseline, change, pc, job, reply>>

Version == 0..MaxVersion
Time == Instants

\* Failure codes: what Finish records, what any call records, what a row holds.
LeaseExpired == "SESSION_LEASE_EXPIRED"
FinishFailures == {"FINISH_INTERRUPTED", "SNAPSHOT_FAILED",
                   "DIFF_RESOURCE_LIMIT", "SESSION_BASELINE_CONFLICT"}
CallCodes == FinishFailures \cup {"none", "SESSION_ABANDONED"}
Codes == CallCodes \cup {LeaseExpired}

Replies == CallCodes \cup
    {"started", "active", "finished", "failed", "not_found",
     "not_active", "owner_mismatch", "active_limit", "internal"}

Labels == {"idle", "own", "maintain", "count", "snapshot", "stamp", "insert",
           "beat", "read", "ctx", "load", "scan", "diff", "commit", "answer",
           "fail"}

Session == [state : {"absent", "active", "finished", "failed"},
            inst : Instances \cup {NoInstance},
            startedAt : Time, beat : Time, endedAt : Time, code : Codes]

NoSession == [state |-> "absent", inst |-> NoInstance, startedAt |-> 0,
              beat |-> 0, endedAt |-> 0, code |-> "none"]

Change == [sid : SessionIds, path : Paths, from : Version, to : Version]

Job == [op : AllOps \cup {"none"}, sid : SessionIds \cup {"none"},
        inst : Instances \cup {NoInstance}, stamp : Time,
        ended : BOOLEAN,           \* is the call's context cancelled or late?
        code : CallCodes,          \* failure about to be recorded
        seen : [Paths -> Version], \* what the finish's scan read
        todo : SUBSET Paths]       \* candidates not yet diffed

NoJob == [op |-> "none", sid |-> "none", inst |-> NoInstance, stamp |-> 0,
          ended |-> FALSE, code |-> "none", seen |-> [p \in Paths |-> 0],
          todo |-> {}]

TypeOK ==
    /\ now \in Time
    /\ file \in [Paths -> Version]
    /\ row \in [SessionIds -> Session]
    /\ baseline \in [SessionIds -> [Paths -> Version]]
    /\ change \subseteq Change
    /\ pc \in [Callers -> Labels]
    /\ job \in [Callers -> Job]
    /\ reply \in [Callers -> [sid : SessionIds \cup {"none"}, code : Replies]]
    /\ \A c \in Callers : pc[c] # "idle" => job[c].sid \in SessionIds /\ job[c].op \in AllOps

Init ==
    /\ now = 0
    /\ file = [p \in Paths |-> 0]
    /\ row = [s \in SessionIds |-> NoSession]
    /\ baseline = [s \in SessionIds |-> [p \in Paths |-> 0]]
    /\ change = {}
    /\ pc = [c \in Callers |-> "idle"]
    /\ job = [c \in Callers |-> NoJob]
    /\ reply = [c \in Callers |-> [sid |-> "none", code |-> "none"]]

-----------------------------------------------------------------------------
\* Control flow of one call.

Goto(c, label) ==
    /\ pc' = [pc EXCEPT ![c] = label]
    /\ UNCHANGED reply

Return(c, code) ==
    /\ pc' = [pc EXCEPT ![c] = "idle"]
    /\ job' = [job EXCEPT ![c] = NoJob]
    /\ reply' = [reply EXCEPT ![c] = [sid |-> job[c].sid, code |-> code]]

\* The call ends in s.Status(ctx, id), as Heartbeat and Abandon do.
ThenStatus(c) ==
    /\ Goto(c, "maintain")
    /\ job' = [job EXCEPT ![c].op = "status"]

\* The finish or abandon goes on to FailSession with this code.
FailWith(c, code) ==
    /\ Goto(c, "fail")
    /\ job' = [job EXCEPT ![c].code = code]

\* A statement may fail when the database is locked; one that runs under the
\* caller's context does fail once that has ended.
StatementMayFail(c) == StoreMayFail \/ job[c].ended
ContextLives(c) == ~job[c].ended

\* Taking the time to store it: any later reading may follow.
ReadClock == \E t \in Instants : now < t /\ now' = t

\* Fault: the guard on the state left out of the UPDATE.
EndRowAlways(s, st, code) ==
    [row EXCEPT ![s] = [@ EXCEPT !.state = st, !.endedAt = now, !.code = code]]

\* The row after "UPDATE ai_session SET state=st, finished_at=Now(), ..."
\* WHERE id=s AND state='active'.
EndRow(s, st, code) ==
    IF row[s].state = "active"
    THEN [row EXCEPT ![s] = [@ EXCEPT !.state = st, !.endedAt = now,
                                      !.code = code]]
    ELSE row

\* uuid() never draws an id a call has named before.
Fresh(s) ==
    /\ row[s].state = "absent"
    /\ \A c \in Callers : job[c].sid # s /\ reply[c].sid # s

Call(c, op, s, i) ==
    /\ pc[c] = "idle"
    /\ op = "start" => Fresh(s)
    /\ op # "start" => \A d \in Callers : job[d].op = "start" => job[d].sid # s
    /\ op \in {"start", "heartbeat"} => i # NoInstance
    /\ op = "status" => i = NoInstance
    /\ pc' = [pc EXCEPT ![c] = IF op \in {"finish", "abandon"} /\ i # NoInstance
                               THEN "own" ELSE "maintain"]
    /\ job' = [job EXCEPT ![c] = [NoJob EXCEPT !.op = op, !.sid = s, !.inst = i]]
    /\ reply' = [reply EXCEPT ![c] = [sid |-> "none", code |-> "none"]]
    /\ UNCHANGED <<now, file, db>>

\* FinishOwned and AbandonOwned: sql.ErrNoRows is returned as it is.
Own(c) ==
    /\ pc[c] = "own" /\ ContextLives(c)
    /\ LET r == row[job[c].sid] IN
       \/ r.state = "absent" /\ Return(c, "internal")
       \/ r.state # "absent" /\ r.inst # job[c].inst /\ Return(c, "owner_mismatch")
       \/ r.state # "absent" /\ r.inst = job[c].inst
          /\ Goto(c, "maintain") /\ UNCHANGED job
    /\ UNCHANGED <<now, file, db>>

-----------------------------------------------------------------------------
\* Lease expiry, the first statement of every operation.

\* Fault: the lease counted from the start of the session.
ExpiredSinceStart == {s \in SessionIds : row[s].state = "active"
                                        /\ Before(row[s].startedAt, now - LeaseTimeout)}

Expired == {s \in SessionIds : row[s].state = "active"
                               /\ Before(row[s].beat, now - LeaseTimeout)}

\* Fault: a state the schema does not know.
ExpireLeasesAsExpired ==
    /\ ReadClock
    /\ row' = [s \in SessionIds |->
                 IF s \in Expired
                 THEN [row[s] EXCEPT !.state = "expired", !.endedAt = now,
                                     !.code = LeaseExpired]
                 ELSE row[s]]

ExpireLeases ==
    /\ ReadClock
    /\ row' = [s \in SessionIds |->
                 IF s \in Expired
                 THEN [row[s] EXCEPT !.state = "failed", !.endedAt = now,
                                     !.code = LeaseExpired]
                 ELSE row[s]]

AfterMaintain == [start |-> "count", finish |-> "ctx", abandon |-> "load",
                  heartbeat |-> "stamp", status |-> "read"]

\* maintain ignores the error of ExpireLeases.
Maintain(c) ==
    /\ pc[c] = "maintain"
    /\ \/ LeaseTimeout > 0 /\ Expired # {} /\ ContextLives(c) /\ ExpireLeases
       \/ /\ LeaseTimeout = 0 \/ Expired = {} \/ StatementMayFail(c)
          /\ UNCHANGED <<now, row>>
    /\ Goto(c, AfterMaintain[job[c].op])
    /\ UNCHANGED <<file, baseline, change, job>>

-----------------------------------------------------------------------------
\* Start.

Active(i) == {s \in SessionIds : row[s].state = "active" /\ row[s].inst = i}

\* Fault: one session too many.
CountActiveOffByOne(c) ==
    /\ pc[c] = "count" /\ ContextLives(c)
    /\ IF MaxActive > 0 /\ Cardinality(Active(job[c].inst)) > MaxActive
       THEN Return(c, "active_limit")
       ELSE Goto(c, "snapshot") /\ UNCHANGED job
    /\ UNCHANGED <<now, file, db>>

CountActive(c) ==
    /\ pc[c] = "count" /\ ContextLives(c)
    /\ IF MaxActive > 0 /\ Cardinality(Active(job[c].inst)) >= MaxActive
       THEN Return(c, "active_limit")
       ELSE Goto(c, "snapshot") /\ UNCHANGED job
    /\ UNCHANGED <<now, file, db>>

\* CreateWithQuota scans the workspace and writes the manifest, or fails.
TakeSnapshot(c) ==
    /\ pc[c] = "snapshot"
    /\ \/ /\ baseline' = [baseline EXCEPT ![job[c].sid] = file]
          /\ Goto(c, "stamp")
          /\ UNCHANGED job
       \/ Return(c, "internal") /\ UNCHANGED baseline
    /\ UNCHANGED <<now, file, row, change>>

\* time.Now() of Start (after its snapshot) and of Heartbeat, each before
\* the statement that stores it.
Stamp(c) ==
    /\ pc[c] = "stamp"
    /\ ReadClock
    /\ job' = [job EXCEPT ![c].stamp = now]
    /\ Goto(c, IF job[c].op = "start" THEN "insert" ELSE "beat")
    /\ UNCHANGED <<file, db>>

CreateSession(c) ==
    /\ pc[c] = "insert" /\ ContextLives(c)
    /\ row' = [row EXCEPT ![job[c].sid] =
                 [state |-> "active", inst |-> job[c].inst,
                  startedAt |-> job[c].stamp, beat |-> job[c].stamp,
                  endedAt |-> 0, code |-> "none"]]
    /\ Return(c, "started")
    /\ UNCHANGED <<now, file, baseline, change>>

-----------------------------------------------------------------------------
\* Heartbeat and Status.

Beat(c) ==
    /\ pc[c] = "beat" /\ ContextLives(c)
    /\ LET r == row[job[c].sid] IN
       IF r.state = "active" /\ r.inst = job[c].inst
       THEN /\ row' = [row EXCEPT ![job[c].sid].beat = job[c].stamp]
            /\ ThenStatus(c)
       ELSE Return(c, "owner_mismatch") /\ UNCHANGED row
    /\ UNCHANGED <<now, file, baseline, change>>

Read(c) ==
    /\ pc[c] = "read" /\ ContextLives(c)
    /\ LET st == row[job[c].sid].state IN
       Return(c, IF st = "absent" THEN "not_found" ELSE st)
    /\ UNCHANGED <<now, file, db>>

-----------------------------------------------------------------------------
\* Finish and Abandon.

\* Finish looks at its context before it knows the session exists.
CheckContext(c) ==
    /\ pc[c] = "ctx"
    /\ IF job[c].ended THEN FailWith(c, "FINISH_INTERRUPTED")
                       ELSE Goto(c, "load") /\ UNCHANGED job
    /\ UNCHANGED <<now, file, db>>

\* Fault: a finish goes on whatever the state of the session.
LoadAnyState(c) ==
    /\ pc[c] = "load" /\ ContextLives(c)
    /\ LET st == row[job[c].sid].state IN
       \/ st = "absent" /\ Return(c, "not_found")
       \/ st # "absent" /\ job[c].op = "finish" /\ Goto(c, "scan") /\ UNCHANGED job
       \/ st = "active" /\ job[c].op = "abandon" /\ FailWith(c, "SESSION_ABANDONED")
    /\ UNCHANGED <<now, file, db>>

Load(c) ==
    /\ pc[c] = "load" /\ ContextLives(c)
    /\ LET st == row[job[c].sid].state IN
       \/ st = "absent" /\ Return(c, "not_found")
       \/ st \in {"finished", "failed"} /\ Return(c, "not_active")
       \/ st = "active" /\ job[c].op = "finish" /\ Goto(c, "scan") /\ UNCHANGED job
       \/ st = "active" /\ job[c].op = "abandon" /\ FailWith(c, "SESSION_ABANDONED")
    /\ UNCHANGED <<now, file, db>>

ChangedPaths(s, seen) == {p \in Paths : seen[p] # baseline[s][p]}

\* snapshot.Read, workspace.Scan and fileCandidates.
Scan(c) ==
    /\ pc[c] = "scan"
    /\ \/ /\ job' = [job EXCEPT ![c].seen = file,
                                ![c].todo = ChangedPaths(job[c].sid, file)]
          /\ Goto(c, "diff")
       \/ FailWith(c, "SNAPSHOT_FAILED")
    /\ UNCHANGED <<now, file, db>>

\* Fault: asks for sessions started, not finished, since this one began.
HasChangeStartedSince(p, s) ==
    \E e \in change : /\ e.path = p /\ e.sid # s
                      /\ row[e.sid].state = "finished"
                      /\ Before(row[s].startedAt, row[e.sid].startedAt)

HasFinishedChangeSince(p, s) ==
    \E e \in change : /\ e.path = p /\ e.sid # s
                      /\ row[e.sid].state = "finished"
                      /\ Before(row[s].startedAt, row[e.sid].endedAt)

\* Fault: the loop looks at its first candidate for ever.
DiffSameAgain(c) ==
    /\ pc[c] = "diff"
    /\ \/ job[c].todo = {} /\ Goto(c, "commit") /\ UNCHANGED job
       \/ /\ job[c].todo # {} /\ ~job[c].ended
          /\ \E p \in job[c].todo :
               IF HasFinishedChangeSince(p, job[c].sid)
               THEN FailWith(c, "SESSION_BASELINE_CONFLICT")
               ELSE UNCHANGED <<pc, job, reply>>
    /\ UNCHANGED <<now, file, db>>

\* The body of the loop over the candidates, and its exit.
Diff(c) ==
    /\ pc[c] = "diff"
    /\ \/ job[c].todo = {} /\ Goto(c, "commit") /\ UNCHANGED job
       \/ /\ job[c].todo # {} /\ job[c].ended
          /\ FailWith(c, "FINISH_INTERRUPTED")
       \/ /\ job[c].todo # {} /\ ~job[c].ended
          /\ FailWith(c, "DIFF_RESOURCE_LIMIT")
       \/ /\ ~job[c].ended
          /\ \E p \in job[c].todo :
               IF HasFinishedChangeSince(p, job[c].sid)
               THEN FailWith(c, "SESSION_BASELINE_CONFLICT")
               ELSE /\ job' = [job EXCEPT ![c].todo = @ \ {p}]
                    /\ UNCHANGED <<pc, reply>>
    /\ UNCHANGED <<now, file, db>>

Events(s, seen) ==
    {[sid |-> s, path |-> p, from |-> baseline[s][p], to |-> seen[p]] :
        p \in ChangedPaths(s, seen)}

\* An event has its session and path for key, and a current line's identity is
\* unique: rows committed after this finish read the current ones may clash.
KeyClash(s, seen) == \E e \in change : e.sid = s /\ e.path \in ChangedPaths(s, seen)
LineMayClash(s, seen) == \E p \in ChangedPaths(s, seen) : HasFinishedChangeSince(p, s)

\* Fault: the rows are inserted outside the transaction that ends the session.
CommitFinishUnatomic(c) ==
    LET s == job[c].sid
        seen == job[c].seen
    IN
    /\ pc[c] = "commit"
    /\ ~job[c].ended
    /\ \/ /\ ReadClock
          /\ change' = change \cup Events(s, seen)
          /\ row' = EndRow(s, "finished", "none")
          /\ Goto(c, "answer")
          /\ UNCHANGED job
       \/ /\ StatementMayFail(c)
          /\ change' = change \cup Events(s, seen)
          /\ Return(c, "internal")
          /\ UNCHANGED <<now, row>>
    /\ UNCHANGED <<file, baseline>>

\* CommitFinish: one transaction; the number of session rows updated is not
\* looked at.
CommitFinish(c) ==
    LET s == job[c].sid
        seen == job[c].seen
    IN
    /\ pc[c] = "commit"
    /\ \/ /\ job[c].ended
          /\ FailWith(c, "FINISH_INTERRUPTED")
          /\ UNCHANGED <<now, row, change>>
       \/ /\ ~job[c].ended /\ ~KeyClash(s, seen)
          /\ ReadClock
          /\ change' = change \cup Events(s, seen)
          /\ row' = EndRow(s, "finished", "none")
          /\ Goto(c, "answer")
          /\ UNCHANGED job
       \/ /\ ~job[c].ended /\ (KeyClash(s, seen) \/ LineMayClash(s, seen))
          /\ Return(c, "internal")
          /\ UNCHANGED <<now, row, change>>
    /\ UNCHANGED <<file, baseline>>

\* The state of the result is a literal, not the row's.
Answer(c) ==
    /\ pc[c] = "answer" /\ ContextLives(c)
    /\ Return(c, "finished")
    /\ UNCHANGED <<now, file, db>>

\* Fault: every failure is recorded under the caller's context.
FailSessionUnderCaller(c) ==
    /\ pc[c] = "fail"
    /\ \/ /\ ContextLives(c)
          /\ row' = EndRow(job[c].sid, "failed", job[c].code)
          /\ ReadClock
          /\ IF job[c].op = "finish" THEN Return(c, job[c].code) ELSE ThenStatus(c)
       \/ /\ StatementMayFail(c)
          /\ Return(c, IF job[c].op = "finish" THEN job[c].code ELSE "internal")
          /\ UNCHANGED <<now, row>>
    /\ UNCHANGED <<file, baseline, change>>

\* FailSession.  Interruption and the resource limit are recorded under a
\* context of their own, the other failures under the caller's; Finish
\* answers the failure whether or not it was recorded.
FailSession(c) ==
    /\ pc[c] = "fail"
    /\ LET own == job[c].code \in {"FINISH_INTERRUPTED", "DIFF_RESOURCE_LIMIT"} IN
       \/ /\ own \/ ContextLives(c)
          /\ row' = EndRow(job[c].sid, "failed", job[c].code)
          /\ ReadClock
          /\ IF job[c].op = "finish" THEN Return(c, job[c].code) ELSE ThenStatus(c)
       \/ /\ IF own THEN StoreMayFail ELSE StatementMayFail(c)
          /\ Return(c, IF job[c].op = "finish" THEN job[c].code ELSE "internal")
          /\ UNCHANGED <<now, row>>
    /\ UNCHANGED <<file, baseline, change>>

-----------------------------------------------------------------------------
\* A statement fails and the call returns its error.
StatementError(c) ==
    /\ pc[c] \in {"own", "count", "insert", "beat", "read", "load", "diff",
                  "commit", "answer"}
    /\ StatementMayFail(c)
    /\ Return(c, "internal")
    /\ UNCHANGED <<now, file, db>>

\* The host cancels the call, or its deadline passes.
ContextEnds(c) ==
    /\ pc[c] # "idle" /\ ~job[c].ended
    /\ job' = [job EXCEPT ![c].ended = TRUE]
    /\ UNCHANGED <<now, file, db, pc, reply>>

\* The caller's process dies.
Crash(c) ==
    /\ pc[c] # "idle"
    /\ pc' = [pc EXCEPT ![c] = "idle"]
    /\ job' = [job EXCEPT ![c] = NoJob]
    /\ UNCHANGED <<now, file, db, reply>>

\* An agent or a human writes a tracked file.
Edit(p) ==
    /\ file[p] < MaxVersion
    /\ file' = [file EXCEPT ![p] = @ + 1]
    /\ UNCHANGED <<now, db, pc, job, reply>>

Tick ==
    /\ ReadClock
    /\ UNCHANGED <<file, db, pc, job, reply>>

Step(c) ==
    \/ Own(c) \/ Maintain(c) \/ CountActive(c) \/ TakeSnapshot(c) \/ Stamp(c)
    \/ CreateSession(c) \/ Beat(c) \/ Read(c) \/ CheckContext(c) \/ Load(c)
    \/ Scan(c) \/ Diff(c) \/ CommitFinish(c) \/ Answer(c) \/ FailSession(c)
    \/ StatementError(c)

Next ==
    \/ \E c \in Callers :
         \/ \E op \in Ops, s \in SessionIds, i \in Instances \cup {NoInstance} :
               Call(c, op, s, i)
         \/ Step(c)
         \/ ContextEnds(c)
         \/ Crash(c)
    \/ \E p \in Paths : Edit(p)
    \/ Tick

Spec == Init /\ [][Next]_vars

\* A call that has begun runs on: its goroutine is scheduled, and no statement
\* waits longer than the 5 s busy timeout.
FairSpec == Spec /\ \A c \in Callers : WF_vars(Step(c))

-----------------------------------------------------------------------------
\* Properties.

Terminal == {"finished", "failed"}

\* A session that has ended stays as it ended: no late heartbeat, expiry,
\* abandon or finish of another caller changes its row ("WHERE state='active'"
\* in every UPDATE of ai_session).
TerminalIsPermanent ==
    [][\A s \in SessionIds : row[s].state \in Terminal => row'[s] = row[s]]_vars

\* While a session is active, none of its changes is in the database, so a
\* finish that failed or crashed before or inside CommitFinish can be retried
\* without meeting its own rows.
ActiveIsUncredited == \A e \in change : row[e.sid].state \in Terminal

\* Only a finished session has provenance (README: "Only a successfully
\* finished session writes provenance").
OnlyFinishedIsCredited == \A e \in change : row[e.sid].state = "finished"

\* Session s ended after session t had begun, but within the same second of
\* it: texts that differ only in their fractions need not sort as the instants.
BriefOverlap(s, t) ==
    /\ row[t].startedAt < row[s].endedAt
    /\ row[s].endedAt < row[t].startedAt + TicksPerSecond

\* No edit is credited to two sessions, which is what HasFinishedChangeSince is
\* for, unless the session that ended first did so less than a second after
\* the other had begun.
NoEditCreditedTwice ==
    \A e, f \in change :
        /\ e.path = f.path /\ e.sid # f.sid
        /\ row[e.sid].endedAt <= row[f.sid].endedAt
        => e.to <= f.from \/ BriefOverlap(e.sid, f.sid)

\* Two sessions that overlapped for a second or more are not both credited with
\* a change to the same path: the later finish meets a baseline conflict.
OverlapIsConflict ==
    \A e, f \in change :
        /\ e.path = f.path /\ e.sid # f.sid
        /\ row[e.sid].endedAt <= row[f.sid].endedAt
        => row[e.sid].endedAt < row[f.sid].startedAt + TicksPerSecond

\* What the comment of HasFinishedChangeSince says ("another session finished a
\* change to path after the current session began"): no session is credited
\* with a change to a path another finished after it had begun, however soon.
FinishedSinceIsConflict ==
    \A e, f \in change :
        /\ e.path = f.path /\ e.sid # f.sid
        /\ row[e.sid].endedAt <= row[f.sid].endedAt
        => row[e.sid].endedAt <= row[f.sid].startedAt

\* A change finished before a session's started_at is in that session's baseline,
\* which is why HasFinishedChangeSince takes it for irrelevant ("historical
\* changes from before that baseline").
BaselineHasFinishedChanges ==
    \A e \in change, s \in SessionIds :
        /\ row[s].state # "absent" /\ s # e.sid
        /\ row[e.sid].endedAt <= row[s].startedAt
        => e.to <= baseline[s][e.path]

\* No agent instance has more active sessions than the configuration allows.
WithinActiveLimit ==
    MaxActive > 0 => \A i \in Instances : Cardinality(Active(i)) <= MaxActive

\* A lease is taken away only when the last stored heartbeat is older than the
\* timeout (rules/AGENT-RULES.md:45: "a session without a heartbeat longer than
\* the configured lease timeout"), or would be within less than a second: the
\* cutoff and the heartbeat are compared as texts.
LeaseNeverEarly ==
    \A s \in SessionIds :
        row[s].code = LeaseExpired =>
            row[s].beat < row[s].endedAt - LeaseTimeout + TicksPerSecond

\* A finish that answers it was interrupted or hit the resource limit leaves
\* no active session behind: those failures are recorded under a context of
\* their own, whatever happened to the caller's.
FailureAnswerIsRecorded ==
    \A c \in Callers :
        reply[c].code \in {"FINISH_INTERRUPTED", "DIFF_RESOURCE_LIMIT"} =>
            row[reply[c].sid].state # "active"

\* Every call gets its answer, unless the model's clock has run out.
OutOfTime == \A t \in Instants : t <= now
CallReturns == \A c \in Callers : pc[c] # "idle" ~> pc[c] = "idle" \/ OutOfTime

\* The service keeps the promises of SessionLedger.
Ledger == INSTANCE SessionLedger WITH
    state  <- [s \in SessionIds |-> row[s].state],
    owner  <- [s \in SessionIds |-> row[s].inst],
    credit <- change,
    brief  <- {st \in SessionIds \X SessionIds : BriefOverlap(st[1], st[2])}

ImplementsLedger == Ledger!Spec
=============================================================================
