--------------------------- MODULE SessionsProofs ---------------------------
(***************************************************************************)
(* Theorems about Sessions, for every set of callers, sessions, instances  *)
(* and paths, every timeout, limit and clock; the second half is about     *)
(* callers that take turns, and shows that they implement SessionLedger.   *)
(***************************************************************************)
EXTENDS Sessions, FiniteSetTheorems, TLAPS

USE NamesAssumption, BoundsAssumption, OpsAssumption, TicksPerSecondAssumption

-----------------------------------------------------------------------------
\* The two halves of the type invariant: the stored state, the calls.

StoreTyped ==
    /\ now \in Time
    /\ file \in [Paths -> Version]
    /\ row \in [SessionIds -> Session]
    /\ baseline \in [SessionIds -> [Paths -> Version]]
    /\ change \subseteq Change

CallsTyped ==
    /\ pc \in [Callers -> Labels]
    /\ job \in [Callers -> Job]
    /\ reply \in [Callers -> [sid : SessionIds \cup {"none"}, code : Replies]]
    /\ \A c \in Callers : pc[c] # "idle" => job[c].sid \in SessionIds /\ job[c].op \in AllOps

\* The readings of the clock are numbers.
LEMMA TimesAreNumbers == \A t \in Time : t \in Int
  BY DEF Time

LEMMA TypeHalves == TypeOK <=> StoreTyped /\ CallsTyped
  BY DEF TypeOK, StoreTyped, CallsTyped

\* The empty job is a job, and a job with a field replaced is one.
LEMMA NoJobTyped == NoJob \in Job
  BY DEF NoJob, Job, Codes, CallCodes, Time, Version

LEMMA JobTyped ==
  ASSUME NEW j \in Job
  PROVE  /\ j.op \in AllOps \cup {"none"} /\ j.sid \in SessionIds \cup {"none"}
         /\ j.inst \in Instances \cup {NoInstance} /\ j.stamp \in Time
         /\ j.ended \in BOOLEAN /\ j.code \in CallCodes /\ j.seen \in [Paths -> Version]
         /\ j.todo \in SUBSET Paths
         /\ [j EXCEPT !.op = "status"] \in Job
         /\ [j EXCEPT !.ended = TRUE] \in Job
         /\ \A x \in CallCodes : [j EXCEPT !.code = x] \in Job
         /\ \A x \in Time : [j EXCEPT !.stamp = x] \in Job
         /\ \A x \in SUBSET Paths : [j EXCEPT !.todo = x] \in Job
         /\ \A x \in [Paths -> Version], y \in SUBSET Paths :
              [j EXCEPT !.seen = x, !.todo = y] \in Job
  BY DEF Job, AllOps

\* Replacing such a field keeps the session and, but for Status, the operation.
LEMMA JobKeeps ==
  ASSUME NEW j \in Job
  PROVE  /\ [j EXCEPT !.op = "status"].sid = j.sid
         /\ [j EXCEPT !.op = "status"].op = "status"
         /\ [j EXCEPT !.ended = TRUE].sid = j.sid /\ [j EXCEPT !.ended = TRUE].op = j.op
         /\ \A x : [j EXCEPT !.code = x].sid = j.sid /\ [j EXCEPT !.code = x].op = j.op
         /\ \A x : [j EXCEPT !.stamp = x].sid = j.sid /\ [j EXCEPT !.stamp = x].op = j.op
         /\ \A x : [j EXCEPT !.todo = x].sid = j.sid /\ [j EXCEPT !.todo = x].op = j.op
         /\ \A x, y : /\ [j EXCEPT !.seen = x, !.todo = y].sid = j.sid
                      /\ [j EXCEPT !.seen = x, !.todo = y].op = j.op
  BY DEF Job

LEMMA GotoTyped ==
  ASSUME CallsTyped, NEW c \in Callers, pc[c] # "idle",
         NEW label \in Labels, Goto(c, label), UNCHANGED job
  PROVE  CallsTyped'
  BY DEF CallsTyped, Goto

LEMMA ReturnTyped ==
  ASSUME CallsTyped, NEW c \in Callers, pc[c] # "idle",
         NEW code \in Replies, Return(c, code)
  PROVE  CallsTyped'
  BY NoJobTyped DEF CallsTyped, Return, Labels

LEMMA FailWithTyped ==
  ASSUME CallsTyped, NEW c \in Callers, pc[c] # "idle",
         NEW code \in CallCodes, FailWith(c, code)
  PROVE  CallsTyped'
<1> DEFINE j == [job[c] EXCEPT !.code = code]
<1>1. job[c] \in Job
  BY DEF CallsTyped
<1>2. j \in Job
  BY <1>1, JobTyped
<1>3. j.sid = job[c].sid /\ j.op = job[c].op
  BY <1>1 DEF Job
<1>4. job' = [job EXCEPT ![c] = j]
  BY DEF FailWith
<1> QED
  BY <1>2, <1>3, <1>4 DEF CallsTyped, FailWith, Goto, Labels

LEMMA ThenStatusTyped ==
  ASSUME CallsTyped, NEW c \in Callers, pc[c] # "idle", ThenStatus(c)
  PROVE  CallsTyped'
<1> DEFINE j == [job[c] EXCEPT !.op = "status"]
<1>1. job[c] \in Job
  BY DEF CallsTyped
<1>2. j \in Job
  BY <1>1, JobTyped
<1>3. j.sid = job[c].sid /\ j.op \in AllOps
  BY <1>1 DEF Job, AllOps
<1>4. job' = [job EXCEPT ![c] = j]
  BY DEF ThenStatus
<1> QED
  BY <1>2, <1>3, <1>4 DEF CallsTyped, ThenStatus, Goto, Labels

LEMMA ReadClockTyped ==
  ASSUME now \in Time, ReadClock
  PROVE  now' \in Time
  BY DEF ReadClock, Time

LEMMA EndRowTyped ==
  ASSUME StoreTyped, NEW s \in SessionIds, NEW st \in {"finished", "failed"},
         NEW code \in CallCodes
  PROVE  EndRow(s, st, code) \in [SessionIds -> Session]
  BY DEF EndRow, StoreTyped, Session, Codes

LEMMA InitTypeOK == Init => TypeOK
<1> SUFFICES ASSUME Init PROVE TypeOK
  OBVIOUS
<1>1. StoreTyped
  BY DEF Init, StoreTyped, Time, Version, Session, NoSession, Codes, CallCodes, Change
<1>2. CallsTyped
  BY NoJobTyped DEF Init, CallsTyped, Labels, Replies, Codes, CallCodes
<1> QED
  BY <1>1, <1>2, TypeHalves

LEMMA NextTypeOK == TypeOK /\ [Next]_vars => TypeOK'
<1> SUFFICES ASSUME StoreTyped, CallsTyped, [Next]_vars
             PROVE  StoreTyped' /\ CallsTyped'
  BY DEF TypeOK, StoreTyped, CallsTyped
<1> USE DEF db
<1>1. ASSUME NEW c \in Callers, NEW op \in Ops, NEW s \in SessionIds,
             NEW i \in Instances \cup {NoInstance}, Call(c, op, s, i)
      PROVE  StoreTyped' /\ CallsTyped'
  <2> DEFINE j == [NoJob EXCEPT !.op = op, !.sid = s, !.inst = i]
  <2>1. j \in Job /\ j.sid = s /\ j.op = op /\ op \in AllOps
    BY NoJobTyped DEF Job
  <2>2. job' = [job EXCEPT ![c] = j]
    BY <1>1 DEF Call
  <2>3. CallsTyped'
    BY <1>1, <2>1, <2>2 DEF Call, CallsTyped, Labels, Replies, Codes, CallCodes
  <2> QED
    BY <1>1, <2>3 DEF Call, StoreTyped
<1>2. ASSUME NEW c \in Callers, Own(c) PROVE StoreTyped' /\ CallsTyped'
  <2>1. pc[c] # "idle" /\ {"internal", "owner_mismatch"} \subseteq Replies
    BY <1>2 DEF Own, Replies
  <2>2. CallsTyped'
    BY <1>2, <2>1, ReturnTyped, GotoTyped DEF Own, Labels
  <2> QED
    BY <1>2, <2>2 DEF Own, StoreTyped
<1>3. ASSUME NEW c \in Callers, Maintain(c) PROVE StoreTyped' /\ CallsTyped'
  <2>1. pc[c] # "idle" /\ AfterMaintain[job[c].op] \in Labels
    BY <1>3 DEF Maintain, Replies, Labels, Codes, CallCodes, FinishFailures, CallsTyped, AllOps, Session, StoreTyped, AfterMaintain
  <2>2. CallsTyped'
    BY <1>3, <2>1, GotoTyped DEF Maintain
  <2>3. now \in Time /\ LeaseExpired \in Codes
    BY DEF StoreTyped, Codes, CallCodes
  <2>4. ASSUME ExpireLeases PROVE StoreTyped'
    <3>1. row' \in [SessionIds -> Session]
      BY <2>3, <2>4 DEF ExpireLeases, StoreTyped, Session
    <3> QED
      BY <1>3, <2>3, <2>4, <3>1, ReadClockTyped DEF Maintain, StoreTyped, ExpireLeases
  <2>5. StoreTyped'
    BY <1>3, <2>4 DEF Maintain, StoreTyped
  <2> QED
    BY <2>2, <2>5
<1>4. ASSUME NEW c \in Callers, CountActive(c) PROVE StoreTyped' /\ CallsTyped'
  <2>1. pc[c] # "idle" /\ "active_limit" \in Replies /\ "snapshot" \in Labels
    BY <1>4 DEF CountActive, Replies, Labels, Codes, CallCodes, FinishFailures, CallsTyped, AllOps, Session, StoreTyped, AfterMaintain
  <2>2. CallsTyped'
    BY <1>4, <2>1, ReturnTyped, GotoTyped DEF CountActive
  <2>3. StoreTyped'
    BY <1>4, <2>1 DEF CountActive, StoreTyped
  <2> QED
    BY <2>2, <2>3
<1>5. ASSUME NEW c \in Callers, TakeSnapshot(c) PROVE StoreTyped' /\ CallsTyped'
  <2>1. pc[c] # "idle" /\ "internal" \in Replies /\ "stamp" \in Labels /\ job[c].sid \in SessionIds
    BY <1>5 DEF TakeSnapshot, Replies, Labels, Codes, CallCodes, FinishFailures, CallsTyped, AllOps, Session, StoreTyped, AfterMaintain
  <2>2. CallsTyped'
    BY <1>5, <2>1, ReturnTyped, GotoTyped DEF TakeSnapshot
  <2>3. StoreTyped'
    BY <1>5, <2>1 DEF TakeSnapshot, StoreTyped
  <2> QED
    BY <2>2, <2>3
<1>6. ASSUME NEW c \in Callers, Stamp(c) PROVE StoreTyped' /\ CallsTyped'
  <2> DEFINE j == [job[c] EXCEPT !.stamp = now]
  <2>1. now \in Time /\ now' \in Time
    BY <1>6, ReadClockTyped DEF Stamp, StoreTyped
  <2>2. job[c] \in Job
    BY DEF CallsTyped
  <2>3. j \in Job
    BY <2>1, <2>2, JobTyped
  <2>4. j.sid = job[c].sid /\ j.op = job[c].op
    BY <2>2 DEF Job
  <2>5. job' = [job EXCEPT ![c] = j]
    BY <1>6 DEF Stamp
  <2>6. CallsTyped'
    BY <1>6, <2>3, <2>4, <2>5 DEF Stamp, Goto, CallsTyped, Labels
  <2> QED
    BY <1>6, <2>1, <2>6 DEF Stamp, StoreTyped
<1>7. ASSUME NEW c \in Callers, CreateSession(c) PROVE StoreTyped' /\ CallsTyped'
  <2>1. pc[c] # "idle" /\ "started" \in Replies /\ job[c] \in Job /\ job[c].sid \in SessionIds
    BY <1>7 DEF CreateSession, Replies, CallsTyped
  <2>2. CallsTyped'
    BY <1>7, <2>1, ReturnTyped DEF CreateSession
  <2>3. job[c].inst \in Instances \cup {NoInstance} /\ job[c].stamp \in Time
    BY <2>1, JobTyped
  <2>4. StoreTyped'
    <3> DEFINE r == [state |-> "active", inst |-> job[c].inst,
                     startedAt |-> job[c].stamp, beat |-> job[c].stamp,
                     endedAt |-> 0, code |-> "none"]
    <3>1. r \in Session
      BY <2>3 DEF Session, Time, Codes, CallCodes
    <3>2. row' = [row EXCEPT ![job[c].sid] = r]
      BY <1>7 DEF CreateSession
    <3> HIDE DEF r
    <3> QED
      BY <1>7, <2>1, <3>1, <3>2 DEF CreateSession, StoreTyped
  <2> QED
    BY <2>2, <2>4
<1>8. ASSUME NEW c \in Callers, Beat(c) PROVE StoreTyped' /\ CallsTyped'
  <2>1. pc[c] # "idle" /\ "owner_mismatch" \in Replies /\ job[c] \in Job /\ job[c].sid \in SessionIds
    BY <1>8 DEF Beat, Replies, CallsTyped
  <2>2. CallsTyped'
    BY <1>8, <2>1, ReturnTyped, ThenStatusTyped DEF Beat
  <2>3. job[c].stamp \in Time
    BY <2>1, JobTyped
  <2>4. StoreTyped'
    <3> DEFINE r == [row[job[c].sid] EXCEPT !.beat = job[c].stamp]
    <3>1. r \in Session
      BY <2>1, <2>3 DEF Session, StoreTyped
    <3>2. row' = row \/ row' = [row EXCEPT ![job[c].sid] = r]
      BY <1>8 DEF Beat
    <3> HIDE DEF r
    <3> QED
      BY <1>8, <2>1, <3>1, <3>2 DEF Beat, StoreTyped
  <2> QED
    BY <2>2, <2>4
<1>9. ASSUME NEW c \in Callers, Read(c) PROVE StoreTyped' /\ CallsTyped'
  <2>1. pc[c] # "idle" /\ row[job[c].sid].state \in {"absent", "active", "finished", "failed"} /\ "not_found" \in Replies /\ "active" \in Replies /\ "finished" \in Replies /\ "failed" \in Replies
    BY <1>9 DEF Read, Replies, Labels, Codes, CallCodes, FinishFailures, CallsTyped, AllOps, Session, StoreTyped, AfterMaintain
  <2>2. CallsTyped'
    BY <1>9, <2>1, ReturnTyped DEF Read
  <2>3. StoreTyped'
    BY <1>9, <2>1 DEF Read, StoreTyped
  <2> QED
    BY <2>2, <2>3
<1>10. ASSUME NEW c \in Callers, CheckContext(c) PROVE StoreTyped' /\ CallsTyped'
  <2>1. pc[c] # "idle" /\ "FINISH_INTERRUPTED" \in CallCodes /\ "load" \in Labels
    BY <1>10 DEF CheckContext, Replies, Labels, Codes, CallCodes, FinishFailures, CallsTyped, AllOps, Session, StoreTyped, AfterMaintain
  <2>2. CallsTyped'
    BY <1>10, <2>1, FailWithTyped, GotoTyped DEF CheckContext
  <2>3. StoreTyped'
    BY <1>10, <2>1 DEF CheckContext, StoreTyped
  <2> QED
    BY <2>2, <2>3
<1>11. ASSUME NEW c \in Callers, Load(c) PROVE StoreTyped' /\ CallsTyped'
  <2>1. pc[c] # "idle" /\ "SESSION_ABANDONED" \in CallCodes /\ "scan" \in Labels /\ "not_found" \in Replies /\ "not_active" \in Replies
    BY <1>11 DEF Load, Replies, Labels, Codes, CallCodes, FinishFailures, CallsTyped, AllOps, Session, StoreTyped, AfterMaintain
  <2>2. CallsTyped'
    BY <1>11, <2>1, FailWithTyped, GotoTyped, ReturnTyped DEF Load
  <2>3. StoreTyped'
    BY <1>11, <2>1 DEF Load, StoreTyped
  <2> QED
    BY <2>2, <2>3
<1>12. ASSUME NEW c \in Callers, Scan(c) PROVE StoreTyped' /\ CallsTyped'
  <2> DEFINE j == [job[c] EXCEPT !.seen = file, !.todo = ChangedPaths(job[c].sid, file)]
  <2>1. pc[c] # "idle" /\ "SNAPSHOT_FAILED" \in CallCodes /\ job[c] \in Job
    BY <1>12 DEF Scan, Codes, CallCodes, FinishFailures, CallsTyped
  <2>2. file \in [Paths -> Version] /\ ChangedPaths(job[c].sid, file) \in SUBSET Paths
    BY DEF StoreTyped, ChangedPaths
  <2>3. j \in Job
    BY <2>1, <2>2, JobTyped
  <2>4. j.sid = job[c].sid /\ j.op = job[c].op
    BY <2>1 DEF Job
  <2>5. ASSUME FailWith(c, "SNAPSHOT_FAILED") PROVE CallsTyped'
    BY <2>1, <2>5, FailWithTyped
  <2>6. ASSUME job' = [job EXCEPT ![c].seen = file, ![c].todo = ChangedPaths(job[c].sid, file)],
               Goto(c, "diff")
        PROVE  CallsTyped'
    <3>1. job' = [job EXCEPT ![c] = j]
      BY <2>6
    <3> QED
      BY <2>1, <2>3, <2>4, <2>6, <3>1 DEF Goto, CallsTyped, Labels
  <2> QED
    BY <1>12, <2>5, <2>6 DEF Scan, StoreTyped
<1>13. ASSUME NEW c \in Callers, Diff(c) PROVE StoreTyped' /\ CallsTyped'
  <2>1. /\ pc[c] # "idle" /\ job[c] \in Job /\ "commit" \in Labels
        /\ {"FINISH_INTERRUPTED", "DIFF_RESOURCE_LIMIT", "SESSION_BASELINE_CONFLICT"} \subseteq CallCodes
    BY <1>13 DEF Diff, Labels, Codes, CallCodes, FinishFailures, CallsTyped
  <2>2. ASSUME NEW p \in Paths, job' = [job EXCEPT ![c].todo = @ \ {p}], UNCHANGED <<pc, reply>>
        PROVE  CallsTyped'
    <3> DEFINE j == [job[c] EXCEPT !.todo = job[c].todo \ {p}]
    <3>1. j \in Job
      BY <2>1, JobTyped
    <3>2. j.sid = job[c].sid /\ j.op = job[c].op
      BY <2>1 DEF Job
    <3>3. job' = [job EXCEPT ![c] = j]
      BY <2>2
    <3> QED
      BY <2>2, <3>1, <3>2, <3>3 DEF CallsTyped
  <2>3. job[c].todo \subseteq Paths
    BY <2>1, JobTyped
  <2>4. CallsTyped'
    BY <1>13, <2>1, <2>2, <2>3, FailWithTyped, GotoTyped DEF Diff
  <2> QED
    BY <1>13, <2>4 DEF Diff, StoreTyped
<1>14. ASSUME NEW c \in Callers, CommitFinish(c) PROVE StoreTyped' /\ CallsTyped'
  <2>1. /\ pc[c] # "idle" /\ job[c] \in Job /\ job[c].sid \in SessionIds
        /\ "answer" \in Labels /\ "internal" \in Replies
        /\ "FINISH_INTERRUPTED" \in CallCodes /\ "none" \in CallCodes
    BY <1>14 DEF CommitFinish, Labels, Replies, Codes, CallCodes, FinishFailures, CallsTyped
  <2>2. CallsTyped'
    BY <1>14, <2>1, FailWithTyped, GotoTyped, ReturnTyped DEF CommitFinish
  <2>3. job[c].seen \in [Paths -> Version]
    BY <2>1, JobTyped
  <2>4. Events(job[c].sid, job[c].seen) \subseteq Change
    BY <2>1, <2>3 DEF Events, ChangedPaths, Change, StoreTyped
  <2>5. StoreTyped'
    BY <1>14, <2>1, <2>4, EndRowTyped, ReadClockTyped DEF CommitFinish, StoreTyped
  <2> QED
    BY <2>2, <2>5
<1>15. ASSUME NEW c \in Callers, Answer(c) PROVE StoreTyped' /\ CallsTyped'
  <2>1. pc[c] # "idle" /\ "finished" \in Replies
    BY <1>15 DEF Answer, Replies, Labels, Codes, CallCodes, FinishFailures, CallsTyped, AllOps, Session, StoreTyped, AfterMaintain
  <2>2. CallsTyped'
    BY <1>15, <2>1, ReturnTyped DEF Answer
  <2>3. StoreTyped'
    BY <1>15, <2>1 DEF Answer, StoreTyped
  <2> QED
    BY <2>2, <2>3
<1>16. ASSUME NEW c \in Callers, FailSession(c) PROVE StoreTyped' /\ CallsTyped'
  <2>1. /\ pc[c] # "idle" /\ job[c] \in Job /\ job[c].sid \in SessionIds
        /\ "internal" \in Replies
    BY <1>16 DEF FailSession, Replies, CallsTyped
  <2>2. job[c].code \in CallCodes /\ job[c].code \in Replies
    BY <2>1, JobTyped DEF Replies
  <2>3. CallsTyped'
    BY <1>16, <2>1, <2>2, ThenStatusTyped, ReturnTyped DEF FailSession
  <2>4. StoreTyped'
    BY <1>16, <2>1, <2>2, EndRowTyped, ReadClockTyped DEF FailSession, StoreTyped
  <2> QED
    BY <2>3, <2>4
<1>17. ASSUME NEW c \in Callers, StatementError(c) PROVE StoreTyped' /\ CallsTyped'
  <2>1. pc[c] # "idle" /\ "internal" \in Replies
    BY <1>17 DEF StatementError, Replies
  <2>2. CallsTyped'
    BY <1>17, <2>1, ReturnTyped DEF StatementError
  <2> QED
    BY <1>17, <2>2 DEF StatementError, StoreTyped
<1>18. ASSUME NEW c \in Callers, ContextEnds(c) PROVE StoreTyped' /\ CallsTyped'
  <2> DEFINE j == [job[c] EXCEPT !.ended = TRUE]
  <2>1. job[c] \in Job
    BY DEF CallsTyped
  <2>2. j \in Job
    BY <2>1, JobTyped
  <2>3. j.sid = job[c].sid /\ j.op = job[c].op
    BY <2>1 DEF Job
  <2>4. job' = [job EXCEPT ![c] = j]
    BY <1>18 DEF ContextEnds
  <2> QED
    BY <1>18, <2>2, <2>3, <2>4 DEF ContextEnds, CallsTyped, StoreTyped
<1>19. ASSUME NEW c \in Callers, Crash(c) PROVE StoreTyped' /\ CallsTyped'
  BY <1>19, NoJobTyped DEF Crash, CallsTyped, StoreTyped, Labels
<1>20. ASSUME NEW p \in Paths, Edit(p) PROVE StoreTyped' /\ CallsTyped'
  BY <1>20 DEF Edit, CallsTyped, StoreTyped, Version
<1>21. CASE Tick
  BY <1>21, ReadClockTyped DEF Tick, CallsTyped, StoreTyped
<1>22. CASE UNCHANGED vars
  BY <1>22 DEF vars, CallsTyped, StoreTyped
<1> QED
  BY <1>1, <1>2, <1>3, <1>4, <1>5, <1>6, <1>7, <1>8, <1>9, <1>10, <1>11, <1>12, <1>13,
     <1>14, <1>15, <1>16, <1>17, <1>18, <1>19, <1>20, <1>21, <1>22 DEF Next, Step

\* Every state the session service reaches, by calls, edits, expiries and crashes,
\* is well typed.
THEOREM TypeCorrect == Spec => []TypeOK
  BY InitTypeOK, NextTypeOK, PTL DEF Spec
-----------------------------------------------------------------------------
\* The calls, whoever else is calling.

\* Which operation may be at which label.
CallShape ==
    \A c \in Callers :
        /\ pc[c] = "idle" => job[c] = NoJob
        /\ pc[c] \in {"count", "snapshot", "insert"} => job[c].op = "start"
        /\ pc[c] \in {"ctx", "scan", "diff", "commit", "answer"} => job[c].op = "finish"
        /\ pc[c] = "stamp" => job[c].op \in {"start", "heartbeat"}

\* The id a start has drawn is in no row and in no other call.
StartIsFresh ==
    \A c \in Callers :
        job[c].op = "start" =>
            /\ row[job[c].sid].state = "absent"
            /\ \A d \in Callers \ {c} : job[d].sid # job[c].sid

\* What a step of caller c may do to the calls.
CallStep(c) ==
    /\ \A d \in Callers \ {c} : pc'[d] = pc[d] /\ job'[d] = job[d]
    /\ \/ pc'[c] = "idle" /\ job'[c] = NoJob
       \/ /\ pc[c] # "idle" /\ pc'[c] # "idle"
          /\ job'[c].sid = job[c].sid
          /\ \/ job'[c].op = job[c].op
             \/ job'[c].op = "status" /\ pc'[c] = "maintain"

LEMMA EveryCallStep ==
  ASSUME TypeOK, NEW c \in Callers, Step(c) \/ ContextEnds(c) \/ Crash(c)
  PROVE  CallStep(c)
<1>1. job \in [Callers -> Job] /\ pc \in [Callers -> Labels] /\ job[c] \in Job
  BY DEF TypeOK
<1>2. ASSUME NEW code, Return(c, code) PROVE CallStep(c)
  BY <1>1, <1>2 DEF Return, CallStep
<1>3. ASSUME NEW label \in Labels \ {"idle"}, pc[c] # "idle", Goto(c, label), UNCHANGED job
      PROVE  CallStep(c)
  BY <1>1, <1>3 DEF Goto, CallStep
<1>4. ASSUME NEW code, pc[c] # "idle", FailWith(c, code) PROVE CallStep(c)
  <2>1. job' = [job EXCEPT ![c] = [job[c] EXCEPT !.code = code]]
    BY <1>4 DEF FailWith
  <2> QED
    BY <1>1, <1>4, <2>1, JobKeeps DEF FailWith, Goto, CallStep
<1>5. ASSUME pc[c] # "idle", ThenStatus(c) PROVE CallStep(c)
  <2>1. job' = [job EXCEPT ![c] = [job[c] EXCEPT !.op = "status"]]
    BY <1>5 DEF ThenStatus
  <2> QED
    BY <1>1, <1>5, <2>1, JobKeeps DEF ThenStatus, Goto, CallStep
<1>6. CASE Own(c)
  BY <1>2, <1>3, <1>6 DEF Own, Labels
<1>7. CASE Maintain(c)
  <2>1. job[c].op \in AllOps
    BY <1>7 DEF Maintain, TypeOK
  <2>2. AfterMaintain[job[c].op] \in Labels \ {"idle"}
    BY <2>1 DEF AfterMaintain, AllOps, Labels
  <2> QED
    BY <1>3, <1>7, <2>2 DEF Maintain
<1>8. CASE CountActive(c)
  BY <1>2, <1>3, <1>8 DEF CountActive, Labels
<1>9. CASE TakeSnapshot(c)
  BY <1>2, <1>3, <1>9 DEF TakeSnapshot, Labels
<1>10. CASE Stamp(c)
  <2>1. job' = [job EXCEPT ![c] = [job[c] EXCEPT !.stamp = now]]
    BY <1>10 DEF Stamp
  <2> QED
    BY <1>1, <1>10, <2>1, JobKeeps DEF Stamp, Goto, CallStep
<1>11. CASE CreateSession(c)
  BY <1>2, <1>11 DEF CreateSession
<1>12. CASE Beat(c)
  BY <1>2, <1>5, <1>12 DEF Beat
<1>13. CASE Read(c)
  BY <1>2, <1>13 DEF Read
<1>14. CASE CheckContext(c)
  BY <1>3, <1>4, <1>14 DEF CheckContext, Labels
<1>15. CASE Load(c)
  BY <1>2, <1>3, <1>4, <1>15 DEF Load, Labels
<1>16. CASE Scan(c)
  <2>1. ASSUME job' = [job EXCEPT ![c].seen = file, ![c].todo = ChangedPaths(job[c].sid, file)],
               pc[c] # "idle", Goto(c, "diff")
        PROVE  CallStep(c)
    <3>1. job' = [job EXCEPT ![c] = [job[c] EXCEPT !.seen = file, !.todo = ChangedPaths(job[c].sid, file)]]
      BY <2>1
    <3> QED
      BY <1>1, <2>1, <3>1, JobKeeps DEF Goto, CallStep
  <2> QED
    BY <1>4, <1>16, <2>1 DEF Scan
<1>17. CASE Diff(c)
  <2>1. ASSUME NEW p, pc[c] # "idle", job' = [job EXCEPT ![c].todo = @ \ {p}], UNCHANGED <<pc, reply>>
        PROVE  CallStep(c)
    <3>1. job' = [job EXCEPT ![c] = [job[c] EXCEPT !.todo = job[c].todo \ {p}]]
      BY <2>1
    <3> QED
      BY <1>1, <2>1, <3>1, JobKeeps DEF CallStep
  <2> QED
    BY <1>3, <1>4, <1>17, <2>1 DEF Diff, Labels
<1>18. CASE CommitFinish(c)
  BY <1>2, <1>3, <1>4, <1>18 DEF CommitFinish, Labels
<1>19. CASE Answer(c)
  BY <1>2, <1>19 DEF Answer
<1>20. CASE FailSession(c)
  BY <1>2, <1>5, <1>20 DEF FailSession
<1>21. CASE StatementError(c)
  BY <1>2, <1>21 DEF StatementError
<1>22. CASE ContextEnds(c)
  <2>1. job' = [job EXCEPT ![c] = [job[c] EXCEPT !.ended = TRUE]]
    BY <1>22 DEF ContextEnds
  <2> QED
    BY <1>1, <1>22, <2>1, JobKeeps DEF ContextEnds, CallStep
<1>23. CASE Crash(c)
  BY <1>1, <1>23 DEF Crash, CallStep
<1> QED
  BY <1>6, <1>7, <1>8, <1>9, <1>10, <1>11, <1>12, <1>13, <1>14, <1>15, <1>16, <1>17,
     <1>18, <1>19, <1>20, <1>21, <1>22, <1>23 DEF Step

LEMMA CallTyped ==
  ASSUME TypeOK, NEW c \in Callers, NEW op \in Ops, NEW s \in SessionIds,
         NEW i \in Instances \cup {NoInstance}, Call(c, op, s, i)
  PROVE  /\ \A d \in Callers \ {c} : pc'[d] = pc[d] /\ job'[d] = job[d]
         /\ pc[c] = "idle" /\ pc'[c] \in {"own", "maintain"}
         /\ job'[c].sid = s /\ job'[c].op = op /\ job'[c] \in Job
<1>1. job \in [Callers -> Job] /\ pc \in [Callers -> Labels]
  BY DEF TypeOK
<1>2. [NoJob EXCEPT !.op = op, !.sid = s, !.inst = i] \in Job
  BY NoJobTyped DEF Job
<1>3. [NoJob EXCEPT !.op = op, !.sid = s, !.inst = i].op = op
      /\ [NoJob EXCEPT !.op = op, !.sid = s, !.inst = i].sid = s
  BY DEF NoJob
<1> QED
  BY <1>1, <1>2, <1>3 DEF Call

LEMMA NextCallShape == TypeOK /\ CallShape /\ [Next]_vars => CallShape'
<1> SUFFICES ASSUME TypeOK, CallShape, [Next]_vars PROVE CallShape'
  OBVIOUS
<1>1. pc \in [Callers -> Labels]
  BY DEF TypeOK
<1>2. ASSUME NEW c \in Callers, CallStep(c),
             pc'[c] \notin {"count", "snapshot", "insert", "ctx", "scan", "diff",
                            "commit", "answer", "stamp"}
      PROVE  CallShape'
  BY <1>2 DEF CallStep, CallShape
<1>3. ASSUME NEW c \in Callers, Step(c) PROVE CallShape'
  <2>1. CallStep(c)
    BY <1>3, EveryCallStep
  <2>2. CASE pc'[c] = "idle"
    BY <1>2, <2>1, <2>2
  <2>3. CASE Own(c)
    BY <1>1, <1>2, <2>1, <2>2, <2>3 DEF Own, Goto, Return
  <2>4. CASE Maintain(c)
    <3>1. job[c].op \in AllOps
      BY <2>4 DEF Maintain, TypeOK
    <3>2. pc'[c] = AfterMaintain[job[c].op] /\ job' = job
      BY <1>1, <2>4 DEF Maintain, Goto
    <3> QED
      BY <2>1, <3>1, <3>2 DEF AfterMaintain, AllOps, CallStep, CallShape
  <2>5. CASE CountActive(c)
    BY <1>1, <2>1, <2>2, <2>5 DEF CountActive, Goto, Return, CallStep, CallShape
  <2>6. CASE TakeSnapshot(c)
    BY <1>1, <2>1, <2>2, <2>6 DEF TakeSnapshot, Goto, Return, CallStep, CallShape
  <2>7. CASE Stamp(c)
    BY <1>1, <2>1, <2>7 DEF Stamp, Goto, CallStep, CallShape
  <2>8. CASE CreateSession(c) \/ Read(c) \/ Answer(c) \/ StatementError(c)
    BY <1>1, <2>2, <2>8 DEF CreateSession, Read, Answer, StatementError, Return
  <2>9. CASE Beat(c)
    BY <1>1, <1>2, <2>1, <2>2, <2>9 DEF Beat, ThenStatus, Goto, Return
  <2>10. CASE CheckContext(c)
    BY <1>1, <1>2, <2>1, <2>10 DEF CheckContext, FailWith, Goto
  <2>11. CASE Load(c)
    <3>1. CASE pc'[c] = "scan" /\ job[c].op = "finish" /\ job' = job
      BY <2>1, <3>1 DEF CallStep, CallShape
    <3> QED
      BY <1>1, <1>2, <2>1, <2>2, <2>11, <3>1 DEF Load, FailWith, Goto, Return
  <2>12. CASE Scan(c)
    BY <1>1, <1>2, <2>1, <2>12 DEF Scan, FailWith, Goto, CallStep, CallShape
  <2>13. CASE Diff(c)
    BY <1>1, <1>2, <2>1, <2>13 DEF Diff, FailWith, Goto, CallStep, CallShape
  <2>14. CASE CommitFinish(c)
    BY <1>1, <1>2, <2>1, <2>2, <2>14 DEF CommitFinish, FailWith, Goto, Return, CallStep, CallShape
  <2>15. CASE FailSession(c)
    BY <1>1, <1>2, <2>1, <2>2, <2>15 DEF FailSession, ThenStatus, Goto, Return
  <2> QED
    BY <1>3, <2>3, <2>4, <2>5, <2>6, <2>7, <2>8, <2>9, <2>10, <2>11, <2>12, <2>13, <2>14,
       <2>15 DEF Step
<1>4. ASSUME NEW c \in Callers, NEW op \in Ops, NEW s \in SessionIds,
             NEW i \in Instances \cup {NoInstance}, Call(c, op, s, i)
      PROVE  CallShape'
  BY <1>4, CallTyped DEF CallShape
<1>5. ASSUME NEW c \in Callers, ContextEnds(c) PROVE CallShape'
  <2>1. CallStep(c) /\ pc' = pc /\ pc[c] # "idle"
    BY <1>5, EveryCallStep DEF ContextEnds
  <2> QED
    BY <2>1 DEF CallStep, CallShape
<1>6. ASSUME NEW c \in Callers, Crash(c) PROVE CallShape'
  BY <1>1, <1>2, <1>6, EveryCallStep DEF Crash
<1>7. ASSUME UNCHANGED <<pc, job>> PROVE CallShape'
  BY <1>7 DEF CallShape
<1> QED
  BY <1>3, <1>4, <1>5, <1>6, <1>7 DEF Next, Edit, Tick, vars

-----------------------------------------------------------------------------
\* The rows of ai_session: an absent row only ever becomes a fresh start's, a
\* present one never disappears, a terminal one never changes.

RowStep(s) ==
    /\ row[s].state = "absent" =>
          \/ row'[s] = row[s]
          \/ \E c \in Callers : CreateSession(c) /\ s = job[c].sid
    /\ row[s].state # "absent" => row'[s].state # "absent"
    /\ row[s].state \in Terminal => row'[s] = row[s]

LEMMA EveryRowStep ==
  ASSUME TypeOK, CallShape, StartIsFresh, [Next]_vars, NEW s \in SessionIds
  PROVE  RowStep(s)
<1> USE DEF Terminal
<1>1. row \in [SessionIds -> Session] /\ row[s] \in Session
  BY DEF TypeOK
<1>2. ASSUME row'[s] = row[s] PROVE RowStep(s)
  BY <1>2 DEF RowStep
<1>3. ASSUME NEW t \in SessionIds, NEW st \in {"finished", "failed"}, NEW code,
             row' = EndRow(t, st, code)
      PROVE  RowStep(s)
  BY <1>1, <1>3 DEF EndRow, RowStep, Session
<1>4. ASSUME NEW c \in Callers, Step(c) PROVE RowStep(s)
  <2>1. pc[c] # "idle" => job[c].sid \in SessionIds
    BY DEF TypeOK
  <2>2. CASE Maintain(c)
    <3>1. CASE ExpireLeases
      BY <1>1, <3>1 DEF ExpireLeases, Expired, RowStep, Session
    <3> QED
      BY <1>2, <2>2, <3>1 DEF Maintain
  <2>3. CASE CreateSession(c)
    <3>1. row[job[c].sid].state = "absent"
      BY <2>3 DEF CreateSession, CallShape, StartIsFresh
    <3> QED
      BY <1>1, <2>1, <2>3, <3>1 DEF CreateSession, RowStep
  <2>4. CASE Beat(c)
    BY <1>1, <1>2, <2>1, <2>4 DEF Beat, RowStep, Session
  <2>5. CASE CommitFinish(c)
    BY <1>2, <1>3, <2>1, <2>5 DEF CommitFinish
  <2>6. CASE FailSession(c)
    BY <1>2, <1>3, <2>1, <2>6 DEF FailSession
  <2>7. CASE row' = row
    BY <1>2, <2>7
  <2> QED
    BY <1>4, <2>2, <2>3, <2>4, <2>5, <2>6, <2>7
    DEF Step, db, Own, CountActive, TakeSnapshot, Stamp, Read, CheckContext, Load, Scan,
        Diff, Answer, StatementError
<1> QED
  BY <1>2, <1>4 DEF Next, vars, db, Call, ContextEnds, Crash, Edit, Tick

LEMMA NextStartIsFresh ==
  TypeOK /\ CallShape /\ StartIsFresh /\ [Next]_vars => StartIsFresh'
<1> SUFFICES ASSUME TypeOK, CallShape, StartIsFresh, [Next]_vars PROVE StartIsFresh'
  OBVIOUS
<1>1. /\ \A s \in SessionIds : RowStep(s)
      /\ \A c \in Callers : job[c].op = "start" => job[c].sid \in SessionIds
  BY EveryRowStep DEF CallShape, NoJob, TypeOK
<1>2. NoJob.op # "start" /\ NoJob.sid \notin SessionIds
  BY DEF NoJob
<1>3. ASSUME NEW c \in Callers, CallStep(c) PROVE StartIsFresh'
  <2>1. ASSUME NEW d \in Callers, job'[d].op = "start"
        PROVE  job[d].op = "start" /\ job'[d].sid = job[d].sid
    BY <1>2, <1>3, <2>1 DEF CallStep
  <2>2. ASSUME NEW d \in Callers, job'[d].op = "start", NEW e \in Callers \ {d}
        PROVE  job'[e].sid # job'[d].sid
    BY <1>1, <1>2, <1>3, <2>1, <2>2 DEF CallStep, StartIsFresh
  <2>3. ASSUME NEW d \in Callers, job'[d].op = "start"
        PROVE  row'[job'[d].sid].state = "absent"
    <3>1. row[job[d].sid].state = "absent" /\ job'[d].sid = job[d].sid /\ job[d].sid \in SessionIds
      BY <1>1, <2>1, <2>3 DEF StartIsFresh
    <3>2. CASE row'[job[d].sid] = row[job[d].sid]
      BY <3>1, <3>2
    <3>3. ASSUME NEW e \in Callers, CreateSession(e)
          PROVE  row'[job[d].sid] = row[job[d].sid]
      <4>1. job'[e] = NoJob
        BY <3>3 DEF CreateSession, Return, TypeOK
      <4>2. d # e
        BY <1>2, <2>3, <4>1
      <4>3. job[d].sid # job[e].sid
        BY <2>1, <2>3, <4>2 DEF StartIsFresh
      <4> QED
        BY <3>1, <3>3, <4>3 DEF CreateSession, TypeOK
    <3> QED
      BY <1>1, <1>3, <3>1, <3>2, <3>3 DEF RowStep
  <2> QED
    BY <2>2, <2>3 DEF StartIsFresh
<1>4. ASSUME NEW c \in Callers, Step(c) PROVE StartIsFresh'
  <2>1. CallStep(c)
    BY <1>4, EveryCallStep
  <2> QED
    BY <1>3, <2>1
<1>5. ASSUME NEW c \in Callers, ContextEnds(c) \/ Crash(c) PROVE StartIsFresh'
  BY <1>3, <1>5, EveryCallStep
<1>6. ASSUME NEW c \in Callers, NEW op \in Ops, NEW s \in SessionIds,
             NEW i \in Instances \cup {NoInstance}, Call(c, op, s, i)
      PROVE  StartIsFresh'
  <2>1. row' = row
    BY <1>6 DEF Call, db
  <2>2. /\ \A d \in Callers \ {c} : job'[d] = job[d]
        /\ job'[c].sid = s /\ job'[c].op = op
    BY <1>6, CallTyped
  <2>3. op = "start" => Fresh(s)
    BY <1>6 DEF Call
  <2>4. op # "start" => \A d \in Callers : job[d].op = "start" => job[d].sid # s
    BY <1>6 DEF Call
  <2>5. \A d \in Callers : op = "start" => row[s].state = "absent" /\ job[d].sid # s
    BY <2>3 DEF Fresh
  <2> QED
    BY <1>6, <2>1, <2>2, <2>4, <2>5 DEF StartIsFresh
<1>7. ASSUME UNCHANGED <<job, row>> PROVE StartIsFresh'
  BY <1>7 DEF StartIsFresh
<1> QED
  BY <1>4, <1>5, <1>6, <1>7 DEF Next, Edit, Tick, vars, db

-----------------------------------------------------------------------------
\* Credit, whoever else is calling.

\* A finish that has read its row knows the session exists.
FinishKnowsSession ==
    \A c \in Callers :
        pc[c] \in {"scan", "diff", "commit"} => row[job[c].sid].state # "absent"

LEMMA NextFinishKnowsSession ==
  TypeOK /\ CallShape /\ StartIsFresh /\ FinishKnowsSession /\ [Next]_vars => FinishKnowsSession'
<1> SUFFICES ASSUME TypeOK, CallShape, StartIsFresh, FinishKnowsSession, [Next]_vars
             PROVE  FinishKnowsSession'
  OBVIOUS
<1> USE DEF FinishKnowsSession
<1>1. /\ \A s \in SessionIds : RowStep(s)
      /\ \A c \in Callers : pc[c] # "idle" => job[c].sid \in SessionIds
  BY EveryRowStep DEF TypeOK
<1>2. ASSUME NEW c \in Callers, CallStep(c),
             pc'[c] \in {"scan", "diff", "commit"} => row[job[c].sid].state # "absent"
      PROVE  FinishKnowsSession'
  <2> SUFFICES ASSUME NEW d \in Callers, pc'[d] \in {"scan", "diff", "commit"}
               PROVE  row'[job'[d].sid].state # "absent"
    OBVIOUS
  <2>1. job'[d].sid = job[d].sid /\ pc[d] # "idle" /\ row[job[d].sid].state # "absent"
    BY <1>2 DEF CallStep
  <2> QED
    BY <1>1, <2>1 DEF RowStep
<1>3. ASSUME NEW c \in Callers, Step(c) PROVE FinishKnowsSession'
  <2>1. CallStep(c) /\ pc \in [Callers -> Labels]
    BY <1>3, EveryCallStep DEF TypeOK
  <2>2. CASE Maintain(c)
    <3>1. job[c].op \in AllOps
      BY <2>2 DEF Maintain, TypeOK
    <3>2. pc'[c] = AfterMaintain[job[c].op]
      BY <2>1, <2>2 DEF Maintain, Goto
    <3> QED
      BY <1>2, <2>1, <3>1, <3>2 DEF AfterMaintain, AllOps
  <2>3. CASE Load(c)
    <3>1. pc'[c] = "scan" => row[job[c].sid].state = "active"
      BY <2>1, <2>3 DEF Load, Goto, Return, FailWith
    <3>2. pc'[c] \notin {"diff", "commit"}
      BY <2>1, <2>3 DEF Load, Goto, Return, FailWith
    <3> QED
      BY <1>2, <2>1, <3>1, <3>2
  <2>4. CASE Scan(c) \/ Diff(c) \/ CommitFinish(c)
    BY <1>2, <2>1, <2>4 DEF Scan, Diff, CommitFinish
  <2>5. CASE pc'[c] \notin {"scan", "diff", "commit"}
    BY <1>2, <2>1, <2>5
  <2> QED
    BY <1>3, <2>1, <2>2, <2>3, <2>4, <2>5
    DEF Step, Own, CountActive, TakeSnapshot, Stamp, CreateSession, Beat, Read, CheckContext,
        Answer, FailSession, StatementError, Goto, Return, FailWith, ThenStatus
<1>4. ASSUME NEW c \in Callers, ContextEnds(c) \/ Crash(c) PROVE FinishKnowsSession'
  <2>1. CallStep(c) /\ pc \in [Callers -> Labels]
    BY <1>4, EveryCallStep DEF TypeOK
  <2> QED
    BY <1>2, <1>4, <2>1 DEF ContextEnds, Crash
<1>5. ASSUME NEW c \in Callers, NEW op \in Ops, NEW s \in SessionIds,
             NEW i \in Instances \cup {NoInstance}, Call(c, op, s, i)
      PROVE  FinishKnowsSession'
  <2>1. row' = row /\ pc'[c] \in {"own", "maintain"}
    BY <1>5 DEF Call, db, TypeOK
  <2>2. \A d \in Callers \ {c} : pc'[d] = pc[d] /\ job'[d] = job[d]
    BY <1>5, CallTyped DEF Call, TypeOK
  <2> QED
    BY <2>1, <2>2
<1>6. ASSUME UNCHANGED <<pc, job, row>> PROVE FinishKnowsSession'
  BY <1>6
<1> QED
  BY <1>3, <1>4, <1>5, <1>6 DEF Next, Edit, Tick, vars, db

LEMMA NextActiveIsUncredited ==
  TypeOK /\ CallShape /\ StartIsFresh /\ FinishKnowsSession /\ ActiveIsUncredited /\ [Next]_vars
    => ActiveIsUncredited'
<1> SUFFICES ASSUME TypeOK, CallShape, StartIsFresh, FinishKnowsSession, ActiveIsUncredited,
                    [Next]_vars
             PROVE  ActiveIsUncredited'
  OBVIOUS
<1>1. /\ \A s \in SessionIds : RowStep(s)
      /\ \A e \in change : e.sid \in SessionIds
      /\ row \in [SessionIds -> Session]
  BY EveryRowStep DEF TypeOK, Change
<1>2. ASSUME change' = change PROVE ActiveIsUncredited'
  BY <1>1, <1>2 DEF ActiveIsUncredited, RowStep
<1>3. ASSUME NEW c \in Callers, CommitFinish(c) PROVE ActiveIsUncredited'
  <2> DEFINE s == job[c].sid
  <2>1. s \in SessionIds /\ row[s] \in Session /\ row[s].state # "absent"
    BY <1>1, <1>3 DEF CommitFinish, TypeOK, FinishKnowsSession
  <2>2. CASE change' = change \cup Events(s, job[c].seen) /\ row' = EndRow(s, "finished", "none")
    <3>1. row'[s].state \in Terminal
      BY <1>1, <2>1, <2>2 DEF EndRow, Terminal, Session
    <3>2. \A e \in Events(s, job[c].seen) : e.sid = s
      BY DEF Events
    <3> QED
      BY <1>1, <2>2, <3>1, <3>2 DEF ActiveIsUncredited, RowStep
  <2> QED
    BY <1>2, <1>3, <2>2 DEF CommitFinish
<1> QED
  BY <1>2, <1>3
  DEF Next, Step, vars, db, Own, Maintain, CountActive, TakeSnapshot, Stamp, CreateSession, Beat,
      Read, CheckContext, Load, Scan, Diff, Answer, FailSession, StatementError, Call,
      ContextEnds, Crash, Edit, Tick

\* Texts sort as the instants do up to a second: a is before b only if it is
\* less than a second after it, and is not before b only if it is less than a
\* second before it.
LEMMA TextOrder ==
  ASSUME NEW a \in Int, NEW b \in Int
  PROVE  /\ Before(a, b) => a < b + TicksPerSecond
         /\ ~Before(a, b) => b < a + TicksPerSecond
<1>1. Units \subseteq Nat /\ TicksPerSecond \in Nat \ {0}
  BY DEF Units
<1>2. ASSUME NEW x \in Int, NEW y \in Int, Extends(x, y)
      PROVE  y < x /\ x < y + TicksPerSecond
  <2>1. PICK u \in Units : u <= TicksPerSecond /\ y < x /\ x < y + u
    BY <1>2 DEF Extends
  <2>2. u \in Nat
    BY <1>1
  <2> QED
    BY <1>1, <2>1, <2>2
<1>3. CASE Before(a, b)
  BY <1>1, <1>2, <1>3 DEF Before
<1>4. CASE ~Before(a, b)
  <2>1. CASE Extends(b, a)
    BY <1>1, <1>2, <1>4, <2>1
  <2>2. CASE ~Extends(b, a)
    BY <1>1, <1>4, <2>2 DEF Before
  <2> QED
    BY <2>1, <2>2
<1> QED
  BY <1>3, <1>4

\* Only ExpireLeases gives the code of an expired lease, and only to a row with
\* a heartbeat that is old by the order of the stored texts.
LeaseShape ==
    \A s \in SessionIds :
        row[s].code = LeaseExpired =>
            row[s].state = "failed" /\ row[s].beat < row[s].endedAt - LeaseTimeout + TicksPerSecond

LEMMA NextLeaseShape ==
  TypeOK /\ CallShape /\ StartIsFresh /\ LeaseShape /\ [Next]_vars => LeaseShape'
<1> SUFFICES ASSUME TypeOK, CallShape, StartIsFresh, LeaseShape, [Next]_vars,
                    NEW s \in SessionIds, row'[s].code = LeaseExpired
             PROVE  /\ row'[s].state = "failed"
                    /\ row'[s].beat < row'[s].endedAt - LeaseTimeout + TicksPerSecond
  BY DEF LeaseShape
<1>1. row[s] \in Session /\ row \in [SessionIds -> Session] /\ RowStep(s)
  BY EveryRowStep DEF TypeOK
<1>2. CASE row'[s] = row[s]
  BY <1>2 DEF LeaseShape
<1>3. ASSUME NEW t \in SessionIds, NEW st, NEW code \in CallCodes, row' = EndRow(t, st, code)
      PROVE  row'[s] = row[s]
  <2>1. code # LeaseExpired
    BY <1>3 DEF CallCodes, FinishFailures, LeaseExpired
  <2>2. CASE row[t].state = "active" /\ s = t
    BY <1>1, <1>3, <2>1, <2>2 DEF EndRow, Session
  <2> QED
    BY <1>1, <1>3, <2>2 DEF EndRow
<1>4. ASSUME NEW c \in Callers, Step(c) PROVE row'[s] = row[s] \/ ExpireLeases
  <2>1. pc[c] # "idle" => job[c].sid \in SessionIds /\ job[c].code \in CallCodes
    BY DEF TypeOK, Job
  <2>2. CASE Maintain(c)
    BY <2>2 DEF Maintain
  <2>3. CASE CreateSession(c)
    BY <1>1, <2>1, <2>3 DEF CreateSession, LeaseExpired
  <2>4. CASE Beat(c)
    <3>1. CASE row[job[c].sid].state = "active" /\ s = job[c].sid
      <4>1. row'[s].code = row[s].code
        BY <1>1, <2>1, <2>4, <3>1 DEF Beat, Session
      <4> QED
        BY <3>1, <4>1 DEF LeaseShape
    <3> QED
      BY <1>1, <2>1, <2>4, <3>1 DEF Beat
  <2>5. CASE CommitFinish(c)
    BY <1>3, <2>1, <2>5 DEF CommitFinish, CallCodes
  <2>6. CASE FailSession(c)
    BY <1>3, <2>1, <2>6 DEF FailSession
  <2>7. CASE row' = row
    BY <2>7
  <2> QED
    BY <1>4, <2>2, <2>3, <2>4, <2>5, <2>6, <2>7
    DEF Step, db, Own, CountActive, TakeSnapshot, Stamp, Read, CheckContext, Load, Scan,
        Diff, Answer, StatementError
<1>5. CASE ExpireLeases /\ row'[s] # row[s]
  <2>1. s \in Expired /\ row'[s].state = "failed" /\ row'[s].endedAt = now /\ row'[s].beat = row[s].beat
    BY <1>1, <1>5 DEF ExpireLeases, Session
  <2>2. Before(row[s].beat, now - LeaseTimeout)
    BY <2>1 DEF Expired
  <2>3. row[s].beat \in Int /\ now \in Int /\ LeaseTimeout \in Int
    BY <1>1, TimesAreNumbers DEF Session, TypeOK
  <2>4. row[s].beat < now - LeaseTimeout + TicksPerSecond
    <3>1. now - LeaseTimeout \in Int
      BY <2>3
    <3> QED
      BY <2>2, <2>3, <3>1, TextOrder
  <2> QED
    BY <2>1, <2>4
<1> QED
  BY <1>2, <1>4, <1>5 DEF Next, vars, db, Call, ContextEnds, Crash, Edit, Tick

-----------------------------------------------------------------------------
\* The invariant that holds for any number of callers, and its consequences.

CallersInv ==
    TypeOK /\ CallShape /\ StartIsFresh /\ FinishKnowsSession /\ ActiveIsUncredited

\* However many calls interleave, a start's id stays its own, a finish past its
\* load names an existing session, and nothing active is in the database.
THEOREM CallersInvHolds == Spec => []CallersInv
<1>1. Init => CallersInv
  BY InitTypeOK
  DEF Init, CallersInv, CallShape, StartIsFresh, FinishKnowsSession, ActiveIsUncredited, NoJob
<1>2. CallersInv /\ [Next]_vars => CallersInv'
  BY NextTypeOK, NextCallShape, NextStartIsFresh, NextFinishKnowsSession, NextActiveIsUncredited
  DEF CallersInv
<1> QED
  BY <1>1, <1>2, PTL DEF Spec

\* An active session has nothing in the database: however many callers there
\* are, whatever fails or crashes, a finish either commits as a whole or leaves
\* the session as it was (CommitFinish).
THEOREM ActiveUncredited == Spec => []ActiveIsUncredited
<1>1. CallersInv => ActiveIsUncredited
  BY DEF CallersInv
<1> QED
  BY <1>1, CallersInvHolds, PTL

\* No step of any caller changes the row of a finished or failed session.
THEOREM TerminalPermanent == Spec => TerminalIsPermanent
<1>1. CallersInv /\ [Next]_vars
      => [\A s \in SessionIds : row[s].state \in Terminal => row'[s] = row[s]]_vars
  BY EveryRowStep DEF CallersInv, RowStep
<1> QED
  BY <1>1, CallersInvHolds, PTL DEF Spec, TerminalIsPermanent

LEMMA LeaseShapeHolds == Spec => []LeaseShape
<1>1. Init => LeaseShape
  BY DEF Init, LeaseShape, NoSession, LeaseExpired
<1>2. CallersInv /\ LeaseShape /\ [Next]_vars => LeaseShape'
  BY NextLeaseShape DEF CallersInv
<1> QED
  BY <1>1, <1>2, CallersInvHolds, PTL DEF Spec

\* However finely times are stored, no session loses its lease a second or more
\* before its timeout, whatever heartbeats and expiries interleave.
THEOREM LeaseKept == Spec => []LeaseNeverEarly
<1>1. LeaseShape => LeaseNeverEarly
  BY DEF LeaseShape, LeaseNeverEarly
<1> QED
  BY <1>1, LeaseShapeHolds, PTL

\* The id of a start is in no answer: uuid() does not draw an id that a call
\* has named before.
AnswersApart ==
    \A c, d \in Callers : job[d].op = "start" => reply[c].sid # job[d].sid

\* What a finish answers of itself is what it has recorded.
AnswerRecorded ==
    \A c \in Callers :
        reply[c].code \in {"FINISH_INTERRUPTED", "DIFF_RESOURCE_LIMIT"} =>
            reply[c].sid \in SessionIds /\ row[reply[c].sid].state # "active"

\* What a step of caller c does to the answers.
LEMMA ReplyStep ==
  ASSUME TypeOK, NEW c \in Callers, Step(c) \/ ContextEnds(c) \/ Crash(c)
  PROVE  /\ \A d \in Callers \ {c} : reply'[d] = reply[d]
         /\ \/ reply'[c] = reply[c]
            \/ reply'[c].sid = job[c].sid /\ pc[c] # "idle" /\ job'[c] = NoJob
<1>1. reply \in [Callers -> [sid : SessionIds \cup {"none"}, code : Replies]]
      /\ job \in [Callers -> Job]
  BY DEF TypeOK
<1>2. ASSUME NEW code, Return(c, code)
      PROVE  /\ \A d \in Callers \ {c} : reply'[d] = reply[d]
             /\ reply'[c].sid = job[c].sid /\ job'[c] = NoJob
  BY <1>1, <1>2 DEF Return
<1> QED
  BY <1>2
  DEF Step, Own, Maintain, CountActive, TakeSnapshot, Stamp, CreateSession, Beat, Read,
      CheckContext, Load, Scan, Diff, CommitFinish, Answer, FailSession, StatementError,
      ContextEnds, Crash, Goto, FailWith, ThenStatus

LEMMA NextAnswersApart ==
  TypeOK /\ CallShape /\ StartIsFresh /\ AnswersApart /\ [Next]_vars => AnswersApart'
<1> SUFFICES ASSUME TypeOK, CallShape, StartIsFresh, AnswersApart, [Next]_vars
             PROVE  AnswersApart'
  OBVIOUS
<1>1. NoJob.op # "start"
  BY DEF NoJob
<1>2. ASSUME NEW c \in Callers, Step(c) \/ ContextEnds(c) \/ Crash(c) PROVE AnswersApart'
  <2>1. CallStep(c)
    BY <1>2, EveryCallStep
  <2>2. ASSUME NEW d \in Callers, job'[d].op = "start"
        PROVE  job[d].op = "start" /\ job'[d].sid = job[d].sid
    BY <1>1, <2>1, <2>2 DEF CallStep
  <2>3. ASSUME NEW d \in Callers, job'[d].op = "start", NEW e \in Callers
        PROVE  reply'[e].sid # job[d].sid
    <3>1. CASE reply'[e] = reply[e]
      BY <2>2, <2>3, <3>1 DEF AnswersApart
    <3>2. CASE e = c /\ reply'[c].sid = job[c].sid /\ job'[c] = NoJob
      BY <1>1, <2>2, <2>3, <3>2 DEF StartIsFresh
    <3> QED
      BY <1>2, <3>1, <3>2, ReplyStep
  <2> QED
    BY <2>2, <2>3 DEF AnswersApart
<1>3. ASSUME NEW c \in Callers, NEW op \in Ops, NEW s \in SessionIds,
             NEW i \in Instances \cup {NoInstance}, Call(c, op, s, i)
      PROVE  AnswersApart'
  <2>1. /\ \A d \in Callers \ {c} : job'[d] = job[d] /\ reply'[d] = reply[d]
        /\ job'[c].sid = s /\ job'[c].op = op /\ reply'[c].sid = "none"
    <3>1. reply' = [reply EXCEPT ![c] = [sid |-> "none", code |-> "none"]]
      BY <1>3 DEF Call
    <3>2. reply \in [Callers -> [sid : SessionIds \cup {"none"}, code : Replies]]
      BY DEF TypeOK
    <3> QED
      BY <1>3, <3>1, <3>2, CallTyped
  <2>2. op = "start" => \A d \in Callers : reply[d].sid # s
    BY <1>3 DEF Call, Fresh
  <2>3. \A d \in Callers : job[d].op = "start" => job[d].sid \in SessionIds
    BY DEF TypeOK, CallShape, NoJob
  <2> QED
    BY <2>1, <2>2, <2>3 DEF AnswersApart
<1>4. ASSUME UNCHANGED <<job, reply>> PROVE AnswersApart'
  BY <1>4 DEF AnswersApart
<1> QED
  BY <1>2, <1>3, <1>4 DEF Next, Edit, Tick, vars

\* A healthy store: the failures a finish records under a context of its own are
\* recorded before they are answered.
LEMMA NextAnswerRecorded ==
  ASSUME StoreMayFail = FALSE
  PROVE  TypeOK /\ CallShape /\ StartIsFresh /\ AnswersApart /\ AnswerRecorded /\ [Next]_vars
           => AnswerRecorded'
<1> SUFFICES ASSUME TypeOK, CallShape, StartIsFresh, AnswersApart, AnswerRecorded, [Next]_vars,
                    NEW c \in Callers,
                    reply'[c].code \in {"FINISH_INTERRUPTED", "DIFF_RESOURCE_LIMIT"}
             PROVE  reply'[c].sid \in SessionIds /\ row'[reply'[c].sid].state # "active"
  BY DEF AnswerRecorded
<1>1. /\ reply \in [Callers -> [sid : SessionIds \cup {"none"}, code : Replies]]
      /\ row \in [SessionIds -> Session] /\ job[c] \in Job
  BY DEF TypeOK
<1>2. CASE reply'[c] = reply[c]
  <2> DEFINE s == reply[c].sid
  <2>1. s \in SessionIds /\ row[s].state # "active" /\ RowStep(s)
    BY <1>2, EveryRowStep DEF AnswerRecorded
  <2>2. \A d \in Callers : ~(CreateSession(d) /\ s = job[d].sid)
    BY DEF CreateSession, CallShape, AnswersApart
  <2> QED
    BY <1>1, <1>2, <2>1, <2>2 DEF RowStep, Session, Terminal
<1>3. CASE Step(c) /\ reply'[c] # reply[c]
  <2>1. ASSUME NEW code, code \notin {"FINISH_INTERRUPTED", "DIFF_RESOURCE_LIMIT"}
        PROVE  ~Return(c, code)
    BY <1>1, <2>1 DEF Return
  <2>2. CASE FailSession(c)
    <3>1. job[c].sid \in SessionIds
      BY <2>2 DEF FailSession, TypeOK
    <3>2. ASSUME NEW code, Return(c, code) PROVE reply'[c].code = code /\ reply'[c].sid = job[c].sid
      BY <1>1, <3>2 DEF Return
    <3>3. reply'[c].code = job[c].code /\ reply'[c].sid = job[c].sid
          /\ row' = EndRow(job[c].sid, "failed", job[c].code)
      BY <1>3, <2>1, <2>2, <3>2 DEF FailSession, ThenStatus, Goto
    <3> QED
      BY <1>1, <3>1, <3>3 DEF EndRow, Session
  <2>3. CASE Read(c)
    <3>1. job[c].sid \in SessionIds
      BY <2>3 DEF Read, TypeOK
    <3>2. row[job[c].sid].state \in {"absent", "active", "finished", "failed"}
      BY <1>1, <3>1 DEF Session
    <3> QED
      BY <2>1, <2>3, <3>2 DEF Read
  <2>4. CASE Own(c) \/ CountActive(c) \/ TakeSnapshot(c) \/ CreateSession(c) \/ Beat(c)
    BY <1>3, <2>1, <2>4
    DEF Own, CountActive, TakeSnapshot, CreateSession, Beat, Goto, ThenStatus
  <2>5. CASE Load(c) \/ CommitFinish(c) \/ Answer(c) \/ StatementError(c)
    BY <1>3, <2>1, <2>5 DEF Load, CommitFinish, Answer, StatementError, Goto, FailWith
  <2>6. CASE Maintain(c) \/ Stamp(c) \/ CheckContext(c) \/ Scan(c) \/ Diff(c)
    BY <1>3, <2>6 DEF Maintain, Stamp, CheckContext, Scan, Diff, Goto, FailWith
  <2> QED
    BY <1>3, <2>2, <2>3, <2>4, <2>5, <2>6 DEF Step
<1>4. ASSUME NEW d \in Callers, Step(d) \/ ContextEnds(d) \/ Crash(d), reply'[c] # reply[c]
      PROVE  d = c /\ Step(c)
  BY <1>4, ReplyStep DEF ContextEnds, Crash
<1>5. ASSUME NEW d \in Callers, NEW op \in Ops, NEW s \in SessionIds,
             NEW i \in Instances \cup {NoInstance}, Call(d, op, s, i)
      PROVE  reply'[c] = reply[c]
  BY <1>1, <1>5 DEF Call
<1> QED
  BY <1>2, <1>3, <1>4, <1>5 DEF Next, Edit, Tick, vars

\* If the database takes every statement, a finish that answers it was
\* interrupted or hit the resource limit has ended its session, or found none,
\* whoever else was calling and whatever became of its caller's context.
THEOREM FailureRecorded ==
  ASSUME StoreMayFail = FALSE
  PROVE  Spec => []FailureAnswerIsRecorded
<1>1. Init => AnswersApart /\ AnswerRecorded
  BY DEF Init, AnswersApart, AnswerRecorded, NoJob
<1>2. CallersInv /\ AnswersApart /\ AnswerRecorded /\ [Next]_vars => (AnswersApart /\ AnswerRecorded)'
  BY NextAnswersApart, NextAnswerRecorded DEF CallersInv
<1>3. AnswerRecorded => FailureAnswerIsRecorded
  BY DEF AnswerRecorded, FailureAnswerIsRecorded
<1> QED
  BY <1>1, <1>2, <1>3, CallersInvHolds, PTL DEF Spec

-----------------------------------------------------------------------------
\* Callers that take turns: one call at a time, between which anyone may edit
\* files, leases run out, statements fail and processes die.

\* No two calls overlap.
OneCaller == \A c, d \in Callers : c = d

-----------------------------------------------------------------------------
\* The steps of the only call.

\* The call is between a check and the statement that relies on it.
Midway(c) ==
    \/ pc[c] \in {"snapshot", "insert", "scan", "diff", "commit"}
    \/ pc[c] = "stamp" /\ job[c].op = "start"

\* The clock and the files only move on.
Onward ==
    /\ now' >= now
    /\ \A p \in Paths : file'[p] >= file[p]

\* What a call knows is as it was, but for its context having ended.
SameJob(c) ==
    /\ job'[c].op = job[c].op /\ job'[c].sid = job[c].sid /\ job'[c].inst = job[c].inst
    /\ job'[c].stamp = job[c].stamp /\ job'[c].seen = job[c].seen
    /\ job'[c].todo = job[c].todo

\* Nothing is stored, and the call stays where it is or relies on no check.
Quiet(c) ==
    /\ UNCHANGED db
    /\ Midway(c)' => pc'[c] = pc[c] /\ SameJob(c)

\* Leases run out before the call has checked anything.
Expires(c) ==
    /\ ExpireLeases
    /\ UNCHANGED <<file, baseline, change>>
    /\ ~Midway(c)'

Admits(c) ==
    /\ pc[c] = "count" /\ job[c].op = "start"
    /\ MaxActive > 0 => ~(Cardinality(Active(job[c].inst)) >= MaxActive)
    /\ pc'[c] = "snapshot" /\ job' = job
    /\ UNCHANGED <<now, file, db>>

Snapshots(c) ==
    /\ pc[c] = "snapshot"
    /\ baseline' = [baseline EXCEPT ![job[c].sid] = file]
    /\ pc'[c] = "stamp" /\ job' = job
    /\ UNCHANGED <<now, file, row, change>>

Stamps(c) ==
    /\ pc[c] = "stamp" /\ job[c].op = "start"
    /\ now < now'
    /\ pc'[c] = "insert"
    /\ job'[c].op = job[c].op /\ job'[c].sid = job[c].sid /\ job'[c].inst = job[c].inst
    /\ job'[c].stamp = now
    /\ UNCHANGED <<file, db>>

Creates(c) ==
    /\ pc[c] = "insert" /\ pc'[c] = "idle"
    /\ row' = [row EXCEPT ![job[c].sid] =
                 [state |-> "active", inst |-> job[c].inst,
                  startedAt |-> job[c].stamp, beat |-> job[c].stamp,
                  endedAt |-> 0, code |-> "none"]]
    /\ UNCHANGED <<now, file, baseline, change>>

Beats(c) ==
    /\ pc[c] = "beat" /\ row[job[c].sid].state = "active"
    /\ row' = [row EXCEPT ![job[c].sid].beat = job[c].stamp]
    /\ ~Midway(c)'
    /\ UNCHANGED <<now, file, baseline, change>>

Loads(c) ==
    /\ pc[c] = "load" /\ row[job[c].sid].state = "active"
    /\ pc'[c] = "scan" /\ job' = job
    /\ UNCHANGED <<now, file, db>>

Scans(c) ==
    /\ pc[c] = "scan" /\ pc'[c] = "diff"
    /\ job'[c].op = job[c].op /\ job'[c].sid = job[c].sid /\ job'[c].inst = job[c].inst
    /\ job'[c].seen = file /\ job'[c].todo = ChangedPaths(job[c].sid, file)
    /\ UNCHANGED <<now, file, db>>

Compares(c) ==
    /\ pc[c] = "diff" /\ pc'[c] = "diff"
    /\ job'[c].op = job[c].op /\ job'[c].sid = job[c].sid /\ job'[c].inst = job[c].inst
    /\ job'[c].seen = job[c].seen
    /\ \E p \in job[c].todo : /\ ~HasFinishedChangeSince(p, job[c].sid)
                              /\ job'[c].todo = job[c].todo \ {p}
    /\ UNCHANGED <<now, file, db>>

Compared(c) ==
    /\ pc[c] = "diff" /\ job[c].todo = {}
    /\ pc'[c] = "commit" /\ job' = job
    /\ UNCHANGED <<now, file, db>>

Commits(c) ==
    /\ pc[c] = "commit" /\ pc'[c] = "answer"
    /\ now < now'
    /\ change' = change \cup Events(job[c].sid, job[c].seen)
    /\ row' = EndRow(job[c].sid, "finished", "none")
    /\ UNCHANGED <<file, baseline>>

Fails(c) ==
    /\ pc[c] = "fail" /\ ~Midway(c)'
    /\ now < now'
    /\ row' = EndRow(job[c].sid, "failed", job[c].code)
    /\ UNCHANGED <<file, baseline, change>>

OneStep(c) ==
    \/ Quiet(c) \/ Expires(c) \/ Admits(c) \/ Snapshots(c) \/ Stamps(c) \/ Creates(c)
    \/ Beats(c) \/ Loads(c) \/ Scans(c) \/ Compares(c) \/ Compared(c) \/ Commits(c) \/ Fails(c)

\* Replacing these fields of a job keeps the others.
LEMMA JobRest ==
  ASSUME NEW j \in Job
  PROVE  /\ [j EXCEPT !.op = "status"].inst = j.inst
         /\ \A x : [j EXCEPT !.code = x].inst = j.inst
         /\ \A x : /\ [j EXCEPT !.stamp = x].inst = j.inst /\ [j EXCEPT !.stamp = x].stamp = x
         /\ \A x : /\ [j EXCEPT !.todo = x].inst = j.inst /\ [j EXCEPT !.todo = x].todo = x
                   /\ [j EXCEPT !.todo = x].seen = j.seen
         /\ \A x, y : /\ [j EXCEPT !.seen = x, !.todo = y].inst = j.inst
                      /\ [j EXCEPT !.seen = x, !.todo = y].seen = x
                      /\ [j EXCEPT !.seen = x, !.todo = y].todo = y
         /\ LET e == [j EXCEPT !.ended = TRUE]
            IN  /\ e.inst = j.inst /\ e.stamp = j.stamp /\ e.seen = j.seen /\ e.todo = j.todo
  BY DEF Job

LEMMA OnwardStep == TypeOK /\ [Next]_vars => Onward
<1> SUFFICES ASSUME TypeOK, [Next]_vars PROVE Onward
  OBVIOUS
<1>1. now \in Int /\ \A p \in Paths : file[p] \in Int
  BY DEF TypeOK, Time, Version
<1>2. ASSUME now' = now \/ ReadClock, file' = file PROVE Onward
  BY <1>1, <1>2 DEF Onward, ReadClock
<1>3. ASSUME NEW c \in Callers, Step(c) PROVE Onward
  BY <1>2, <1>3
  DEF Step, db, Own, Maintain, ExpireLeases, CountActive, TakeSnapshot, Stamp, CreateSession, Beat,
      Read, CheckContext, Load, Scan, Diff, CommitFinish, Answer, FailSession, StatementError
<1>4. ASSUME NEW p \in Paths, Edit(p) PROVE Onward
  <2>1. file \in [Paths -> Version]
    BY DEF TypeOK
  <2> QED
    BY <1>1, <1>4, <2>1 DEF Edit, Onward
<1> QED
  BY <1>2, <1>3, <1>4 DEF Next, vars, db, Call, ContextEnds, Crash, Tick

LEMMA OnlyStep ==
  ASSUME OneCaller, TypeOK, CallShape, [Next]_vars, NEW c \in Callers
  PROVE  OneStep(c)
<1>1. /\ job \in [Callers -> Job] /\ pc \in [Callers -> Labels] /\ job[c] \in Job
      /\ row \in [SessionIds -> Session]
  BY DEF TypeOK
<1>2. NoJob.op # "start"
  BY DEF NoJob
<1>3. ASSUME UNCHANGED db, NEW code, Return(c, code) PROVE OneStep(c)
  BY <1>1, <1>3 DEF Return, OneStep, Quiet, Midway
<1>4. ASSUME UNCHANGED db, NEW code, FailWith(c, code) PROVE OneStep(c)
  BY <1>1, <1>4 DEF FailWith, Goto, OneStep, Quiet, Midway
<1>5. ASSUME UNCHANGED db, NEW label \in {"maintain", "count", "beat", "read", "ctx", "load", "answer"},
             Goto(c, label)
      PROVE  OneStep(c)
  BY <1>1, <1>5 DEF Goto, OneStep, Quiet, Midway
<1>6. ASSUME UNCHANGED <<db, pc, job>> PROVE OneStep(c)
  BY <1>6 DEF OneStep, Quiet, Midway, SameJob
<1>7. CASE Step(c)
  <2>1. CASE Own(c)
    BY <1>3, <1>5, <2>1 DEF Own
  <2>2. CASE Maintain(c)
    <3>1. pc[c] = "maintain" /\ job' = job /\ UNCHANGED <<file, baseline, change>>
          /\ pc'[c] = AfterMaintain[job[c].op] /\ job[c].op \in AllOps
      BY <1>1, <2>2 DEF Maintain, Goto, TypeOK
    <3>2. ~Midway(c)'
      BY <3>1 DEF AfterMaintain, AllOps, Midway
    <3> QED
      BY <2>2, <3>1, <3>2 DEF Maintain, OneStep, Expires, Quiet, db
  <2>3. CASE CountActive(c)
    <3>1. job[c].op = "start"
      BY <2>3 DEF CountActive, CallShape
    <3>2. ASSUME ~(MaxActive > 0 /\ Cardinality(Active(job[c].inst)) >= MaxActive),
                 Goto(c, "snapshot"), UNCHANGED job
          PROVE  Admits(c)
      BY <1>1, <2>3, <3>1, <3>2 DEF CountActive, Goto, Admits
    <3> QED
      BY <1>3, <2>3, <3>2 DEF CountActive, OneStep
  <2>4. CASE TakeSnapshot(c)
    <3>1. ASSUME baseline' = [baseline EXCEPT ![job[c].sid] = file], Goto(c, "stamp"), UNCHANGED job
          PROVE  Snapshots(c)
      BY <1>1, <2>4, <3>1 DEF TakeSnapshot, Goto, Snapshots
    <3> QED
      BY <1>3, <2>4, <3>1 DEF TakeSnapshot, OneStep, db
  <2>5. CASE Stamp(c)
    <3>1. job' = [job EXCEPT ![c] = [job[c] EXCEPT !.stamp = now]]
      BY <2>5 DEF Stamp
    <3>2. /\ job'[c].op = job[c].op /\ job'[c].sid = job[c].sid /\ job'[c].inst = job[c].inst
          /\ job'[c].stamp = now
      BY <1>1, <3>1, JobKeeps, JobRest
    <3>3. CASE job[c].op = "start"
      BY <1>1, <2>5, <3>2, <3>3 DEF Stamp, ReadClock, Goto, Stamps, OneStep
    <3>4. CASE job[c].op # "start"
      BY <1>5, <2>5, <3>4 DEF Stamp
    <3> QED
      BY <3>3, <3>4
  <2>6. CASE CreateSession(c)
    BY <1>1, <2>6 DEF CreateSession, Return, Creates, OneStep
  <2>7. CASE Beat(c)
    <3>1. ASSUME row[job[c].sid].state = "active",
                 row' = [row EXCEPT ![job[c].sid].beat = job[c].stamp], ThenStatus(c)
          PROVE  Beats(c)
      BY <1>1, <2>7, <3>1 DEF Beat, ThenStatus, Goto, Midway, Beats
    <3> QED
      BY <1>3, <2>7, <3>1 DEF Beat, OneStep, db
  <2>8. CASE Read(c) \/ Answer(c) \/ StatementError(c)
    BY <1>3, <2>8 DEF Read, Answer, StatementError
  <2>9. CASE CheckContext(c)
    BY <1>4, <1>5, <2>9 DEF CheckContext
  <2>10. CASE Load(c)
    <3>1. ASSUME row[job[c].sid].state = "active", Goto(c, "scan"), UNCHANGED job
          PROVE  Loads(c)
      BY <1>1, <2>10, <3>1 DEF Load, Goto, Loads
    <3> QED
      BY <1>3, <1>4, <2>10, <3>1 DEF Load, OneStep
  <2>11. CASE Scan(c)
    <3>1. ASSUME job' = [job EXCEPT ![c].seen = file, ![c].todo = ChangedPaths(job[c].sid, file)],
                 Goto(c, "diff")
          PROVE  Scans(c)
      <4> DEFINE todo == ChangedPaths(job[c].sid, file)
      <4>1. job' = [job EXCEPT ![c] = [job[c] EXCEPT !.seen = file, !.todo = todo]]
        BY <3>1
      <4>2. /\ job'[c].op = job[c].op /\ job'[c].sid = job[c].sid /\ job'[c].inst = job[c].inst
            /\ job'[c].seen = file /\ job'[c].todo = todo
        <5> HIDE DEF todo
        <5> QED
          BY <1>1, <4>1, JobKeeps, JobRest
      <4> QED
        BY <1>1, <2>11, <3>1, <4>2 DEF Scan, Goto, Scans
    <3> QED
      BY <1>4, <2>11, <3>1 DEF Scan, OneStep
  <2>12. CASE Diff(c)
    <3>1. ASSUME NEW p \in job[c].todo, ~HasFinishedChangeSince(p, job[c].sid),
                 job' = [job EXCEPT ![c].todo = @ \ {p}], UNCHANGED <<pc, reply>>
          PROVE  Compares(c)
      <4> DEFINE rest == job[c].todo \ {p}
      <4>1. job' = [job EXCEPT ![c] = [job[c] EXCEPT !.todo = rest]]
        BY <3>1
      <4>2. /\ job'[c].op = job[c].op /\ job'[c].sid = job[c].sid /\ job'[c].inst = job[c].inst
            /\ job'[c].seen = job[c].seen /\ job'[c].todo = rest
        <5> HIDE DEF rest
        <5> QED
          BY <1>1, <4>1, JobKeeps, JobRest
      <4> QED
        BY <1>1, <2>12, <3>1, <4>2 DEF Diff, Compares
    <3>2. ASSUME job[c].todo = {}, Goto(c, "commit"), UNCHANGED job
          PROVE  Compared(c)
      BY <1>1, <2>12, <3>2 DEF Diff, Goto, Compared
    <3> QED
      BY <1>4, <2>12, <3>1, <3>2 DEF Diff, OneStep
  <2>13. CASE CommitFinish(c)
    <3>1. ASSUME ReadClock, change' = change \cup Events(job[c].sid, job[c].seen),
                 row' = EndRow(job[c].sid, "finished", "none"), Goto(c, "answer")
          PROVE  Commits(c)
      BY <1>1, <2>13, <3>1 DEF CommitFinish, Goto, ReadClock, Commits
    <3> QED
      BY <1>3, <1>4, <2>13, <3>1 DEF CommitFinish, OneStep, db
  <2>14. CASE FailSession(c)
    <3>1. ASSUME ReadClock, row' = EndRow(job[c].sid, "failed", job[c].code),
                 ThenStatus(c) \/ \E code : Return(c, code)
          PROVE  Fails(c)
      BY <1>1, <2>14, <3>1 DEF FailSession, Goto, Return, ThenStatus, ReadClock, Midway, Fails
    <3> QED
      BY <1>3, <2>14, <3>1 DEF FailSession, OneStep, db
  <2> QED
    BY <1>7, <2>1, <2>2, <2>3, <2>4, <2>5, <2>6, <2>7, <2>8, <2>9, <2>10, <2>11, <2>12, <2>13,
       <2>14 DEF Step
<1>8. CASE ContextEnds(c)
  <2>1. job' = [job EXCEPT ![c] = [job[c] EXCEPT !.ended = TRUE]]
    BY <1>8 DEF ContextEnds
  <2>2. SameJob(c)
    BY <1>1, <2>1, JobKeeps, JobRest DEF SameJob
  <2> QED
    BY <1>8, <2>2 DEF ContextEnds, OneStep, Quiet, db
<1>9. CASE Crash(c)
  BY <1>1, <1>9 DEF Crash, OneStep, Quiet, Midway, db
<1>10. ASSUME NEW op \in Ops, NEW s \in SessionIds, NEW i \in Instances \cup {NoInstance},
              Call(c, op, s, i)
       PROVE  OneStep(c)
  <2>1. pc'[c] \in {"own", "maintain"} /\ UNCHANGED db
    BY <1>10, CallTyped DEF Call
  <2> QED
    BY <2>1 DEF OneStep, Quiet, Midway
<1>11. \A d \in Callers : d = c
  BY DEF OneCaller
<1> QED
  BY <1>6, <1>7, <1>8, <1>9, <1>10, <1>11 DEF Next, vars, db, Edit, Tick

\* A start names the instance that asks for it.
StartsByInstance ==
    \A c \in Callers : job[c].op = "start" => job[c].inst \in Instances

LEMMA NextStartsByInstance == TypeOK /\ StartsByInstance /\ [Next]_vars => StartsByInstance'
<1> SUFFICES ASSUME TypeOK, StartsByInstance, [Next]_vars PROVE StartsByInstance'
  OBVIOUS
<1>1. job \in [Callers -> Job]
  BY DEF TypeOK
<1>2. NoJob.op # "start"
  BY DEF NoJob
<1>3. ASSUME NEW c \in Callers, NEW j, job' = [job EXCEPT ![c] = j],
             j.inst = job[c].inst, j.op \in {job[c].op, "status"}
      PROVE  StartsByInstance'
  BY <1>1, <1>3 DEF StartsByInstance
<1>4. ASSUME UNCHANGED job PROVE StartsByInstance'
  BY <1>4 DEF StartsByInstance
<1>5. ASSUME NEW c \in Callers, job' = [job EXCEPT ![c] = NoJob] PROVE StartsByInstance'
  BY <1>1, <1>2, <1>5 DEF StartsByInstance
<1>6. ASSUME NEW c \in Callers, NEW code, FailWith(c, code) PROVE StartsByInstance'
  <2>1. job' = [job EXCEPT ![c] = [job[c] EXCEPT !.code = code]]
    BY <1>6 DEF FailWith
  <2> QED
    BY <1>1, <1>3, <2>1, JobKeeps, JobRest
<1>7. ASSUME NEW c \in Callers, ThenStatus(c) PROVE StartsByInstance'
  <2>1. job' = [job EXCEPT ![c] = [job[c] EXCEPT !.op = "status"]]
    BY <1>7 DEF ThenStatus
  <2> QED
    BY <1>1, <1>3, <2>1, JobKeeps, JobRest
<1>8. ASSUME NEW c \in Callers, Stamp(c) PROVE StartsByInstance'
  <2>1. job' = [job EXCEPT ![c] = [job[c] EXCEPT !.stamp = now]]
    BY <1>8 DEF Stamp
  <2> QED
    BY <1>1, <1>3, <2>1, JobKeeps, JobRest
<1>9. ASSUME NEW c \in Callers, Scan(c) PROVE StartsByInstance'
  <2>1. ASSUME NEW todo, job' = [job EXCEPT ![c].seen = file, ![c].todo = todo]
        PROVE  StartsByInstance'
    <3>1. job' = [job EXCEPT ![c] = [job[c] EXCEPT !.seen = file, !.todo = todo]]
      BY <2>1
    <3>2. \A seen : LET j == [job[c] EXCEPT !.seen = seen, !.todo = todo]
                    IN  j.inst = job[c].inst /\ j.op = job[c].op
      BY <1>1, JobKeeps, JobRest
    <3> QED
      BY <1>3, <3>1, <3>2
  <2> QED
    BY <1>6, <1>9, <2>1 DEF Scan
<1>10. ASSUME NEW c \in Callers, Diff(c) PROVE StartsByInstance'
  <2>1. ASSUME NEW p, job' = [job EXCEPT ![c].todo = @ \ {p}] PROVE StartsByInstance'
    <3>1. job' = [job EXCEPT ![c] = [job[c] EXCEPT !.todo = job[c].todo \ {p}]]
      BY <2>1
    <3> QED
      BY <1>1, <1>3, <3>1, JobKeeps, JobRest
  <2> QED
    BY <1>4, <1>6, <1>10, <2>1 DEF Diff
<1>11. ASSUME NEW c \in Callers, Step(c) PROVE StartsByInstance'
  BY <1>4, <1>5, <1>6, <1>7, <1>8, <1>9, <1>10, <1>11
  DEF Step, Own, Maintain, CountActive, TakeSnapshot, CreateSession, Beat, Read, CheckContext,
      Load, CommitFinish, Answer, FailSession, StatementError, Return
<1>12. ASSUME NEW c \in Callers, ContextEnds(c) PROVE StartsByInstance'
  <2>1. job' = [job EXCEPT ![c] = [job[c] EXCEPT !.ended = TRUE]]
    BY <1>12 DEF ContextEnds
  <2> QED
    BY <1>1, <1>3, <2>1, JobKeeps, JobRest
<1>13. ASSUME NEW c \in Callers, Crash(c) PROVE StartsByInstance'
  BY <1>5, <1>13 DEF Crash
<1>14. ASSUME NEW c \in Callers, NEW op \in Ops, NEW s \in SessionIds,
              NEW i \in Instances \cup {NoInstance}, Call(c, op, s, i)
       PROVE  StartsByInstance'
  <2>1. job' = [job EXCEPT ![c] = [NoJob EXCEPT !.op = op, !.sid = s, !.inst = i]]
        /\ (op = "start" => i \in Instances)
    BY <1>14 DEF Call
  <2>2. [NoJob EXCEPT !.op = op, !.sid = s, !.inst = i].op = op
        /\ [NoJob EXCEPT !.op = op, !.sid = s, !.inst = i].inst = i
    BY DEF NoJob
  <2> QED
    BY <1>1, <2>1, <2>2 DEF StartsByInstance
<1> QED
  BY <1>4, <1>11, <1>12, <1>13, <1>14 DEF Next, Edit, Tick, vars

-----------------------------------------------------------------------------
\* The invariant of one caller at a time.

\* Nobody ends the session under a finish that has loaded it.
FinishHasActive ==
    \A c \in Callers :
        pc[c] \in {"scan", "diff", "commit"} => row[job[c].sid].state = "active"

\* The room a start has found is still there when it inserts its row.
StartHasRoom ==
    \A c \in Callers :
        /\ pc[c] \in {"snapshot", "stamp", "insert"} /\ job[c].op = "start"
        /\ MaxActive > 0
        => Cardinality(Active(job[c].inst)) < MaxActive

\* Every stored time has passed.
TimesPast ==
    /\ \A s \in SessionIds :
         /\ row[s].state # "absent" => row[s].startedAt < now
         /\ row[s].state \in Terminal => row[s].endedAt < now
    /\ \A c \in Callers : pc[c] = "insert" => job[c].stamp < now

\* No change and no finish knows a version that was not written, and a start
\* has every finished change in its snapshot.
VersionsSeen ==
    /\ \A e \in change : e.to <= file[e.path]
    /\ \A c \in Callers :
         /\ pc[c] \in {"diff", "commit"} => \A p \in Paths : job[c].seen[p] <= file[p]
         /\ pc[c] \in {"stamp", "insert"} /\ job[c].op = "start" =>
              \A e \in change : e.to <= baseline[job[c].sid][e.path]

\* A path that was looked at has no change finished since the session's start.
ComparedIsFree ==
    \A c \in Callers :
        /\ pc[c] = "commit" => job[c].todo = {}
        /\ pc[c] \in {"diff", "commit"} =>
             \A p \in ChangedPaths(job[c].sid, job[c].seen) \ job[c].todo :
                 ~HasFinishedChangeSince(p, job[c].sid)

\* The steps of the only call, and what holds of its session.
LEMMA OnlyCall ==
  ASSUME OneCaller, CallersInv, [Next]_vars, NEW c \in Callers
  PROVE  /\ OneStep(c)
         /\ \A d \in Callers : d = c
         /\ row \in [SessionIds -> Session] /\ row' \in [SessionIds -> Session]
         /\ job[c] \in Job
         /\ pc[c] # "idle" => job[c].sid \in SessionIds
         /\ pc'[c] # "idle" => job'[c].sid \in SessionIds
  BY OnlyStep, NextTypeOK DEF CallersInv, TypeOK, OneCaller

LEMMA NextFinishHasActive ==
  OneCaller /\ CallersInv /\ FinishHasActive /\ [Next]_vars => FinishHasActive'
<1> SUFFICES ASSUME OneCaller, CallersInv, FinishHasActive, [Next]_vars, NEW c \in Callers,
                    pc'[c] \in {"scan", "diff", "commit"}
             PROVE  row'[job'[c].sid].state = "active"
  BY DEF FinishHasActive
<1>1. OneStep(c)
  BY OnlyCall
<1>2. Midway(c)'
  BY DEF Midway
<1>3. CASE Quiet(c)
  BY <1>2, <1>3 DEF Quiet, SameJob, db, FinishHasActive
<1>4. CASE Loads(c) \/ Scans(c) \/ Compares(c) \/ Compared(c)
  BY <1>4 DEF Loads, Scans, Compares, Compared, db, FinishHasActive
<1> QED
  BY <1>1, <1>2, <1>3, <1>4
  DEF OneStep, Expires, Admits, Snapshots, Stamps, Creates, Beats, Commits, Fails
\* How a row changes but by being created: it keeps its owner and its start, and
\* if its state changes it ends, now.
RowKeeps(s) ==
    /\ row'[s].inst = row[s].inst /\ row'[s].startedAt = row[s].startedAt
    /\ \/ row'[s].state = row[s].state /\ row'[s].endedAt = row[s].endedAt
       \/ /\ row[s].state = "active" /\ row'[s].state \in Terminal
          /\ row'[s].endedAt = now /\ now < now'

LEMMA EveryRowKeeps ==
  ASSUME OneCaller, CallersInv, [Next]_vars, NEW c \in Callers
  PROVE  \/ Creates(c) /\ row[job[c].sid].state = "absent" /\ job[c].op = "start"
         \/ \A s \in SessionIds : RowKeeps(s)
<1>1. OneStep(c) /\ row \in [SessionIds -> Session]
  BY OnlyCall
<1>2. ASSUME UNCHANGED row PROVE \A s \in SessionIds : RowKeeps(s)
  BY <1>2 DEF RowKeeps
<1>3. ASSUME NEW st \in Terminal, NEW code, row' = EndRow(job[c].sid, st, code), now < now',
             job[c].sid \in SessionIds
      PROVE  \A s \in SessionIds : RowKeeps(s)
  BY <1>1, <1>3 DEF EndRow, RowKeeps, Session
<1>4. CASE Expires(c)
  <2>1. now < now'
    BY <1>4 DEF Expires, ExpireLeases, ReadClock
  <2> QED
    BY <1>1, <1>4, <2>1 DEF Expires, ExpireLeases, Expired, RowKeeps, Session, Terminal
<1>5. CASE Creates(c)
  BY <1>5 DEF Creates, CallersInv, CallShape, StartIsFresh
<1>6. CASE Beats(c)
  <2>1. job[c].sid \in SessionIds
    BY <1>6, OnlyCall DEF Beats
  <2> QED
    BY <1>1, <1>6, <2>1 DEF Beats, RowKeeps, Session
<1>7. CASE Commits(c) \/ Fails(c)
  <2>1. job[c].sid \in SessionIds
    BY <1>7, OnlyCall DEF Commits, Fails
  <2> QED
    BY <1>3, <1>7, <2>1 DEF Commits, Fails, Terminal
<1> QED
  BY <1>1, <1>2, <1>4, <1>5, <1>6, <1>7
  DEF OneStep, Quiet, Admits, Snapshots, Stamps, Loads, Scans, Compares, Compared, db

\* An instance has finitely many active sessions, and no more of them after a
\* step that makes none active.
LEMMA ActiveFinite ==
  ASSUME NEW i
  PROVE  IsFiniteSet(Active(i)) /\ Cardinality(Active(i)) \in Nat
<1>1. Active(i) \subseteq SessionIds
  BY DEF Active
<1> QED
  BY <1>1, FS_Subset, FS_CardinalityType

LEMMA FewerActive ==
  ASSUME NEW i, \A s \in SessionIds : RowKeeps(s)
  PROVE  Cardinality(Active(i))' <= Cardinality(Active(i))
<1>1. Active(i)' \subseteq Active(i)
  BY DEF Active, RowKeeps, Terminal
<1>2. IsFiniteSet(Active(i))
  BY ActiveFinite
<1> QED
  BY <1>1, <1>2, FS_Subset

LEMMA NextStartHasRoom ==
  OneCaller /\ CallersInv /\ StartHasRoom /\ [Next]_vars => StartHasRoom'
<1> SUFFICES ASSUME OneCaller, CallersInv, StartHasRoom, [Next]_vars, NEW c \in Callers,
                    pc'[c] \in {"snapshot", "stamp", "insert"}, job'[c].op = "start",
                    MaxActive > 0
             PROVE  Cardinality(Active(job[c].inst))' < MaxActive
  BY DEF StartHasRoom
<1>1. OneStep(c) /\ Midway(c)'
  BY OnlyCall DEF Midway
<1>2. ASSUME UNCHANGED row, job'[c].inst = job[c].inst
      PROVE  Active(job[c].inst)' = Active(job[c].inst)
  BY <1>2 DEF Active
<1>3. CASE Quiet(c)
  BY <1>1, <1>2, <1>3 DEF Quiet, SameJob, db, StartHasRoom
<1>4. CASE Admits(c)
  <2>1. Cardinality(Active(job[c].inst)) \in Nat
    BY ActiveFinite
  <2> QED
    BY <1>2, <1>4, <2>1 DEF Admits, db
<1>5. CASE Snapshots(c) \/ Stamps(c)
  BY <1>2, <1>5 DEF Snapshots, Stamps, db, StartHasRoom
<1> QED
  BY <1>1, <1>3, <1>4, <1>5
  DEF OneStep, Expires, Creates, Beats, Loads, Scans, Compares, Compared, Commits, Fails

LEMMA NextWithinActiveLimit ==
  /\ OneCaller /\ CallersInv /\ StartHasRoom /\ WithinActiveLimit /\ [Next]_vars
  => WithinActiveLimit'
<1> SUFFICES ASSUME OneCaller, CallersInv, StartHasRoom, WithinActiveLimit, [Next]_vars,
                    MaxActive > 0, NEW i \in Instances
             PROVE  Cardinality(Active(i))' <= MaxActive
  BY DEF WithinActiveLimit
<1>1. Cardinality(Active(i)) \in Nat /\ Cardinality(Active(i)) <= MaxActive
      /\ IsFiniteSet(Active(i))
  BY ActiveFinite DEF WithinActiveLimit
<1>2. IsFiniteSet(Active(i)') /\ Cardinality(Active(i)') \in Nat
  <2>1. Active(i)' \subseteq SessionIds
    BY DEF Active
  <2> QED
    BY <2>1, FS_Subset, FS_CardinalityType
<1>3. CASE \A s \in SessionIds : RowKeeps(s)
  BY <1>1, <1>2, <1>3, FewerActive
<1>4. ASSUME NEW c \in Callers, Creates(c), job[c].op = "start"
      PROVE  Cardinality(Active(i))' <= MaxActive
  <2>1. row \in [SessionIds -> Session] /\ job[c].sid \in SessionIds
    BY <1>4, OnlyCall DEF Creates
  <2>2. CASE i = job[c].inst
    <3>1. Active(i)' \subseteq Active(i) \cup {job[c].sid}
      BY <1>4, <2>1 DEF Creates, Active
    <3>2. Cardinality(Active(i)) < MaxActive
      BY <1>4, <2>2 DEF Creates, StartHasRoom
    <3>3. /\ IsFiniteSet(Active(i) \cup {job[c].sid})
          /\ \/ Cardinality(Active(i) \cup {job[c].sid}) = Cardinality(Active(i)) + 1
             \/ Cardinality(Active(i) \cup {job[c].sid}) = Cardinality(Active(i))
      BY <1>1, FS_AddElement
    <3>4. Cardinality(Active(i)') <= Cardinality(Active(i) \cup {job[c].sid})
      BY <3>1, <3>3, FS_Subset
    <3> QED
      BY <1>1, <1>2, <3>2, <3>3, <3>4
  <2>3. CASE i # job[c].inst
    <3>1. Active(i)' \subseteq Active(i)
      BY <1>4, <2>1, <2>3 DEF Creates, Active
    <3>2. Cardinality(Active(i)') <= Cardinality(Active(i))
      BY <1>1, <3>1, FS_Subset
    <3> QED
      BY <1>1, <1>2, <3>2
  <2> QED
    BY <2>2, <2>3
<1>5. ASSUME NEW c \in Callers PROVE Cardinality(Active(i))' <= MaxActive
  BY <1>3, <1>4, EveryRowKeeps
<1>6. CASE Callers = {}
  <2>1. UNCHANGED row
    BY <1>6 DEF Next, vars, db, Edit, Tick
  <2> QED
    BY <1>3, <2>1 DEF RowKeeps
<1> QED
  BY <1>5, <1>6
LEMMA NextTimesPast == OneCaller /\ CallersInv /\ TimesPast /\ [Next]_vars => TimesPast'
<1> SUFFICES ASSUME OneCaller, CallersInv, TimesPast, [Next]_vars PROVE TimesPast'
  OBVIOUS
<1>1. now \in Int /\ now' \in Int /\ now' >= now
  BY OnwardStep, NextTypeOK, TimesAreNumbers DEF CallersInv, Onward, TypeOK
<1>2. row \in [SessionIds -> Session] /\ row' \in [SessionIds -> Session] /\ job \in [Callers -> Job]
  BY NextTypeOK DEF CallersInv, TypeOK
<1>3. \A s \in SessionIds : row[s].startedAt \in Int /\ row[s].endedAt \in Int
  BY <1>2, TimesAreNumbers DEF Session
<1>4. ASSUME NEW s \in SessionIds, RowKeeps(s)
      PROVE  /\ row'[s].state # "absent" => row'[s].startedAt < now'
             /\ row'[s].state \in Terminal => row'[s].endedAt < now'
  BY <1>1, <1>3, <1>4 DEF RowKeeps, TimesPast, Terminal
<1>5. ASSUME NEW c \in Callers, Creates(c), NEW s \in SessionIds
      PROVE  /\ row'[s].state # "absent" => row'[s].startedAt < now'
             /\ row'[s].state \in Terminal => row'[s].endedAt < now'
  <2>1. job[c].sid \in SessionIds /\ job[c].stamp < now /\ now' = now
    BY <1>5, OnlyCall DEF Creates, TimesPast
  <2>2. CASE s = job[c].sid
    BY <1>2, <1>5, <2>1, <2>2 DEF Creates, Terminal
  <2>3. CASE s # job[c].sid
    BY <1>2, <1>5, <2>1, <2>3 DEF Creates, TimesPast
  <2> QED
    BY <2>2, <2>3
<1>6. ASSUME NEW c \in Callers, pc'[c] = "insert" PROVE job'[c].stamp < now'
  <2>1. OneStep(c) /\ Midway(c)' /\ job[c].stamp \in Int
    BY <1>2, <1>6, OnlyCall, TimesAreNumbers DEF Midway, Job
  <2>2. CASE Quiet(c)
    BY <1>1, <1>6, <2>1, <2>2 DEF Quiet, SameJob, TimesPast
  <2>3. CASE Stamps(c)
    BY <1>1, <2>3 DEF Stamps
  <2> QED
    BY <1>6, <2>1, <2>2, <2>3
    DEF OneStep, Expires, Admits, Snapshots, Creates, Beats, Loads, Scans, Compares, Compared,
        Commits, Fails
<1>7. CASE Callers = {}
  <2>1. UNCHANGED row
    BY <1>7 DEF Next, vars, db, Edit, Tick
  <2> QED
    BY <1>4, <1>6, <2>1 DEF RowKeeps, TimesPast
<1> QED
  BY <1>4, <1>5, <1>6, <1>7, EveryRowKeeps DEF TimesPast

LEMMA NextVersionsSeen ==
  OneCaller /\ CallersInv /\ VersionsSeen /\ [Next]_vars => VersionsSeen'
<1> SUFFICES ASSUME OneCaller, CallersInv, VersionsSeen, [Next]_vars PROVE VersionsSeen'
  OBVIOUS
<1>1. \A p \in Paths : file[p] \in Int /\ file'[p] \in Int /\ file'[p] >= file[p]
  BY OnwardStep, NextTypeOK DEF CallersInv, Onward, TypeOK, Version
<1>2. /\ change \subseteq Change /\ change' \subseteq Change
      /\ baseline \in [SessionIds -> [Paths -> Version]]
      /\ \A c \in Callers : job[c].seen \in [Paths -> Version]
  BY NextTypeOK DEF CallersInv, TypeOK, Job
<1>3. \A e \in change : e.path \in Paths /\ e.to \in Int /\ e.to <= file[e.path]
  BY <1>2 DEF Change, Version, VersionsSeen
<1>4. ASSUME UNCHANGED change PROVE \A e \in change' : e.to <= file'[e.path]
  BY <1>1, <1>3, <1>4
<1>5. ASSUME NEW c \in Callers, Commits(c) PROVE \A e \in change' : e.to <= file'[e.path]
  <2>1. \A p \in Paths : job[c].seen[p] <= file[p]
    BY <1>5 DEF Commits, VersionsSeen
  <2>2. \A e \in Events(job[c].sid, job[c].seen) :
          e.path \in Paths /\ e.to = job[c].seen[e.path]
    BY DEF Events, ChangedPaths
  <2> QED
    BY <1>3, <1>5, <2>1, <2>2 DEF Commits
<1>6. \A e \in change' : e.to <= file'[e.path]
  <2>1. ASSUME NEW c \in Callers PROVE Commits(c) \/ UNCHANGED change
    BY OnlyCall
    DEF OneStep, Quiet, db, Expires, Admits, Snapshots, Stamps, Creates, Beats, Loads, Scans, Compares,
        Compared, Commits, Fails
  <2>2. CASE Callers = {}
    BY <1>4, <2>2 DEF Next, vars, db, Edit, Tick
  <2> QED
    BY <1>4, <1>5, <2>1, <2>2
<1>7. ASSUME NEW c \in Callers, pc'[c] \in {"diff", "commit"}, NEW p \in Paths
      PROVE  job'[c].seen[p] <= file'[p]
  <2>1. OneStep(c) /\ Midway(c)' /\ job[c].seen[p] \in Int
    BY <1>2, <1>7, OnlyCall DEF Midway, Version
  <2>2. CASE Quiet(c) \/ Compares(c) \/ Compared(c)
    <3>1. pc[c] \in {"diff", "commit"} /\ job'[c].seen = job[c].seen
      BY <1>7, <2>1, <2>2 DEF Quiet, SameJob, Compares, Compared
    <3> QED
      BY <1>1, <2>1, <3>1 DEF VersionsSeen
  <2>3. CASE Scans(c)
    BY <1>1, <2>3 DEF Scans
  <2> QED
    BY <1>7, <2>1, <2>2, <2>3
    DEF OneStep, Expires, Admits, Snapshots, Stamps, Creates, Beats, Loads, Commits, Fails
<1>8. ASSUME NEW c \in Callers, pc'[c] \in {"stamp", "insert"}, job'[c].op = "start",
             NEW e \in change'
      PROVE  e.to <= baseline'[job'[c].sid][e.path]
  <2>1. OneStep(c) /\ Midway(c)'
    BY <1>8, OnlyCall DEF Midway
  <2>2. CASE Quiet(c) \/ Stamps(c)
    <3>1. /\ pc[c] \in {"stamp", "insert"} /\ job[c].op = "start" /\ job'[c].sid = job[c].sid
          /\ baseline' = baseline /\ change' = change
      BY <1>8, <2>1, <2>2 DEF Quiet, SameJob, Stamps, db
    <3> QED
      BY <1>8, <3>1 DEF VersionsSeen
  <2>3. CASE Snapshots(c)
    <3>1. job[c].sid \in SessionIds
      BY <2>3, OnlyCall DEF Snapshots
    <3> QED
      BY <1>2, <1>3, <1>8, <2>3, <3>1 DEF Snapshots
  <2> QED
    BY <1>8, <2>1, <2>2, <2>3
    DEF OneStep, Expires, Admits, Creates, Beats, Loads, Scans, Compares, Compared, Commits, Fails
<1> QED
  BY <1>6, <1>7, <1>8 DEF VersionsSeen

LEMMA NextComparedIsFree ==
  OneCaller /\ CallersInv /\ ComparedIsFree /\ [Next]_vars => ComparedIsFree'
<1> SUFFICES ASSUME OneCaller, CallersInv, ComparedIsFree, [Next]_vars, NEW c \in Callers,
                    pc'[c] \in {"diff", "commit"}
             PROVE  /\ pc'[c] = "commit" => job'[c].todo = {}
                    /\ \A p \in ChangedPaths(job[c].sid, job[c].seen)' \ job'[c].todo :
                         ~HasFinishedChangeSince(p, job[c].sid)'
  BY DEF ComparedIsFree
<1>1. OneStep(c) /\ Midway(c)'
  BY OnlyCall DEF Midway
<1>2. ASSUME UNCHANGED db, job'[c].sid = job[c].sid
      PROVE  /\ \A p : HasFinishedChangeSince(p, job[c].sid)' <=> HasFinishedChangeSince(p, job[c].sid)
             /\ job'[c].seen = job[c].seen
                  => ChangedPaths(job[c].sid, job[c].seen)' = ChangedPaths(job[c].sid, job[c].seen)
  BY <1>2 DEF db, HasFinishedChangeSince, ChangedPaths
<1>3. CASE Quiet(c)
  BY <1>1, <1>2, <1>3 DEF Quiet, SameJob, ComparedIsFree
<1>4. CASE Scans(c)
  BY <1>4 DEF Scans, ChangedPaths, db
<1>5. CASE Compares(c)
  BY <1>2, <1>5 DEF Compares, ComparedIsFree
<1>6. CASE Compared(c)
  BY <1>2, <1>6 DEF Compared, ComparedIsFree
<1> QED
  BY <1>1, <1>3, <1>4, <1>5, <1>6
  DEF OneStep, Expires, Admits, Snapshots, Stamps, Creates, Beats, Loads, Commits, Fails
-----------------------------------------------------------------------------
\* What is credited.

\* Everything but a commit leaves the changes, and the rows of their sessions,
\* as they are.
LEMMA CreditKept ==
  ASSUME OneCaller, CallersInv, OnlyFinishedIsCredited, [Next]_vars
  PROVE  \/ \E c \in Callers : Commits(c)
         \/ /\ change' = change
            /\ \A e \in change : /\ e.sid \in SessionIds
                                 /\ row'[e.sid].state = "finished"
                                 /\ row'[e.sid].startedAt = row[e.sid].startedAt
                                 /\ row'[e.sid].endedAt = row[e.sid].endedAt
<1>1. /\ row \in [SessionIds -> Session]
      /\ \A e \in change : e.sid \in SessionIds /\ row[e.sid].state = "finished"
  BY DEF CallersInv, TypeOK, Change, OnlyFinishedIsCredited
<1>2. ASSUME \A s \in SessionIds : RowKeeps(s)
      PROVE  \A e \in change : /\ row'[e.sid].state = "finished"
                               /\ row'[e.sid].startedAt = row[e.sid].startedAt
                               /\ row'[e.sid].endedAt = row[e.sid].endedAt
  BY <1>1, <1>2 DEF RowKeeps
<1>3. ASSUME NEW c \in Callers PROVE Commits(c) \/ UNCHANGED change
  BY OnlyCall
  DEF OneStep, Quiet, db, Expires, Admits, Snapshots, Stamps, Creates, Beats, Loads, Scans, Compares,
      Compared, Commits, Fails
<1>4. ASSUME NEW c \in Callers, Creates(c), row[job[c].sid].state = "absent"
      PROVE  \A e \in change : row'[e.sid] = row[e.sid]
  <2>1. job[c].sid \in SessionIds
    BY <1>4, OnlyCall DEF Creates
  <2> QED
    BY <1>1, <1>4, <2>1 DEF Creates
<1>5. CASE Callers = {}
  BY <1>1, <1>5 DEF Next, vars, db, Edit, Tick
<1>6. CASE Callers # {}
  <2>1. PICK c \in Callers : TRUE
    BY <1>6
  <2>2. Commits(c) \/ UNCHANGED change
    BY <1>3
  <2>3. \/ Creates(c) /\ row[job[c].sid].state = "absent"
        \/ \A s \in SessionIds : RowKeeps(s)
    BY EveryRowKeeps
  <2> QED
    BY <1>1, <1>2, <1>4, <2>2, <2>3
<1> QED
  BY <1>5, <1>6

\* A commit credits its own session, which it finishes, and whose paths were
\* free of changes finished since it started.
LEMMA CommitCredits ==
  ASSUME OneCaller, CallersInv, FinishHasActive, ComparedIsFree, [Next]_vars,
         NEW c \in Callers, Commits(c)
  PROVE  LET s == job[c].sid
         IN  /\ s \in SessionIds /\ row[s].state = "active"
             /\ row'[s].state = "finished" /\ row'[s].endedAt = now
             /\ row'[s].startedAt = row[s].startedAt
             /\ \A t \in SessionIds \ {s} : row'[t] = row[t]
             /\ baseline' = baseline
             /\ \A e \in change : e \in change' /\ e.sid # s
             /\ \A e \in change' \ change : /\ e.sid = s
                                            /\ e.path \in Paths
                                            /\ e.from = baseline[s][e.path]
                                            /\ ~HasFinishedChangeSince(e.path, s)
<1> DEFINE s == job[c].sid
<1>1. /\ row \in [SessionIds -> Session] /\ s \in SessionIds /\ row[s].state = "active"
      /\ job[c].todo = {}
  BY OnlyCall DEF Commits, FinishHasActive, ComparedIsFree
<1>2. /\ row'[s].state = "finished" /\ row'[s].endedAt = now
      /\ row'[s].startedAt = row[s].startedAt
      /\ \A t \in SessionIds \ {s} : row'[t] = row[t]
  BY <1>1 DEF Commits, EndRow, Session
<1>3. \A e \in change : e \in change' /\ e.sid # s
  BY <1>1 DEF Commits, CallersInv, ActiveIsUncredited, Terminal
<1>4. ASSUME NEW e \in Events(s, job[c].seen)
      PROVE  /\ e.sid = s /\ e.path \in Paths /\ e.from = baseline[s][e.path]
             /\ ~HasFinishedChangeSince(e.path, s)
  <2>1. PICK p \in ChangedPaths(s, job[c].seen) :
          e = [sid |-> s, path |-> p, from |-> baseline[s][p], to |-> job[c].seen[p]]
    BY <1>4 DEF Events
  <2>2. ~HasFinishedChangeSince(p, s) /\ p \in Paths
    BY <1>1 DEF Commits, ComparedIsFree, ChangedPaths
  <2> QED
    BY <2>1, <2>2
<1> QED
  BY <1>1, <1>2, <1>3, <1>4 DEF Commits

LEMMA NextOnlyFinishedIsCredited ==
  /\ OneCaller /\ CallersInv /\ FinishHasActive /\ ComparedIsFree
  /\ OnlyFinishedIsCredited /\ [Next]_vars
  => OnlyFinishedIsCredited'
<1> SUFFICES ASSUME OneCaller, CallersInv, FinishHasActive, ComparedIsFree,
                    OnlyFinishedIsCredited, [Next]_vars
             PROVE  OnlyFinishedIsCredited'
  OBVIOUS
<1>1. ASSUME NEW c \in Callers, Commits(c), NEW e \in change'
      PROVE  row'[e.sid].state = "finished"
  <2>1. \A f \in change : f.sid \in SessionIds /\ row[f.sid].state = "finished"
    BY DEF CallersInv, TypeOK, Change, OnlyFinishedIsCredited
  <2> QED
    BY <1>1, <2>1, CommitCredits
<1> QED
  BY <1>1, CreditKept DEF OnlyFinishedIsCredited

\* What HasFinishedChangeSince does not report was finished before the session
\* started, or less than a second after.
LEMMA NotSince ==
  ASSUME TypeOK, NEW s \in SessionIds, NEW e \in change, e.sid # s,
         ~HasFinishedChangeSince(e.path, s), row[e.sid].state = "finished"
  PROVE  row[e.sid].endedAt < row[s].startedAt + TicksPerSecond
<1>1. e.sid \in SessionIds /\ row \in [SessionIds -> Session]
  BY DEF TypeOK, Change
<1>2. row[e.sid].endedAt \in Int /\ row[s].startedAt \in Int
  BY <1>1, TimesAreNumbers DEF Session
<1>3. ~Before(row[s].startedAt, row[e.sid].endedAt)
  BY DEF HasFinishedChangeSince
<1> QED
  BY <1>2, <1>3, TextOrder

\* The changes and snapshots of the sessions that may be credited.
CreditInv ==
    /\ OnlyFinishedIsCredited
    /\ BaselineHasFinishedChanges
    /\ OverlapIsConflict
    /\ NoEditCreditedTwice

OneCallerInv ==
    /\ CallersInv /\ StartsByInstance
    /\ FinishHasActive /\ StartHasRoom /\ WithinActiveLimit /\ TimesPast /\ VersionsSeen
    /\ ComparedIsFree /\ OnlyFinishedIsCredited

\* The times and versions the properties compare are numbers.
Numbers ==
    /\ \A e \in change : /\ e.sid \in SessionIds /\ e.path \in Paths
                         /\ e.from \in Int /\ e.to \in Int
    /\ \A s \in SessionIds : /\ row[s].startedAt \in Int /\ row[s].endedAt \in Int
                             /\ \A p \in Paths : baseline[s][p] \in Int
    /\ now \in Int

LEMMA CreditNumbers == TypeOK => Numbers
  BY TimesAreNumbers DEF Numbers, TypeOK, Change, Session, Version

LEMMA NextBaseline ==
  ASSUME OneCaller, OneCallerInv, BaselineHasFinishedChanges, [Next]_vars
  PROVE  BaselineHasFinishedChanges'
<1> SUFFICES ASSUME NEW e \in change', NEW s \in SessionIds,
                    row'[s].state # "absent", s # e.sid,
                    row'[e.sid].endedAt <= row'[s].startedAt
             PROVE  e.to <= baseline'[s][e.path]
  BY DEF BaselineHasFinishedChanges
<1> USE DEF OneCallerInv
<1>1. TypeOK /\ Numbers
  BY CreditNumbers DEF CallersInv
<1>2. CASE \E c \in Callers : Commits(c)
  <2>1. PICK c \in Callers : Commits(c)
    BY <1>2
  <2>2. CASE e \in change
    <3>1. e.sid \in SessionIds
      BY <1>1, <2>2 DEF Numbers
    <3>2. /\ row'[e.sid] = row[e.sid] /\ baseline' = baseline
          /\ row[s].state # "absent" /\ row'[s].startedAt = row[s].startedAt
      BY <2>1, <2>2, <3>1, CommitCredits
    <3> QED
      BY <2>2, <3>2 DEF BaselineHasFinishedChanges
  <2>3. CASE e \notin change
    <3>1. row'[e.sid].endedAt = now /\ row'[s] = row[s]
      BY <2>1, <2>3, CommitCredits
    <3> QED
      BY <1>1, <3>1 DEF TimesPast, Numbers
  <2> QED
    BY <2>2, <2>3
<1>3. CASE ~\E c \in Callers : Commits(c)
  <2>1. /\ e \in change /\ row'[e.sid].endedAt = row[e.sid].endedAt
        /\ row[e.sid].state = "finished"
    BY <1>3, CreditKept DEF OnlyFinishedIsCredited
  <2>2. CASE RowKeeps(s) /\ baseline'[s] = baseline[s]
    BY <1>1, <2>1, <2>2 DEF RowKeeps, BaselineHasFinishedChanges, Terminal
  <2>3. ASSUME NEW c \in Callers PROVE e.to <= baseline'[s][e.path]
    <3>1. OneStep(c) /\ row \in [SessionIds -> Session]
      BY OnlyCall
    <3>2. CASE Creates(c)
      <4>1. job[c].sid \in SessionIds /\ job[c].op = "start" /\ baseline' = baseline
        BY <3>2, OnlyCall DEF Creates, CallersInv, CallShape
      <4>2. CASE s = job[c].sid
        BY <2>1, <3>2, <4>1, <4>2 DEF Creates, VersionsSeen
      <4>3. CASE s # job[c].sid
        <5>1. row'[s] = row[s]
          BY <3>1, <3>2, <4>1, <4>3 DEF Creates
        <5> QED
          BY <2>1, <4>1, <5>1 DEF BaselineHasFinishedChanges
      <4> QED
        BY <4>2, <4>3
    <3>3. CASE ~Creates(c)
      <4>1. \A t \in SessionIds : RowKeeps(t)
        BY <3>3, EveryRowKeeps
      <4>2. CASE Snapshots(c)
        <5>1. job[c].sid \in SessionIds /\ row[job[c].sid].state = "absent" /\ row' = row
          BY <4>2, OnlyCall DEF Snapshots, CallersInv, CallShape, StartIsFresh
        <5>2. baseline'[s] = baseline[s]
          BY <4>2, <5>1 DEF Snapshots, TypeOK, CallersInv
        <5> QED
          BY <2>2, <4>1, <5>2
      <4>3. CASE baseline' = baseline
        BY <2>2, <4>1, <4>3
      <4> QED
        BY <1>3, <3>1, <3>3, <4>2, <4>3
        DEF OneStep, Quiet, db, Expires, Admits, Stamps, Beats, Loads, Scans, Compares, Compared, Fails
    <3> QED
      BY <3>2, <3>3
  <2>4. CASE Callers = {}
    <3>1. row' = row /\ baseline' = baseline
      BY <2>4 DEF Next, vars, db, Edit, Tick
    <3> QED
      BY <2>2, <3>1 DEF RowKeeps
  <2> QED
    BY <2>3, <2>4
<1> QED
  BY <1>2, <1>3
\* The two properties of pairs of changes, for an old change and a new one.
LEMMA CommitApart ==
  ASSUME OneCaller, OneCallerInv, BaselineHasFinishedChanges, [Next]_vars,
         NEW c \in Callers, Commits(c),
         NEW e \in change, NEW f \in change' \ change, e.path = f.path
  PROVE  /\ e.to <= f.from \/ BriefOverlap(e.sid, f.sid)'
         /\ row'[e.sid].endedAt < row'[f.sid].startedAt + TicksPerSecond
         /\ row'[e.sid].endedAt < row'[f.sid].endedAt
<1> USE DEF OneCallerInv
<1> DEFINE s == job[c].sid
<1>1. TypeOK /\ Numbers
  BY CreditNumbers DEF CallersInv
<1>2. /\ s \in SessionIds /\ row[s].state = "active" /\ e.sid \in SessionIds /\ e.sid # s
      /\ f.sid = s /\ f.path \in Paths /\ f.from = baseline[s][f.path]
      /\ ~HasFinishedChangeSince(f.path, s)
      /\ row[e.sid].state = "finished"
  BY <1>1, CommitCredits DEF Numbers, OnlyFinishedIsCredited
<1>3. row'[e.sid] = row[e.sid] /\ row'[s].startedAt = row[s].startedAt /\ row'[s].endedAt = now
  BY <1>2, CommitCredits
<1>4. row[e.sid].endedAt < row[s].startedAt + TicksPerSecond
  BY <1>1, <1>2, NotSince
<1>5. row[e.sid].endedAt <= row[s].startedAt => e.to <= f.from
  BY <1>2 DEF BaselineHasFinishedChanges
<1>6. row[e.sid].endedAt < now
  BY <1>2 DEF TimesPast, Terminal
<1>7. row[s].startedAt < row[e.sid].endedAt => BriefOverlap(e.sid, f.sid)'
  BY <1>2, <1>3, <1>4 DEF BriefOverlap
<1>8. row[e.sid].endedAt \in Int /\ row[s].startedAt \in Int
  BY <1>1, <1>2 DEF Numbers
<1> QED
  BY <1>2, <1>3, <1>4, <1>5, <1>6, <1>7, <1>8

LEMMA NextOverlap ==
  ASSUME OneCaller, OneCallerInv, BaselineHasFinishedChanges,
         OverlapIsConflict, NoEditCreditedTwice, [Next]_vars
  PROVE  OverlapIsConflict' /\ NoEditCreditedTwice'
<1> USE DEF OneCallerInv
<1>1. TypeOK /\ Numbers /\ Numbers'
  BY CreditNumbers, NextTypeOK, PTL DEF CallersInv
<1>2. ASSUME NEW c \in Callers, Commits(c)
      PROVE  OverlapIsConflict' /\ NoEditCreditedTwice'
  <2>1. \A e \in change : e \in change' /\ e.sid \in SessionIds /\ row'[e.sid] = row[e.sid]
    BY <1>1, <1>2, CommitCredits DEF Numbers
  <2>2. \A e, f \in change' \ change : e.sid = f.sid
    BY <1>2, CommitCredits
  <2>3. \A e \in change, f \in change' \ change :
          e.path = f.path => /\ e.to <= f.from \/ BriefOverlap(e.sid, f.sid)'
                             /\ row'[e.sid].endedAt < row'[f.sid].startedAt + TicksPerSecond
                             /\ row'[e.sid].endedAt < row'[f.sid].endedAt
    BY <1>2, CommitApart
  <2>4. \A e \in change' : row'[e.sid].endedAt \in Int
    BY <1>1 DEF Numbers
  <2>5. OverlapIsConflict'
    BY <2>1, <2>2, <2>3, <2>4 DEF OverlapIsConflict
  <2>6. \A e, f \in change : BriefOverlap(e.sid, f.sid) => BriefOverlap(e.sid, f.sid)'
    BY <2>1 DEF BriefOverlap
  <2>7. NoEditCreditedTwice'
    BY <2>1, <2>2, <2>3, <2>4, <2>6 DEF NoEditCreditedTwice
  <2> QED
    BY <2>5, <2>7
<1>3. CASE ~\E c \in Callers : Commits(c)
  <2>1. /\ change' = change
        /\ \A e \in change : /\ row'[e.sid].startedAt = row[e.sid].startedAt
                             /\ row'[e.sid].endedAt = row[e.sid].endedAt
    BY <1>3, CreditKept
  <2>2. \A e, f \in change : BriefOverlap(e.sid, f.sid) => BriefOverlap(e.sid, f.sid)'
    BY <2>1 DEF BriefOverlap
  <2> QED
    BY <2>1, <2>2 DEF OverlapIsConflict, NoEditCreditedTwice
<1> QED
  BY <1>2, <1>3

-----------------------------------------------------------------------------
\* The theorems.

LEMMA InitOneCallerInv == Init => OneCallerInv
<1> SUFFICES ASSUME Init PROVE OneCallerInv
  OBVIOUS
<1>1. CallersInv
  BY InitTypeOK
  DEF Init, CallersInv, CallShape, StartIsFresh, FinishKnowsSession, ActiveIsUncredited, NoJob
<1>2. WithinActiveLimit
  <2>1. \A i : Active(i) = {}
    BY DEF Init, NoSession, Active
  <2> QED
    BY <2>1, FS_EmptySet DEF WithinActiveLimit
<1>3. StartsByInstance /\ FinishHasActive /\ StartHasRoom /\ ComparedIsFree
  BY DEF Init, NoJob, StartsByInstance, FinishHasActive, StartHasRoom, ComparedIsFree
<1>4. TimesPast /\ VersionsSeen /\ OnlyFinishedIsCredited
  BY DEF Init, NoSession, TimesPast, VersionsSeen, OnlyFinishedIsCredited, Terminal
<1> QED
  BY <1>1, <1>2, <1>3, <1>4 DEF OneCallerInv

LEMMA NextOneCallerInv == OneCaller /\ OneCallerInv /\ [Next]_vars => OneCallerInv'
<1> SUFFICES ASSUME OneCaller, OneCallerInv, [Next]_vars PROVE OneCallerInv'
  OBVIOUS
<1>1. CallersInv'
  BY NextTypeOK, NextCallShape, NextStartIsFresh, NextFinishKnowsSession, NextActiveIsUncredited
  DEF OneCallerInv, CallersInv
<1> QED
  BY <1>1, NextStartsByInstance, NextFinishHasActive, NextStartHasRoom, NextWithinActiveLimit,
     NextTimesPast, NextVersionsSeen, NextComparedIsFree, NextOnlyFinishedIsCredited
  DEF OneCallerInv, CallersInv

\* One call at a time: a finish meets its session as it loaded it, the room a
\* start found is there, and what a finish compared stays free of conflicts.
THEOREM OneCallerInvHolds ==
  ASSUME OneCaller
  PROVE  Spec => []OneCallerInv
BY InitOneCallerInv, NextOneCallerInv, PTL DEF Spec

\* Only a finished session has provenance, if calls do not overlap: between a
\* finish's load and its commit nobody expires or abandons the session.
THEOREM OnlyFinishedCredited ==
  ASSUME OneCaller
  PROVE  Spec => []OnlyFinishedIsCredited
<1>1. OneCallerInv => OnlyFinishedIsCredited
  BY DEF OneCallerInv
<1> QED
  BY <1>1, OneCallerInvHolds, PTL

\* The limit of active sessions holds for every agent instance, if calls do not
\* overlap: CountActive and CreateSession are separate statements.
THEOREM ActiveLimitKept ==
  ASSUME OneCaller
  PROVE  Spec => []WithinActiveLimit
<1>1. OneCallerInv => WithinActiveLimit
  BY DEF OneCallerInv
<1> QED
  BY <1>1, OneCallerInvHolds, PTL

\* Calls that do not overlap, times stored as finely as they may be: a snapshot
\* has what was finished before its session's start, sessions that overlap for a
\* second or more do not both change a path, and no edit is credited twice but to
\* sessions that overlapped for less.
THEOREM CreditInvHolds ==
  ASSUME OneCaller
  PROVE  Spec => []CreditInv
<1>1. Init => CreditInv
  BY InitOneCallerInv
  DEF Init, OneCallerInv, CreditInv, BaselineHasFinishedChanges, OverlapIsConflict, NoEditCreditedTwice
<1>2. OneCallerInv /\ CreditInv /\ [Next]_vars => CreditInv'
  BY NextBaseline, NextOverlap, NextOnlyFinishedIsCredited DEF CreditInv, OneCallerInv
<1> QED
  BY <1>1, <1>2, OneCallerInvHolds, PTL DEF Spec
\* Of two sessions of which the one ended a second or more after the other began
\* and before it ended, only one is credited with a path, if calls do not overlap.
THEOREM OverlapConflicts ==
  ASSUME OneCaller
  PROVE  Spec => []OverlapIsConflict
<1>1. CreditInv => OverlapIsConflict
  BY DEF CreditInv
<1> QED
  BY <1>1, CreditInvHolds, PTL

\* No edit is credited to two sessions, if calls do not overlap:
\* HasFinishedChangeSince finds every change that a snapshot lacks, but one
\* finished less than a second after the start it is compared with.
THEOREM EditsCreditedOnce ==
  ASSUME OneCaller
  PROVE  Spec => []NoEditCreditedTwice
<1>1. CreditInv => NoEditCreditedTwice
  BY DEF CreditInv
<1> QED
  BY <1>1, CreditInvHolds, PTL

-----------------------------------------------------------------------------
\* The service implements its ledger.

LEMMA LedgerInit == Init => Ledger!Init
  BY DEF Init, NoSession, Ledger!Init

\* The states of the ledger after a step that keeps every row's owner, and fails
\* these sessions.
LEMMA LedgerFails ==
  ASSUME NEW S \in SUBSET SessionIds,
         \A s \in SessionIds : row'[s].inst = row[s].inst,
         \A s \in SessionIds : row'[s].state = IF s \in S THEN "failed" ELSE row[s].state,
         \A s \in S : row[s].state = "active",
         change' = change
  PROVE  Ledger!Next
<1>1. Ledger!Fail(S)
  BY DEF Ledger!Fail
<1> QED
  BY <1>1 DEF Ledger!Next

LEMMA LedgerStutters ==
  ASSUME \A s \in SessionIds : row'[s].inst = row[s].inst /\ row'[s].state = row[s].state,
         change' = change
  PROVE  UNCHANGED Ledger!ledger
BY DEF Ledger!ledger

LEMMA LedgerBegins ==
  ASSUME OneCaller, OneCallerInv, [Next]_vars, NEW c \in Callers, Creates(c)
  PROVE  Ledger!Next
<1>1. row \in [SessionIds -> Session] /\ job[c].sid \in SessionIds
  BY OnlyCall DEF Creates, OneCallerInv
<1>2. job[c].op = "start" /\ row[job[c].sid].state = "absent" /\ job[c].inst \in Instances
  BY DEF Creates, OneCallerInv, CallersInv, CallShape, StartIsFresh, StartsByInstance
<1>3. PICK s \in SessionIds : s = job[c].sid
  BY <1>1
<1>4. PICK i \in Instances : i = job[c].inst
  BY <1>2
<1>5. Ledger!ActiveOf(i) = Active(i) /\ Ledger!Cardinality(Active(i)) = Cardinality(Active(i))
  BY DEF Ledger!ActiveOf, Active, Ledger!Cardinality, Cardinality
<1>6. MaxActive > 0 => Ledger!Cardinality(Ledger!ActiveOf(i)) < MaxActive
  BY <1>2, <1>4, <1>5 DEF Creates, OneCallerInv, StartHasRoom
<1>7. /\ row[s].state = "absent"
      /\ row'[s].state = "active" /\ row'[s].inst = i /\ change' = change
      /\ \A t \in SessionIds \ {s} : row'[t] = row[t]
  BY <1>1, <1>2, <1>3, <1>4 DEF Creates
<1>8. /\ [t \in SessionIds |-> row'[t].state]
           = [[t \in SessionIds |-> row[t].state] EXCEPT ![s] = "active"]
      /\ [t \in SessionIds |-> row'[t].inst]
           = [[t \in SessionIds |-> row[t].inst] EXCEPT ![s] = i]
  BY <1>7
<1>9. Ledger!Begin(s, i)
  BY <1>6, <1>7, <1>8 DEF Ledger!Begin
<1> QED
  BY <1>9 DEF Ledger!Next

LEMMA LedgerFinishes ==
  ASSUME OneCaller, OneCallerInv, BaselineHasFinishedChanges, [Next]_vars,
         NEW c \in Callers, Commits(c)
  PROVE  Ledger!Next
<1>1. PICK s \in SessionIds : s = job[c].sid
  BY OnlyCall DEF OneCallerInv, Commits
<1>2. /\ row[s].state = "active" /\ row'[s].state = "finished"
      /\ \A t \in SessionIds \ {s} : row'[t] = row[t]
      /\ change \subseteq change'
      /\ \A e \in change' \ change : e.sid = s
  BY <1>1, CommitCredits DEF OneCallerInv
<1>3. row'[s].inst = row[s].inst
  <2>1. row \in [SessionIds -> Session]
    BY OnlyCall DEF OneCallerInv
  <2> QED
    BY <1>1, <1>2, <2>1 DEF Commits, EndRow, Session
<1>4. ASSUME NEW e \in change' \ change, NEW f \in change
      PROVE  \/ Ledger!Apart(e, f)
             \/ <<f.sid, s>> \in {st \in SessionIds \X SessionIds : BriefOverlap(st[1], st[2])'}
  <2>1. f.sid \in SessionIds /\ e.sid = s
    BY <1>2, CreditNumbers DEF OneCallerInv, CallersInv, Numbers
  <2>2. CASE e.path = f.path
    BY <1>4, <2>1, <2>2, CommitApart DEF Ledger!Apart
  <2> QED
    BY <2>2 DEF Ledger!Apart
<1>5. Ledger!Finish(s)
  BY <1>2, <1>3, <1>4 DEF Ledger!Finish
<1> QED
  BY <1>5 DEF Ledger!Next

LEMMA LedgerStep ==
  ASSUME OneCaller, OneCallerInv, BaselineHasFinishedChanges, [Next]_vars
  PROVE  [Ledger!Next]_(Ledger!ledger)
<1>1. ASSUME UNCHANGED <<row, change>> PROVE UNCHANGED Ledger!ledger
  BY <1>1, LedgerStutters
<1>2. CASE Callers = {}
  BY <1>1, <1>2 DEF Next, vars, db, Edit, Tick
<1>3. ASSUME NEW c \in Callers PROVE [Ledger!Next]_(Ledger!ledger)
  <2>1. OneStep(c) /\ row \in [SessionIds -> Session]
    BY OnlyCall DEF OneCallerInv
  <2>2. CASE Expires(c)
    <3>1. /\ \A s \in SessionIds : row'[s].inst = row[s].inst
          /\ \A s \in SessionIds : row'[s].state = IF s \in Expired THEN "failed" ELSE row[s].state
      BY <2>1, <2>2 DEF Expires, ExpireLeases, Session
    <3>2. Expired \in SUBSET SessionIds /\ \A s \in Expired : row[s].state = "active"
      BY DEF Expired
    <3> QED
      BY <2>2, <3>1, <3>2, LedgerFails DEF Expires
  <2>3. CASE Creates(c)
    BY <2>3, LedgerBegins
  <2>4. CASE Commits(c)
    BY <2>4, LedgerFinishes
  <2>5. CASE Beats(c)
    <3>1. job[c].sid \in SessionIds
      BY <2>5, OnlyCall DEF Beats, OneCallerInv
    <3>2. \A s \in SessionIds : row'[s].inst = row[s].inst /\ row'[s].state = row[s].state
      BY <2>1, <2>5, <3>1 DEF Beats, Session
    <3> QED
      BY <2>5, <3>2, LedgerStutters DEF Beats
  <2>6. CASE Fails(c)
    <3> DEFINE s == job[c].sid
    <3>1. s \in SessionIds /\ change' = change
      BY <2>6, OnlyCall DEF Fails, OneCallerInv
    <3>2. CASE row[s].state = "active"
      <4>1. /\ \A t \in SessionIds : row'[t].inst = row[t].inst
            /\ \A t \in SessionIds : row'[t].state = IF t \in {s} THEN "failed" ELSE row[t].state
        BY <2>1, <2>6, <3>1, <3>2 DEF Fails, EndRow, Session
      <4>2. {s} \in SUBSET SessionIds /\ \A t \in {s} : row[t].state = "active"
        BY <3>1, <3>2
      <4> QED
        BY <3>1, <4>1, <4>2, LedgerFails
    <3>3. CASE row[s].state # "active"
      BY <1>1, <2>6, <3>1, <3>3 DEF Fails, EndRow
    <3> QED
      BY <3>2, <3>3
  <2> QED
    BY <1>1, <2>1, <2>2, <2>3, <2>4, <2>5, <2>6
    DEF OneStep, Quiet, db, Admits, Snapshots, Stamps, Loads, Scans, Compares, Compared
<1> QED
  BY <1>2, <1>3

\* With calls that do not overlap, every step of the service, whatever fails,
\* expires or crashes, is a step of the ledger: a session begins once within its
\* limit, ends once, and is credited only by the commit that finishes it, with
\* edits nobody was credited with but a session it overlapped with for less than
\* a second.
THEOREM LedgerImplemented ==
  ASSUME OneCaller
  PROVE  Spec => ImplementsLedger
<1>1. OneCallerInv /\ CreditInv /\ [Next]_vars => [Ledger!Next]_(Ledger!ledger)
  BY LedgerStep DEF CreditInv
<1> QED
  BY <1>1, LedgerInit, OneCallerInvHolds, CreditInvHolds, PTL
  DEF Spec, ImplementsLedger, Ledger!Spec
=============================================================================
