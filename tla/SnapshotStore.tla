--------------------------- MODULE SnapshotStore ---------------------------
(***************************************************************************)
(* The content-addressed snapshot store (internal/snapshot/snapshot.go),   *)
(* the Start calls that fill it and the collections that empty it, started *)
(* by a Start under the project's maintenance lease or by "snapshots gc    *)
(* --apply".  A step is one file operation, one listing of a directory or  *)
(* one database statement.  Objects have one unit of size.  call[c] is a   *)
(* Start in progress, gc[g] a collection; the slot g is also the owner id  *)
(* of its lease.  asked and raced are history variables, read by           *)
(* properties only.                                                        *)
(***************************************************************************)
EXTENDS Timestamps, FiniteSets

CONSTANTS Callers, SessionIds,
          Collectors,    \* slots for collections in progress
          Nobody,        \* no collector, no object
          Hashes,        \* object names
          Quota,         \* maxSnapshotBytes, in objects, 0 when off
          LockDuration,  \* snapshotGCLockDuration
          Interval,      \* SnapshotAutoGCInterval
          Retention,     \* SnapshotRetention, 0 when off
          OlderThan,     \* what --older-than may ask of the command instead
          Grace,         \* ExpiredSessionGrace, 0 when off
          WithCli,       \* may "snapshots gc --apply" be run?
          MaxOrphans,    \* bound: temporary files crashes leave behind
          Instants       \* bound: the readings of the clock, from 0

ASSUME NamesAssumption == Nobody \notin Collectors \cup Hashes
ASSUME BoundsAssumption ==
    /\ Quota \in Nat /\ LockDuration \in Nat /\ Interval \in Nat \ {0}
    /\ Retention \in Nat /\ OlderThan \subseteq Int /\ Grace \in Nat
    /\ MaxOrphans \in Nat /\ Instants \subseteq Nat /\ 0 \in Instants
    /\ IsFiniteSet(Hashes) /\ WithCli \in BOOLEAN

VARIABLES now,
          row,      \* state and end of each ai_session row
          dir,      \* snapshots/<id>: "none", "bare" (no manifest) or "full"
          files,    \* the hashes each manifest names
          objects,  \* the objects directory
          orphans,  \* temporary files in it that no process will rename
          lease,    \* the snapshot_gc row of maintenance_state
          call, gc,
          asked,    \* the retentions collections have gone by
          raced     \* the snapshots written next to a collection

vars == <<now, row, dir, files, objects, orphans, lease, call, gc, asked, raced>>

Time == Instants
NoTime == -1
Ages == {Retention} \cup OlderThan

Row == [state : {"absent", "active", "ended", "expired"}, endedAt : Time]

Call == [phase : {"idle", "quota", "gc", "retry", "write", "insert"},
         sid : SessionIds \cup {Nobody},
         todo : SUBSET Hashes,              \* objects not yet looked at
         temp : Hashes \cup {Nobody},       \* object in a temporary file
         gc : Collectors \cup {Nobody}]     \* gcOwner

Idle == [phase |-> "idle", sid |-> Nobody, todo |-> {}, temp |-> Nobody, gc |-> Nobody]

Collection == [phase : {"free", "held", "query", "manifests", "objects", "dirs",
                        "delete", "done", "failed"},
               auto : BOOLEAN,           \* under the lease?
               taken : Time,             \* when the lease was taken
               ids : SUBSET SessionIds,  \* snapshots to remove
               keep : SUBSET Hashes,     \* objects of the other manifests
               dead : SUBSET Hashes,     \* objects to remove
               unsafe : BOOLEAN]         \* is there a name that is no hash among them?

Free == [phase |-> "free", auto |-> FALSE, taken |-> 0, ids |-> {}, keep |-> {},
         dead |-> {}, unsafe |-> FALSE]

TypeOK ==
    /\ now \in Time
    /\ row \in [SessionIds -> Row]
    /\ dir \in [SessionIds -> {"none", "bare", "full"}]
    /\ files \in [SessionIds -> SUBSET Hashes]
    /\ objects \subseteq Hashes
    /\ orphans \in 0..MaxOrphans
    /\ lease \in [owner : Collectors \cup {Nobody}, attempt : Time \cup {NoTime},
                  expires : {t + LockDuration : t \in Time} \cup {NoTime}]
    /\ call \in [Callers -> Call]
    /\ gc \in [Collectors -> Collection]
    /\ asked \subseteq Ages
    /\ raced \subseteq SessionIds
    /\ \A c \in Callers : call[c].phase # "idle" => call[c].sid \in SessionIds

Init ==
    /\ now = 0
    /\ row = [s \in SessionIds |-> [state |-> "absent", endedAt |-> 0]]
    /\ dir = [s \in SessionIds |-> "none"]
    /\ files = [s \in SessionIds |-> {}]
    /\ objects = {}
    /\ orphans = 0
    /\ lease = [owner |-> Nobody, attempt |-> NoTime, expires |-> NoTime]
    /\ call = [c \in Callers |-> Idle]
    /\ gc = [g \in Collectors |-> Free]
    /\ asked = IF Retention > 0 THEN {Retention} ELSE {}
    /\ raced = {}

store == <<dir, files, objects, orphans>>

-----------------------------------------------------------------------------
\* The maintenance lease.

\* Fault: an attempt is allowed however recent the last one is.
LeaseFreeUnthrottled == TRUE

\* The WHERE clause of TryAcquireMaintenance, and the row being absent.
LeaseFree ==
    \/ lease.attempt = NoTime
    \/ ~Before(now - Interval, lease.attempt)
    \/ lease.expires # NoTime /\ ~Before(now, lease.expires)

\* CompleteMaintenance and FailMaintenance: only the owner's run clears it.
Release(g) ==
    lease' = IF lease.owner = g
             THEN [lease EXCEPT !.owner = Nobody, !.expires = NoTime]
             ELSE lease

-----------------------------------------------------------------------------
\* Start: lease, quota, objects, manifest, row.

Sweeping == {"objects", "dirs", "delete"}
Writing(c) == call[c].phase \in {"write", "insert"}

\* acquireSnapshotGC; a start goes on without the lease if it does not get it.
BeginStart(c, s) ==
    /\ call[c].phase = "idle"
    /\ row[s].state = "absent" /\ dir[s] = "none"
    /\ \A d \in Callers : call[d].sid # s
    /\ \/ /\ LeaseFree
          /\ \E g \in Collectors :
                /\ gc[g].phase = "free"
                /\ lease' = [owner |-> g, attempt |-> now, expires |-> now + LockDuration]
                /\ gc' = [gc EXCEPT ![g] = [Free EXCEPT !.phase = "held", !.auto = TRUE,
                                                        !.taken = now]]
                /\ call' = [call EXCEPT ![c] = [Idle EXCEPT !.phase = "quota", !.sid = s,
                                                            !.gc = g]]
       \/ /\ call' = [call EXCEPT ![c] = [Idle EXCEPT !.phase = "quota", !.sid = s]]
          /\ UNCHANGED <<lease, gc>>
    /\ UNCHANGED <<now, row, store, asked, raced>>

\* The call is over; a collection it holds the lease for is never run.
Dropped(c) == IF call[c].gc = Nobody THEN gc ELSE [gc EXCEPT ![call[c].gc] = Free]

Temporaries == {c \in Callers : call[c].temp # Nobody}

\* objectStoreUsage, in objects.
Usage == Cardinality(objects) + Cardinality(Temporaries) + orphans

\* Fault: only what is stored already is held against the quota.
FitsAsStored(want) == Quota = 0 \/ Usage <= Quota

Fits(want) == Quota = 0 \/ Usage + Cardinality(want \ objects) <= Quota

\* CreateWithQuota up to the snapshot's directory.  Over the quota, a start
\* that holds the lease collects first and tries once more.
CheckQuota(c) ==
    LET s == call[c].sid IN
    /\ call[c].phase \in {"quota", "retry"}
    /\ \E want \in SUBSET Hashes :
         \/ /\ Fits(want)
            /\ dir' = [dir EXCEPT ![s] = "bare"]
            /\ files' = [files EXCEPT ![s] = want]
            /\ call' = [call EXCEPT ![c].phase = "write", ![c].todo = want]
            /\ raced' = IF \E g \in Collectors : gc[g].phase \in Sweeping
                        THEN raced \cup {s} ELSE raced
            /\ UNCHANGED gc
         \/ /\ ~Fits(want) /\ call[c].phase = "quota" /\ call[c].gc # Nobody
            /\ call' = [call EXCEPT ![c].phase = "gc"]
            /\ gc' = [gc EXCEPT ![call[c].gc].phase = "query"]
            /\ UNCHANGED <<dir, files, raced>>
         \/ /\ ~Fits(want) /\ call[c].gc = Nobody
            /\ call' = [call EXCEPT ![c] = Idle]
            /\ UNCHANGED <<dir, files, gc, raced>>
    /\ UNCHANGED <<now, row, objects, orphans, lease, asked>>

\* writeObject: nothing to do for an object that is there.
WriteObject(c) ==
    /\ call[c].phase = "write" /\ call[c].temp = Nobody
    /\ \E h \in call[c].todo :
         call' = IF h \in objects THEN [call EXCEPT ![c].todo = @ \ {h}]
                                  ELSE [call EXCEPT ![c].temp = h]
    /\ UNCHANGED <<now, row, store, lease, gc, asked, raced>>

RenameObject(c) ==
    LET h == call[c].temp IN
    /\ h # Nobody
    /\ objects' = objects \cup {h}
    /\ call' = [call EXCEPT ![c].todo = @ \ {h}, ![c].temp = Nobody]
    /\ UNCHANGED <<now, row, dir, files, orphans, lease, gc, asked, raced>>

\* The manifest appears whole, by a rename.
WriteManifest(c) ==
    /\ call[c].phase = "write" /\ call[c].todo = {}
    /\ dir' = [dir EXCEPT ![call[c].sid] = "full"]
    /\ call' = [call EXCEPT ![c].phase = "insert"]
    /\ UNCHANGED <<now, row, files, objects, orphans, lease, gc, asked, raced>>

\* Store.CreateSession; a held lease goes to a collection in the background.
InsertRow(c) ==
    /\ call[c].phase = "insert"
    /\ row' = [row EXCEPT ![call[c].sid].state = "active"]
    /\ call' = [call EXCEPT ![c] = Idle]
    /\ gc' = IF call[c].gc = Nobody THEN gc ELSE [gc EXCEPT ![call[c].gc].phase = "query"]
    /\ UNCHANGED <<now, store, lease, asked, raced>>

\* A start returns an error (the active session limit, a file, the database):
\* its temporary file is removed, its directory and its lease stay.
StartFails(c) ==
    /\ call[c].phase \in {"quota", "retry", "write", "insert"}
    /\ call' = [call EXCEPT ![c] = Idle]
    /\ gc' = Dropped(c)
    /\ UNCHANGED <<now, row, store, lease, asked, raced>>

\* Finish, Abandon and ExpireLeases.
EndSession(s) ==
    /\ row[s].state = "active"
    /\ \E st \in {"ended", "expired"} : row' = [row EXCEPT ![s] = [state |-> st, endedAt |-> now]]
    /\ UNCHANGED <<now, store, lease, call, gc, asked, raced>>

-----------------------------------------------------------------------------
\* A collection: runSnapshotGC, or the command.

CliCollect(g) ==
    /\ WithCli /\ gc[g].phase = "free"
    /\ gc' = [gc EXCEPT ![g].phase = "query"]
    /\ UNCHANGED <<now, row, store, lease, call, asked, raced>>

\* TerminalSessionsBefore.
TerminalBefore(age) ==
    {s \in SessionIds : /\ row[s].state \in {"ended", "expired"}
                        /\ Before(row[s].endedAt, now - age)}

LeaseExpiredBefore(age) ==
    {s \in SessionIds : /\ row[s].state = "expired"
                        /\ Before(row[s].endedAt, now - age)}

\* Fault: the ended sessions of any age.
CandidatesOfAnyAge(auto, age) == {s \in SessionIds : row[s].state \in {"ended", "expired"}}

\* snapshotGCCandidates, or what the command asks for.
Candidates(auto, age) ==
    IF auto THEN (IF Retention > 0 THEN TerminalBefore(age) ELSE {})
                 \cup (IF Grace > 0 THEN LeaseExpiredBefore(Grace) ELSE {})
            ELSE TerminalBefore(age)

Phase(g, phase) == gc' = [gc EXCEPT ![g].phase = phase]

\* The run is over but for its answer and its lease.
Over(g, phase) ==
    gc' = [gc EXCEPT ![g] = [Free EXCEPT !.phase = phase, !.auto = gc[g].auto,
                                      !.taken = gc[g].taken]]

\* The command goes by --older-than, if given.  An automatic run does without
\* GCApply when there is no candidate.
Query(g) ==
    /\ gc[g].phase = "query"
    /\ \/ \E age \in IF gc[g].auto THEN {Retention} ELSE Ages :
            LET ids == Candidates(gc[g].auto, age) IN
            /\ gc' = [gc EXCEPT ![g].ids = ids,
                                ![g].phase = IF gc[g].auto /\ ids = {} THEN "done" ELSE "manifests"]
            /\ asked' = IF gc[g].auto THEN asked ELSE asked \cup {age}
       \/ Over(g, "failed") /\ UNCHANGED asked
    /\ UNCHANGED <<now, row, store, lease, call, raced>>

\* GCDryRun reads every manifest: one directory without fails it.
ReadManifests(g) ==
    LET full == {s \in SessionIds : dir[s] = "full"}
        kept == full \ gc[g].ids
    IN
    /\ gc[g].phase = "manifests"
    /\ \/ /\ \E s \in SessionIds : dir[s] = "bare"
          /\ Over(g, "failed")
          /\ UNCHANGED raced
       \/ /\ \A s \in SessionIds : dir[s] # "bare"
          /\ gc' = [gc EXCEPT ![g].phase = "objects", ![g].ids = full \cap @,
                              ![g].keep = UNION {files[s] : s \in kept}]
          /\ raced' = raced \cup {call[c].sid : c \in {d \in Callers : Writing(d)}}
    /\ UNCHANGED <<now, row, store, lease, call, asked>>

\* Fault: the objects of the snapshots to be removed, shared or not.
ListObjectsShared(g) ==
    /\ gc[g].phase = "objects"
    /\ gc' = [gc EXCEPT ![g].phase = "dirs",
                        ![g].dead = objects \cap UNION {files[s] : s \in gc[g].ids}]
    /\ UNCHANGED <<now, row, store, lease, call, asked, raced>>

\* Fault: only the objects of the snapshots to be removed.
ListObjectsOfRemoved(g) ==
    /\ gc[g].phase = "objects"
    /\ gc' = [gc EXCEPT ![g].phase = "dirs",
                        ![g].dead = (objects \cap UNION {files[s] : s \in gc[g].ids}) \ gc[g].keep]
    /\ UNCHANGED <<now, row, store, lease, call, asked, raced>>

\* GCDryRun lists the objects; a temporary file among them may be gone when
\* it is measured, which fails it.
ListObjects(g) ==
    /\ gc[g].phase = "objects"
    /\ \/ gc' = [gc EXCEPT ![g].phase = "dirs", ![g].dead = objects \ gc[g].keep,
                           ![g].unsafe = orphans > 0 \/ Temporaries # {}]
       \/ Temporaries # {} /\ Over(g, "failed")
    /\ UNCHANGED <<now, row, store, lease, call, asked, raced>>

\* os.RemoveAll of one directory: its manifest, then itself.
RemoveSnapshot(g) ==
    /\ gc[g].phase = "dirs"
    /\ \/ \E s \in gc[g].ids :
            /\ dir' = [dir EXCEPT ![s] = IF dir[s] = "full" THEN "bare" ELSE "none"]
            /\ files' = [files EXCEPT ![s] = IF dir[s] = "full" THEN @ ELSE {}]
            /\ gc' = IF dir[s] = "full" THEN gc ELSE [gc EXCEPT ![g].ids = @ \ {s}]
       \/ gc[g].ids = {} /\ Phase(g, "delete") /\ UNCHANGED <<dir, files>>
    /\ UNCHANGED <<now, row, objects, orphans, lease, call, asked, raced>>

\* Temporary files sort first, and are refused before any object is removed.
RemoveObject(g) ==
    /\ gc[g].phase = "delete"
    /\ \/ gc[g].unsafe /\ Over(g, "failed") /\ UNCHANGED objects
       \/ /\ ~gc[g].unsafe
          /\ \E h \in gc[g].dead :
                /\ objects' = objects \ {h}
                /\ gc' = [gc EXCEPT ![g].dead = @ \ {h}]
       \/ ~gc[g].unsafe /\ gc[g].dead = {} /\ Over(g, "done") /\ UNCHANGED objects
    /\ UNCHANGED <<now, row, dir, files, orphans, lease, call, asked, raced>>

\* Fault: the second try has lost its session.
ReturnedForgetful(g, ok) ==
    /\ gc' = [gc EXCEPT ![g] = Free]
    /\ call' = [c \in Callers |->
                  IF call[c].phase = "gc" /\ call[c].gc = g
                  THEN IF ok THEN [Idle EXCEPT !.phase = "retry"] ELSE Idle
                  ELSE call[c]]

\* The collection returns; a start that waits for it tries again or gives up.
Returned(g, ok) ==
    /\ gc' = [gc EXCEPT ![g] = Free]
    /\ call' = [c \in Callers |->
                  IF call[c].phase = "gc" /\ call[c].gc = g
                  THEN IF ok THEN [call[c] EXCEPT !.phase = "retry", !.gc = Nobody] ELSE Idle
                  ELSE call[c]]

EndCollection(g) ==
    /\ gc[g].phase \in {"done", "failed"}
    /\ \/ gc[g].auto /\ Release(g) /\ Returned(g, gc[g].phase = "done")
       \/ gc[g].auto /\ UNCHANGED lease /\ Returned(g, FALSE)   \* the statement fails
       \/ ~gc[g].auto /\ UNCHANGED lease /\ Returned(g, TRUE)
    /\ UNCHANGED <<now, row, store, asked, raced>>

-----------------------------------------------------------------------------
\* The process of a start, or of a collection, dies.
CrashStart(c) ==
    /\ call[c].phase # "idle"
    /\ call[c].temp # Nobody => orphans < MaxOrphans
    /\ orphans' = IF call[c].temp # Nobody THEN orphans + 1 ELSE orphans
    /\ call' = [call EXCEPT ![c] = Idle]
    /\ gc' = Dropped(c)
    /\ UNCHANGED <<now, row, dir, files, objects, lease, asked, raced>>

CrashCollection(g) ==
    /\ gc[g].phase \notin {"free", "held"}
    /\ \A c \in Callers : call[c].gc # g
    /\ gc' = [gc EXCEPT ![g] = Free]
    /\ UNCHANGED <<now, row, store, lease, call, asked, raced>>

Tick ==
    /\ \E t \in Instants : now < t /\ now' = t
    /\ UNCHANGED <<row, store, lease, call, gc, asked, raced>>

Next ==
    \/ \E c \in Callers :
         \/ \E s \in SessionIds : BeginStart(c, s)
         \/ CheckQuota(c) \/ WriteObject(c) \/ RenameObject(c) \/ WriteManifest(c)
         \/ InsertRow(c) \/ StartFails(c) \/ CrashStart(c)
    \/ \E s \in SessionIds : EndSession(s)
    \/ \E g \in Collectors :
         \/ CliCollect(g) \/ Query(g) \/ ReadManifests(g) \/ ListObjects(g)
         \/ RemoveSnapshot(g) \/ RemoveObject(g) \/ EndCollection(g) \/ CrashCollection(g)
    \/ Tick

Spec == Init /\ [][Next]_vars

-----------------------------------------------------------------------------
\* Properties.

\* The snapshot of an active session has its manifest, and so has that of one
\* that ended, for as long as every retention a collection has gone by, on its
\* own or by hand, has a second left of it: cutoffs are compared as texts
\* (README.md:187-191; GCApply removes candidates only).
RetainedHasManifest ==
    \A s \in SessionIds :
        \/ row[s].state = "active"
        \/ /\ row[s].state = "ended"
           /\ \A age \in asked : now - row[s].endedAt <= age - TicksPerSecond
        => dir[s] = "full"

Complete(s) == dir[s] = "full" => files[s] \subseteq objects

\* A manifest's objects are there as long as it is, unless a collection looked
\* at the store while that snapshot was being written.
UnracedIsComplete == \A s \in SessionIds \ raced : Complete(s)

\* An active session's baseline can be read (README.md:191 "Snapshots of active
\* sessions are never automatically deleted").
ActiveIsComplete == \A s \in SessionIds : row[s].state = "active" => Complete(s)

\* The object store never holds more than the quota (README.md:136 "Total
\* capacity limit"), temporary and left-over files included.
WithinQuota == Quota > 0 => Usage <= Quota

\* Two automatic collections are under way only when one has outlived its lease
\* or, as deadlines are compared as texts, is in the last second of it.
OneCollectorPerLease ==
    \A g, h \in Collectors :
        /\ g # h /\ gc[g].phase # "free" /\ gc[h].phase # "free"
        /\ gc[g].auto /\ gc[h].auto
        => \/ gc[g].taken + LockDuration < now + TicksPerSecond
           \/ gc[h].taken + LockDuration < now + TicksPerSecond

\* When GCApply has removed its last object and no start met a collection, only
\* objects of the manifests it kept are left: also those are gone that an earlier
\* collection left behind when it died between the directories and the objects,
\* and no manifest names.  (A manifest whose start failed at its insert is kept.)
SweptIsClean ==
    \A g \in Collectors :
        /\ gc[g].phase = "delete" /\ gc[g].dead = {} /\ ~gc[g].unsafe
        /\ raced = {} /\ \A c \in Callers : ~Writing(c)
        => objects \subseteq gc[g].keep
=============================================================================
