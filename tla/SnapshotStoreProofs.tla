------------------------ MODULE SnapshotStoreProofs ------------------------
(***************************************************************************)
(* Theorems about SnapshotStore, for any number of starting servers,       *)
(* collections and objects: its state is well typed; no collection removes *)
(* the manifest of a session that is active or within its retention, nor   *)
(* an object of a manifest that was not written beside it; the lease has   *)
(* one collector, and with one caller the store keeps to its quota.        *)
(***************************************************************************)
EXTENDS SnapshotStore, FiniteSetTheorems, TLAPS

\* What the store holds, and what the calls and collections hold.
StoreTyped ==
    /\ now \in Time
    /\ row \in [SessionIds -> Row]
    /\ dir \in [SessionIds -> {"none", "bare", "full"}]
    /\ files \in [SessionIds -> SUBSET Hashes]
    /\ objects \subseteq Hashes
    /\ orphans \in 0..MaxOrphans
    /\ asked \subseteq Ages
    /\ raced \subseteq SessionIds

LeaseTyped ==
    lease \in [owner : Collectors \cup {Nobody}, attempt : Time \cup {NoTime},
               expires : {t + LockDuration : t \in Time} \cup {NoTime}]

CallsTyped ==
    /\ call \in [Callers -> Call]
    /\ \A c \in Callers : call[c].phase # "idle" => call[c].sid \in SessionIds

CollectionsTyped == gc \in [Collectors -> Collection]

LEMMA TypeParts == TypeOK <=> StoreTyped /\ LeaseTyped /\ CallsTyped /\ CollectionsTyped
  BY DEF TypeOK, StoreTyped, LeaseTyped, CallsTyped, CollectionsTyped

\* The readings of the clock and the retentions are numbers.
LEMMA TimesAreNumbers == (\A t \in Time : t \in Nat) /\ (\A age \in Ages : age \in Int)
  BY BoundsAssumption DEF Time, Ages

LEMMA IdleTyped == Idle \in Call
  BY DEF Idle, Call

LEMMA FreeTyped == Free \in Collection
  BY BoundsAssumption DEF Free, Collection, Time

LEMMA CallFields ==
  ASSUME NEW k \in Call
  PROVE  /\ k.gc \in Collectors \cup {Nobody} /\ k.todo \in SUBSET Hashes
         /\ k.temp \in Hashes \cup {Nobody} /\ k.sid \in SessionIds \cup {Nobody}
         /\ [k EXCEPT !.phase = "insert"] \in Call /\ [k EXCEPT !.phase = "insert"].sid = k.sid
  BY DEF Call

LEMMA CollectionFields ==
  ASSUME NEW k \in Collection
  PROVE  /\ k.ids \in SUBSET SessionIds /\ k.keep \in SUBSET Hashes /\ k.dead \in SUBSET Hashes
         /\ [k EXCEPT !.phase = "query"] \in Collection
  BY DEF Collection

LEMMA HeldTyped ==
  ASSUME NEW t \in Time
  PROVE  /\ [Free EXCEPT !.phase = "held", !.auto = TRUE, !.taken = t] \in Collection
         /\ [Free EXCEPT !.phase = "held", !.auto = TRUE, !.taken = t].ids = {}
  BY FreeTyped DEF Collection, Free

-----------------------------------------------------------------------------
\* Type correctness, an action at a time: a start's, then a collection's.

LEMMA BeginStartTyped ==
  ASSUME TypeOK, NEW c \in Callers, NEW s \in SessionIds, BeginStart(c, s)
  PROVE  TypeOK'
<1>1. StoreTyped /\ LeaseTyped /\ CallsTyped /\ CollectionsTyped
  BY TypeParts
<1>2. StoreTyped'
  BY <1>1 DEF BeginStart, StoreTyped, store
<1>3. \A g \in Collectors \cup {Nobody} :
        LET k == [Idle EXCEPT !.phase = "quota", !.sid = s, !.gc = g] IN k \in Call /\ k.sid = s
  BY DEF Idle, Call
<1>4. [Idle EXCEPT !.phase = "quota", !.sid = s] \in Call /\ [Idle EXCEPT !.phase = "quota", !.sid = s].sid = s
  BY DEF Idle, Call
<1>5. CASE /\ lease' = lease /\ gc' = gc
           /\ call' = [call EXCEPT ![c] = [Idle EXCEPT !.phase = "quota", !.sid = s]]
  <2>1. CallsTyped'
    BY <1>1, <1>4, <1>5 DEF CallsTyped
  <2>2. LeaseTyped' /\ CollectionsTyped'
    BY <1>1, <1>5 DEF LeaseTyped, CollectionsTyped
  <2> QED
    BY <1>2, <2>1, <2>2, TypeParts, PTL
<1>6. ASSUME NEW g \in Collectors,
             lease' = [owner |-> g, attempt |-> now, expires |-> now + LockDuration],
             gc' = [gc EXCEPT ![g] = [Free EXCEPT !.phase = "held", !.auto = TRUE, !.taken = now]],
             call' = [call EXCEPT ![c] = [Idle EXCEPT !.phase = "quota", !.sid = s, !.gc = g]]
      PROVE  TypeOK'
  <2>1. CallsTyped'
    BY <1>1, <1>3, <1>6 DEF CallsTyped
  <2>2. CollectionsTyped'
    BY <1>1, <1>6, HeldTyped DEF CollectionsTyped, StoreTyped
  <2>3. LeaseTyped'
    BY <1>1, <1>6, BoundsAssumption DEF LeaseTyped, StoreTyped, Time
  <2> QED
    BY <1>2, <2>1, <2>2, <2>3, TypeParts, PTL
<1> QED
  BY <1>5, <1>6 DEF BeginStart

LEMMA DroppedTyped ==
  ASSUME TypeOK, NEW c \in Callers
  PROVE  /\ Dropped(c) \in [Collectors -> Collection]
         /\ \A g \in Collectors : Dropped(c)[g] = gc[g] \/ Dropped(c)[g] = Free
  BY FreeTyped DEF TypeOK, Dropped

\* A step of a start other than its first changes its own call, perhaps its
\* collection, the directory, manifest and row of its session, and the objects.
LEMMA StartStepTyped ==
  ASSUME TypeOK, NEW c \in Callers,
         \/ CheckQuota(c) \/ WriteObject(c) \/ RenameObject(c) \/ WriteManifest(c)
         \/ InsertRow(c) \/ StartFails(c) \/ CrashStart(c)
  PROVE  TypeOK'
<1>1. StoreTyped /\ LeaseTyped /\ CallsTyped /\ CollectionsTyped
  BY TypeParts
<1> DEFINE k == call[c]
<1>2. k \in Call /\ (k.phase # "idle" => k.sid \in SessionIds)
  BY <1>1 DEF CallsTyped
<1>3. \A k2 \in Call : call' = [call EXCEPT ![c] = k2] /\ (k2.phase # "idle" => k2.sid \in SessionIds)
                       => CallsTyped'
  BY <1>1 DEF CallsTyped
<1>4. call' = [call EXCEPT ![c] = Idle] => CallsTyped'
  <2>1. Idle.phase = "idle"
    BY DEF Idle
  <2> QED
    BY <1>3, <2>1, IdleTyped
<1>5. \A g \in Collectors :
        gc' = [gc EXCEPT ![g].phase = "query"] => CollectionsTyped'
  <2> TAKE g \in Collectors
  <2> DEFINE m == [gc[g] EXCEPT !.phase = "query"]
  <2>1. m \in Collection
    BY <1>1, CollectionFields DEF CollectionsTyped
  <2>2. gc' = [gc EXCEPT ![g].phase = "query"] => gc' = [gc EXCEPT ![g] = m]
    OBVIOUS
  <2> HIDE DEF m
  <2> QED
    BY <1>1, <2>1, <2>2 DEF CollectionsTyped
<1>6. k.gc # Nobody => k.gc \in Collectors
  BY <1>2, CallFields
<1>7. gc' = Dropped(c) => CollectionsTyped'
  BY DroppedTyped DEF CollectionsTyped
<1>8. CASE CheckQuota(c)
  <2>1. PICK want \in SUBSET Hashes :
          \/ /\ dir' = [dir EXCEPT ![k.sid] = "bare"]
             /\ files' = [files EXCEPT ![k.sid] = want]
             /\ call' = [call EXCEPT ![c] = [k EXCEPT !.phase = "write", !.todo = want]]
             /\ raced' = raced \/ raced' = raced \cup {k.sid}
             /\ gc' = gc
          \/ /\ k.gc # Nobody /\ k.phase = "quota"
             /\ call' = [call EXCEPT ![c] = [k EXCEPT !.phase = "gc"]]
             /\ gc' = [gc EXCEPT ![k.gc].phase = "query"]
             /\ dir' = dir /\ files' = files /\ raced' = raced
          \/ /\ call' = [call EXCEPT ![c] = Idle]
             /\ dir' = dir /\ files' = files /\ raced' = raced /\ gc' = gc
    BY <1>1, <1>8 DEF CheckQuota, CallsTyped
  <2>2. k.sid \in SessionIds
    BY <1>2, <1>8 DEF CheckQuota
  <2>3. StoreTyped'
    BY <1>1, <1>8, <2>1, <2>2 DEF CheckQuota, StoreTyped
  <2>4. LeaseTyped'
    BY <1>1, <1>8 DEF CheckQuota, LeaseTyped
  <2>5. [k EXCEPT !.phase = "write", !.todo = want] \in Call
        /\ [k EXCEPT !.phase = "write", !.todo = want].sid = k.sid
        /\ [k EXCEPT !.phase = "gc"] \in Call /\ [k EXCEPT !.phase = "gc"].sid = k.sid
    BY <1>2 DEF Call
  <2>6. CallsTyped'
    BY <1>3, <1>4, <2>1, <2>2, <2>5
  <2>7. CollectionsTyped'
    <3>1. gc' = gc => CollectionsTyped'
      BY <1>1 DEF CollectionsTyped
    <3> QED
      BY <1>5, <1>6, <2>1, <3>1
  <2> QED
    BY <2>3, <2>4, <2>6, <2>7, TypeParts, PTL
<1>9. CASE WriteObject(c)
  <2>1. PICK h \in k.todo : \/ call' = [call EXCEPT ![c] = [k EXCEPT !.todo = @ \ {h}]]
                            \/ call' = [call EXCEPT ![c] = [k EXCEPT !.temp = h]]
    BY <1>9 DEF WriteObject
  <2>2. h \in Hashes /\ k.todo \ {h} \in SUBSET Hashes
    BY <1>2, <2>1, CallFields
  <2>3. /\ [k EXCEPT !.todo = k.todo \ {h}] \in Call /\ [k EXCEPT !.todo = k.todo \ {h}].sid = k.sid
        /\ [k EXCEPT !.temp = h] \in Call /\ [k EXCEPT !.temp = h].sid = k.sid
    BY <1>2, <2>2 DEF Call
  <2>4. k.phase # "idle"
    BY <1>9 DEF WriteObject
  <2>5. CallsTyped'
    BY <1>2, <1>3, <2>1, <2>3, <2>4
  <2>6. StoreTyped' /\ LeaseTyped' /\ CollectionsTyped'
    BY <1>1, <1>9 DEF WriteObject, store, StoreTyped, LeaseTyped, CollectionsTyped
  <2> QED
    BY <2>5, <2>6, TypeParts, PTL
<1>10. CASE RenameObject(c)
  <2>1. k.temp \in Hashes
    BY <1>2, <1>10, CallFields DEF RenameObject
  <2>2. call' = [call EXCEPT ![c] = [k EXCEPT !.todo = k.todo \ {k.temp}, !.temp = Nobody]]
    BY <1>10 DEF RenameObject
  <2>3. k.todo \ {k.temp} \in SUBSET Hashes
    BY <1>2, CallFields
  <2>4. LET k2 == [k EXCEPT !.todo = k.todo \ {k.temp}, !.temp = Nobody]
        IN k2 \in Call /\ k2.sid = k.sid /\ k2.phase = k.phase
    BY <1>2, <2>3 DEF Call
  <2>5. CallsTyped'
    BY <1>2, <1>3, <2>2, <2>4
  <2>6. StoreTyped' /\ LeaseTyped' /\ CollectionsTyped'
    BY <1>1, <1>10, <2>1 DEF RenameObject, StoreTyped, LeaseTyped, CollectionsTyped
  <2> QED
    BY <2>5, <2>6, TypeParts, PTL
<1>11. CASE WriteManifest(c)
  <2>1. k.sid \in SessionIds
    BY <1>2, <1>11 DEF WriteManifest
  <2>2. call' = [call EXCEPT ![c] = [k EXCEPT !.phase = "insert"]]
    BY <1>11 DEF WriteManifest
  <2>3. [k EXCEPT !.phase = "insert"] \in Call /\ [k EXCEPT !.phase = "insert"].sid = k.sid
    BY <1>2, CallFields
  <2>4. CallsTyped'
    BY <1>3, <2>1, <2>2, <2>3
  <2>5. StoreTyped' /\ LeaseTyped' /\ CollectionsTyped'
    BY <1>1, <1>11, <2>1 DEF WriteManifest, StoreTyped, LeaseTyped, CollectionsTyped
  <2> QED
    BY <2>4, <2>5, TypeParts, PTL
<1>12. CASE InsertRow(c)
  <2>1. k.sid \in SessionIds
    BY <1>2, <1>12 DEF InsertRow
  <2>2. StoreTyped'
    BY <1>1, <1>12, <2>1 DEF InsertRow, store, StoreTyped, Row
  <2>3. LeaseTyped'
    BY <1>1, <1>12 DEF InsertRow, LeaseTyped
  <2>4. CallsTyped'
    BY <1>4, <1>12 DEF InsertRow
  <2>5. CollectionsTyped'
    <3>1. gc' = gc => CollectionsTyped'
      BY <1>1 DEF CollectionsTyped
    <3> QED
      BY <1>5, <1>6, <1>12, <3>1 DEF InsertRow
  <2> QED
    BY <2>2, <2>3, <2>4, <2>5, TypeParts, PTL
<1>13. CASE StartFails(c)
  <2>1. StoreTyped' /\ LeaseTyped'
    BY <1>1, <1>13 DEF StartFails, store, StoreTyped, LeaseTyped
  <2>2. CallsTyped' /\ CollectionsTyped'
    BY <1>4, <1>7, <1>13 DEF StartFails
  <2> QED
    BY <2>1, <2>2, TypeParts, PTL
<1>14. CASE CrashStart(c)
  <2>1. StoreTyped'
    BY <1>1, <1>14, BoundsAssumption DEF CrashStart, StoreTyped
  <2>2. LeaseTyped'
    BY <1>1, <1>14 DEF CrashStart, LeaseTyped
  <2>3. CallsTyped' /\ CollectionsTyped'
    BY <1>4, <1>7, <1>14 DEF CrashStart
  <2> QED
    BY <2>1, <2>2, <2>3, TypeParts, PTL
<1> QED
  BY <1>8, <1>9, <1>10, <1>11, <1>12, <1>13, <1>14

\* A collection that has asked for its candidates holds them, of some age.
LEMMA QueryStep ==
  ASSUME NEW g \in Collectors, Query(g), ~Over(g, "failed")
  PROVE  \E age : \E p \in {"done", "manifests"} :
           gc' = [gc EXCEPT ![g] = [gc[g] EXCEPT !.ids = Candidates(gc[g].auto, age), !.phase = p]]
<1>1. PICK age : gc' = [gc EXCEPT ![g].ids = Candidates(gc[g].auto, age),
                                  ![g].phase = IF gc[g].auto /\ Candidates(gc[g].auto, age) = {}
                                               THEN "done" ELSE "manifests"]
  BY Zenon DEF Query
<1>2. PICK p : p = IF gc[g].auto /\ Candidates(gc[g].auto, age) = {} THEN "done" ELSE "manifests"
  OBVIOUS
<1>3. p \in {"done", "manifests"}
  BY <1>2
<1>4. gc' = [gc EXCEPT ![g].ids = Candidates(gc[g].auto, age), ![g].phase = p]
  BY <1>1, <1>2
<1>5. PICK ids : ids = Candidates(gc[g].auto, age)
  OBVIOUS
<1>6. gc' = [gc EXCEPT ![g] = [gc[g] EXCEPT !.ids = ids, !.phase = p]]
  BY <1>4, <1>5
<1> QED
  BY <1>3, <1>5, <1>6

\* A step of a collection changes its own slot, and until its end no call.
LEMMA CollectionStepTyped ==
  ASSUME TypeOK, NEW g \in Collectors,
         \/ CliCollect(g) \/ Query(g) \/ ReadManifests(g) \/ ListObjects(g)
         \/ RemoveSnapshot(g) \/ RemoveObject(g) \/ EndCollection(g) \/ CrashCollection(g)
  PROVE  TypeOK'
<1>1. StoreTyped /\ LeaseTyped /\ CallsTyped /\ CollectionsTyped
  BY TypeParts
<1> DEFINE k == gc[g]
<1>2. k \in Collection
  BY <1>1 DEF CollectionsTyped
<1>3. k.ids \subseteq SessionIds /\ k.dead \subseteq Hashes /\ k.keep \subseteq Hashes
  BY <1>2, CollectionFields
<1>4. \A m \in Collection : gc' = [gc EXCEPT ![g] = m] => CollectionsTyped'
  BY <1>1 DEF CollectionsTyped
<1>5. \A p \in {"query", "manifests", "delete", "done", "failed"} :
        gc' = [gc EXCEPT ![g].phase = p] => CollectionsTyped'
  <2> TAKE p \in {"query", "manifests", "delete", "done", "failed"}
  <2> DEFINE m == [k EXCEPT !.phase = p]
  <2>1. m \in Collection
    BY <1>2 DEF Collection
  <2>2. gc' = [gc EXCEPT ![g].phase = p] => gc' = [gc EXCEPT ![g] = m]
    OBVIOUS
  <2> HIDE DEF m
  <2> QED
    BY <1>4, <2>1, <2>2
<1>6. \A p \in {"done", "failed"} : Over(g, p) => CollectionsTyped'
  <2> TAKE p \in {"done", "failed"}
  <2> DEFINE m == [Free EXCEPT !.phase = p, !.auto = k.auto, !.taken = k.taken]
  <2>1. m \in Collection
    BY <1>2, FreeTyped DEF Collection
  <2>2. Over(g, p) => gc' = [gc EXCEPT ![g] = m]
    BY DEF Over
  <2> HIDE DEF m
  <2> QED
    BY <1>4, <2>1, <2>2
<1>7. call' = call => CallsTyped'
  BY <1>1 DEF CallsTyped
<1>8. lease' = lease => LeaseTyped'
  BY <1>1 DEF LeaseTyped
<1>9. CASE CliCollect(g)
  <2>1. StoreTyped'
    BY <1>1, <1>9 DEF CliCollect, store, StoreTyped
  <2>2. CallsTyped' /\ LeaseTyped' /\ CollectionsTyped'
    BY <1>5, <1>7, <1>8, <1>9 DEF CliCollect
  <2> QED
    BY <2>1, <2>2, TypeParts, PTL
<1>10. CASE Query(g)
  <2>1. StoreTyped' /\ CallsTyped' /\ LeaseTyped'
    <3>1. asked' \subseteq Ages
      BY <1>1, <1>10 DEF Query, StoreTyped, Ages
    <3> QED
      BY <1>1, <1>7, <1>8, <1>10, <3>1 DEF Query, store, StoreTyped
  <2>2. PICK p \in {"done", "manifests"}, ids \in SUBSET SessionIds :
          \/ gc' = [gc EXCEPT ![g] = [k EXCEPT !.ids = ids, !.phase = p]]
          \/ Over(g, "failed")
    <3>1. \A auto, age : Candidates(auto, age) \in SUBSET SessionIds
      BY DEF Candidates, TerminalBefore, LeaseExpiredBefore
    <3>2. CASE Over(g, "failed")
      BY <3>2
    <3>3. CASE ~Over(g, "failed")
      BY <1>10, <3>1, <3>3, QueryStep
    <3> QED
      BY <3>2, <3>3
  <2>4. [k EXCEPT !.ids = ids, !.phase = p] \in Collection
    BY <1>2 DEF Collection
  <2>5. CollectionsTyped'
    BY <1>4, <1>6, <2>2, <2>4
  <2> QED
    BY <2>1, <2>5, TypeParts, PTL
<1>11. CASE ReadManifests(g)
  <2>1. CallsTyped' /\ LeaseTyped'
    BY <1>7, <1>8, <1>11 DEF ReadManifests
  <2>2. StoreTyped'
    <3>1. {call[c].sid : c \in {d \in Callers : Writing(d)}} \subseteq SessionIds
      BY <1>1 DEF CallsTyped, Writing
    <3> QED
      BY <1>1, <1>11, <3>1 DEF ReadManifests, store, StoreTyped
  <2>3. PICK x \in SUBSET SessionIds, y \in SUBSET Hashes :
          \/ gc' = [gc EXCEPT ![g] = [k EXCEPT !.phase = "objects", !.ids = x, !.keep = y]]
          \/ Over(g, "failed")
    <3> DEFINE full == {s \in SessionIds : dir[s] = "full"}
               x == full \cap k.ids
               y == UNION {files[s] : s \in full \ k.ids}
    <3>1. x \in SUBSET SessionIds /\ y \in SUBSET Hashes
      BY <1>1 DEF StoreTyped
    <3>2. \/ gc' = [gc EXCEPT ![g] = [k EXCEPT !.phase = "objects", !.ids = x, !.keep = y]]
          \/ Over(g, "failed")
      BY <1>11 DEF ReadManifests
    <3> QED
      BY <3>1, <3>2
  <2>4. [k EXCEPT !.phase = "objects", !.ids = x, !.keep = y] \in Collection
    BY <1>2 DEF Collection
  <2>5. CollectionsTyped'
    BY <1>4, <1>6, <2>3, <2>4
  <2> QED
    BY <2>1, <2>2, <2>5, TypeParts, PTL
<1>12. CASE ListObjects(g)
  <2>1. StoreTyped' /\ CallsTyped' /\ LeaseTyped'
    BY <1>1, <1>7, <1>8, <1>12 DEF ListObjects, store, StoreTyped
  <2>2. \/ gc' = [gc EXCEPT ![g] = [k EXCEPT !.phase = "dirs", !.dead = objects \ k.keep,
                                             !.unsafe = orphans > 0 \/ Temporaries # {}]]
        \/ Over(g, "failed")
    BY <1>12 DEF ListObjects
  <2>3. [k EXCEPT !.phase = "dirs", !.dead = objects \ k.keep,
                  !.unsafe = orphans > 0 \/ Temporaries # {}] \in Collection
    BY <1>1, <1>2 DEF Collection, StoreTyped
  <2>4. CollectionsTyped'
    BY <1>4, <1>6, <2>2, <2>3
  <2> QED
    BY <2>1, <2>4, TypeParts, PTL
<1>13. CASE RemoveSnapshot(g)
  <2>1. StoreTyped' /\ CallsTyped' /\ LeaseTyped'
    BY <1>1, <1>3, <1>7, <1>8, <1>13 DEF RemoveSnapshot, StoreTyped
  <2>2. PICK s : \/ gc' = gc \/ gc' = [gc EXCEPT ![g].phase = "delete"]
                 \/ gc' = [gc EXCEPT ![g] = [k EXCEPT !.ids = k.ids \ {s}]]
    BY <1>13 DEF RemoveSnapshot, Phase
  <2>3. [k EXCEPT !.ids = k.ids \ {s}] \in Collection
    BY <1>2, <1>3 DEF Collection
  <2>4. gc' = gc => CollectionsTyped'
    BY <1>1 DEF CollectionsTyped
  <2>5. CollectionsTyped'
    BY <1>4, <1>5, <2>2, <2>3, <2>4
  <2> QED
    BY <2>1, <2>5, TypeParts, PTL
<1>14. CASE RemoveObject(g)
  <2>1. StoreTyped' /\ CallsTyped' /\ LeaseTyped'
    BY <1>1, <1>7, <1>8, <1>14 DEF RemoveObject, StoreTyped
  <2>2. PICK h : \/ Over(g, "failed") \/ Over(g, "done")
                 \/ gc' = [gc EXCEPT ![g] = [k EXCEPT !.dead = k.dead \ {h}]]
    BY <1>14 DEF RemoveObject
  <2>3. [k EXCEPT !.dead = k.dead \ {h}] \in Collection
    BY <1>2, <1>3 DEF Collection
  <2>4. CollectionsTyped'
    BY <1>4, <1>6, <2>2, <2>3
  <2> QED
    BY <2>1, <2>4, TypeParts, PTL
<1>15. CASE EndCollection(g)
  <2>1. StoreTyped'
    BY <1>1, <1>15 DEF EndCollection, store, StoreTyped
  <2>2. PICK ok \in BOOLEAN : Returned(g, ok) /\ (Release(g) \/ lease' = lease)
    BY <1>15 DEF EndCollection
  <2>3. LeaseTyped'
    BY <1>1, <2>2 DEF LeaseTyped, Release
  <2>4. CallsTyped'
    <3>1. \A k2 \in Call : [k2 EXCEPT !.phase = "retry", !.gc = Nobody] \in Call
                        /\ [k2 EXCEPT !.phase = "retry", !.gc = Nobody].sid = k2.sid
      BY DEF Call
    <3>2. \A c \in Callers :
            \/ call'[c] = call[c] \/ call'[c] = Idle
            \/ call[c].phase = "gc" /\ call'[c] = [call[c] EXCEPT !.phase = "retry", !.gc = Nobody]
      BY <2>2 DEF Returned
    <3>3. call' = [c \in Callers |-> call'[c]]
      BY <2>2 DEF Returned
    <3>4. Idle.phase = "idle"
      BY DEF Idle
    <3> QED
      BY <1>1, <3>1, <3>2, <3>3, <3>4, IdleTyped DEF CallsTyped
  <2>5. CollectionsTyped'
    BY <1>4, <2>2, FreeTyped DEF Returned
  <2> QED
    BY <2>1, <2>3, <2>4, <2>5, TypeParts, PTL
<1>16. CASE CrashCollection(g)
  <2>1. StoreTyped' /\ CallsTyped' /\ LeaseTyped'
    BY <1>1, <1>7, <1>8, <1>16 DEF CrashCollection, store, StoreTyped
  <2>2. CollectionsTyped'
    BY <1>4, <1>16, FreeTyped DEF CrashCollection
  <2> QED
    BY <2>1, <2>2, TypeParts, PTL
<1> QED
  BY <1>9, <1>10, <1>11, <1>12, <1>13, <1>14, <1>15, <1>16

LEMMA OtherStepTyped ==
  ASSUME TypeOK, Tick \/ \E s \in SessionIds : EndSession(s)
  PROVE  TypeOK'
<1>1. StoreTyped /\ LeaseTyped /\ CallsTyped /\ CollectionsTyped
  BY TypeParts
<1>2. CASE Tick
  <2>1. StoreTyped'
    BY <1>1, <1>2, BoundsAssumption DEF Tick, store, StoreTyped, Time
  <2>2. LeaseTyped' /\ CallsTyped' /\ CollectionsTyped'
    BY <1>1, <1>2 DEF Tick, LeaseTyped, CallsTyped, CollectionsTyped
  <2> QED
    BY <2>1, <2>2, TypeParts, PTL
<1>3. ASSUME NEW s \in SessionIds, EndSession(s) PROVE TypeOK'
  <2>1. StoreTyped'
    BY <1>1, <1>3 DEF EndSession, store, StoreTyped, Row
  <2>2. LeaseTyped' /\ CallsTyped' /\ CollectionsTyped'
    BY <1>1, <1>3 DEF EndSession, LeaseTyped, CallsTyped, CollectionsTyped
  <2> QED
    BY <2>1, <2>2, TypeParts, PTL
<1> QED
  BY <1>2, <1>3

LEMMA InitTyped == Init => TypeOK
<1> SUFFICES ASSUME Init PROVE TypeOK
  OBVIOUS
<1>1. 0 \in Time /\ asked \subseteq Ages
  BY BoundsAssumption DEF Init, Time, Ages
<1>2. [state |-> "absent", endedAt |-> 0] \in Row
  BY <1>1 DEF Row
<1>3. orphans \in 0..MaxOrphans
  BY BoundsAssumption DEF Init
<1>4. lease \in [owner : Collectors \cup {Nobody}, attempt : Time \cup {NoTime},
                 expires : {t + LockDuration : t \in Time} \cup {NoTime}]
  BY DEF Init
<1>5. call \in [Callers -> Call] /\ \A c \in Callers : call[c].phase = "idle"
  BY IdleTyped DEF Init, Idle
<1> QED
  BY <1>1, <1>2, <1>3, <1>4, <1>5, FreeTyped DEF Init, TypeOK

LEMMA NextTyped == TypeOK /\ [Next]_vars => TypeOK'
<1>1. TypeOK /\ Next => TypeOK'
  BY BeginStartTyped, StartStepTyped, CollectionStepTyped, OtherStepTyped DEF Next
<1>2. TypeOK /\ UNCHANGED vars => TypeOK'
  BY DEF TypeOK, vars
<1> QED
  BY <1>1, <1>2

\* Every reachable state of the snapshot store is well typed.
THEOREM SnapshotStoreTypeCorrect == Spec => []TypeOK
  BY InitTyped, NextTyped, PTL DEF Spec

-----------------------------------------------------------------------------
\* What no collection removes.  Four facts keep each other: sessions being
\* started have no row and are all different; a start about to insert its row
\* has written its manifest; candidates have ended, and long ago.

CallsApart ==
    \A c \in Callers : call[c].phase # "idle" =>
        /\ row[call[c].sid].state = "absent"
        /\ \A d \in Callers \ {c} : call[d].phase # "idle" => call[d].sid # call[c].sid

InsertHasManifest ==
    \A c \in Callers : call[c].phase = "insert" => dir[call[c].sid] = "full"

\* Texts sort as the instants do up to a second: a is before b only if it is
\* less than a second after it, and is not before b only if it is less than a
\* second before it.
LEMMA TextOrder ==
  ASSUME NEW a \in Int, NEW b \in Int
  PROVE  /\ Before(a, b) => a < b + TicksPerSecond
         /\ ~Before(a, b) => b < a + TicksPerSecond
<1>1. Units \subseteq Nat /\ TicksPerSecond \in Nat \ {0}
  BY TicksPerSecondAssumption DEF Units
<1>2. ASSUME NEW x \in Int, NEW y \in Int, Extends(x, y)
      PROVE  y < x /\ x < y + TicksPerSecond
  <2>1. PICK u \in Units : u <= TicksPerSecond /\ y < x /\ x < y + u
    BY <1>2 DEF Extends
  <2>2. u \in Nat
    BY <1>1
  <2> QED
    BY <1>1, <2>1, <2>2
<1>3. CASE Before(a, b)
  BY <1>1, <1>2, <1>3 DEF Before
<1>4. CASE ~Before(a, b)
  <2>1. CASE Extends(b, a)
    BY <1>1, <1>2, <1>4, <2>1
  <2>2. CASE ~Extends(b, a)
    BY <1>1, <1>4, <2>2 DEF Before
  <2> QED
    BY <2>1, <2>2
<1> QED
  BY <1>3, <1>4

\* A candidate that ended normally has outlived, by the order of the texts, a
\* retention that a collection has gone by.
CandidatesEnded ==
    \A g \in Collectors : \A s \in gc[g].ids :
        /\ row[s].state \in {"ended", "expired"}
        /\ row[s].state = "ended" =>
             \E age \in asked : now - row[s].endedAt > age - TicksPerSecond

\* Automatic collections go by the configured retention from the start.
RetentionIsAsked == Retention > 0 => Retention \in asked

\* Every call that is not over afterwards was under way for the same session.
CallsStay ==
    \A c \in Callers : call'[c].phase # "idle" =>
        call[c].phase # "idle" /\ call'[c].sid = call[c].sid

\* No call comes to its insert.
NoNewInsert ==
    \A c \in Callers : call'[c].phase = "insert" =>
        call[c].phase = "insert" /\ call'[c].sid = call[c].sid

\* No collection gains a candidate.
FewerCandidates == \A g \in Collectors : gc'[g].ids \subseteq gc[g].ids

LEMMA StartStepShape ==
  ASSUME TypeOK, NEW c \in Callers
  PROVE  /\ CheckQuota(c) \/ WriteObject(c) \/ RenameObject(c) \/ InsertRow(c)
            \/ StartFails(c) \/ CrashStart(c) => CallsStay /\ NoNewInsert /\ FewerCandidates
         /\ WriteManifest(c) => CallsStay /\ FewerCandidates
         /\ \A s \in SessionIds : BeginStart(c, s) => NoNewInsert /\ FewerCandidates
<1>1. call \in [Callers -> Call] /\ gc \in [Collectors -> Collection]
  BY DEF TypeOK
<1>2. Idle.phase = "idle" /\ Free.ids = {}
  BY DEF Idle, Free
<1>3. call' = call => CallsStay /\ NoNewInsert
  BY DEF CallsStay, NoNewInsert
<1>4. call' = [call EXCEPT ![c] = Idle] => CallsStay /\ NoNewInsert
  BY <1>1, <1>2 DEF CallsStay, NoNewInsert
<1>5. \A k : /\ call' = [call EXCEPT ![c] = k] /\ k.sid = call[c].sid
             /\ call[c].phase # "idle" \/ k.phase = call[c].phase
             => CallsStay /\ (k.phase # "insert" \/ k.phase = call[c].phase => NoNewInsert)
  BY <1>1 DEF CallsStay, NoNewInsert
<1>6. gc' = gc \/ gc' = Dropped(c) => FewerCandidates
  BY <1>1, <1>2, DroppedTyped DEF FewerCandidates
<1>7. \A g, p : gc' = [gc EXCEPT ![g].phase = p] => FewerCandidates
  BY <1>1 DEF FewerCandidates, Collection
<1>8. CheckQuota(c) => CallsStay /\ NoNewInsert /\ FewerCandidates
  <2> SUFFICES ASSUME CheckQuota(c) PROVE CallsStay /\ NoNewInsert /\ FewerCandidates
    OBVIOUS
  <2>1. PICK want : \/ /\ call' = [call EXCEPT ![c] = [call[c] EXCEPT !.phase = "write", !.todo = want]]
                       /\ gc' = gc
                    \/ /\ call' = [call EXCEPT ![c] = [call[c] EXCEPT !.phase = "gc"]]
                       /\ gc' = [gc EXCEPT ![call[c].gc].phase = "query"]
                    \/ call' = [call EXCEPT ![c] = Idle] /\ gc' = gc
    BY <1>1 DEF CheckQuota
  <2>2. \A k \in Call : /\ [k EXCEPT !.phase = "write", !.todo = want].sid = k.sid
                        /\ [k EXCEPT !.phase = "write", !.todo = want].phase = "write"
                        /\ [k EXCEPT !.phase = "gc"].sid = k.sid
                        /\ [k EXCEPT !.phase = "gc"].phase = "gc"
    BY DEF Call
  <2>3. call[c].phase # "idle"
    BY DEF CheckQuota
  <2>4. CallsStay /\ NoNewInsert
    BY <1>1, <1>4, <1>5, <2>1, <2>2, <2>3
  <2>5. FewerCandidates
    BY <1>6, <1>7, <2>1
  <2> QED
    BY <2>4, <2>5
<1>9. WriteObject(c) => CallsStay /\ NoNewInsert /\ FewerCandidates
  <2> SUFFICES ASSUME WriteObject(c) PROVE CallsStay /\ NoNewInsert
    BY <1>6 DEF WriteObject
  <2>1. PICK h : \/ call' = [call EXCEPT ![c] = [call[c] EXCEPT !.todo = @ \ {h}]]
                 \/ call' = [call EXCEPT ![c] = [call[c] EXCEPT !.temp = h]]
    BY DEF WriteObject
  <2>2. \A k \in Call : /\ [k EXCEPT !.todo = @ \ {h}].sid = k.sid /\ [k EXCEPT !.temp = h].sid = k.sid
                        /\ [k EXCEPT !.todo = @ \ {h}].phase = k.phase
                        /\ [k EXCEPT !.temp = h].phase = k.phase
    BY DEF Call
  <2>3. call[c].phase = "write"
    BY DEF WriteObject
  <2> QED
    BY <1>1, <1>5, <2>1, <2>2, <2>3
<1>10. RenameObject(c) => CallsStay /\ NoNewInsert /\ FewerCandidates
  <2> SUFFICES ASSUME RenameObject(c) PROVE CallsStay /\ NoNewInsert
    BY <1>6 DEF RenameObject
  <2>1. call' = [call EXCEPT ![c] = [call[c] EXCEPT !.todo = @ \ {call[c].temp}, !.temp = Nobody]]
    BY DEF RenameObject
  <2>2. \A k \in Call : LET k2 == [k EXCEPT !.todo = @ \ {k.temp}, !.temp = Nobody]
                       IN k2.sid = k.sid /\ k2.phase = k.phase
    BY DEF Call
  <2> QED
    BY <1>1, <1>5, <2>1, <2>2
<1>11. InsertRow(c) => CallsStay /\ NoNewInsert /\ FewerCandidates
  BY <1>4, <1>6, <1>7 DEF InsertRow
<1>12. StartFails(c) \/ CrashStart(c) => CallsStay /\ NoNewInsert /\ FewerCandidates
  BY <1>4, <1>6 DEF StartFails, CrashStart
<1>13. WriteManifest(c) => CallsStay /\ FewerCandidates
  <2> SUFFICES ASSUME WriteManifest(c) PROVE CallsStay
    BY <1>6 DEF WriteManifest
  <2>1. call' = [call EXCEPT ![c] = [call[c] EXCEPT !.phase = "insert"]] /\ call[c].phase = "write"
    BY DEF WriteManifest
  <2>2. \A k \in Call : [k EXCEPT !.phase = "insert"].sid = k.sid
    BY DEF Call
  <2> QED
    BY <1>1, <1>5, <2>1, <2>2
<1>14. ASSUME NEW s \in SessionIds, BeginStart(c, s) PROVE NoNewInsert /\ FewerCandidates
  <2>1. PICK k : call' = [call EXCEPT ![c] = k] /\ k.phase = "quota"
    <3>1. [Idle EXCEPT !.phase = "quota", !.sid = s].phase = "quota"
          /\ \A g : [Idle EXCEPT !.phase = "quota", !.sid = s, !.gc = g].phase = "quota"
      BY DEF Idle
    <3>2. \/ call' = [call EXCEPT ![c] = [Idle EXCEPT !.phase = "quota", !.sid = s]]
          \/ \E g \in Collectors :
               call' = [call EXCEPT ![c] = [Idle EXCEPT !.phase = "quota", !.sid = s, !.gc = g]]
      BY <1>14 DEF BeginStart
    <3> QED
      BY <3>1, <3>2
  <2>2. NoNewInsert
    BY <1>1, <2>1 DEF NoNewInsert
  <2>3. \/ gc' = gc
        \/ \E g \in Collectors :
             gc' = [gc EXCEPT ![g] = [Free EXCEPT !.phase = "held", !.auto = TRUE, !.taken = now]]
    BY <1>14 DEF BeginStart
  <2>4. [Free EXCEPT !.phase = "held", !.auto = TRUE, !.taken = now].ids = {}
    BY HeldTyped DEF TypeOK
  <2>5. FewerCandidates
    BY <1>1, <1>6, <2>3, <2>4 DEF FewerCandidates
  <2> QED
    BY <2>2, <2>5
<1> QED
  BY <1>8, <1>9, <1>10, <1>11, <1>12, <1>13, <1>14

LEMMA CollectionStepShape ==
  ASSUME TypeOK, NEW g \in Collectors,
         \/ CliCollect(g) \/ Query(g) \/ ReadManifests(g) \/ ListObjects(g)
         \/ RemoveSnapshot(g) \/ RemoveObject(g) \/ EndCollection(g) \/ CrashCollection(g)
  PROVE  CallsStay /\ NoNewInsert /\ (Query(g) \/ FewerCandidates)
<1>1. call \in [Callers -> Call] /\ gc \in [Collectors -> Collection]
  BY DEF TypeOK
<1>2. Free.ids = {} /\ Idle.phase = "idle"
  BY DEF Free, Idle
<1>3. call' = call => CallsStay /\ NoNewInsert
  BY DEF CallsStay, NoNewInsert
<1>4. \A m : gc' = [gc EXCEPT ![g] = m] /\ m.ids \subseteq gc[g].ids => FewerCandidates
  BY <1>1 DEF FewerCandidates
<1>5. \A p : Over(g, p) => FewerCandidates
  <2> TAKE p
  <2> DEFINE m == [Free EXCEPT !.phase = p, !.auto = gc[g].auto, !.taken = gc[g].taken]
  <2>1. m.ids = {}
    BY DEF Free
  <2>2. Over(g, p) => gc' = [gc EXCEPT ![g] = m]
    BY DEF Over
  <2> HIDE DEF m
  <2> QED
    BY <1>4, <2>1, <2>2
<1>6. \A k \in Collection : \A x, y :
        /\ [k EXCEPT !.ids = x].ids = x
        /\ [k EXCEPT !.dead = y].ids = k.ids
  BY DEF Collection
<1>7. gc' = gc => FewerCandidates
  BY DEF FewerCandidates
<1>8. \A p : gc' = [gc EXCEPT ![g].phase = p] => FewerCandidates
  BY <1>1 DEF FewerCandidates, Collection
<1>9. CASE CliCollect(g)
  BY <1>3, <1>8, <1>9 DEF CliCollect
<1>10. CASE Query(g)
  BY <1>3, <1>10 DEF Query
<1>11. CASE ReadManifests(g)
  <2> DEFINE full == {s \in SessionIds : dir[s] = "full"}
             m == [gc[g] EXCEPT !.phase = "objects", !.ids = full \cap gc[g].ids,
                                !.keep = UNION {files[s] : s \in full \ gc[g].ids}]
  <2>1. gc' = [gc EXCEPT ![g] = m] \/ Over(g, "failed")
    BY <1>11 DEF ReadManifests
  <2>2. m.ids = full \cap gc[g].ids
    BY <1>1 DEF Collection
  <2> HIDE DEF m
  <2>3. FewerCandidates
    BY <1>4, <1>5, <2>1, <2>2
  <2> QED
    BY <1>3, <1>11, <2>3 DEF ReadManifests
<1>12. CASE ListObjects(g)
  <2> DEFINE m == [gc[g] EXCEPT !.phase = "dirs", !.dead = objects \ gc[g].keep,
                                !.unsafe = orphans > 0 \/ Temporaries # {}]
  <2>1. gc' = [gc EXCEPT ![g] = m] \/ Over(g, "failed")
    BY <1>12 DEF ListObjects
  <2>2. m.ids = gc[g].ids
    BY <1>1 DEF Collection
  <2> HIDE DEF m
  <2>3. FewerCandidates
    BY <1>4, <1>5, <2>1, <2>2
  <2> QED
    BY <1>3, <1>12, <2>3 DEF ListObjects
<1>13. CASE RemoveSnapshot(g)
  <2>1. \/ gc' = gc \/ gc' = [gc EXCEPT ![g].phase = "delete"]
        \/ \E s : gc' = [gc EXCEPT ![g] = [gc[g] EXCEPT !.ids = gc[g].ids \ {s}]]
    BY <1>13 DEF RemoveSnapshot, Phase
  <2>2. FewerCandidates
    BY <1>1, <1>4, <1>6, <1>7, <1>8, <2>1
  <2> QED
    BY <1>3, <1>13, <2>2 DEF RemoveSnapshot
<1>14. CASE RemoveObject(g)
  <2>1. \/ Over(g, "failed") \/ Over(g, "done")
        \/ \E y : gc' = [gc EXCEPT ![g] = [gc[g] EXCEPT !.dead = y]]
    BY <1>14 DEF RemoveObject
  <2>2. FewerCandidates
    BY <1>1, <1>4, <1>5, <1>6, <2>1
  <2> QED
    BY <1>3, <1>14, <2>2 DEF RemoveObject
<1>15. CASE EndCollection(g)
  <2>1. PICK ok \in BOOLEAN : Returned(g, ok)
    BY <1>15 DEF EndCollection
  <2>2. FewerCandidates
    BY <1>2, <1>4, <2>1 DEF Returned
  <2>3. \A k \in Call : /\ [k EXCEPT !.phase = "retry", !.gc = Nobody].sid = k.sid
                        /\ [k EXCEPT !.phase = "retry", !.gc = Nobody].phase = "retry"
    BY DEF Call
  <2>4. \A c \in Callers :
          \/ call'[c] = call[c] \/ call'[c] = Idle
          \/ call[c].phase = "gc" /\ call'[c] = [call[c] EXCEPT !.phase = "retry", !.gc = Nobody]
    BY <2>1 DEF Returned
  <2>5. CallsStay /\ NoNewInsert
    BY <1>1, <1>2, <2>3, <2>4 DEF CallsStay, NoNewInsert
  <2> QED
    BY <2>2, <2>5
<1>16. CASE CrashCollection(g)
  BY <1>2, <1>3, <1>4, <1>16 DEF CrashCollection
<1> QED
  BY <1>9, <1>10, <1>11, <1>12, <1>13, <1>14, <1>15, <1>16

LEMMA NextCallsApart == TypeOK /\ CallsApart /\ Next => CallsApart'
<1> SUFFICES ASSUME TypeOK, CallsApart, Next PROVE CallsApart'
  OBVIOUS
<1>1. call \in [Callers -> Call] /\ row \in [SessionIds -> Row]
  BY DEF TypeOK
<1>2. CallsStay /\ row' = row => CallsApart'
  BY DEF CallsStay, CallsApart
<1>3. ASSUME NEW c \in Callers, NEW s \in SessionIds, BeginStart(c, s) PROVE CallsApart'
  <2>1. PICK k : call' = [call EXCEPT ![c] = k] /\ k.sid = s
    <3>1. [Idle EXCEPT !.phase = "quota", !.sid = s].sid = s
          /\ \A g : [Idle EXCEPT !.phase = "quota", !.sid = s, !.gc = g].sid = s
      BY DEF Idle
    <3>2. \/ call' = [call EXCEPT ![c] = [Idle EXCEPT !.phase = "quota", !.sid = s]]
          \/ \E g \in Collectors :
               call' = [call EXCEPT ![c] = [Idle EXCEPT !.phase = "quota", !.sid = s, !.gc = g]]
      BY <1>3 DEF BeginStart
    <3> QED
      BY <3>1, <3>2
  <2>2. row' = row /\ row[s].state = "absent" /\ \A d \in Callers : call[d].sid # s
    BY <1>3 DEF BeginStart
  <2> QED
    BY <1>1, <2>1, <2>2 DEF CallsApart
<1>4. ASSUME NEW c \in Callers, InsertRow(c) PROVE CallsApart'
  <2>1. call' = [call EXCEPT ![c] = Idle] /\ Idle.phase = "idle" /\ call[c].phase = "insert"
    BY <1>4 DEF InsertRow, Idle
  <2>2. \A t \in SessionIds : t # call[c].sid => row'[t] = row[t]
    BY <1>1, <1>4 DEF InsertRow
  <2> QED
    BY <1>1, <2>1, <2>2 DEF CallsApart, TypeOK
<1>5. ASSUME NEW s \in SessionIds, EndSession(s) PROVE CallsApart'
  <2>1. call' = call /\ row[s].state = "active"
        /\ \A t \in SessionIds : t # s => row'[t] = row[t]
    BY <1>1, <1>5 DEF EndSession
  <2> QED
    BY <2>1 DEF CallsApart, TypeOK
<1>6. ASSUME NEW c \in Callers,
             \/ CheckQuota(c) \/ WriteObject(c) \/ RenameObject(c) \/ WriteManifest(c)
             \/ StartFails(c) \/ CrashStart(c)
      PROVE  CallsStay /\ row' = row
  <2>1. row' = row
    BY <1>6 DEF CheckQuota, WriteObject, RenameObject, WriteManifest, StartFails, CrashStart
  <2> QED
    BY <1>6, <2>1, StartStepShape
<1>7. ASSUME NEW g \in Collectors,
             \/ CliCollect(g) \/ Query(g) \/ ReadManifests(g) \/ ListObjects(g)
             \/ RemoveSnapshot(g) \/ RemoveObject(g) \/ EndCollection(g) \/ CrashCollection(g)
      PROVE  CallsStay /\ row' = row
  <2>1. row' = row
    BY <1>7 DEF CliCollect, Query, ReadManifests, ListObjects, RemoveSnapshot, RemoveObject,
                EndCollection, CrashCollection
  <2> QED
    BY <1>7, <2>1, CollectionStepShape
<1>8. CASE Tick
  BY <1>8 DEF Tick, CallsApart
<1> QED
  BY <1>2, <1>3, <1>4, <1>5, <1>6, <1>7, <1>8 DEF Next

\* What a directory step leaves alone: only the session's own start writes its
\* directory, and only a collection that has it as candidate removes it.
LEMMA DirectoryStep ==
  ASSUME TypeOK, Next, NEW t \in SessionIds
  PROVE  \/ dir'[t] = dir[t] \/ dir'[t] = "full"
         \/ \E c \in Callers : CheckQuota(c) /\ t = call[c].sid /\ call[c].phase \in {"quota", "retry"}
         \/ \E g \in Collectors : RemoveSnapshot(g) /\ t \in gc[g].ids
<1>1. dir \in [SessionIds -> {"none", "bare", "full"}]
  BY DEF TypeOK
<1>2. ASSUME NEW c \in Callers, NEW s \in SessionIds, BeginStart(c, s) PROVE dir' = dir
  BY <1>2 DEF BeginStart, store
<1>3. ASSUME NEW c \in Callers, CheckQuota(c), t # call[c].sid PROVE dir'[t] = dir[t]
  BY <1>1, <1>3 DEF CheckQuota
<1>4. ASSUME NEW c \in Callers, CheckQuota(c) PROVE call[c].phase \in {"quota", "retry"}
  BY <1>4 DEF CheckQuota
<1>5. ASSUME NEW c \in Callers, WriteManifest(c) PROVE dir'[t] = dir[t] \/ dir'[t] = "full"
  BY <1>1, <1>5 DEF WriteManifest
<1>6. ASSUME NEW c \in Callers,
             \/ WriteObject(c) \/ RenameObject(c) \/ InsertRow(c) \/ StartFails(c) \/ CrashStart(c)
      PROVE  dir' = dir
  BY <1>6 DEF WriteObject, RenameObject, InsertRow, StartFails, CrashStart, store
<1>7. ASSUME NEW g \in Collectors, RemoveSnapshot(g), t \notin gc[g].ids PROVE dir'[t] = dir[t]
  BY <1>1, <1>7 DEF RemoveSnapshot
<1>8. ASSUME NEW g \in Collectors,
             \/ CliCollect(g) \/ Query(g) \/ ReadManifests(g) \/ ListObjects(g)
             \/ RemoveObject(g) \/ EndCollection(g) \/ CrashCollection(g)
      PROVE  dir' = dir
  BY <1>8 DEF CliCollect, Query, ReadManifests, ListObjects, RemoveObject, EndCollection,
              CrashCollection, store
<1>9. ASSUME NEW s \in SessionIds, EndSession(s) PROVE dir' = dir
  BY <1>9 DEF EndSession, store
<1>10. Tick => dir' = dir
  BY DEF Tick, store
<1> QED
  BY <1>2, <1>3, <1>4, <1>5, <1>6, <1>7, <1>8, <1>9, <1>10 DEF Next

\* What happens to a row: it appears by a start's insert, and ends from active.
LEMMA RowStep ==
  ASSUME TypeOK, Next, NEW t \in SessionIds
  PROVE  \/ row'[t] = row[t]
         \/ /\ row'[t].state = "active"
            /\ \E c \in Callers : InsertRow(c) /\ call[c].phase = "insert" /\ call[c].sid = t
         \/ row[t].state = "active" /\ row'[t].state \in {"ended", "expired"} /\ row'[t].endedAt = now
<1>1. row \in [SessionIds -> Row]
  BY DEF TypeOK
<1>2. ASSUME NEW c \in Callers, InsertRow(c)
      PROVE  /\ call[c].phase = "insert"
             /\ row'[t] = row[t] \/ (call[c].sid = t /\ row'[t].state = "active")
  BY <1>1, <1>2 DEF InsertRow, Row
<1>3. ASSUME NEW s \in SessionIds, EndSession(s)
      PROVE  \/ row'[t] = row[t]
             \/ row[t].state = "active" /\ row'[t].state \in {"ended", "expired"} /\ row'[t].endedAt = now
  BY <1>1, <1>3 DEF EndSession
<1>4. ASSUME NEW c \in Callers,
             \/ CheckQuota(c) \/ WriteObject(c) \/ RenameObject(c) \/ WriteManifest(c)
             \/ StartFails(c) \/ CrashStart(c) \/ \E s \in SessionIds : BeginStart(c, s)
      PROVE  row' = row
  BY <1>4 DEF CheckQuota, WriteObject, RenameObject, WriteManifest, StartFails, CrashStart, BeginStart
<1>5. ASSUME NEW g \in Collectors,
             \/ CliCollect(g) \/ Query(g) \/ ReadManifests(g) \/ ListObjects(g)
             \/ RemoveSnapshot(g) \/ RemoveObject(g) \/ EndCollection(g) \/ CrashCollection(g)
      PROVE  row' = row
  BY <1>5 DEF CliCollect, Query, ReadManifests, ListObjects, RemoveSnapshot, RemoveObject,
              EndCollection, CrashCollection
<1>6. Tick => row' = row
  BY DEF Tick
<1> QED
  BY <1>2, <1>3, <1>4, <1>5, <1>6 DEF Next

\* Only a tick moves the clock.
LEMMA ClockStep == TypeOK /\ Next => now \in Int /\ now' \in Int /\ now' >= now
<1>1. TypeOK => now \in Int
  BY TimesAreNumbers DEF TypeOK
<1>2. ASSUME NEW c \in Callers,
             \/ CheckQuota(c) \/ WriteObject(c) \/ RenameObject(c) \/ WriteManifest(c) \/ InsertRow(c)
             \/ StartFails(c) \/ CrashStart(c) \/ \E s \in SessionIds : BeginStart(c, s)
      PROVE  now' = now
  BY <1>2 DEF CheckQuota, WriteObject, RenameObject, WriteManifest, InsertRow, StartFails,
              CrashStart, BeginStart
<1>3. ASSUME NEW g \in Collectors,
             \/ CliCollect(g) \/ Query(g) \/ ReadManifests(g) \/ ListObjects(g)
             \/ RemoveSnapshot(g) \/ RemoveObject(g) \/ EndCollection(g) \/ CrashCollection(g)
      PROVE  now' = now
  BY <1>3 DEF CliCollect, Query, ReadManifests, ListObjects, RemoveSnapshot, RemoveObject,
              EndCollection, CrashCollection
<1>4. ASSUME NEW s \in SessionIds, EndSession(s) PROVE now' = now
  BY <1>4 DEF EndSession
<1>5. Tick => now' \in Time /\ now' > now
  BY DEF Tick, Time
<1>6. Next => now' = now \/ (now' \in Time /\ now' > now)
  BY <1>2, <1>3, <1>4, <1>5 DEF Next
<1> QED
  BY <1>1, <1>6, TimesAreNumbers

\* No collection takes back what was asked for.
LEMMA AskedStep == Next => asked \subseteq asked'
<1>1. ASSUME NEW c \in Callers,
             \/ CheckQuota(c) \/ WriteObject(c) \/ RenameObject(c) \/ WriteManifest(c) \/ InsertRow(c)
             \/ StartFails(c) \/ CrashStart(c) \/ \E s \in SessionIds : BeginStart(c, s)
      PROVE  asked' = asked
  BY <1>1 DEF CheckQuota, WriteObject, RenameObject, WriteManifest, InsertRow, StartFails,
              CrashStart, BeginStart
<1>2. ASSUME NEW g \in Collectors,
             \/ CliCollect(g) \/ Query(g) \/ ReadManifests(g) \/ ListObjects(g)
             \/ RemoveSnapshot(g) \/ RemoveObject(g) \/ EndCollection(g) \/ CrashCollection(g)
      PROVE  asked \subseteq asked'
  BY <1>2 DEF CliCollect, Query, ReadManifests, ListObjects, RemoveSnapshot, RemoveObject,
              EndCollection, CrashCollection
<1>3. ASSUME Tick \/ \E s \in SessionIds : EndSession(s) PROVE asked' = asked
  BY <1>3 DEF EndSession, Tick
<1> QED
  BY <1>1, <1>2, <1>3 DEF Next

LEMMA NextInsertHasManifest ==
  TypeOK /\ CallsApart /\ CandidatesEnded /\ InsertHasManifest /\ Next => InsertHasManifest'
<1> SUFFICES ASSUME TypeOK, CallsApart, CandidatesEnded, InsertHasManifest, Next,
                    NEW c \in Callers, call'[c].phase = "insert"
             PROVE  dir'[call'[c].sid] = "full"
  BY DEF InsertHasManifest
<1>1. call \in [Callers -> Call] /\ dir \in [SessionIds -> {"none", "bare", "full"}]
      /\ \A d \in Callers : call[d].phase # "idle" => call[d].sid \in SessionIds
  BY DEF TypeOK
<1>2. CASE \E d \in Callers : WriteManifest(d) /\ d = c
  <2>1. call' = [call EXCEPT ![c] = [call[c] EXCEPT !.phase = "insert"]] /\ call[c].phase = "write"
        /\ dir' = [dir EXCEPT ![call[c].sid] = "full"]
    BY <1>2 DEF WriteManifest
  <2>2. \A k \in Call : [k EXCEPT !.phase = "insert"].sid = k.sid
    BY DEF Call
  <2>3. call'[c].sid = call[c].sid
    BY <1>1, <2>1, <2>2
  <2> QED
    BY <1>1, <2>1, <2>3
<1>3. CASE ~ \E d \in Callers : WriteManifest(d) /\ d = c
  <2>1. call[c].phase = "insert" /\ call'[c].sid = call[c].sid
    <3>1. ASSUME NEW d \in Callers, WriteManifest(d), d # c PROVE call'[c] = call[c]
      BY <1>1, <3>1 DEF WriteManifest
    <3>2. (\E s \in SessionIds : EndSession(s)) \/ Tick => call' = call
      BY DEF EndSession, Tick
    <3> QED
      BY <1>3, <3>1, <3>2, StartStepShape, CollectionStepShape DEF Next, NoNewInsert
  <2>2. row[call[c].sid].state = "absent" /\ dir[call[c].sid] = "full" /\ call[c].sid \in SessionIds
    BY <1>1, <2>1 DEF CallsApart, InsertHasManifest
  <2>3. \A d \in Callers : call[d].phase \in {"quota", "retry"} => call[d].sid # call[c].sid
    BY <2>1 DEF CallsApart
  <2>4. \A g \in Collectors : call[c].sid \notin gc[g].ids
    BY <2>2 DEF CandidatesEnded
  <2> QED
    BY <2>1, <2>2, <2>3, <2>4, DirectoryStep
<1> QED
  BY <1>2, <1>3

\* A candidate that ended normally did so the retention asked for ago, or less
\* than a second before that.
LEMMA CandidateAge ==
  ASSUME TypeOK, NEW auto \in BOOLEAN, NEW age \in Ages, NEW s \in Candidates(auto, age)
  PROVE  /\ s \in SessionIds /\ row[s].state \in {"ended", "expired"}
         /\ row[s].state = "ended" => /\ now - row[s].endedAt > age - TicksPerSecond
                                      /\ auto => Retention > 0
<1>1. /\ s \in SessionIds /\ row[s].state \in {"ended", "expired"}
      /\ row[s].state = "ended" => /\ Before(row[s].endedAt, now - age)
                                   /\ auto => Retention > 0
  BY DEF Candidates, TerminalBefore, LeaseExpiredBefore
<1>2. row[s].endedAt \in Int /\ now \in Int /\ age \in Int /\ TicksPerSecond \in Int
  BY <1>1, TimesAreNumbers, TicksPerSecondAssumption DEF TypeOK, Row, Units
<1>3. Before(row[s].endedAt, now - age) => row[s].endedAt < now - age + TicksPerSecond
  <2>1. now - age \in Int
    BY <1>2
  <2> QED
    BY <1>2, <2>1, TextOrder
<1> QED
  BY <1>1, <1>2, <1>3

\* A collection's candidates come from its query only.
LEMMA CandidatesStep ==
  ASSUME TypeOK, Next, NEW g \in Collectors, NEW s \in gc'[g].ids
  PROVE  \/ s \in gc[g].ids
         \/ \E age \in Ages : /\ s \in Candidates(gc[g].auto, age)
                              /\ IF gc[g].auto THEN age = Retention ELSE age \in asked'
<1>1. gc \in [Collectors -> Collection]
  BY DEF TypeOK
<1>2. CASE \E h \in Collectors : Query(h)
  <2>1. PICK h \in Collectors : Query(h)
    BY <1>2
  <2> DEFINE f == [Free EXCEPT !.phase = "failed", !.auto = gc[h].auto, !.taken = gc[h].taken]
  <2>2. CASE gc' = [gc EXCEPT ![h] = f]
    <3>1. f.ids = {}
      BY DEF Free
    <3> HIDE DEF f
    <3> QED
      BY <1>1, <2>2, <3>1
  <2>3. CASE gc' # [gc EXCEPT ![h] = f]
    <3>1. PICK age \in IF gc[h].auto THEN {Retention} ELSE Ages :
            /\ gc' = [gc EXCEPT ![h].ids = Candidates(gc[h].auto, age),
                                ![h].phase = IF gc[h].auto /\ Candidates(gc[h].auto, age) = {}
                                             THEN "done" ELSE "manifests"]
            /\ asked' = IF gc[h].auto THEN asked ELSE asked \cup {age}
      BY <2>1, <2>3 DEF Query, Over
    <3>2. age \in Ages /\ IF gc[h].auto THEN age = Retention ELSE age \in asked'
      BY <3>1 DEF Ages
    <3> DEFINE m == [gc[h] EXCEPT !.ids = Candidates(gc[h].auto, age),
                                  !.phase = IF gc[h].auto /\ Candidates(gc[h].auto, age) = {}
                                            THEN "done" ELSE "manifests"]
    <3>3. m.ids = Candidates(gc[h].auto, age) /\ gc' = [gc EXCEPT ![h] = m]
      BY <1>1, <3>1 DEF Collection
    <3> HIDE DEF m
    <3> QED
      BY <1>1, <3>2, <3>3
  <2> QED
    BY <2>2, <2>3
<1>3. CASE ~ \E h \in Collectors : Query(h)
  <2>1. (\E t \in SessionIds : EndSession(t)) \/ Tick => gc' = gc
    BY DEF EndSession, Tick
  <2> QED
    BY <1>3, <2>1, StartStepShape, CollectionStepShape DEF Next, FewerCandidates
<1> QED
  BY <1>2, <1>3

LEMMA NextCandidatesEnded ==
  ASSUME TypeOK, CallsApart, CandidatesEnded, RetentionIsAsked, Next
  PROVE  CandidatesEnded'
<1> SUFFICES ASSUME NEW g \in Collectors, NEW s \in gc'[g].ids
             PROVE  /\ row'[s].state \in {"ended", "expired"}
                    /\ row'[s].state = "ended" =>
                         \E age \in asked' : now' - row'[s].endedAt > age - TicksPerSecond
  BY DEF CandidatesEnded
<1>1. gc[g].ids \subseteq SessionIds /\ gc[g].auto \in BOOLEAN
  BY DEF TypeOK, Collection
<1>2. asked \subseteq asked' /\ asked' \subseteq Ages
  BY AskedStep, NextTyped DEF TypeOK
<1>3. /\ s \in SessionIds /\ row[s].state \in {"ended", "expired"}
      /\ row[s].state = "ended" =>
           \E age \in asked' : now - row[s].endedAt > age - TicksPerSecond
  <2>1. CASE s \in gc[g].ids
    BY <1>1, <1>2, <2>1 DEF CandidatesEnded
  <2>2. CASE s \notin gc[g].ids
    <3>1. PICK age \in Ages : /\ s \in Candidates(gc[g].auto, age)
                              /\ IF gc[g].auto THEN age = Retention ELSE age \in asked'
      BY <2>2, CandidatesStep
    <3>2. /\ s \in SessionIds /\ row[s].state \in {"ended", "expired"}
          /\ row[s].state = "ended" => /\ now - row[s].endedAt > age - TicksPerSecond
                                       /\ gc[g].auto => Retention > 0
      BY <1>1, <3>1, CandidateAge
    <3> QED
      BY <1>2, <3>1, <3>2 DEF RetentionIsAsked
  <2> QED
    BY <2>1, <2>2
<1>4. row'[s] = row[s]
  <2>1. \A c \in Callers : call[c].phase = "insert" /\ call[c].sid = s => FALSE
    BY <1>3 DEF CallsApart
  <2> QED
    BY <1>3, <2>1, RowStep
<1>5. /\ row[s].endedAt \in Int /\ TicksPerSecond \in Int /\ \A age \in asked' : age \in Int
      /\ now \in Int /\ now' \in Int /\ now' >= now
  BY <1>2, <1>3, TimesAreNumbers, ClockStep, TicksPerSecondAssumption DEF TypeOK, Row, Units
<1> QED
  BY <1>3, <1>4, <1>5

LEMMA NextRetained ==
  ASSUME TypeOK, CallsApart, CandidatesEnded, InsertHasManifest, RetainedHasManifest, Next
  PROVE  RetainedHasManifest'
<1> SUFFICES ASSUME NEW s \in SessionIds,
                    \/ row'[s].state = "active"
                    \/ /\ row'[s].state = "ended"
                       /\ \A age \in asked' : now' - row'[s].endedAt <= age - TicksPerSecond
             PROVE  dir'[s] = "full"
  BY DEF RetainedHasManifest
<1>1. /\ now \in Int /\ now' \in Int /\ now' >= now /\ row[s].endedAt \in Int
      /\ TicksPerSecond \in Int /\ asked \subseteq asked' /\ \A age \in asked : age \in Int
  BY AskedStep, TimesAreNumbers, ClockStep, TicksPerSecondAssumption DEF TypeOK, Row, Units
<1>2. /\ dir[s] = "full"
      /\ \/ row[s].state = "active"
         \/ /\ row[s].state = "ended"
            /\ \A age \in asked : now - row[s].endedAt <= age - TicksPerSecond
         \/ \E c \in Callers : InsertRow(c) /\ call[c].sid = s /\ row[s].state = "absent"
  <2>1. CASE row'[s] = row[s]
    <3>1. row[s].state # "active" =>
            /\ row[s].state = "ended"
            /\ \A age \in asked : now - row[s].endedAt <= age - TicksPerSecond
      BY <1>1, <2>1
    <3> QED
      BY <3>1 DEF RetainedHasManifest
  <2>2. ASSUME NEW c \in Callers, InsertRow(c), call[c].phase = "insert", call[c].sid = s
        PROVE  dir[s] = "full" /\ row[s].state = "absent"
    BY <2>2 DEF InsertHasManifest, CallsApart
  <2>3. CASE row[s].state = "active"
    BY <2>3 DEF RetainedHasManifest
  <2> QED
    BY <2>1, <2>2, <2>3, RowStep
<1>3. \A g \in Collectors : s \notin gc[g].ids
  BY <1>1, <1>2 DEF CandidatesEnded
<1>4. ASSUME NEW c \in Callers, CheckQuota(c), s = call[c].sid PROVE dir'[s] = "full"
  <2>1. call[c].phase # "idle" /\ dir' # dir => row[s].state = "absent" /\ row' = row
    BY <1>4 DEF CallsApart, CheckQuota
  <2>2. row'[s].state # "absent" /\ row' = row /\ call[c].phase # "idle"
    BY <1>4 DEF CheckQuota
  <2> QED
    BY <1>2, <2>1, <2>2
<1> QED
  BY <1>2, <1>3, <1>4, DirectoryStep

\* The inductive invariant.
StoreInv ==
    /\ TypeOK /\ CallsApart /\ InsertHasManifest
    /\ CandidatesEnded /\ RetentionIsAsked /\ RetainedHasManifest

\* Starts and collections keep apart as StoreInv says: no step of CreateWithQuota,
\* CreateSession, snapshotGCCandidates or GCApply breaks it.
THEOREM StoreInvHolds == Spec => []StoreInv
<1>1. Init => StoreInv
  <2> SUFFICES ASSUME Init PROVE StoreInv
    OBVIOUS
  <2>1. CallsApart /\ InsertHasManifest /\ CandidatesEnded /\ RetainedHasManifest
    BY DEF Init, CallsApart, InsertHasManifest, CandidatesEnded, RetainedHasManifest, Idle, Free
  <2>2. RetentionIsAsked
    BY DEF Init, RetentionIsAsked
  <2> QED
    BY <2>1, <2>2, InitTyped DEF StoreInv
<1>2. StoreInv /\ [Next]_vars => StoreInv'
  <2>1. StoreInv /\ Next => StoreInv'
    <3>1. StoreInv /\ Next => RetentionIsAsked'
      BY AskedStep DEF StoreInv, RetentionIsAsked
    <3> QED
      BY <3>1, NextTyped, NextCallsApart, NextInsertHasManifest, NextCandidatesEnded, NextRetained
      DEF StoreInv
  <2>2. StoreInv /\ UNCHANGED vars => StoreInv'
    <3> SUFFICES ASSUME StoreInv, UNCHANGED vars PROVE StoreInv'
      OBVIOUS
    <3>1. TypeOK'
      BY NextTyped DEF StoreInv
    <3>2. CallsApart' /\ InsertHasManifest' /\ RetentionIsAsked'
      BY DEF StoreInv, vars, CallsApart, InsertHasManifest, RetentionIsAsked
    <3>3. CandidatesEnded' /\ RetainedHasManifest'
      BY DEF StoreInv, vars, CandidatesEnded, RetainedHasManifest
    <3> QED
      BY <3>1, <3>2, <3>3 DEF StoreInv
  <2> QED
    BY <2>1, <2>2
<1> QED
  BY <1>1, <1>2, PTL DEF Spec

\* No collection, whether it holds the lease, has outlived it, or is run by hand
\* with any --older-than, however it interleaves with starts, crashes and other
\* collections, takes the manifest of a session that is active, or of one that has
\* a second left of every retention asked for (snapshotGCCandidates, GCApply).
THEOREM RetainedManifestKept == Spec => []RetainedHasManifest
<1>1. StoreInv => RetainedHasManifest
  BY DEF StoreInv
<1> QED
  BY <1>1, StoreInvHolds, PTL

-----------------------------------------------------------------------------
\* The lease, the objects and the quota.

USE NamesAssumption, BoundsAssumption, TicksPerSecondAssumption

-----------------------------------------------------------------------------
\* The lease.  A collection that has not outlived its lease, by any reading of
\* the texts, is its owner.

LeaseInv ==
    \A g \in Collectors : gc[g].auto =>
        /\ gc[g].phase # "free"
        /\ gc[g].taken <= now
        /\ \/ gc[g].taken + LockDuration < now + TicksPerSecond
           \/ lease = [owner |-> g, attempt |-> gc[g].taken,
                       expires |-> gc[g].taken + LockDuration]

\* Collection h goes on under the lease it has, or is none under a lease.
GoesOn(h) ==
    gc'[h].auto => gc[h].auto /\ gc'[h].taken = gc[h].taken /\ gc'[h].phase # "free"

Takes(g) ==
    /\ LeaseFree
    /\ lease' = [owner |-> g, attempt |-> now, expires |-> now + LockDuration]
    /\ gc'[g].taken = now /\ gc'[g].phase # "free"
    /\ \A h \in Collectors \ {g} : GoesOn(h)

\* The lease stays, but for an owner whose collection is over.
LeaseStays ==
    /\ lease' = lease \/ \E g \in Collectors : lease.owner = g /\ ~gc'[g].auto
    /\ \A h \in Collectors : GoesOn(h)

LEMMA SlotChange ==
  ASSUME TypeOK, LeaseInv, NEW g \in Collectors
  PROVE  /\ \A m : /\ gc' = [gc EXCEPT ![g] = m]
                   /\ m.auto => gc[g].auto /\ m.taken = gc[g].taken /\ m.phase # "free"
                   => \A h \in Collectors : GoesOn(h)
         /\ \A p : gc' = [gc EXCEPT ![g].phase = p] /\ p # "free"
                   => \A h \in Collectors : GoesOn(h)
         /\ \A p : Over(g, p) /\ p # "free" => \A h \in Collectors : GoesOn(h)
         /\ gc' = gc \/ gc' = [gc EXCEPT ![g] = Free] => \A h \in Collectors : GoesOn(h)
<1>1. gc \in [Collectors -> Collection] /\ ~Free.auto
  BY DEF TypeOK, Free
<1>2. \A m : /\ gc' = [gc EXCEPT ![g] = m]
             /\ m.auto => gc[g].auto /\ m.taken = gc[g].taken /\ m.phase # "free"
             => \A h \in Collectors : GoesOn(h)
  BY <1>1 DEF GoesOn, LeaseInv
<1>3. \A p : gc' = [gc EXCEPT ![g].phase = p] /\ p # "free" => \A h \in Collectors : GoesOn(h)
  BY <1>1 DEF GoesOn, LeaseInv, Collection
<1>4. \A p : Over(g, p) /\ p # "free" => \A h \in Collectors : GoesOn(h)
  <2> TAKE p
  <2>1. PICK m : m = [Free EXCEPT !.phase = p, !.auto = gc[g].auto, !.taken = gc[g].taken]
    OBVIOUS
  <2>2. m.auto = gc[g].auto /\ m.taken = gc[g].taken /\ m.phase = p
    BY <2>1 DEF Free
  <2>3. Over(g, p) => gc' = [gc EXCEPT ![g] = m]
    BY <2>1 DEF Over
  <2> QED
    BY <1>2, <2>2, <2>3
<1>5. gc' = gc \/ gc' = [gc EXCEPT ![g] = Free] => \A h \in Collectors : GoesOn(h)
  BY <1>1 DEF GoesOn, LeaseInv
<1> QED
  BY <1>2, <1>3, <1>4, <1>5

\* Only a start takes the lease, and only its owner gives it back.
LEMMA LeaseStep ==
  ASSUME TypeOK, LeaseInv, Next
  PROVE  LeaseStays \/ \E g \in Collectors : Takes(g)
<1>1. gc \in [Collectors -> Collection] /\ ~Free.auto
  BY DEF TypeOK, Free
<1>2. ASSUME NEW c \in Callers, NEW s \in SessionIds, BeginStart(c, s)
      PROVE  LeaseStays \/ \E g \in Collectors : Takes(g)
  <2>1. CASE lease' = lease /\ gc' = gc
    BY <1>1, <2>1 DEF LeaseStays, GoesOn, LeaseInv
  <2>2. ASSUME LeaseFree, NEW g \in Collectors,
               lease' = [owner |-> g, attempt |-> now, expires |-> now + LockDuration],
               gc' = [gc EXCEPT ![g] = [Free EXCEPT !.phase = "held", !.auto = TRUE, !.taken = now]]
        PROVE  Takes(g)
    <3>1. PICK m : m = [Free EXCEPT !.phase = "held", !.auto = TRUE, !.taken = now]
      OBVIOUS
    <3>2. m.taken = now /\ m.phase = "held"
      BY <3>1 DEF Free
    <3>3. gc'[g] = m /\ \A h \in Collectors \ {g} : gc'[h] = gc[h]
      BY <1>1, <2>2, <3>1
    <3> QED
      BY <2>2, <3>2, <3>3 DEF Takes, GoesOn, LeaseInv
  <2> QED
    BY <1>2, <2>1, <2>2 DEF BeginStart
<1>3. ASSUME NEW c \in Callers,
             \/ CheckQuota(c) \/ WriteObject(c) \/ RenameObject(c) \/ WriteManifest(c)
             \/ InsertRow(c) \/ StartFails(c) \/ CrashStart(c)
      PROVE  LeaseStays
  <2>1. lease' = lease
    BY <1>3 DEF CheckQuota, WriteObject, RenameObject, WriteManifest, InsertRow, StartFails, CrashStart
  <2>2. call[c].gc # Nobody => call[c].gc \in Collectors
    BY CallFields DEF TypeOK
  <2>3. \/ gc' = gc
        \/ call[c].gc \in Collectors /\ gc' = [gc EXCEPT ![call[c].gc] = Free]
        \/ call[c].gc \in Collectors /\ gc' = [gc EXCEPT ![call[c].gc].phase = "query"]
    BY <1>3, <2>2 DEF CheckQuota, WriteObject, RenameObject, WriteManifest, InsertRow,
                      StartFails, CrashStart, Dropped
  <2>4. gc' = gc => \A h \in Collectors : GoesOn(h)
    BY DEF GoesOn, LeaseInv
  <2> QED
    BY <2>1, <2>3, <2>4, SlotChange DEF LeaseStays
<1>4. ASSUME NEW g \in Collectors,
             \/ CliCollect(g) \/ Query(g) \/ ReadManifests(g) \/ ListObjects(g)
             \/ RemoveSnapshot(g) \/ RemoveObject(g) \/ EndCollection(g) \/ CrashCollection(g)
      PROVE  LeaseStays
  <2>1. gc[g] \in Collection
    BY <1>1
  <2>2. CASE CliCollect(g)
    BY <2>2, SlotChange DEF CliCollect, LeaseStays
  <2>3. CASE Query(g)
    <3>1. PICK p \in {"done", "manifests"} :
            \E ids : \/ Over(g, "failed")
                     \/ gc' = [gc EXCEPT ![g] = [gc[g] EXCEPT !.ids = ids, !.phase = p]]
      BY <2>3 DEF Query
    <3>2. PICK ids : \/ Over(g, "failed")
                     \/ gc' = [gc EXCEPT ![g] = [gc[g] EXCEPT !.ids = ids, !.phase = p]]
      BY <3>1
    <3>3. PICK m : m = [gc[g] EXCEPT !.ids = ids, !.phase = p]
      OBVIOUS
    <3>4. m.auto = gc[g].auto /\ m.taken = gc[g].taken /\ m.phase = p
      BY <2>1, <3>3 DEF Collection
    <3>5. lease' = lease
      BY <2>3 DEF Query
    <3> QED
      BY <3>2, <3>3, <3>4, <3>5, SlotChange DEF LeaseStays
  <2>4. CASE ReadManifests(g)
    <3> DEFINE full == {s \in SessionIds : dir[s] = "full"}
               read == [gc[g] EXCEPT !.phase = "objects", !.ids = full \cap gc[g].ids,
                                     !.keep = UNION {files[s] : s \in full \ gc[g].ids}]
    <3>1. Over(g, "failed") \/ gc' = [gc EXCEPT ![g] = read]
      BY <2>4 DEF ReadManifests
    <3>2. PICK m : m = read
      OBVIOUS
    <3>3. m.auto = gc[g].auto /\ m.taken = gc[g].taken /\ m.phase = "objects"
      BY <2>1, <3>2 DEF Collection
    <3>4. lease' = lease
      BY <2>4 DEF ReadManifests
    <3> QED
      BY <3>1, <3>2, <3>3, <3>4, SlotChange DEF LeaseStays
  <2>5. CASE ListObjects(g)
    <3> DEFINE listed == [gc[g] EXCEPT !.phase = "dirs", !.dead = objects \ gc[g].keep,
                                       !.unsafe = orphans > 0 \/ Temporaries # {}]
    <3>1. Over(g, "failed") \/ gc' = [gc EXCEPT ![g] = listed]
      BY <2>5 DEF ListObjects
    <3>2. PICK m : m = listed
      OBVIOUS
    <3>3. m.auto = gc[g].auto /\ m.taken = gc[g].taken /\ m.phase = "dirs"
      BY <2>1, <3>2 DEF Collection
    <3>4. lease' = lease
      BY <2>5 DEF ListObjects
    <3> QED
      BY <3>1, <3>2, <3>3, <3>4, SlotChange DEF LeaseStays
  <2>6. CASE RemoveSnapshot(g)
    <3>1. PICK ids : \/ gc' = gc \/ gc' = [gc EXCEPT ![g].phase = "delete"]
                     \/ gc[g].phase = "dirs" /\ gc' = [gc EXCEPT ![g] = [gc[g] EXCEPT !.ids = ids]]
      BY <2>6 DEF RemoveSnapshot, Phase
    <3>2. PICK m : m = [gc[g] EXCEPT !.ids = ids]
      OBVIOUS
    <3>3. m.auto = gc[g].auto /\ m.taken = gc[g].taken /\ m.phase = gc[g].phase
      BY <2>1, <3>2 DEF Collection
    <3>4. lease' = lease
      BY <2>6 DEF RemoveSnapshot
    <3> QED
      BY <3>1, <3>2, <3>3, <3>4, SlotChange DEF LeaseStays
  <2>7. CASE RemoveObject(g)
    <3>1. PICK dead : \/ Over(g, "failed") \/ Over(g, "done")
                      \/ gc[g].phase = "delete" /\ gc' = [gc EXCEPT ![g] = [gc[g] EXCEPT !.dead = dead]]
      BY <2>7 DEF RemoveObject
    <3>2. PICK m : m = [gc[g] EXCEPT !.dead = dead]
      OBVIOUS
    <3>3. m.auto = gc[g].auto /\ m.taken = gc[g].taken /\ m.phase = gc[g].phase
      BY <2>1, <3>2 DEF Collection
    <3>4. lease' = lease
      BY <2>7 DEF RemoveObject
    <3> QED
      BY <3>1, <3>2, <3>3, <3>4, SlotChange DEF LeaseStays
  <2>8. CASE EndCollection(g)
    <3>1. gc' = [gc EXCEPT ![g] = Free] /\ (lease' = lease \/ Release(g))
      BY <2>8 DEF EndCollection, Returned
    <3>2. lease' = lease \/ lease.owner = g
      BY <3>1 DEF Release
    <3>3. ~gc'[g].auto
      BY <1>1, <3>1
    <3> QED
      BY <3>1, <3>2, <3>3, SlotChange DEF LeaseStays
  <2>9. CASE CrashCollection(g)
    BY <2>9, SlotChange DEF CrashCollection, LeaseStays
  <2> QED
    BY <1>4, <2>2, <2>3, <2>4, <2>5, <2>6, <2>7, <2>8, <2>9
<1>5. (\E s \in SessionIds : EndSession(s)) \/ Tick => LeaseStays
  BY DEF EndSession, Tick, LeaseStays, GoesOn, LeaseInv
<1> QED
  BY <1>2, <1>3, <1>4, <1>5 DEF Next

\* While a collection has not outlived its lease, the lease cannot be had.
LEMMA LeaseTaken ==
  ASSUME LockDuration <= Interval, TypeOK, LeaseInv,
         NEW g \in Collectors, gc[g].auto, ~(gc[g].taken + LockDuration < now + TicksPerSecond)
  PROVE  ~LeaseFree
<1>1. /\ now \in Int /\ gc[g].taken \in Nat /\ LockDuration \in Nat /\ Interval \in Nat
      /\ TicksPerSecond \in Nat
  BY TimesAreNumbers DEF TypeOK, Collection, Units
<1>2. lease.attempt = gc[g].taken /\ lease.expires = gc[g].taken + LockDuration
  BY <1>1 DEF LeaseInv
<1>3. Before(now - Interval, lease.attempt)
  <2>1. now - Interval \in Int /\ gc[g].taken \in Int /\ ~(gc[g].taken < now - Interval + TicksPerSecond)
    BY <1>1
  <2> QED
    BY <1>2, <2>1, TextOrder
<1>4. Before(now, lease.expires)
  <2>1. gc[g].taken + LockDuration \in Int /\ ~(gc[g].taken + LockDuration < now + TicksPerSecond)
    BY <1>1
  <2> QED
    BY <1>1, <1>2, <2>1, TextOrder
<1> QED
  BY <1>1, <1>2, <1>3, <1>4 DEF LeaseFree, NoTime

LEMMA NextLeaseInv ==
  ASSUME LockDuration <= Interval, TypeOK, LeaseInv, Next
  PROVE  LeaseInv'
<1> SUFFICES ASSUME NEW h \in Collectors, gc'[h].auto
             PROVE  /\ gc'[h].phase # "free"
                    /\ gc'[h].taken <= now'
                    /\ \/ gc'[h].taken + LockDuration < now' + TicksPerSecond
                       \/ lease' = [owner |-> h, attempt |-> gc'[h].taken,
                                    expires |-> gc'[h].taken + LockDuration]
  BY DEF LeaseInv
<1>1. /\ now \in Int /\ now' \in Int /\ now' >= now /\ LockDuration \in Int
      /\ gc[h].taken \in Int /\ TicksPerSecond \in Int
  BY ClockStep, TimesAreNumbers DEF TypeOK, Collection, Units
<1>2. ASSUME GoesOn(h)
      PROVE  /\ gc[h].auto /\ gc'[h].taken = gc[h].taken /\ gc'[h].phase # "free"
             /\ gc'[h].taken <= now'
             /\ \/ gc'[h].taken + LockDuration < now' + TicksPerSecond
                \/ /\ ~(gc[h].taken + LockDuration < now + TicksPerSecond)
                   /\ lease = [owner |-> h, attempt |-> gc[h].taken,
                               expires |-> gc[h].taken + LockDuration]
  BY <1>1, <1>2 DEF GoesOn, LeaseInv
<1>3. CASE LeaseStays
  <2>1. lease = [owner |-> h, attempt |-> gc[h].taken, expires |-> gc[h].taken + LockDuration]
        => lease' = lease
    BY <1>3 DEF LeaseStays
  <2> QED
    BY <1>2, <1>3, <2>1 DEF LeaseStays
<1>4. ASSUME NEW g \in Collectors, Takes(g), h # g
      PROVE  gc'[h].taken + LockDuration < now' + TicksPerSecond /\ GoesOn(h)
  BY <1>2, <1>4, LeaseTaken DEF Takes
<1>5. ASSUME Takes(h)
      PROVE  /\ gc'[h].phase # "free" /\ gc'[h].taken = now
             /\ lease' = [owner |-> h, attempt |-> now, expires |-> now + LockDuration]
  BY <1>5 DEF Takes
<1> QED
  BY <1>1, <1>2, <1>3, <1>4, <1>5, LeaseStep

\* The strengthening of OneCollectorPerLease: it holds of every state.
THEOREM LeaseInvHolds ==
  ASSUME LockDuration <= Interval
  PROVE  Spec => []LeaseInv
<1>1. Init => LeaseInv
  BY DEF Init, LeaseInv, Free
<1>2. TypeOK /\ LeaseInv /\ [Next]_vars => LeaseInv'
  <2>1. UNCHANGED vars /\ LeaseInv => LeaseInv'
    BY DEF vars, LeaseInv
  <2> QED
    BY <2>1, NextLeaseInv
<1> QED
  BY <1>1, <1>2, SnapshotStoreTypeCorrect, PTL DEF Spec

\* If the lease is no longer than the interval between two attempts, two
\* automatic collections are under way only when one has outlived its lease or is
\* in its last second: TryAcquireMaintenance gives the lease to one start, and no
\* failed or crashed start or collection, nor a release by an earlier owner, lets
\* a second one in.
THEOREM OneCollector ==
  ASSUME LockDuration <= Interval
  PROVE  Spec => []OneCollectorPerLease
<1>1. LeaseInv => OneCollectorPerLease
  <2> SUFFICES ASSUME LeaseInv, NEW g \in Collectors, NEW h \in Collectors,
                      g # h, gc[g].auto, gc[h].auto
               PROVE  \/ gc[g].taken + LockDuration < now + TicksPerSecond
                      \/ gc[h].taken + LockDuration < now + TicksPerSecond
    BY DEF OneCollectorPerLease
  <2> QED
    BY DEF LeaseInv
<1> QED
  BY <1>1, LeaseInvHolds, PTL

-----------------------------------------------------------------------------
\* The objects.  What a step does to them, one operator per kind of step.

\* Only a call that writes has objects to write or one in a temporary file.
CallsTidy ==
    \A c \in Callers :
        /\ ~Writing(c) => call[c].todo = {}
        /\ call[c].temp # Nobody => call[c].phase = "write" /\ call[c].temp \in call[c].todo

StartOnly(c) ==
    /\ gc' = gc /\ orphans' = orphans
    /\ \A d \in Callers \ {c} : call'[d] = call[d]
    /\ call'[c].sid = call[c].sid

CollectionOnly(g) ==
    /\ call' = call /\ orphans' = orphans
    /\ \A h \in Collectors \ {g} : gc'[h] = gc[h]

\* Nothing of the store: calls and collections go on, give up or die.  A start
\* that dies may leave its temporary file.
Quiet ==
    /\ dir' = dir /\ files' = files /\ objects' = objects /\ raced' = raced
    /\ \A c \in Callers :
          \/ call'[c] = call[c]
          \/ /\ call'[c].phase \notin {"write", "insert"}
             /\ call'[c].todo = {} /\ call'[c].temp = Nobody
    /\ \A g \in Collectors : gc'[g] = gc[g] \/ gc'[g].phase \notin Sweeping
    /\ \/ orphans' = orphans
       \/ \E c \in Callers : /\ call[c].temp # Nobody /\ call'[c].todo = {}
                             /\ orphans' = orphans + 1

Enters(c, want) ==
    /\ StartOnly(c) /\ Fits(want)
    /\ call[c].phase \in {"quota", "retry"}
    /\ call'[c].phase = "write" /\ call'[c].todo = want /\ call'[c].temp = Nobody
    /\ dir' = [dir EXCEPT ![call[c].sid] = "bare"]
    /\ files' = [files EXCEPT ![call[c].sid] = want]
    /\ objects' = objects
    /\ raced \subseteq raced'
    /\ (\E g \in Collectors : gc[g].phase \in Sweeping) => call[c].sid \in raced'

Writes(c) ==
    /\ StartOnly(c) /\ dir' = dir /\ files' = files /\ raced' = raced
    /\ call[c].phase = "write" /\ call'[c].phase = "write"

Skips(c, h) ==
    /\ Writes(c) /\ h \in objects /\ objects' = objects
    /\ call'[c].todo = call[c].todo \ {h} /\ call[c].temp = Nobody /\ call'[c].temp = Nobody

Opens(c, h) ==
    /\ Writes(c) /\ h \in call[c].todo \ objects /\ objects' = objects
    /\ call'[c].todo = call[c].todo /\ call'[c].temp = h

Renames(c, h) ==
    /\ Writes(c) /\ h = call[c].temp /\ h \in call[c].todo /\ objects' = objects \cup {h}
    /\ call'[c].todo = call[c].todo \ {h} /\ call'[c].temp = Nobody

Seals(c) ==
    /\ StartOnly(c) /\ call[c].phase = "write" /\ call'[c].phase = "insert"
    /\ call[c].todo = {} /\ call'[c].todo = {} /\ call'[c].temp = Nobody
    /\ dir' = [dir EXCEPT ![call[c].sid] = "full"]
    /\ files' = files /\ objects' = objects /\ raced' = raced

Reads(g) ==
    /\ CollectionOnly(g) /\ dir' = dir /\ files' = files /\ objects' = objects
    /\ gc'[g].phase = "objects"
    /\ \A s \in SessionIds : dir[s] = "full" => s \in gc'[g].ids \/ files[s] \subseteq gc'[g].keep
    /\ raced \subseteq raced'
    /\ \A c \in Callers : Writing(c) => call[c].sid \in raced'

Sweeps(g) ==
    /\ CollectionOnly(g) /\ raced' = raced
    /\ gc[g].phase \in Sweeping /\ gc'[g].keep = gc[g].keep

Lists(g) ==
    /\ Sweeps(g) /\ dir' = dir /\ files' = files /\ objects' = objects
    /\ gc'[g].phase = "dirs" /\ gc'[g].ids = gc[g].ids
    /\ gc'[g].dead = objects \ gc[g].keep

\* The manifest of s, or the rest of its directory.
Unlinks(g, s) ==
    /\ Sweeps(g) /\ objects' = objects /\ s \in gc[g].ids
    /\ gc[g].phase = "dirs" /\ gc'[g].phase = "dirs" /\ gc'[g].dead = gc[g].dead
    /\ \A t \in SessionIds \ {s} : dir'[t] = dir[t] /\ files'[t] = files[t]
    /\ dir'[s] # "full"
    /\ gc'[g].ids = gc[g].ids \/ gc'[g].ids = gc[g].ids \ {s}

Unlinked(g) ==
    /\ Sweeps(g) /\ dir' = dir /\ files' = files /\ objects' = objects
    /\ gc[g].phase = "dirs" /\ gc'[g].phase = "delete" /\ gc'[g].dead = gc[g].dead
    /\ gc[g].ids = {} /\ gc'[g].ids = {}

Deletes(g, h) ==
    /\ Sweeps(g) /\ dir' = dir /\ files' = files
    /\ gc[g].phase = "delete" /\ gc'[g].phase = "delete" /\ gc'[g].ids = gc[g].ids
    /\ h \in gc[g].dead /\ objects' = objects \ {h} /\ gc'[g].dead = gc[g].dead \ {h}

StartStep(c) ==
    \/ \E want \in SUBSET Hashes : Enters(c, want)
    \/ \E h \in Hashes : Skips(c, h) \/ Opens(c, h) \/ Renames(c, h)
    \/ Seals(c)

CollectionStep(g) ==
    \/ Reads(g) \/ Lists(g) \/ Unlinked(g)
    \/ \E s \in SessionIds : Unlinks(g, s)
    \/ \E h \in Hashes : Deletes(g, h)

LEMMA SlotQuiet ==
  ASSUME TypeOK, NEW g \in Collectors
  PROVE  /\ \A m : gc' = [gc EXCEPT ![g] = m] /\ m.phase \notin Sweeping
                   => \A h \in Collectors : gc'[h] = gc[h] \/ gc'[h].phase \notin Sweeping
         /\ \A p : /\ gc' = [gc EXCEPT ![g].phase = p] \/ Over(g, p)
                   /\ p \notin Sweeping
                   => \A h \in Collectors : gc'[h] = gc[h] \/ gc'[h].phase \notin Sweeping
         /\ gc' = gc \/ gc' = [gc EXCEPT ![g] = Free]
            => \A h \in Collectors : gc'[h] = gc[h] \/ gc'[h].phase \notin Sweeping
<1>1. gc \in [Collectors -> Collection] /\ Free.phase \notin Sweeping
  BY DEF TypeOK, Free, Sweeping
<1>2. \A p : gc' = [gc EXCEPT ![g].phase = p] => gc'[g].phase = p
  BY <1>1 DEF Collection
<1>3. \A p : Over(g, p) => gc'[g].phase = p /\ \A h \in Collectors \ {g} : gc'[h] = gc[h]
  BY <1>1 DEF Over, Free
<1> QED
  BY <1>1, <1>2, <1>3

LEMMA StartObjectsStep ==
  ASSUME TypeOK, CallsTidy, NEW c \in Callers,
         \/ CheckQuota(c) \/ WriteObject(c) \/ RenameObject(c) \/ WriteManifest(c)
         \/ InsertRow(c) \/ StartFails(c) \/ CrashStart(c)
         \/ \E s \in SessionIds : BeginStart(c, s)
  PROVE  Quiet \/ StartStep(c)
<1> DEFINE k == call[c]
<1>1. /\ call \in [Callers -> Call] /\ gc \in [Collectors -> Collection]
      /\ k \in Call /\ k.todo \in SUBSET Hashes
      /\ k.gc # Nobody => k.gc \in Collectors
  BY CallFields DEF TypeOK
<1>2. Idle.phase = "idle" /\ Idle.todo = {} /\ Idle.temp = Nobody
  BY DEF Idle
<1>3. ASSUME NEW k2, call' = [call EXCEPT ![c] = k2]
      PROVE  call'[c] = k2 /\ \A d \in Callers \ {c} : call'[d] = call[d]
  BY <1>1, <1>3
<1>4. ASSUME NEW k2, call' = [call EXCEPT ![c] = k2], k2.phase \notin {"write", "insert"},
             k2.todo = {}, k2.temp = Nobody
      PROVE  \A d \in Callers :
               \/ call'[d] = call[d]
               \/ /\ call'[d].phase \notin {"write", "insert"}
                  /\ call'[d].todo = {} /\ call'[d].temp = Nobody
  BY <1>3, <1>4
<1>5. ASSUME \/ gc' = gc \/ gc' = Dropped(c)
             \/ k.gc \in Collectors /\ gc' = [gc EXCEPT ![k.gc].phase = "query"]
      PROVE  \A g \in Collectors : gc'[g] = gc[g] \/ gc'[g].phase \notin Sweeping
  <2>1. "query" \notin Sweeping
    BY DEF Sweeping
  <2> QED
    BY <1>1, <1>5, <2>1, SlotQuiet DEF Dropped
<1>6. ASSUME NEW s \in SessionIds, BeginStart(c, s) PROVE Quiet
  <2>1. \/ /\ gc' = gc
           /\ call' = [call EXCEPT ![c] = [Idle EXCEPT !.phase = "quota", !.sid = s]]
        \/ \E g \in Collectors :
             /\ gc' = [gc EXCEPT ![g] = [Free EXCEPT !.phase = "held", !.auto = TRUE, !.taken = now]]
             /\ call' = [call EXCEPT ![c] = [Idle EXCEPT !.phase = "quota", !.sid = s, !.gc = g]]
    BY <1>6 DEF BeginStart
  <2>2. \A g : LET k2 == [Idle EXCEPT !.phase = "quota", !.sid = s, !.gc = g]
               IN k2.phase = "quota" /\ k2.todo = {} /\ k2.temp = Nobody
    BY DEF Idle
  <2>3. LET k2 == [Idle EXCEPT !.phase = "quota", !.sid = s]
        IN k2.phase = "quota" /\ k2.todo = {} /\ k2.temp = Nobody
    BY DEF Idle
  <2>4. LET m == [Free EXCEPT !.phase = "held", !.auto = TRUE, !.taken = now]
        IN m.phase \notin Sweeping
    BY DEF Free, Sweeping
  <2>5. \A g \in Collectors : gc'[g] = gc[g] \/ gc'[g].phase \notin Sweeping
    BY <1>5, <2>1, <2>4, SlotQuiet
  <2>6. PICK k2 : /\ call' = [call EXCEPT ![c] = k2]
                  /\ k2.phase = "quota" /\ k2.todo = {} /\ k2.temp = Nobody
    BY <2>1, <2>2, <2>3
  <2>7. \A d \in Callers : \/ call'[d] = call[d]
                           \/ /\ call'[d].phase \notin {"write", "insert"}
                              /\ call'[d].todo = {} /\ call'[d].temp = Nobody
    BY <1>4, <2>6
  <2> QED
    BY <1>6, <2>5, <2>7 DEF BeginStart, store, Quiet
<1>7. ASSUME CheckQuota(c) PROVE Quiet \/ StartStep(c)
  <2>1. k.phase \in {"quota", "retry"} /\ k.todo = {} /\ k.temp = Nobody
    BY <1>7 DEF CheckQuota, CallsTidy, Writing
  <2>2. PICK want \in SUBSET Hashes :
          \/ /\ Fits(want) /\ gc' = gc
             /\ call' = [call EXCEPT ![c] = [k EXCEPT !.phase = "write", !.todo = want]]
             /\ dir' = [dir EXCEPT ![k.sid] = "bare"]
             /\ files' = [files EXCEPT ![k.sid] = want]
             /\ raced' = IF \E g \in Collectors : gc[g].phase \in Sweeping
                         THEN raced \cup {k.sid} ELSE raced
          \/ /\ k.gc # Nobody
             /\ call' = [call EXCEPT ![c] = [k EXCEPT !.phase = "gc"]]
             /\ gc' = [gc EXCEPT ![k.gc].phase = "query"]
             /\ dir' = dir /\ files' = files /\ raced' = raced
          \/ /\ call' = [call EXCEPT ![c] = Idle]
             /\ dir' = dir /\ files' = files /\ raced' = raced /\ gc' = gc
    BY <1>1, <1>7 DEF CheckQuota
  <2>3. PICK w, q : w = [k EXCEPT !.phase = "write", !.todo = want] /\ q = [k EXCEPT !.phase = "gc"]
    OBVIOUS
  <2>4. /\ w.phase = "write" /\ w.todo = want /\ w.temp = Nobody /\ w.sid = k.sid
        /\ q.phase = "gc" /\ q.todo = {} /\ q.temp = Nobody
    BY <1>1, <2>1, <2>3 DEF Call
  <2>5. objects' = objects /\ orphans' = orphans
    BY <1>7 DEF CheckQuota
  <2>6. CASE call' = [call EXCEPT ![c] = w] /\ Fits(want) /\ gc' = gc
             /\ dir' = [dir EXCEPT ![k.sid] = "bare"]
             /\ files' = [files EXCEPT ![k.sid] = want]
             /\ raced' = IF \E g \in Collectors : gc[g].phase \in Sweeping
                         THEN raced \cup {k.sid} ELSE raced
    <3>1. Enters(c, want)
      BY <1>3, <2>1, <2>4, <2>5, <2>6 DEF Enters, StartOnly
    <3> QED
      BY <3>1 DEF StartStep
  <2>7. CASE call' = [call EXCEPT ![c] = q] /\ k.gc # Nobody
             /\ gc' = [gc EXCEPT ![k.gc].phase = "query"]
             /\ dir' = dir /\ files' = files /\ raced' = raced
    BY <1>1, <1>4, <1>5, <2>4, <2>5, <2>7 DEF Quiet
  <2>8. CASE call' = [call EXCEPT ![c] = Idle] /\ gc' = gc
             /\ dir' = dir /\ files' = files /\ raced' = raced
    BY <1>2, <1>4, <1>5, <2>5, <2>8 DEF Quiet
  <2> QED
    BY <2>2, <2>3, <2>6, <2>7, <2>8
<1>8. ASSUME WriteObject(c) PROVE StartStep(c)
  <2>1. PICK h \in k.todo :
          \/ h \in objects /\ call' = [call EXCEPT ![c] = [k EXCEPT !.todo = k.todo \ {h}]]
          \/ h \notin objects /\ call' = [call EXCEPT ![c] = [k EXCEPT !.temp = h]]
    BY <1>8 DEF WriteObject
  <2>2. PICK w, q : w = [k EXCEPT !.todo = k.todo \ {h}] /\ q = [k EXCEPT !.temp = h]
    OBVIOUS
  <2>3. k.phase = "write" /\ k.temp = Nobody
    BY <1>8 DEF WriteObject
  <2>4. /\ w.phase = "write" /\ w.todo = k.todo \ {h} /\ w.temp = Nobody /\ w.sid = k.sid
        /\ q.phase = "write" /\ q.todo = k.todo /\ q.temp = h /\ q.sid = k.sid
    BY <1>1, <2>2, <2>3 DEF Call
  <2>5. objects' = objects /\ orphans' = orphans /\ dir' = dir /\ files' = files /\ raced' = raced
        /\ gc' = gc
    BY <1>8 DEF WriteObject, store
  <2>6. h \in Hashes
    BY <1>1, <2>1
  <2>7. CASE h \in objects /\ call' = [call EXCEPT ![c] = w]
    <3>1. Skips(c, h)
      BY <1>3, <2>3, <2>4, <2>5, <2>7 DEF Skips, Writes, StartOnly
    <3> QED
      BY <2>6, <3>1 DEF StartStep
  <2>8. CASE h \notin objects /\ call' = [call EXCEPT ![c] = q]
    <3>1. Opens(c, h)
      BY <1>3, <2>1, <2>3, <2>4, <2>5, <2>8 DEF Opens, Writes, StartOnly
    <3> QED
      BY <2>6, <3>1 DEF StartStep
  <2> QED
    BY <2>1, <2>2, <2>7, <2>8
<1>9. ASSUME RenameObject(c) PROVE StartStep(c)
  <2>1. k.temp # Nobody /\ k.phase = "write" /\ k.temp \in k.todo /\ k.temp \in Hashes
    BY <1>1, <1>9 DEF RenameObject, CallsTidy
  <2>2. PICK w : w = [k EXCEPT !.todo = k.todo \ {k.temp}, !.temp = Nobody]
    OBVIOUS
  <2>3. w.phase = "write" /\ w.todo = k.todo \ {k.temp} /\ w.temp = Nobody /\ w.sid = k.sid
    BY <1>1, <2>1, <2>2 DEF Call
  <2>4. call' = [call EXCEPT ![c] = w]
    BY <1>9, <2>2 DEF RenameObject
  <2>5. Renames(c, k.temp)
    BY <1>3, <1>9, <2>1, <2>3, <2>4 DEF RenameObject, Renames, Writes, StartOnly
  <2> QED
    BY <2>1, <2>5 DEF StartStep
<1>10. ASSUME WriteManifest(c) PROVE StartStep(c)
  <2>1. PICK w : w = [k EXCEPT !.phase = "insert"]
    OBVIOUS
  <2>2. k.phase = "write" /\ k.todo = {} /\ k.temp = Nobody
    BY <1>10 DEF WriteManifest, CallsTidy
  <2>3. w.phase = "insert" /\ w.todo = {} /\ w.temp = Nobody /\ w.sid = k.sid
    BY <1>1, <2>1, <2>2 DEF Call
  <2>4. call' = [call EXCEPT ![c] = w]
    BY <1>10, <2>1 DEF WriteManifest
  <2>5. Seals(c)
    BY <1>3, <1>10, <2>2, <2>3, <2>4 DEF WriteManifest, Seals, StartOnly
  <2> QED
    BY <2>5 DEF StartStep
<1>11. ASSUME InsertRow(c) PROVE Quiet
  BY <1>1, <1>2, <1>4, <1>5, <1>11 DEF InsertRow, store, Quiet
<1>12. ASSUME StartFails(c) PROVE Quiet
  BY <1>2, <1>4, <1>5, <1>12 DEF StartFails, store, Quiet
<1>13. ASSUME CrashStart(c) PROVE Quiet
  <2>1. call'[c].todo = {} /\ call' = [call EXCEPT ![c] = Idle]
    BY <1>2, <1>3, <1>13 DEF CrashStart
  <2>2. \/ orphans' = orphans
        \/ k.temp # Nobody /\ orphans' = orphans + 1
    BY <1>13 DEF CrashStart
  <2> QED
    BY <1>2, <1>4, <1>5, <1>13, <2>1, <2>2 DEF CrashStart, Quiet
<1> QED
  BY <1>6, <1>7, <1>8, <1>9, <1>10, <1>11, <1>12, <1>13

LEMMA CollectionObjectsStep ==
  ASSUME TypeOK, CallsTidy, NEW g \in Collectors,
         \/ CliCollect(g) \/ Query(g) \/ ReadManifests(g) \/ ListObjects(g)
         \/ RemoveSnapshot(g) \/ RemoveObject(g) \/ EndCollection(g) \/ CrashCollection(g)
  PROVE  Quiet \/ CollectionStep(g)
<1> DEFINE k == gc[g]
<1>1. /\ call \in [Callers -> Call] /\ gc \in [Collectors -> Collection]
      /\ k \in Collection /\ k.ids \subseteq SessionIds /\ k.dead \subseteq Hashes
      /\ dir \in [SessionIds -> {"none", "bare", "full"}] /\ files \in [SessionIds -> SUBSET Hashes]
  BY CollectionFields DEF TypeOK
<1>2. ASSUME NEW m, gc' = [gc EXCEPT ![g] = m]
      PROVE  gc'[g] = m /\ \A h \in Collectors \ {g} : gc'[h] = gc[h]
  BY <1>1, <1>2
<1>3. /\ "query" \notin Sweeping /\ "manifests" \notin Sweeping /\ "done" \notin Sweeping
      /\ "failed" \notin Sweeping
  BY DEF Sweeping
<1>4. ASSUME call' = call, orphans' = orphans, dir' = dir, files' = files, objects' = objects,
             raced' = raced,
             \A h \in Collectors : gc'[h] = gc[h] \/ gc'[h].phase \notin Sweeping
      PROVE  Quiet
  BY <1>4 DEF Quiet
<1>5. ASSUME CliCollect(g) PROVE Quiet
  BY <1>3, <1>4, <1>5, SlotQuiet DEF CliCollect, store
<1>6. ASSUME Query(g) PROVE Quiet
  <2>1. PICK ids : \E p \in {"done", "manifests"} :
          \/ Over(g, "failed")
          \/ gc' = [gc EXCEPT ![g] = [k EXCEPT !.ids = ids, !.phase = p]]
    BY <1>6, QueryStep
  <2>2. PICK p \in {"done", "manifests"} :
          \/ Over(g, "failed")
          \/ gc' = [gc EXCEPT ![g] = [k EXCEPT !.ids = ids, !.phase = p]]
    BY <2>1
  <2>3. PICK m : m = [k EXCEPT !.ids = ids, !.phase = p]
    OBVIOUS
  <2>4. m.phase = p
    BY <1>1, <2>3 DEF Collection
  <2>5. \A h \in Collectors : gc'[h] = gc[h] \/ gc'[h].phase \notin Sweeping
    <3>1. Over(g, "failed") \/ gc' = [gc EXCEPT ![g] = m]
      BY <2>2, <2>3
    <3> QED
      BY <1>3, <2>4, <3>1, SlotQuiet
  <2>6. UNCHANGED <<call, orphans, dir, files, objects, raced>>
    BY <1>6 DEF Query, store
  <2> QED
    BY <1>4, <2>5, <2>6
<1>7. ASSUME ReadManifests(g) PROVE Quiet \/ Reads(g)
  <2>1. CASE Over(g, "failed") /\ raced' = raced
    BY <1>3, <1>4, <1>7, <2>1, SlotQuiet DEF ReadManifests, store
  <2>2. CASE ~(Over(g, "failed") /\ raced' = raced)
    <3> DEFINE full == {s \in SessionIds : dir[s] = "full"}
               x == full \cap k.ids
               y == UNION {files[s] : s \in full \ k.ids}
    <3>1. PICK m : m = [k EXCEPT !.phase = "objects", !.ids = x, !.keep = y]
      OBVIOUS
    <3>2. gc' = [gc EXCEPT ![g] = m]
      BY <1>7, <2>2, <3>1 DEF ReadManifests
    <3>3. m.phase = "objects" /\ m.ids = x /\ m.keep = y
      BY <1>1, <3>1 DEF Collection
    <3>4. \A s \in SessionIds : dir[s] = "full" => s \in x \/ files[s] \subseteq y
      OBVIOUS
    <3>5. raced' = raced \cup {call[c].sid : c \in {d \in Callers : Writing(d)}}
      BY <1>7, <2>2 DEF ReadManifests
    <3>6. raced \subseteq raced' /\ \A c \in Callers : Writing(c) => call[c].sid \in raced'
      BY <3>5
    <3> HIDE DEF full, x, y
    <3>7. CollectionOnly(g) /\ dir' = dir /\ files' = files /\ objects' = objects
      BY <1>2, <1>7, <3>2 DEF ReadManifests, store, CollectionOnly
    <3>8. gc'[g] = m
      BY <1>2, <3>2
    <3> QED
      BY <3>3, <3>4, <3>6, <3>7, <3>8 DEF Reads
  <2> QED
    BY <2>1, <2>2
<1>8. ASSUME ListObjects(g) PROVE Quiet \/ Lists(g)
  <2>1. CASE Over(g, "failed")
    BY <1>3, <1>4, <1>8, <2>1, SlotQuiet DEF ListObjects, store
  <2>2. CASE ~Over(g, "failed")
    <3>1. PICK m : m = [k EXCEPT !.phase = "dirs", !.dead = objects \ k.keep,
                                 !.unsafe = orphans > 0 \/ Temporaries # {}]
      OBVIOUS
    <3>2. gc' = [gc EXCEPT ![g] = m]
      BY <1>8, <2>2, <3>1 DEF ListObjects
    <3>3. m.phase = "dirs" /\ m.ids = k.ids /\ m.keep = k.keep /\ m.dead = objects \ k.keep
      BY <1>1, <3>1 DEF Collection
    <3>4. k.phase \in Sweeping
      BY <1>8 DEF ListObjects, Sweeping
    <3> QED
      BY <1>2, <1>8, <3>2, <3>3, <3>4 DEF ListObjects, store, Lists, Sweeps, CollectionOnly
  <2> QED
    BY <2>1, <2>2
<1>9. ASSUME RemoveSnapshot(g) PROVE CollectionStep(g)
  <2>1. k.phase = "dirs" /\ k.phase \in Sweeping /\ call' = call /\ orphans' = orphans
        /\ raced' = raced /\ objects' = objects
    BY <1>9 DEF RemoveSnapshot, Sweeping
  <2>2. CASE k.ids = {} /\ gc' = [gc EXCEPT ![g].phase = "delete"] /\ dir' = dir /\ files' = files
    <3>1. PICK m : m = [k EXCEPT !.phase = "delete"]
      OBVIOUS
    <3>2. m.phase = "delete" /\ m.ids = k.ids /\ m.keep = k.keep /\ m.dead = k.dead
      BY <1>1, <3>1 DEF Collection
    <3>3. gc' = [gc EXCEPT ![g] = m]
      BY <2>2, <3>1
    <3>4. Unlinked(g)
      BY <1>2, <2>1, <2>2, <3>2, <3>3 DEF Unlinked, Sweeps, CollectionOnly
    <3> QED
      BY <3>4 DEF CollectionStep
  <2>3. ASSUME NEW s \in k.ids,
               dir' = [dir EXCEPT ![s] = IF dir[s] = "full" THEN "bare" ELSE "none"],
               files' = [files EXCEPT ![s] = IF dir[s] = "full" THEN @ ELSE {}],
               gc' = IF dir[s] = "full" THEN gc ELSE [gc EXCEPT ![g] = [k EXCEPT !.ids = k.ids \ {s}]]
        PROVE  CollectionStep(g)
    <3>1. s \in SessionIds
      BY <1>1
    <3>2. PICK m : m = [k EXCEPT !.ids = k.ids \ {s}]
      OBVIOUS
    <3>3. m.phase = k.phase /\ m.ids = k.ids \ {s} /\ m.keep = k.keep /\ m.dead = k.dead
      BY <1>1, <3>2 DEF Collection
    <3>4. \/ gc'[g] = k \/ gc'[g] = m
      BY <1>1, <2>3, <3>2
    <3>5. \A h \in Collectors \ {g} : gc'[h] = gc[h]
      BY <1>1, <2>3
    <3>6. /\ \A t \in SessionIds \ {s} : dir'[t] = dir[t] /\ files'[t] = files[t]
          /\ dir'[s] # "full"
      BY <1>1, <2>3, <3>1
    <3>7. Unlinks(g, s)
      BY <2>1, <3>3, <3>4, <3>5, <3>6 DEF Unlinks, Sweeps, CollectionOnly
    <3> QED
      BY <3>1, <3>7 DEF CollectionStep
  <2> QED
    BY <1>9, <2>2, <2>3 DEF RemoveSnapshot, Phase
<1>10. ASSUME RemoveObject(g) PROVE Quiet \/ CollectionStep(g)
  <2>1. CASE (Over(g, "failed") \/ Over(g, "done")) /\ objects' = objects
    <3>1. \A h \in Collectors : gc'[h] = gc[h] \/ gc'[h].phase \notin Sweeping
      BY <1>3, <2>1, SlotQuiet
    <3> QED
      BY <1>4, <1>10, <2>1, <3>1 DEF RemoveObject
  <2>2. ASSUME NEW h \in k.dead, objects' = objects \ {h},
               gc' = [gc EXCEPT ![g] = [k EXCEPT !.dead = k.dead \ {h}]]
        PROVE  CollectionStep(g)
    <3>1. PICK m : m = [k EXCEPT !.dead = k.dead \ {h}]
      OBVIOUS
    <3>2. m.phase = k.phase /\ m.ids = k.ids /\ m.keep = k.keep /\ m.dead = k.dead \ {h}
      BY <1>1, <3>1 DEF Collection
    <3>3. gc' = [gc EXCEPT ![g] = m]
      BY <2>2, <3>1
    <3>4. k.phase = "delete" /\ k.phase \in Sweeping
      BY <1>10 DEF RemoveObject, Sweeping
    <3>5. Deletes(g, h)
      BY <1>2, <1>10, <2>2, <3>2, <3>3, <3>4 DEF RemoveObject, Deletes, Sweeps, CollectionOnly
    <3>6. h \in Hashes
      BY <1>1
    <3> QED
      BY <3>5, <3>6 DEF CollectionStep
  <2> QED
    BY <1>10, <2>1, <2>2 DEF RemoveObject
<1>11. ASSUME EndCollection(g) PROVE Quiet
  <2>1. PICK ok \in BOOLEAN : Returned(g, ok)
    BY <1>11 DEF EndCollection
  <2>2. \A h \in Collectors : gc'[h] = gc[h] \/ gc'[h].phase \notin Sweeping
    BY <2>1, SlotQuiet DEF Returned
  <2>3. ASSUME NEW c \in Callers
        PROVE  \/ call'[c] = call[c]
               \/ /\ call'[c].phase \notin {"write", "insert"}
                  /\ call'[c].todo = {} /\ call'[c].temp = Nobody
    <3>1. \/ call'[c] = call[c] \/ call'[c] = Idle
          \/ call[c].phase = "gc" /\ call'[c] = [call[c] EXCEPT !.phase = "retry", !.gc = Nobody]
      BY <2>1 DEF Returned
    <3>2. call[c].phase = "gc" => call[c].todo = {} /\ call[c].temp = Nobody
      BY DEF CallsTidy, Writing
    <3>3. PICK w : w = [call[c] EXCEPT !.phase = "retry", !.gc = Nobody]
      OBVIOUS
    <3>4. w.phase = "retry" /\ w.todo = call[c].todo /\ w.temp = call[c].temp
      BY <1>1, <3>3 DEF Call
    <3>5. Idle.phase = "idle" /\ Idle.todo = {} /\ Idle.temp = Nobody
      BY DEF Idle
    <3> QED
      BY <3>1, <3>2, <3>3, <3>4, <3>5
  <2> QED
    BY <1>11, <2>2, <2>3 DEF EndCollection, store, Quiet
<1>12. ASSUME CrashCollection(g) PROVE Quiet
  BY <1>4, <1>12, SlotQuiet DEF CrashCollection, store
<1> QED
  BY <1>5, <1>6, <1>7, <1>8, <1>9, <1>10, <1>11, <1>12 DEF CollectionStep

LEMMA ObjectsStep ==
  ASSUME TypeOK, CallsTidy, Next
  PROVE  Quiet \/ (\E c \in Callers : StartStep(c)) \/ \E g \in Collectors : CollectionStep(g)
<1>1. (\E s \in SessionIds : EndSession(s)) \/ Tick => Quiet
  BY DEF EndSession, Tick, store, Quiet
<1> QED
  BY <1>1, StartObjectsStep, CollectionObjectsStep DEF Next

-----------------------------------------------------------------------------
\* What is under way.  A collection that sweeps has listed the manifests: the
\* starts that write since are raced, so what it removes belongs to no
\* manifest but theirs.

\* No start writes unseen by a collection that sweeps.
WritersAreRaced ==
    \A g \in Collectors, c \in Callers :
        gc[g].phase \in Sweeping /\ Writing(c) => call[c].sid \in raced

\* A start has written all that it does not still have to look at.
WrittenIsThere ==
    \A c \in Callers : Writing(c) /\ call[c].sid \notin raced =>
        files[call[c].sid] \ call[c].todo \subseteq objects

CandidatesHaveEnded ==
    \A g \in Collectors : \A s \in gc[g].ids : row[s].state \in {"ended", "expired"}

\* A manifest that is there is one to be removed, or its objects are kept.
KeptOrRemoved ==
    \A g \in Collectors : gc[g].phase \in Sweeping =>
        \A s \in SessionIds \ raced :
            dir[s] = "full" => s \in gc[g].ids \/ files[s] \subseteq gc[g].keep

\* Manifests go before objects, and no object of a kept manifest goes.
DeletesLast ==
    \A g \in Collectors :
        /\ gc[g].phase \in {"dirs", "delete"} => gc[g].dead \cap gc[g].keep = {}
        /\ gc[g].phase = "delete" => gc[g].ids = {}

\* With no start since, every object is kept or to be removed.
ObjectsKnown ==
    raced = {} => \A g \in Collectors :
        gc[g].phase \in {"dirs", "delete"} => objects \subseteq gc[g].keep \cup gc[g].dead

LEMMA NextCallsTidy == TypeOK /\ CallsTidy /\ Next => CallsTidy'
<1> SUFFICES ASSUME TypeOK, CallsTidy, Next, NEW d \in Callers
             PROVE  /\ ~Writing(d)' => call'[d].todo = {}
                    /\ call'[d].temp # Nobody
                       => call'[d].phase = "write" /\ call'[d].temp \in call'[d].todo
  BY DEF CallsTidy
<1>1. /\ ~Writing(d) => call[d].todo = {}
      /\ call[d].temp # Nobody => call[d].phase = "write" /\ call[d].temp \in call[d].todo
  BY DEF CallsTidy
<1>2. CASE call'[d] = call[d]
  BY <1>1, <1>2 DEF Writing
<1>3. CASE Quiet
  BY <1>2, <1>3 DEF Quiet
<1>4. ASSUME NEW c \in Callers, StartStep(c), c # d PROVE call'[d] = call[d]
  BY <1>4 DEF StartStep, Enters, Skips, Opens, Renames, Writes, Seals, StartOnly
<1>5. CASE StartStep(d)
  BY <1>5 DEF StartStep, Enters, Skips, Opens, Renames, Writes, Seals, Writing
<1>6. ASSUME NEW g \in Collectors, CollectionStep(g) PROVE call' = call
  BY <1>6 DEF CollectionStep, Reads, Lists, Unlinked, Unlinks, Deletes, Sweeps, CollectionOnly
<1> QED
  BY <1>2, <1>3, <1>4, <1>5, <1>6, ObjectsStep

LEMMA NextCandidatesHaveEnded ==
  ASSUME TypeOK, CallsApart, CandidatesHaveEnded, Next
  PROVE  CandidatesHaveEnded'
<1> SUFFICES ASSUME NEW g \in Collectors, NEW s \in gc'[g].ids
             PROVE  row'[s].state \in {"ended", "expired"}
  BY DEF CandidatesHaveEnded
<1>1. s \in SessionIds /\ row[s].state \in {"ended", "expired"}
  <2>1. gc[g].ids \subseteq SessionIds
    BY DEF TypeOK, Collection
  <2>2. \A auto, age :
          Candidates(auto, age) \subseteq {t \in SessionIds : row[t].state \in {"ended", "expired"}}
    BY DEF Candidates, TerminalBefore, LeaseExpiredBefore
  <2> QED
    BY <2>1, <2>2, CandidatesStep DEF CandidatesHaveEnded
<1>2. \A c \in Callers : ~(call[c].phase = "insert" /\ call[c].sid = s)
  BY <1>1 DEF CallsApart
<1> QED
  BY <1>1, <1>2, RowStep

\* Only a reading or entering step makes a session raced; none stops being so.
LEMMA RacedStep ==
  ASSUME TypeOK, CallsTidy, Next
  PROVE  raced \subseteq raced'
<1>1. ASSUME NEW c \in Callers, StartStep(c) PROVE raced \subseteq raced'
  BY <1>1 DEF StartStep, Enters, Skips, Opens, Renames, Writes, Seals
<1>2. ASSUME NEW g \in Collectors, CollectionStep(g) PROVE raced \subseteq raced'
  BY <1>2 DEF CollectionStep, Reads, Lists, Unlinked, Unlinks, Deletes, Sweeps
<1> QED
  BY <1>1, <1>2, ObjectsStep DEF Quiet

\* A call that writes afterwards wrote before, or enters.
LEMMA WritingStep ==
  ASSUME TypeOK, CallsTidy, Next, NEW c \in Callers, Writing(c)'
  PROVE  \/ Writing(c) /\ call'[c].sid = call[c].sid
         \/ \E want \in SUBSET Hashes : Enters(c, want)
<1>1. ASSUME NEW d \in Callers, StartStep(d), c # d PROVE call'[c] = call[c]
  BY <1>1 DEF StartStep, Enters, Skips, Opens, Renames, Writes, Seals, StartOnly
<1>2. CASE StartStep(c)
  BY <1>2 DEF StartStep, Skips, Opens, Renames, Writes, Seals, StartOnly, Writing
<1>3. ASSUME NEW g \in Collectors, CollectionStep(g) PROVE call' = call
  BY <1>3 DEF CollectionStep, Reads, Lists, Unlinked, Unlinks, Deletes, Sweeps, CollectionOnly
<1> QED
  BY <1>1, <1>2, <1>3, ObjectsStep DEF Quiet, Writing

\* A collection that sweeps afterwards swept before, or reads the manifests.
LEMMA SweepingStep ==
  ASSUME TypeOK, CallsTidy, Next, NEW g \in Collectors, gc'[g].phase \in Sweeping
  PROVE  \/ gc[g].phase \in Sweeping /\ gc'[g].keep = gc[g].keep
         \/ Reads(g)
<1>1. ASSUME NEW c \in Callers, StartStep(c) PROVE gc' = gc
  BY <1>1 DEF StartStep, Enters, Skips, Opens, Renames, Writes, Seals, StartOnly
<1>2. ASSUME NEW h \in Collectors, CollectionStep(h), g # h PROVE gc'[g] = gc[g]
  BY <1>2 DEF CollectionStep, Reads, Lists, Unlinked, Unlinks, Deletes, Sweeps, CollectionOnly
<1>3. CASE CollectionStep(g)
  BY <1>3 DEF CollectionStep, Lists, Unlinked, Unlinks, Deletes, Sweeps
<1> QED
  BY <1>1, <1>2, <1>3, ObjectsStep DEF Quiet

LEMMA NextWritersAreRaced ==
  ASSUME TypeOK, CallsTidy, WritersAreRaced, Next
  PROVE  WritersAreRaced'
<1> SUFFICES ASSUME NEW g \in Collectors, NEW c \in Callers, gc'[g].phase \in Sweeping, Writing(c)'
             PROVE  call'[c].sid \in raced'
  BY DEF WritersAreRaced
<1>1. CASE Reads(g)
  BY <1>1 DEF Reads, CollectionOnly, Writing
<1>2. CASE gc[g].phase \in Sweeping
  <2>1. ASSUME NEW want, Enters(c, want) PROVE call'[c].sid \in raced'
    BY <1>2, <2>1 DEF Enters, StartOnly
  <2>2. CASE Writing(c) /\ call'[c].sid = call[c].sid
    BY <1>2, <2>2, RacedStep DEF WritersAreRaced
  <2> QED
    BY <2>1, <2>2, WritingStep
<1> QED
  BY <1>1, <1>2, SweepingStep

\* Objects go by a collection that sweeps only.
LEMMA ObjectsStay ==
  ASSUME TypeOK, CallsTidy, Next
  PROVE  objects \subseteq objects' \/ \E g \in Collectors, h \in Hashes : Deletes(g, h)
<1>1. ASSUME NEW c \in Callers, StartStep(c) PROVE objects \subseteq objects'
  BY <1>1 DEF StartStep, Enters, Skips, Opens, Renames, Seals
<1>2. ASSUME NEW g \in Collectors, CollectionStep(g), \A h \in Hashes : ~Deletes(g, h)
      PROVE  objects \subseteq objects'
  BY <1>2 DEF CollectionStep, Reads, Lists, Unlinked, Unlinks
<1> QED
  BY <1>1, <1>2, ObjectsStep DEF Quiet

\* The manifest of a call that writes is its own affair.
LEMMA FilesStep ==
  ASSUME TypeOK, CallsTidy, CallsApart, CandidatesHaveEnded, Next,
         NEW c \in Callers, Writing(c)
  PROVE  files'[call[c].sid] = files[call[c].sid]
<1> DEFINE s == call[c].sid
<1>1. call[c].phase # "idle" /\ s \in SessionIds /\ row[s].state = "absent"
  BY DEF Writing, TypeOK, CallsApart
<1>2. \A g \in Collectors : s \notin gc[g].ids
  BY <1>1 DEF CandidatesHaveEnded
<1>3. ASSUME NEW d \in Callers, NEW want, Enters(d, want) PROVE files'[s] = files[s]
  <2>1. call[d].sid # s
    BY <1>1, <1>3 DEF Enters, CallsApart, Writing
  <2>2. files \in [SessionIds -> SUBSET Hashes]
    BY DEF TypeOK
  <2> QED
    BY <1>1, <1>3, <2>1, <2>2 DEF Enters
<1>4. ASSUME NEW d \in Callers, StartStep(d) PROVE files'[s] = files[s]
  BY <1>3, <1>4 DEF StartStep, Skips, Opens, Renames, Writes, Seals
<1>5. ASSUME NEW g \in Collectors, CollectionStep(g) PROVE files'[s] = files[s]
  BY <1>1, <1>2, <1>5 DEF CollectionStep, Reads, Lists, Unlinked, Unlinks, Deletes
<1> QED
  BY <1>4, <1>5, ObjectsStep DEF Quiet

LEMMA NextWrittenIsThere ==
  ASSUME TypeOK, CallsTidy, CallsApart, CandidatesHaveEnded, WritersAreRaced, WrittenIsThere, Next
  PROVE  WrittenIsThere'
<1> SUFFICES ASSUME NEW c \in Callers, Writing(c)', call'[c].sid \notin raced'
             PROVE  files'[call'[c].sid] \ call'[c].todo \subseteq objects'
  BY DEF WrittenIsThere
<1>1. ASSUME NEW want, Enters(c, want) PROVE files'[call'[c].sid] \ call'[c].todo = {}
  <2>1. files \in [SessionIds -> SUBSET Hashes] /\ call[c].sid \in SessionIds
    BY <1>1 DEF Enters, TypeOK
  <2> QED
    BY <1>1, <2>1 DEF Enters, StartOnly
<1>2. CASE Writing(c) /\ call'[c].sid = call[c].sid
  <2>1. call[c].sid \notin raced /\ files'[call[c].sid] = files[call[c].sid]
    BY <1>2, RacedStep, FilesStep
  <2>2. files[call[c].sid] \ call[c].todo \subseteq objects
    BY <1>2, <2>1 DEF WrittenIsThere
  <2>3. \A g \in Collectors : gc[g].phase \notin Sweeping
    BY <1>2, <2>1 DEF WritersAreRaced
  <2>4. objects \subseteq objects'
    BY <2>3, ObjectsStay DEF Deletes, Sweeps
  <2>5. call[c].todo \subseteq call'[c].todo \cup objects'
    <3>1. CASE call'[c] = call[c]
      BY <3>1
    <3>2. ASSUME NEW d \in Callers, StartStep(d), c # d PROVE call'[c] = call[c]
      BY <3>2 DEF StartStep, Enters, Skips, Opens, Renames, Writes, Seals, StartOnly
    <3>3. CASE StartStep(c)
      BY <1>2, <3>3 DEF StartStep, Enters, Skips, Opens, Renames, Seals, Writing
    <3>4. ASSUME NEW g \in Collectors, CollectionStep(g) PROVE call' = call
      BY <3>4 DEF CollectionStep, Reads, Lists, Unlinked, Unlinks, Deletes, Sweeps, CollectionOnly
    <3>5. Quiet => call'[c] = call[c]
      BY DEF Quiet, Writing
    <3> QED
      BY <3>1, <3>2, <3>3, <3>4, <3>5, ObjectsStep
  <2> QED
    BY <1>2, <2>1, <2>2, <2>4, <2>5
<1> QED
  BY <1>1, <1>2, WritingStep

\* A manifest that is there afterwards was there before with the same files,
\* or its start has just written it.
LEMMA ManifestStep ==
  ASSUME TypeOK, CallsTidy, CallsApart, CandidatesHaveEnded, Next,
         NEW s \in SessionIds, dir'[s] = "full"
  PROVE  /\ files'[s] = files[s]
         /\ \/ dir[s] = "full"
            \/ \E c \in Callers : Seals(c) /\ s = call[c].sid
<1>1. dir \in [SessionIds -> {"none", "bare", "full"}] /\ files \in [SessionIds -> SUBSET Hashes]
  BY DEF TypeOK
<1>2. ASSUME NEW c \in Callers, NEW want, Enters(c, want)
      PROVE  files'[s] = files[s] /\ dir'[s] = dir[s]
  BY <1>1, <1>2 DEF Enters
<1>3. ASSUME NEW c \in Callers, Seals(c)
      PROVE  files' = files /\ (dir[s] = "full" \/ s = call[c].sid)
  BY <1>1, <1>3 DEF Seals
<1>4. ASSUME NEW c \in Callers, NEW h, Skips(c, h) \/ Opens(c, h) \/ Renames(c, h)
      PROVE  files' = files /\ dir' = dir
  BY <1>4 DEF Skips, Opens, Renames, Writes
<1>5. ASSUME NEW g \in Collectors, CollectionStep(g) PROVE files'[s] = files[s] /\ dir'[s] = dir[s]
  BY <1>5 DEF CollectionStep, Reads, Lists, Unlinked, Unlinks, Deletes
<1> QED
  BY <1>2, <1>3, <1>4, <1>5, ObjectsStep DEF Quiet, StartStep

LEMMA NextKeptOrRemoved ==
  ASSUME TypeOK, CallsTidy, CallsApart, CandidatesHaveEnded, WritersAreRaced, KeptOrRemoved, Next
  PROVE  KeptOrRemoved'
<1> SUFFICES ASSUME NEW g \in Collectors, gc'[g].phase \in Sweeping,
                    NEW s \in SessionIds \ raced', dir'[s] = "full"
             PROVE  s \in gc'[g].ids \/ files'[s] \subseteq gc'[g].keep
  BY DEF KeptOrRemoved
<1>1. CASE Reads(g)
  BY <1>1 DEF Reads
<1>2. CASE ~Reads(g) /\ gc[g].phase \in Sweeping /\ gc'[g].keep = gc[g].keep
  <2>1. s \notin raced
    BY RacedStep
  <2>2. dir[s] = "full" /\ files'[s] = files[s]
    BY <1>2, <2>1, ManifestStep DEF Seals, WritersAreRaced, Writing
  <2>3. s \in gc[g].ids \/ files'[s] \subseteq gc'[g].keep
    BY <1>2, <2>1, <2>2 DEF KeptOrRemoved
  <2>4. s \in gc[g].ids => s \in gc'[g].ids
    <3>1. ASSUME NEW c \in Callers, StartStep(c) PROVE gc' = gc
      BY <3>1 DEF StartStep, Enters, Skips, Opens, Renames, Writes, Seals, StartOnly
    <3>2. ASSUME NEW h \in Collectors, CollectionStep(h), g # h PROVE gc'[g] = gc[g]
      BY <3>2 DEF CollectionStep, Reads, Lists, Unlinked, Unlinks, Deletes, Sweeps, CollectionOnly
    <3>3. ASSUME NEW t \in SessionIds, Unlinks(g, t) PROVE s \in gc[g].ids => s \in gc'[g].ids
      BY <3>3 DEF Unlinks
    <3>4. Quiet => gc'[g] = gc[g]
      BY DEF Quiet
    <3>5. Lists(g) \/ Unlinked(g) \/ (\E h \in Hashes : Deletes(g, h)) => gc'[g].ids = gc[g].ids
      BY DEF Lists, Unlinked, Deletes
    <3> QED
      BY <1>2, <3>1, <3>2, <3>3, <3>4, <3>5, ObjectsStep DEF CollectionStep
  <2> QED
    BY <2>3, <2>4
<1> QED
  BY <1>1, <1>2, SweepingStep

LEMMA NextDeletesLast ==
  ASSUME TypeOK, CallsTidy, DeletesLast, Next
  PROVE  DeletesLast'
<1> SUFFICES ASSUME NEW g \in Collectors
             PROVE  /\ gc'[g].phase \in {"dirs", "delete"} => gc'[g].dead \cap gc'[g].keep = {}
                    /\ gc'[g].phase = "delete" => gc'[g].ids = {}
  BY DEF DeletesLast
<1>1. /\ gc[g].phase \in {"dirs", "delete"} => gc[g].dead \cap gc[g].keep = {}
      /\ gc[g].phase = "delete" => gc[g].ids = {}
  BY DEF DeletesLast
<1>2. CASE gc'[g] = gc[g]
  BY <1>1, <1>2
<1>3. ASSUME NEW c \in Callers, StartStep(c) PROVE gc' = gc
  BY <1>3 DEF StartStep, Enters, Skips, Opens, Renames, Writes, Seals, StartOnly
<1>4. ASSUME NEW h \in Collectors, CollectionStep(h), g # h PROVE gc'[g] = gc[g]
  BY <1>4 DEF CollectionStep, Reads, Lists, Unlinked, Unlinks, Deletes, Sweeps, CollectionOnly
<1>5. CASE CollectionStep(g)
  BY <1>1, <1>5 DEF CollectionStep, Reads, Lists, Unlinked, Unlinks, Deletes, Sweeps
<1>6. CASE Quiet
  BY <1>2, <1>6 DEF Quiet, Sweeping
<1> QED
  BY <1>2, <1>3, <1>4, <1>5, <1>6, ObjectsStep

LEMMA NextObjectsKnown ==
  ASSUME TypeOK, CallsTidy, WritersAreRaced, ObjectsKnown, Next
  PROVE  ObjectsKnown'
<1> SUFFICES ASSUME raced' = {}, NEW g \in Collectors, gc'[g].phase \in {"dirs", "delete"}
             PROVE  objects' \subseteq gc'[g].keep \cup gc'[g].dead
  BY DEF ObjectsKnown
<1>1. raced = {}
  BY RacedStep
<1>2. CASE Lists(g)
  BY <1>2 DEF Lists, Sweeps
<1>3. CASE ~Lists(g)
  <2>1. gc'[g].phase \in Sweeping /\ ~Reads(g)
    BY DEF Sweeping, Reads
  <2>2. gc[g].phase \in Sweeping /\ gc'[g].keep = gc[g].keep
    BY <2>1, SweepingStep
  <2>3. \A c \in Callers, h \in Hashes : ~Renames(c, h)
    BY <1>1, <2>2 DEF Renames, Writes, WritersAreRaced, Writing
  <2>4. \/ gc'[g] = gc[g] /\ objects' \subseteq objects
        \/ gc[g].phase \in {"dirs", "delete"} /\ objects' = objects /\ gc'[g].dead = gc[g].dead
        \/ gc[g].phase = "delete" /\ \E h \in Hashes : objects' = objects \ {h}
                                                      /\ gc'[g].dead = gc[g].dead \ {h}
    <3>1. ASSUME NEW c \in Callers, StartStep(c) PROVE gc' = gc /\ objects' = objects
      BY <2>3, <3>1 DEF StartStep, Enters, Skips, Opens, Writes, Seals, StartOnly
    <3>2. ASSUME NEW h \in Collectors, CollectionStep(h), g # h
          PROVE  gc'[g] = gc[g] /\ objects' \subseteq objects
      BY <3>2 DEF CollectionStep, Reads, Lists, Unlinked, Unlinks, Deletes, Sweeps, CollectionOnly
    <3>3. ASSUME CollectionStep(g)
          PROVE  \/ gc[g].phase \in {"dirs", "delete"} /\ objects' = objects /\ gc'[g].dead = gc[g].dead
                 \/ gc[g].phase = "delete" /\ \E h \in Hashes : objects' = objects \ {h}
                                                               /\ gc'[g].dead = gc[g].dead \ {h}
      BY <1>3, <2>1, <3>3 DEF CollectionStep, Unlinked, Unlinks, Deletes
    <3>4. Quiet => gc'[g] = gc[g] /\ objects' \subseteq objects
      BY <2>1 DEF Quiet
    <3> QED
      BY <3>1, <3>2, <3>3, <3>4, ObjectsStep
  <2>5. gc[g].phase \in {"dirs", "delete"}
    BY <2>4
  <2> QED
    BY <1>1, <2>2, <2>4, <2>5 DEF ObjectsKnown
<1> QED
  BY <1>2, <1>3

LEMMA NextUnracedIsComplete ==
  ASSUME TypeOK, CallsTidy, CallsApart, CandidatesHaveEnded, WrittenIsThere, KeptOrRemoved,
         DeletesLast, UnracedIsComplete, Next
  PROVE  UnracedIsComplete'
<1> SUFFICES ASSUME NEW s \in SessionIds \ raced', dir'[s] = "full"
             PROVE  files'[s] \subseteq objects'
  BY DEF UnracedIsComplete, Complete
<1>1. s \notin raced /\ files'[s] = files[s]
  BY RacedStep, ManifestStep
<1>2. ASSUME NEW c \in Callers, Seals(c), s = call[c].sid PROVE files'[s] \subseteq objects'
  BY <1>1, <1>2 DEF Seals, WrittenIsThere, Writing
<1>3. ASSUME dir[s] = "full" PROVE files'[s] \subseteq objects'
  <2>1. files[s] \subseteq objects
    BY <1>1, <1>3 DEF UnracedIsComplete, Complete
  <2>2. ASSUME NEW g \in Collectors, NEW h \in Hashes, Deletes(g, h) PROVE files[s] \subseteq objects'
    <3>1. gc[g].phase = "delete" /\ gc[g].phase \in Sweeping /\ h \in gc[g].dead /\ objects' = objects \ {h}
      BY <2>2 DEF Deletes, Sweeps
    <3>2. files[s] \subseteq gc[g].keep
      BY <1>1, <1>3, <3>1 DEF KeptOrRemoved, DeletesLast
    <3>3. h \notin gc[g].keep
      BY <3>1 DEF DeletesLast
    <3> QED
      BY <2>1, <3>1, <3>2, <3>3
  <2> QED
    BY <1>1, <2>1, <2>2, ObjectsStay
<1> QED
  BY <1>2, <1>3, ManifestStep

ObjectsInv ==
    /\ TypeOK /\ CallsTidy /\ CallsApart /\ CandidatesHaveEnded
    /\ WritersAreRaced /\ WrittenIsThere
    /\ KeptOrRemoved /\ DeletesLast /\ ObjectsKnown /\ UnracedIsComplete

\* The store's objects are, between any two steps, as ObjectsInv says: the
\* inductive invariant of the two theorems that follow.
THEOREM ObjectsInvHolds == Spec => []ObjectsInv
<1>1. Init => ObjectsInv
  <2> SUFFICES ASSUME Init PROVE ObjectsInv
    OBVIOUS
  <2>1. TypeOK
    BY InitTyped
  <2>2. \A g \in Collectors : gc[g].phase = "free" /\ gc[g].ids = {}
    BY DEF Init, Free
  <2>3. \A c \in Callers : call[c].phase = "idle" /\ call[c].todo = {} /\ call[c].temp = Nobody
    BY DEF Init, Idle
  <2>4. \A s \in SessionIds : dir[s] = "none"
    BY DEF Init
  <2> QED
    BY <2>1, <2>2, <2>3, <2>4
    DEF ObjectsInv, CallsTidy, CallsApart, CandidatesHaveEnded, WritersAreRaced, WrittenIsThere,
        KeptOrRemoved, DeletesLast, ObjectsKnown, UnracedIsComplete, Complete, Writing, Sweeping
<1>2. ObjectsInv /\ [Next]_vars => ObjectsInv'
  <2>1. ObjectsInv /\ Next => ObjectsInv'
    BY NextTyped, NextCallsTidy, NextCallsApart, NextCandidatesHaveEnded, NextWritersAreRaced,
       NextWrittenIsThere, NextKeptOrRemoved, NextDeletesLast, NextObjectsKnown,
       NextUnracedIsComplete
    DEF ObjectsInv
  <2>2. ObjectsInv /\ UNCHANGED vars => ObjectsInv'
    <3> SUFFICES ASSUME ObjectsInv, UNCHANGED vars PROVE ObjectsInv'
      OBVIOUS
    <3>1. TypeOK'
      BY NextTyped DEF ObjectsInv
    <3>2. CallsTidy' /\ CallsApart' /\ CandidatesHaveEnded' /\ WritersAreRaced'
      BY DEF ObjectsInv, vars, CallsTidy, CallsApart, CandidatesHaveEnded, WritersAreRaced, Writing
    <3>3. WrittenIsThere' /\ KeptOrRemoved'
      BY DEF ObjectsInv, vars, store, WrittenIsThere, KeptOrRemoved, Writing
    <3>4. DeletesLast' /\ ObjectsKnown' /\ UnracedIsComplete'
      BY DEF ObjectsInv, vars, store, DeletesLast, ObjectsKnown, UnracedIsComplete, Complete
    <3> QED
      BY <3>1, <3>2, <3>3, <3>4 DEF ObjectsInv
  <2> QED
    BY <2>1, <2>2
<1> QED
  BY <1>1, <1>2, PTL DEF Spec

\* Whatever starts and collections run, fail or crash, and for any lease,
\* interval and retention: as long as a manifest is there the objects it names
\* are, unless a collection looked at the store while its snapshot was written
\* (writeObject, GCApply).
THEOREM UnracedComplete == Spec => []UnracedIsComplete
<1>1. ObjectsInv => UnracedIsComplete
  BY DEF ObjectsInv
<1> QED
  BY <1>1, ObjectsInvHolds, PTL

\* A collection that no start met leaves no object behind but those of the
\* manifests it kept: GCDryRun's list is complete, and GCApply follows it.
THEOREM SweptClean == Spec => []SweptIsClean
<1>1. ObjectsInv => SweptIsClean
  BY DEF ObjectsInv, ObjectsKnown, SweptIsClean
<1> QED
  BY <1>1, ObjectsInvHolds, PTL

-----------------------------------------------------------------------------
\* The quota, when starts do not overlap: what a start has still to write is
\* held against it, with what is stored and what crashes left behind.

OneCaller == \A c, d \in Callers : c = d

Awaited == UNION {call[c].todo : c \in Callers}

RoomKept == Quota > 0 => Cardinality(objects \cup Awaited) + orphans <= Quota

\* An object in a temporary file is not stored yet.
TemporaryIsNew == \A c \in Callers : call[c].temp \notin objects

QuotaInv == RoomKept /\ TemporaryIsNew

LEMMA HashesFinite ==
  ASSUME NEW S \in SUBSET Hashes
  PROVE  /\ IsFiniteSet(S) /\ Cardinality(S) \in Nat
         /\ \A T \in SUBSET S : IsFiniteSet(T) /\ Cardinality(T) \in Nat
                                /\ Cardinality(T) <= Cardinality(S)
         /\ \A h \in S : Cardinality(S \ {h}) = Cardinality(S) - 1
<1>1. IsFiniteSet(S)
  BY FS_Subset
<1>2. \A T \in SUBSET S : IsFiniteSet(T) /\ Cardinality(T) <= Cardinality(S)
  BY <1>1, FS_Subset
<1>3. \A h \in S : Cardinality(S \ {h}) = Cardinality(S) - 1
  BY <1>1, FS_RemoveElement
<1> QED
  BY <1>1, <1>2, <1>3, FS_CardinalityType

LEMMA AwaitedTyped == TypeOK => Awaited \in SUBSET Hashes
<1> SUFFICES ASSUME TypeOK, NEW c \in Callers PROVE call[c].todo \subseteq Hashes
  BY DEF Awaited
<1> QED
  BY CallFields DEF TypeOK

LEMMA AwaitedByOne ==
  ASSUME OneCaller, NEW c \in Callers
  PROVE  Awaited = call[c].todo /\ Awaited' = call'[c].todo
  BY DEF OneCaller, Awaited

\* What is stored or temporary is stored or awaited.
LEMMA UsageWithinRoom ==
  ASSUME OneCaller, TypeOK, CallsTidy, TemporaryIsNew
  PROVE  /\ Usage \in Nat /\ Cardinality(objects) \in Nat
         /\ Cardinality(objects) + orphans <= Usage
         /\ Usage <= Cardinality(objects \cup Awaited) + orphans
<1>1. objects \in SUBSET Hashes /\ orphans \in Nat /\ Awaited \in SUBSET Hashes
  BY AwaitedTyped DEF TypeOK
<1>2. objects \cup Awaited \in SUBSET Hashes
  BY <1>1
<1>3. /\ Cardinality(objects) \in Nat /\ Cardinality(objects \cup Awaited) \in Nat
      /\ Cardinality(objects) <= Cardinality(objects \cup Awaited)
  BY <1>2, HashesFinite
<1>4. CASE Temporaries = {}
  <2>1. Cardinality(Temporaries) = 0
    BY <1>4, FS_EmptySet
  <2> QED
    BY <1>1, <1>3, <2>1 DEF Usage
<1>5. ASSUME NEW c \in Temporaries PROVE /\ Cardinality(Temporaries) = 1
                                         /\ Cardinality(objects) + 1 <= Cardinality(objects \cup Awaited)
  <2>1. c \in Callers /\ Temporaries = {c}
    BY DEF Temporaries, OneCaller
  <2>2. Cardinality(Temporaries) = 1
    BY <2>1, FS_Singleton
  <2>3. call[c].temp \in Awaited /\ call[c].temp \notin objects
    BY <2>1, AwaitedByOne DEF Temporaries, CallsTidy, TemporaryIsNew
  <2>4. objects \in SUBSET ((objects \cup Awaited) \ {call[c].temp})
    BY <2>3
  <2>5. (objects \cup Awaited) \ {call[c].temp} \in SUBSET Hashes
    BY <1>2
  <2>6. /\ Cardinality((objects \cup Awaited) \ {call[c].temp}) = Cardinality(objects \cup Awaited) - 1
        /\ Cardinality(objects) <= Cardinality((objects \cup Awaited) \ {call[c].temp})
    BY <1>2, <2>3, <2>4, <2>5, HashesFinite
  <2> QED
    BY <1>3, <2>2, <2>6
<1> QED
  BY <1>1, <1>3, <1>4, <1>5 DEF Usage

LEMMA NextTemporaryIsNew ==
  ASSUME OneCaller, TypeOK, CallsTidy, TemporaryIsNew, Next
  PROVE  TemporaryIsNew'
<1> SUFFICES ASSUME NEW c \in Callers PROVE call'[c].temp \notin objects'
  BY DEF TemporaryIsNew
<1>1. call[c].temp \notin objects /\ Nobody \notin objects'
  BY NextTyped DEF TemporaryIsNew, TypeOK
<1>2. CASE Quiet
  BY <1>1, <1>2 DEF Quiet
<1>3. ASSUME NEW d \in Callers, StartStep(d) PROVE call'[c].temp \notin objects'
  <2>1. c = d
    BY DEF OneCaller
  <2>2. ASSUME NEW want, Enters(c, want) PROVE call'[c].temp \notin objects'
    BY <1>1, <2>2 DEF Enters
  <2>3. Seals(c) => call'[c].temp \notin objects'
    BY <1>1 DEF Seals
  <2>4. ASSUME NEW h, Skips(c, h) \/ Opens(c, h) \/ Renames(c, h) PROVE call'[c].temp \notin objects'
    BY <1>1, <2>4 DEF Skips, Opens, Renames
  <2> QED
    BY <1>3, <2>1, <2>2, <2>3, <2>4 DEF StartStep
<1>4. ASSUME NEW g \in Collectors, CollectionStep(g) PROVE call' = call /\ objects' \subseteq objects
  BY <1>4 DEF CollectionStep, Reads, Lists, Unlinked, Unlinks, Deletes, Sweeps, CollectionOnly
<1> QED
  BY <1>1, <1>2, <1>3, <1>4, ObjectsStep

LEMMA NextRoomKept ==
  ASSUME OneCaller, TypeOK, CallsTidy, TemporaryIsNew, RoomKept, Next
  PROVE  RoomKept'
<1> SUFFICES ASSUME Quota > 0 PROVE Cardinality(objects' \cup Awaited') + orphans' <= Quota
  BY DEF RoomKept
<1>1. PICK W : W = objects \cup Awaited
  OBVIOUS
<1>2. W \in SUBSET Hashes /\ orphans \in Nat /\ objects \in SUBSET Hashes
  BY <1>1, AwaitedTyped DEF TypeOK
<1>3. Cardinality(W) + orphans <= Quota /\ Cardinality(W) \in Nat
  BY <1>1, <1>2, HashesFinite DEF RoomKept
<1>4. ASSUME objects' \cup Awaited' \subseteq W, orphans' = orphans
      PROVE  Cardinality(objects' \cup Awaited') + orphans' <= Quota
  <2>1. Cardinality(objects' \cup Awaited') <= Cardinality(W) /\ Cardinality(objects' \cup Awaited') \in Nat
    BY <1>2, <1>4, HashesFinite
  <2> QED
    BY <1>2, <1>3, <1>4, <2>1
<1>5. CASE Quiet
  <2>1. objects' = objects /\ Awaited' \subseteq Awaited
    BY <1>5 DEF Quiet, Awaited
  <2>2. ASSUME NEW c \in Callers, call[c].temp # Nobody, call'[c].todo = {}, orphans' = orphans + 1
        PROVE  Cardinality(objects' \cup Awaited') + orphans' <= Quota
    <3>1. Awaited' = {} /\ call[c].temp \in Awaited /\ call[c].temp \notin objects
      BY <2>2, AwaitedByOne DEF CallsTidy, TemporaryIsNew
    <3>2. call[c].temp \in W /\ objects' \cup Awaited' \in SUBSET (W \ {call[c].temp})
      BY <1>1, <2>1, <3>1
    <3>3. W \ {call[c].temp} \in SUBSET Hashes
      BY <1>2
    <3>4. /\ Cardinality(W \ {call[c].temp}) = Cardinality(W) - 1
          /\ Cardinality(objects' \cup Awaited') <= Cardinality(W \ {call[c].temp})
          /\ Cardinality(objects' \cup Awaited') \in Nat
      BY <1>2, <3>2, <3>3, HashesFinite
    <3> QED
      BY <1>2, <1>3, <2>2, <3>4
  <2> QED
    BY <1>1, <1>4, <1>5, <2>1, <2>2 DEF Quiet
<1>6. ASSUME NEW c \in Callers, NEW want \in SUBSET Hashes, Enters(c, want)
      PROVE  Cardinality(objects' \cup Awaited') + orphans' <= Quota
  <2>1. PICK new : new = want \ objects
    OBVIOUS
  <2>2. PICK all : all = objects \cup new
    OBVIOUS
  <2>3. objects' \cup Awaited' = all /\ orphans' = orphans
    BY <1>6, <2>1, <2>2, AwaitedByOne DEF Enters, StartOnly
  <2>4. IsFiniteSet(objects) /\ IsFiniteSet(new) /\ Cardinality(new) \in Nat
    BY <1>2, <2>1, HashesFinite
  <2>5. Cardinality(all) = Cardinality(objects) + Cardinality(new) - Cardinality(objects \cap new)
    BY <2>2, <2>4, FS_Union
  <2>6. Cardinality(objects \cap new) = 0
    <3>1. objects \cap new = {}
      BY <2>1
    <3> QED
      BY <3>1, FS_EmptySet
  <2>7. Usage + Cardinality(new) <= Quota
    BY <1>6, <2>1 DEF Enters, Fits
  <2>8. Usage \in Nat /\ Cardinality(objects) \in Nat /\ Cardinality(objects) + orphans <= Usage
    BY UsageWithinRoom
  <2>9. Cardinality(all) = Cardinality(objects) + Cardinality(new)
    BY <2>4, <2>5, <2>6, <2>8
  <2>10. Cardinality(all) + orphans <= Quota
    BY <1>2, <2>4, <2>7, <2>8, <2>9
  <2> QED
    BY <2>3, <2>10
<1>7. ASSUME NEW c \in Callers, NEW h, Seals(c) \/ Skips(c, h) \/ Opens(c, h) \/ Renames(c, h)
      PROVE  objects' \cup Awaited' \subseteq W /\ orphans' = orphans
  BY <1>1, <1>7, AwaitedByOne DEF Seals, Skips, Opens, Renames, Writes, StartOnly
<1>8. ASSUME NEW g \in Collectors, CollectionStep(g)
      PROVE  objects' \cup Awaited' \subseteq W /\ orphans' = orphans
  <2>1. call' = call /\ objects' \subseteq objects /\ orphans' = orphans
    BY <1>8 DEF CollectionStep, Reads, Lists, Unlinked, Unlinks, Deletes, Sweeps, CollectionOnly
  <2> QED
    BY <1>1, <2>1 DEF Awaited
<1> QED
  BY <1>4, <1>5, <1>6, <1>7, <1>8, ObjectsStep DEF StartStep

\* The strengthening of WithinQuota: it holds of every state.
THEOREM QuotaInvHolds ==
  ASSUME OneCaller
  PROVE  Spec => []QuotaInv
<1>1. Init => QuotaInv
  <2> SUFFICES ASSUME Init PROVE QuotaInv
    OBVIOUS
  <2>1. objects \cup Awaited = {} /\ orphans = 0 /\ \A c \in Callers : call[c].temp \notin objects
    BY DEF Init, Awaited, Idle
  <2>2. Cardinality(objects \cup Awaited) = 0
    BY <2>1, FS_EmptySet
  <2> QED
    BY <2>1, <2>2 DEF QuotaInv, RoomKept, TemporaryIsNew
<1>2. ObjectsInv /\ QuotaInv /\ [Next]_vars => QuotaInv'
  <2>1. UNCHANGED vars /\ QuotaInv => QuotaInv'
    <3> SUFFICES ASSUME UNCHANGED vars, QuotaInv PROVE QuotaInv'
      OBVIOUS
    <3>1. objects' = objects /\ call' = call /\ orphans' = orphans
      BY DEF vars, store
    <3>2. Awaited' = Awaited
      BY <3>1 DEF Awaited
    <3> QED
      BY <3>1, <3>2 DEF QuotaInv, RoomKept, TemporaryIsNew
  <2> QED
    BY <2>1, NextTemporaryIsNew, NextRoomKept DEF ObjectsInv, QuotaInv
<1> QED
  BY <1>1, <1>2, ObjectsInvHolds, PTL DEF Spec

\* While starts do not overlap, the object store with its temporary files, and
\* those that crashes left, never holds more than the quota (CreateWithQuota),
\* whatever collections remove objects a start has counted as stored.
THEOREM QuotaKept ==
  ASSUME OneCaller
  PROVE  Spec => []WithinQuota
<1>1. ObjectsInv /\ QuotaInv => WithinQuota
  <2> SUFFICES ASSUME ObjectsInv, QuotaInv, Quota > 0 PROVE Usage <= Quota
    BY DEF WithinQuota
  <2>1. /\ Usage \in Nat /\ Usage <= Cardinality(objects \cup Awaited) + orphans
    BY UsageWithinRoom DEF ObjectsInv, QuotaInv
  <2>2. orphans \in Nat /\ Cardinality(objects \cup Awaited) \in Nat
    BY AwaitedTyped, HashesFinite DEF ObjectsInv, TypeOK
  <2> QED
    BY <2>1, <2>2 DEF QuotaInv, RoomKept
<1> QED
  BY <1>1, ObjectsInvHolds, QuotaInvHolds, PTL
=============================================================================
