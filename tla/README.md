# A verification project for ai-code-provenance

TLA+ modules, TLC configurations and TLAPS proofs about `ai-prov`, a local tool
that takes a baseline of a workspace before an agent edits it, computes what
changed when the agent finishes, and reports which added lines of a commit an
agent wrote.  Everything here is translated from the Go sources; line numbers
are those of the commit beside this directory.

## The system

| Component (source) | State it keeps | Operations | What is hard | What makes it correct |
|---|---|---|---|---|
| Session service (`internal/app/session.go`, `internal/storage/storage.go`) | `ai_session`, `ai_change_event`, `line_provenance` rows; one snapshot per session | Start, Heartbeat, Status, ActiveSessions, Abandon(Owned), Finish(Owned), lease expiry inside all of them | every operation is several statements; any number of servers and of calls in one server; contexts that end; a locked database; crashes | a session ends once and stays so; only finished sessions have provenance; no edit is credited twice; overlap is a conflict; limits hold |
| Snapshot store (`internal/snapshot/snapshot.go`, `internal/cli/snapshots.go`) | `snapshots/<id>/manifest.json`, `objects/<hash>` | CreateWithQuota, Read, ReadFile, GCDryRun, GCApply, `snapshots gc` | shared objects; a collection beside a start; a crash between any two files; a quota checked before it is used | retained snapshots stay readable; the quota; nothing unreachable is left |
| Maintenance lease (`storage.go`, `session.go`) | one row of `maintenance_state` | TryAcquire, Complete, Fail | owners that die, overrun or never start | one collection per lease; throttling |
| Line diff (`internal/diff/diff.go`) | none | Myers search with a budget, backtracking | trace indices, equal prefixes, the budget | the script turns before into after and is shortest |
| Line identity, attribution (`internal/provenance/identity.go`, `provenanceForEdits`) | current `line_provenance` rows | Identities, migration over equal edits, invalidation | duplicates, neighbours that change, human edits between sessions | an AI row is for a line a session inserted; human lines never become AI |
| Coverage verification (`internal/provenance/verify.go`, `internal/git/diff.go`) | none | ReadDiff, parseDiff, Verify | headers that look like lines, blank lines, rounding | every added line counted once, AI only with a current row |
| Commit-message hook (`internal/cli/hook*.go`) | the message file | RenderTrailer, rewriting | amends, foreign trailers, title suffixes | rewriting twice is rewriting once; foreign text stays |
| Hook installer (`internal/git/hook.go`) | `hooks/commit-msg`, its backup | Install, Uninstall | forced and repeated installs | the foreign hook comes back |
| Workspace scan, ignore rules (`internal/workspace`) | none; during a scan two channels and up to 8 goroutines | Scan, pattern matching | negation, directories that are skipped whole; workers that outlive the scan | ignored files never enter a baseline; every candidate is reported once; no goroutine stays behind |
| Configuration (`internal/config/config.go`) | `config.yaml` | Load, Save, Validate, `hook config set/reset` | zero values and defaults, lost updates | what is saved loads as it was |
| User install (`internal/install`) | binaries, receipt, PATH entry | Install, Uninstall | a failure between two steps | uninstall undoes what install did |
| Schema migration (`storage.go`) | `schema_migration` | Migrate | old versions, two processes at once | all or nothing, idempotent |
| MCP server (`internal/mcp`) | open projects | tool handlers, workspace resolution | concurrent calls | thin: the service's promises |
| Command line (`internal/cli`, `cmd`) | none | printing, init, debug bundle | little | little |

The MCP server runs each tool call in a goroutine of its own with the caller's
context; several servers (one per agent host) and the command line share one
SQLite database and one `.ai-provenance` directory.  Nothing but SQLite's
transactions and the maintenance lease orders them.  A start may leave a
collection running in the background.  Agents and humans edit files at any time.

## Modules

| Module | What it is |
|---|---|
| `Timestamps` | stored times and the order SQL gives their texts |
| `SessionLedger` | abstract: what the session service promises |
| `Sessions` | the session service, statement by statement, for any number of callers |
| `SnapshotStore` | snapshots, quota, collections, the maintenance lease, crashes |
| `LineDiff`, `LineIdentity` | the diff and what a line is recognised by (pure) |
| `Attribution` | composes both with `CoverageVerify`: the rows of one file over several sessions |
| `GitDiffParser`, `CoverageVerify` | from git's output to the covered lines (pure) |
| `CommitMsgHook` | what the commit-msg hook makes of a message (pure) |
| `IgnoreRules` | which files a scan tracks (pure) |
| `ConfigFile` | the configuration's reading, writing, validation and editing (pure) |
| `ScanPool` | the goroutines that read the files of a scan |
| `HookInstaller` | `hook install`, its roll back and `hook uninstall`, one system call at a time |
| `UserInstall` | `install` and `uninstall`, one file at a time |
| `SessionsProofs` | theorems about `Sessions`: any callers, then callers that take turns, and the refinement of `SessionLedger` |
| `SnapshotStoreProofs`, `HookInstallerProofs`, `UserInstallProofs`, `ScanPoolProofs` | theorems about those modules |
| `LineDiffProofs`, `AttributionProofs` | theorems about the diff of any two files, and about the rows made from it and what Verify says of them |
| `AlgorithmsProofs` | theorems about ignore rules, identities, the configuration, git's diff and commit messages for any input, and about what `MCAlgorithms` checks |
| `MCSessions`, `MCSnapshotStore`, `MCAttribution`, `MCHookInstaller`, `MCUserInstall`, `MCScanPool` | instances for TLC |
| `MCAlgorithms` | the pure modules over all small inputs |

### Timestamps

Go's RFC3339Nano layout drops every trailing zero of the fraction, so that texts
need not sort as the instants do: `12Z` sorts after `12.3Z`, and `12.3Z` after
`12.31Z`.  `Extends(a, b)` says that the text of `a` is that of `b` with more digits (`b`
is a multiple of one of the `Units` and `a` is within it), and `Before` is the text
order: `a` extends `b`, or `a` is earlier and `b` does not extend it.  An instant is
a number of ticks, and `TicksPerSecond` may be any power of ten up to 10^9,
which is the code's clock.  The runs of `Sessions` and `SnapshotStore` that pass
have 10 ticks in a second, and instants with and without a fraction.

### Sessions

`row` is `ai_session`, `change` is `ai_change_event` together with the lines the
same transaction writes, `baseline` the manifests.  A call is a sequence of
steps; `pc[c]` names the next one:

| Operation | Steps |
|---|---|
| Start | maintain, count, snapshot, stamp, insert |
| Finish | (own,) maintain, ctx, load, scan, diff (once per candidate), commit, answer |
| Abandon | (own,) maintain, load, fail, then Status |
| Heartbeat | maintain, stamp, beat, then Status |
| Status | maintain, read |

One step is one SQL statement or transaction, one pass over the workspace, or
one look at the context, so every interleaving the code permits between them is
explored.  `own` is the ownership check of FinishOwned and AbandonOwned;
`fail` is FailSession, under its own context for interruptions and the resource
limit and under the caller's otherwise, exactly where the code differs.
`ContextEnds` may strike between any two steps; a later statement under the
caller's context then fails (`StatementError`), except where the code ignores
the error (`Maintain`, the failure branches of Finish).

Data is abstract.  A file is its version, the number of edits made to it, so the
change a finish finds is the interval of versions between its baseline and its
scan, and "the same edit credited twice" is two intervals that overlap.
FINISH_CANCELLED and FINISH_TIMEOUT are one code.  A commit whose rows clash
with rows committed since the finish read the current ones (the primary key of
events, the unique index of current identities) may fail.  A clock reading that
is stored advances the clock, because readings in nanoseconds differ; it may be any
later one of `Instants`.

`SessionLedger` has three actions, Begin, Finish and Fail, and no calls, clock
or snapshots.  Its Finish credits nothing that another session was credited
with, unless the two overlapped for less than a second (`brief`, an input the ledger is
given), which is what the order of the texts costs.  `ImplementsLedger` says that a single caller's service implements
it; the violation runs say which of its promises concurrency breaks.

### SnapshotStore

`dir` is the state of each snapshot directory (absent, without manifest, with
it), `objects` the object directory, `orphans` the temporary files in it that a
crash left.  A start checks the quota and makes its directory, then looks at one
object at a time (present: nothing; absent: temporary file, rename), then writes
the manifest by a rename, then its row.  A collection asks for candidates, reads
all manifests, lists the objects, removes the candidates' directories (manifest
first), then the objects, then answers and releases the lease.  Over the quota a
start with the lease collects first and tries once more; otherwise the
collection runs after the start has answered.  A collection of a
start's goes by the configured retention and grace, each unless it is off; the
command has no lease and no grace, and goes by the retention or by any of
`OlderThan`, which `--older-than` puts in its place.  The quota check and MkdirAll are
one step: no other process sees the difference.  No action
reads the history variables: `asked` is the retentions that were asked for, and
`raced` the sessions whose snapshot was being written while a collection was
between its reading of the manifests and its last removal.

### LineDiff, LineIdentity

A text is the sequence of the pieces between its newlines, as `strings.Split`
gives them, so that the missing newline at the end, the empty file and the
absent file (`NoFile`) are all there; `Lines` drops the last empty piece as the
code does.  `Frontier` is Myers' V array, a recursive
function of the number of edits (its values are the trace), `Backtrack` the walk
back over it (`StepBack` for each edit, `StepOut` for what is left), `Limit` the
budget and `Arrivals` the numbers of edits whose frontier holds the end of both
files.  The reference is `ShortestLength`, from the
longest common subsequence, and `Rebuilds`.  An identity has what the code hashes: content, count among equal
lines, and the nearest lines with text on both sides.

### Attribution

The rows of one file.  `Start` takes the file as a session's baseline, `Prepare`
is what Finish computes before its transaction (the script between baseline and
file, the rows removed, carried and inserted), `CommitFinish` what the
transaction replaces; between them another finish may commit, and the unique
index may refuse (`CommitClashes`).  `EditFile` is a line typed or deleted by anyone at any
time.  `earned` counts the lines each session inserted and `serial` says that
sessions followed one another and nothing was edited outside one; both are
history.  The properties do not look at the rows only: `GitAdded` is every set
of lines git may show as added, and `Verified` is what `CoverageVerify` says of
it.  Leases, times and errors are those of `Sessions`.

### GitDiffParser, CoverageVerify, CommitMsgHook

A line that git prints is a record of what git meant by it; `ReadDiff` takes it
for what its first characters make it, which is how an added line `++ x` turns
into a header.  The parser is a function of how many printed lines it has read.
`Queue` is the list of rows of one content, in the order of
their ids and cut at the number of lines, `Verify` the report, sessions and
status.  A commit message is a sequence of pieces: texts with the coverage
suffixes they end in, the trailers ai-prov writes, and its comment mark.
`PiecesAt` are the pieces of a message at some of its places, which is how text
is kept, blank lines are collapsed and what is not ai-prov's is told apart.
`RunCommitMsgHook` removes what is ai-prov's, trims and adds the new trailer, and
its two properties are about two runs of it on one message and about what is
left of the rest.

### IgnoreRules, ConfigFile

A rule is what parsing found (negated, rooted, for directories, segments);
`Scan` is the walk: a directory is entered unless it is `Pruned`, which an ignored
one is when no negated rule may match below it (`MayHavePrefix`).  A configuration
file has each of its keys or not, as YAML and the code's pointers have;
`Decode`, `Load`, `Save`, `Validate`, `HookSettings` and the edits of `hook config
set/reset` and of the install are operators over that record.

### ScanPool

The second half of Scan.  `Feed` is the meeting of the feeder's send and a
worker's receive on the channel without buffer; `ReadFile` ends in a text, a
binary file or an error, since a file may go between the walk and the read;
`Send` needs room in the buffered channel; `Done` is the end of a worker's loop;
`CloseJobs` and `CloseResults` are the feeder's closes, the second behind the
wait group; `Collect` and `Return` are Scan's own loop, which returns at the
first error and leaves everyone else to end alone.

### HookInstaller

`hook` and `backup` are the two files, `pc` the next system call of the command
that runs, `existing` the hook as it was read.  A hook is ai-prov's when the marker
is in it: `Ours` as it was written, or `Edited`, to which the user has added something
(`OthersEdit`; what they added goes with the hook, and is not counted as theirs).
`os.WriteFile` is two steps (it empties, then fills).  Any step may fail, which ends
the command as the code does (`SaveFails` is followed by the roll back), and the
process may die before any step.  One failure is not an error in the code: when the
backup cannot be looked at or renamed, Uninstall answers that it has removed
the hook and ends well (hook.go:123-130), and so does `Restore`.  `OthersWrite`
is another tool or the user, who writes a hook or removes it.  `origin` remembers
the hook the others left last; `raced` that they wrote while a command ran;
`result` what the last command answered, until others change the hook.

### UserInstall

`bin` is the content of each binary's place, `receipt` a set with at most the one
receipt, `profile` the shell profiles as sequences of marks and lines, `todo`
and `updated` the command's own variables.  Install: look at each target and rename the copy over it (unless it
is up to date; refused when it is foreign and there is no `--force`), read
profile, empty it, fill it, receipt.  Uninstall: profile, look at each binary and
remove it if its bytes were the receipt's, receipt.  The look and what follows
are two steps (`CheckTarget` and `PlaceBinary`, `CheckBinary` and `UnlinkBinary`),
between which the user may act, as between any other two.  `Stop` is a crash or a failing step, for the
code has no roll back there.  The user may remove or replace a binary, add lines
to a profile and break a mark.  `lost`, `lines`, `touched` and `unseen` are history; `unseen` is that
the user changed the very file the command has just looked at.

## Runs

| Run | Shows | Bounds |
|---|---|---|
| `sessions_one_caller` | refinement of `SessionLedger`; only finished sessions are credited; no edit twice and no overlap of two credited sessions, but for less than a second; the limit; nothing active is credited | 1 caller, 2 sessions, 2 instances, 1 file with 2 edits, lease of one second, limit 1, failures, crashes, tenths of a second in the times, 6 instants |
| `sessions_two_callers` | an ended row never changes; no lease a second early; an answered failure is recorded; every call returns (liveness) | 2 callers on 1 session, four operations (heartbeat and abandon end with status), lease of two seconds, 5 instants in tenths of a second, 1 edit |
| `snapshot_store` | retained snapshots have their manifest; objects are lost only to a race; the quota; the lease; nothing unreachable survives a sweep | 1 starting server, 2 collections at once, 2 sessions, 2 objects, quota 1, one orphan, lease, interval and retention of two seconds, `--older-than` and grace of one, 3 instants in tenths of a second |
| `attribution` | no line is an agent's that no session inserted, none is credited more often than inserted, none is lost when sessions follow one another, commits replace whole, and reports add up | 3 sessions, contents "x" and blank, 3 lines, 3 edits, diff budget 2 |
| `algorithms` | the diff against edit distance; identities under blank lines; git's diff; negated rules; messages rewritten twice; configurations edited | all texts of 4 pieces, budgets 0, 1, 3, 8; 2 changed files with 2 lines; 2 rules and paths of 3 parts; messages of 4 pieces; every subset of configuration keys |
| `hook_installer` | the others' hook is in place or in the backup, and an undo does what it answers | 2 foreign hooks, 5 commands, 3 acts of others |
| `user_install` | the user's profile lines stay, and their files unless they were put there behind a command's look; a good install is recorded; the receipt goes last | 2 directories, 2 releases, 1 shell, 3 commands, 2 acts of the user |
| `scan_pool` | every candidate is reported once; no worker blocks; everything ends (liveness) | 3 workers, 4 candidates |
| `sessions_expiry_race` | VIOLATION of `OnlyFinishedIsCredited` | 2 callers, 1 session |
| `snapshot_race` | VIOLATION of `ActiveIsComplete` by a server's own background collection | 1 starting server, 1 collection, 3 sessions |
| `sessions_snapshot_race` | VIOLATION of `BaselineHasFinishedChanges`: a finish between another start's snapshot and its started_at | 2 callers, 2 sessions, 1 file with 1 edit |
| `hook_stale_backup` | VIOLATION of `RestoredIsPrevious`: an old backup comes back | 2 foreign hooks, 3 commands, 1 act of others |

Why the bounds are enough.  Two sessions are what every property that relates
sessions speaks of, and one file with two edits gives disjoint, nested and
overlapping intervals.  Two callers give every pair of interleaved operations;
the properties checked with two callers are about one row.  The instants of
`sessions_one_caller` leave room for two starts and two finishes, a lease that runs
out, whole seconds and fractions of the same second (10 and 12, 20 and 21, where
the texts sort the wrong way), and a time far from the others; in
`sessions_two_callers` a heartbeat at 22 is older than the cutoff of an expiry at 40,
which is 20, by the text, so leases are taken early there.  In
`snapshot_store` a session that ends at 2 is older by the text than the cutoff of
a collection at 20, which is 0, so that one is taken early too; at 20 every
configured time has passed or not, to the tick, and `--older-than` asks for less.  Two
collections are what a takeover or the command needs, and quota 1 with 2 objects makes the fallback happen.
In `attribution` three lines are a line with two neighbours, the third session
meets rows carried once and rows carried twice, two equal contents give
duplicates, and a budget of 2 makes the diff fail on a rewritten file.  Texts of
four pieces have every pattern of insertion, deletion and repetition that the
search's diagonals tell apart up to distance 8.  Two rules and paths of three
parts put a negation before, behind and beside a directory rule.  Five hook
commands are an install that dies, one over it, an uninstall, and the same once
more; three installs and uninstalls are an install, one into another directory
or with another release, and the uninstall.  Three workers and four candidates
make a worker take a second file, and two others be in any other step.
`SYMMETRY` permutes identifiers that no definition tells apart and is not used
with liveness.

Deadlock is checked in the session runs and in `snapshot_store`.
`CHECK_DEADLOCK FALSE` stands where the system does come to rest: a scan that
ended (`scan_pool`), a chosen input (`algorithms`), commands, edits and acts that are used up (`hook_installer`,
`hook_stale_backup`, `user_install`, `attribution`), and ids and clock used up (`snapshot_race`).

The properties that two callers break (`OnlyFinishedIsCredited`,
`OverlapIsConflict`, `WithinActiveLimit`, `ImplementsLedger`) are shown for one
caller and refuted for two: together the runs say that the service is correct
exactly as long as calls do not overlap, and up to a second.  `WithinQuota` is shown for one
starting server; the same check-then-act of two servers can exceed it.

Four disagreements of code and text have a run of their own.  Others are
seen by naming another property in a configuration that is here:
* `WithinActiveLimit` in `SessionsSnapshotRace.cfg`, with `MaxActive = 1`: two starts
  count before either inserts.
* `FinishedSinceIsConflict` in `SessionsSnapshotRace.cfg`: two finishes ask for conflicts
  before either commits, and both are credited with the same edit.
* `FinishedSinceIsConflict` in `SessionsOneCaller.cfg`: a session finished at 12.2 seconds
  is no conflict for one that began at 12, for its text sorts first.  The comment at
  storage.go:327-328 says otherwise.  `OverlapIsConflict`, `NoEditCreditedTwice` and
  `LeaseNeverEarly` grant this second and hold.
* `OnlyMatchingIsRemoved` as a PROPERTY in `UserInstall.cfg`: a file the user puts
  in a binary's place between its hash and its removal is removed, and `ForeignIsKept`
  grants it, although installer.go:214-215 and README.md:263 do not.
* `SessionsAreUnique` in `Algorithms.cfg`: a session that wrote to two files is listed
  twice by verify, although verify.go:135-136 speaks of unique sessions.
* `DiffPathIsProjectRelative` in `Algorithms.cfg`: git's tab after a name with a space
  stays in the path, although git/diff.go:113 says the path is the project's.
In `hook_stale_backup` nothing needs to fail: a forced install over a hook, the user's
removal of what is there, an install that displaces nothing, and an uninstall bring
back the hook the user had given up, and the answer says that the previous hook
was restored.  `UndoRestores` therefore says nothing of a hook that comes back where the
others had left none.

Two behaviours are in the model and no property forbids them: a second finish
whose context has ended answers FINISH_CANCELLED for a session that finished
long ago, and SNAPSHOT_FAILED is advertised as retryable although the session it
names has been failed.  A third is in `UserInstall`: an uninstall under another
SHELL, or after an install with `--no-path`, leaves the PATH entry, drops the
receipt that knew of it and reports success, although README.md:263 says it
removes the entry.

## Fairness

`FairSpec` asks for weak fairness of every call's steps and nothing else: the Go
scheduler runs every goroutine, file operations end, and SQLite gives up on a
lock after its busy timeout of 5 seconds, so a call that can take its next step
does.  Nothing is assumed of callers, edits, crashes, contexts or the clock.
`CallReturns` excuses calls cut off by the model's last instant.

`ScanPool!FairSpec` asks for weak fairness of each worker, of the two closes and
of Scan's loop, each of which is a goroutine: the scheduler runs what can run, and
reading a regular file ends.  A worker that is blocked on a full channel is not
enabled, so fairness does not hide a leak.

## Proofs

`SessionsProofs` proves, for any number of callers, sessions, instances, paths
and any bounds:

| Theorem | Statement |
|---|---|
| `TypeCorrect` | `Spec => []TypeOK` |
| `CallersInvHolds` | `Spec => []CallersInv` |
| `ActiveUncredited` | `Spec => []ActiveIsUncredited` |
| `TerminalPermanent` | `Spec => TerminalIsPermanent` |
| `LeaseKept` | `Spec => []LeaseNeverEarly` |
| `FailureRecorded` | with `StoreMayFail = FALSE`: `Spec => []FailureAnswerIsRecorded` |

Type correctness is proved in two halves, what the store holds and what the
calls hold, from lemmas about the helpers (`Goto`, `Return`, `EndRow`, ...).
`ActiveIsUncredited` is not inductive.  A commit credits the session its call
names, and leaves it active if there is no such row for the UPDATE to find, so
one has to know that the row exists: `FinishKnowsSession` (past its load, a
finish names an existing session).  That is kept only if no start can bring the
row of another's session back to active, hence `StartIsFresh` (the id of a start
is absent and nobody else's), which needs `CallShape` (a job's operation agrees
with its label).  `CallersInv` is the conjunction of these with `TypeOK`.  Two
lemmas describe any step once and for all: `EveryCallStep` (a step of c changes
no other call, and keeps c's session) and `EveryRowStep` (no row reappears or,
once ended, changes); the theorems follow from them.  `LeaseKept` adds
`LeaseShape`: the expiry code is given by ExpireLeases only, to a row whose
heartbeat is old by the order of the texts.  Whatever the resolution of the clock, that
order is wrong by less than a second (`TextOrder`: a text that sorts before
another is of an instant less than a second later than the other's, if it is later),
which is what `LeaseNeverEarly` grants.  `FailureRecorded` assumes a database that takes every statement (when
FailSession itself fails the code has nothing left to try); it follows the two
answers from the step that ends the row to the return.  The assumptions on
constants are those the modules name
(`OpsAssumption`, `NamesAssumption`, `BoundsAssumption`,
`TicksPerSecondAssumption`), which every run evaluates.

The second half of `SessionsProofs` proves, for any sessions, instances, paths and bounds,
what holds when calls follow one another (`OneCaller`: no two callers; the runs
with two callers show that none of it holds otherwise):

| Theorem | Statement |
|---|---|
| `OneCallerInvHolds` | `Spec => []OneCallerInv` |
| `OnlyFinishedCredited` | `Spec => []OnlyFinishedIsCredited` |
| `ActiveLimitKept` | `Spec => []WithinActiveLimit` |
| `CreditInvHolds` | `Spec => []CreditInv` |
| `OverlapConflicts` | `Spec => []OverlapIsConflict` |
| `EditsCreditedOnce` | `Spec => []NoEditCreditedTwice` |
| `LedgerImplemented` | `Spec => ImplementsLedger` |

Nothing is assumed of the clock but `TicksPerSecondAssumption`: the three properties
and the ledger grant overlaps of less than a second, and nothing more (`TextOrder`).

One lemma, `OnlyStep`, tells once what any step does to the database (`OneStep`:
nothing, an expiry, a failure, a snapshot, a created row, a heartbeat, a
commit) and what the call knows after it; every other lemma splits on it.
`OneCallerInv` says that what the call read is still so: past its load a finish
has an active session (`FinishHasActive`), a counted start has room
(`StartHasRoom`), stamps and versions are of the past (`TimesPast`,
`VersionsSeen`), and a candidate that was compared has no change since
(`ComparedIsFree`).  `CreditInv` are the properties themselves, inductive
together with `BaselineHasFinishedChanges`, which two callers refute
(`sessions_snapshot_race`).  The refinement is proved step by step: a created row is the ledger's
begin, an expiry or failure its fail, a commit its finish, everything else
stutters; that the ledger's guards hold is exactly `OneCallerInv` and
`CreditInv`.

`SnapshotStoreProofs` proves, for any number of starting servers, collections
by hand or under the lease, and any quota, retention, grace and `--older-than`, and a clock of any resolution:

| Theorem | Statement |
|---|---|
| `SnapshotStoreTypeCorrect` | `Spec => []TypeOK` |
| `StoreInvHolds` | `Spec => []StoreInv` |
| `RetainedManifestKept` | `Spec => []RetainedHasManifest` |

`RetainedHasManifest` is not inductive: a row appears active at a start's last
step, so its manifest must be there before (`InsertHasManifest`); that manifest is
safe only if no collection has the session as candidate, and a candidate list is
used long after its query, so candidates must stay old, by some retention that was asked for, and ended
(`CandidatesEnded`, up to the second that comparing texts costs); both need that the sessions being started have no row and
are all different (`CallsApart`).  Neither the lease nor its timeout is used: the
fact holds when a collection outlives its lease and when the command runs beside
it.  Four lemmas describe any step: what it may do to calls and candidates
(`StartStepShape`, `CollectionStepShape`), to one directory (`DirectoryStep`), to
one row (`RowStep`).

And of the lease, the objects and the quota, for the same:

| Theorem | Statement |
|---|---|
| `LeaseInvHolds` | with `LockDuration <= Interval`: `Spec => []LeaseInv` |
| `OneCollector` | with that: `Spec => []OneCollectorPerLease` |
| `ObjectsInvHolds` | `Spec => []ObjectsInv` |
| `UnracedComplete` | `Spec => []UnracedIsComplete` |
| `SweptClean` | `Spec => []SweptIsClean` |
| `QuotaInvHolds`, `QuotaKept` | with `OneCaller`: `Spec => []QuotaInv`, `Spec => []WithinQuota` |

`LeaseInv` says that a collection within its lease's time is what the lease row
says.  The lease lasts ten minutes (session.go:182) and the interval is a positive
number of hours (config.go:231, server.go:123), which is the hypothesis.
`UnracedIsComplete` and `SweptIsClean` are not inductive: a start skips an object
it found there (`WrittenIsThere`), a collection acts on two lists it read some steps
ago (`KeptOrRemoved`, `ObjectsKnown`), removes what its list says (`DeletesLast`),
and a start it meets is in `raced` (`WritersAreRaced`).  The steps are classified
once (`ObjectsStep`).  `QuotaInv` counts what the only start has still to write as
written (`RoomKept`).

`HookInstallerProofs` proves, for any set of foreign hooks and any number of
commands and of acts of others:

| Theorem | Statement |
|---|---|
| `HookInvariant` | `Spec => []IInv` |
| `HookTypeCorrect` | `Spec => []TypeOK` |
| `HookNeverLost` | `Spec => []NothingIsLost` |
| `HookUndoRestores` | `Spec => []UndoRestores` |

`NothingIsLost` is not inductive: a command overwrites the hook it read some
steps ago, so one needs what each step finds (`InHand`: what is about to be
overwritten has been saved), that a foreign hook in place is the others' last
(`InPlace`), and, even when others interfere, that only a foreign hook is ever
copied to the backup (`ReadIsForeign`), without which the backup could become
ai-prov's own hook and an uninstall would restore that.  `HookUndoRestores` covers
a backup that could not be renamed, and says nothing of one that is older than the
hook it replaces: that one comes back (`hook_stale_backup`).

`UserInstallProofs` proves, for any directories, releases and shells and any
number of commands and of acts of the user:

| Theorem | Statement |
|---|---|
| `InstallInvariant` | `Spec => []IInv` |
| `InstallTypeCorrect` | `Spec => []TypeOK` |
| `ForeignKept` | `Spec => ForeignIsKept` |
| `ReceiptLast` | `Spec => ReceiptGoesLast` |
| `LinesInvHolds`, `ProfileKept` | `Spec => []LinesInv`, `Spec => []ProfileIsUsers` |
| `RecordedInvHolds`, `InstallIsRecorded` | `Spec => []RecordedInv`, `Spec => []InstalledIsRecorded` |

`ForeignIsKept` needs that a copying command is an install, that the hashes of
a receipt are those of releases, and what a command has seen: until it acts, a file
it looked at is as it was, unless the user changed it (`SeenOK`).  `ReceiptGoesLast` is about everything the
uninstall did since it began: `QueueOK` ties what is left to do to the step,
`GoneOK` says that what was removed is still gone (the user may put files of
their own there, which are no release's), and `BlocksOK` that no profile has two
blocks and that what an uninstall is about to write has none.  The last rests on
lemmas about texts: what `ShellFragment` and `RemoveShellFragment` make of a text
with at most one of each mark, from the library's facts about subsequences and
concatenation.  `ProfileKept` rests on `LinesInv`: marks enclose a directory only,
never a line of the user's (`Closed`), so that cutting a block keeps the user's
lines, counted by a bijection of positions; what a command is about to write has
them too.  It says nothing of the profiles in `lost`, which a command died on
between emptying and filling, or overwrote after the user changed them.  `RecordedInv` says what an install has on disk at each of its steps as
long as nobody else touches it, and `BlockIsRead` that the block is found where
the install put it.

`ScanPoolProofs` proves, for any finite pool and any number of candidates:

| Theorem | Statement |
|---|---|
| `PoolInvariant` | `Spec => []IInv` |
| `PoolTypeCorrect` | `Spec => []TypeOK` |
| `EveryFileReported` | `Spec => []EveryFileIsReported` |
| `WorkersNeverWait` | `Spec => []WorkersNeverBlock` |

A candidate handed out is in one place: with one worker (`OneHolder`), in the
channel or taken (`SentOnce`), and without an error none is dropped
(`NoneDropped`).  A worker that wants to send holds a candidate that is not in the
channel, so the channel holds fewer than there are: its capacity is exactly
enough, by cardinality of subsets.  That every goroutine ends also when Scan has
given up rests on this; the liveness itself is TLC's.

`LineDiffProofs` proves, for every two files (sequences over any set of lines)
and any budget:

| Theorem | Statement |
|---|---|
| `MyersLeads` | what `Myers` returns is an edit script that leads from the one file to the other (`Leads`), with as many changes as the first arrival |
| `ShortestScript` | if any script within the budget leads there, `Myers` finds one, and none has fewer changes |
| `MyersSame` | a file has no changes against itself |
| `MyersIsShortest` | `Myers` fails exactly when `ShortestLength` is more than the budget; otherwise its script rebuilds both files with that many changes |

Nothing is assumed.  The search is a recursive function, and so is the walk back;
induction over the edits goes by the least number for which a claim would fail
(`LeastNumber`, from `WFMin` and `NatLessThanWellFounded`, which take no operator
as parameter).  A frontier grows on both sides of every diagonal
(`FrontierGrows`) and stops where the next lines differ (`FrontierStops`).  The
search does not stop a diagonal at a file's end, so a frontier may be past it;
then it was past, or at, the end one edit before on the next diagonal
(`PastFirst`, `PastSecond`), hence the first arrival is exactly at the end of
both files (`FirstArrival`).  Each step back stays on the trace inside both
files and finds one change (`WalkLeads`), and before the first edit what is left
is equal (`StepOutLeads`).  No script is shorter because the frontier of a
script's changes is never behind the script (`FrontierLeads`).  `Leads` says of
every edit which lines it is about, which is what provenanceForEdits follows
with its two indices: its errors `invalid ... edit position` and `incomplete
edit positions` (session.go:501-527), which the model leaves out, cannot occur.
`MyersIsShortest` brings in the reference TLC compares with, the longest common
subsequence: a line more on a side has as much in common or one line more
(`CommonGrows`), some script keeps all that is common (`CommonIsKept`) and none
keeps more (`NoneKeepsMore`).

`AttributionProofs` proves, for any sessions, contents, lengths and budgets:

| Theorem | Statement |
|---|---|
| `CommitInvHolds` | `Spec => []CommitInv` |
| `OnlyInsertedIsAIHolds` | `Spec => []OnlyInsertedIsAI` |
| `NeverOverCreditedHolds` | `Spec => []NeverOverCredited` |
| `SerialIsCoveredHolds` | `Spec => []SerialIsCovered` |
| `ReplacedAsOneHolds` | `Spec => []ReplacedAsOne` |
| `VerifyAddsUpHolds` | `Spec => []VerifyAddsUp` |

The assumptions are `IdsAssumption` (session ids have an order, as texts do) and
`BoundsAssumption`.  None of the properties is inductive.  A script leads from
the snapshot to the file, so every line of the file is taken by one edit
(`TakenApart`, `TakenAll`) and identities tell equal lines apart
(`IdentitiesApart`): a finish makes at most one row for a line, with a key of its
own (`LinesAreRows`), no more rows of a session and content than that session
has or inserts now (`LinesCounted`), and a row for every line if every line of
the snapshot has one (`LinesCover`).  `CommitInv` is what the commits keep of
this: rows and plans are of lines that sessions which are over, or about to
commit, inserted (`RowsInv`); unless finishes raced a plan with changes removes
exactly the rows there are (`PlansCurrent`) and puts back no more of any session
(`PlansCounted`); and while sessions follow one another the rows are those of
the snapshot's lines, and after the commit of the file's (`SerialInv`).
A race breaks
`PlansCurrent` first, and with it the two properties that exclude one;
`OnlyInsertedIsAI` and `VerifyAddsUp` rest on `RowsInv` alone and hold whatever
races.  For Verify, ids are put in order
without repetition (`RankedLists`), so a content's queue is a one-to-one pairing
of as many rows as lines (`QueueIs`) and the lines it covers are counted by that
pairing (`CoveredCount`).

`AlgorithmsProofs` proves, for every input of the types the code has:

| Theorem | Statement |
|---|---|
| `NegatedIsWalked` | for any list of rules and any path: a directory above a file that a `!` rule takes back is walked, unless a rule after that one ignores it |
| `BlankLineKeeps` | a blank line put anywhere into any text keeps content, count and anchors of every line with text |
| `EditsAreLocal` | for any file that can be loaded and any fields: what an edit saves is loaded again, with everything outside the edited keys as it was |
| `PlainDiffsAreRead` | for any number of modified, deleted and renamed files with any added lines, none of which looks like a header, and names git prints as they are: every modified file gets exactly its added lines that are not blank, in order, and no other file any |
| `AmendsNeverStack` | for any message, any two results of Verify and any settings: the hook over its own result writes what it writes over the original, if the title ends in at most one coverage suffix or is given one |
| `OursIsReplaced` | for any message, result and valid fields with something to say: foreign text stays, in its order, and ai-prov's record is there once, at the end |
| `ScriptIsShortestHolds`, `BlankLinesKeepIdentityHolds`, `NegationIsReachedHolds`, `EditsKeepTheRestHolds`, `PlainDiffIsReadHolds`, `AmendNeverStacksHolds`, `OnlyOursIsReplacedHolds` | the properties of the run `algorithms`, each an instance of one of these or of `MyersIsShortest` |

`matchIgnorePath` and `mayHavePrefix` are recursive over what is left of pattern
and path; each is shown to be what its recursion says (`MatchUnfolds`,
`ReachUnfolds`: by the number of steps, a table is filled from the end), and then
a pattern that matches a path may match beneath each of the path's directories
(`MatchReaches`), or the rule, being for directories, matches that directory
itself (`RuleReaches`), which is the case the `unless` is for.  A blank line moves
the lines behind it by one and nothing else (`PutAmong`, `ShiftedInOrder`), so the
nearest line with text is the same line (`AnchorsKept`) and the equal lines
before it are as many.  A loaded configuration is valid and has every default
(`LoadTyped`), saving and loading such a one is the identity (`SaveLoads`), and
each edit makes another (`EditTyped`, `ResetTyped`).  The configuration's keys
(`Limits`) and the names of fields are any.

What the theorems about git's diff and messages assume is the code's limits.  A run takes
one coverage suffix off the title (hook_trailer.go), so a title with two that is
given none loses one at each run; with no session and the provenance id as the only
field there is nothing to write.  A file named /dev/null is the parser's mark of a
deletion; names that git prints otherwise, and lines that look like a header, are
read as something else (see Runs).

Sequences of any length are reached by an induction on their lengths
(`EverySequence`); `FlattenSeq` of the community modules is shown to be what its
recursion says (`FlattenIsFlat`, `FlatUnfolds`, `FlatGrows`).  What the hook writes
is the cleaned text, one or two blank lines and the trailer (`HookWrites`), and
cleaning that again, under whatever title, gives the same text (`OnceMore`);
foreign pieces survive removal, trimming and collapsing (`ForeignStays`), and the
lines of one trailer differ in their keys (`TrailerDistinct`).  The parser is
followed one printed line at a time (`StateUnfolds`, `ParseLineIs`) through one
file's additions (`AdditionsAreRead`) and one file (`FileIsRead`).

Only model-checked: the liveness properties `CallReturns` and `EverythingEnds`,
which are out of the prover's reach.  Every other property of a passing run is
stated by a theorem.

## What is not modelled

* Contents of messages, tasks, models and of rows no property reads; hashes are
  what they hash, so collisions are left out.
* Clocks that go backwards, a negative `--older-than`, and two databases for one
  workspace.
* The progress of collections: a directory without a manifest, which a start or a
  removal that died leaves, fails every later dry run (snapshot.go:251), so
  nothing is collected again; the model has that state, and `SweptIsClean` speaks
  of the collections that do finish.  A manifest whose start failed at the insert
  belongs to no session, so it is never a candidate and keeps its objects.
* A session's scan is one atomic look at the tracked files (`Sessions`); an edit
  in the middle of a scan is before or after it.
* Corrupted objects; version 1 snapshots.
* Running git, printing reports, trailing spaces of message pieces, the scissors
  line of `git commit -v`.
* The parsing of .gitignore, and what makes a file binary or too large.
* FindProjectRoot, and the replacement of the configuration (a rename; the file is
  never half written).
* Windows: the registry's PATH, hooks' permissions, the delayed removal of a
  running binary.  The dry run, and the validation of layouts and receipts.
* Two installer or hook commands at once; a user who edits the backup or the
  receipt; what a user adds to ai-prov's own hook, which goes with it; a missing newline at a profile's end.
* The schema migration: one transaction from any earlier version; see the plan.
* The MCP server and its tools: they decode arguments and call the session
  service, whose calls `Sessions` interleaves in every way.  The resolver of
  workspaces, which keeps what it opened, is left to the plan.
* The rest of the command line: it parses, prints and packs a diagnostic archive.

## Plan

In this order; each module with its instances, runs and, where marked, proofs.

1. A composition of `Sessions` with `SnapshotStore`: a finish beside a
   collection, and the progress of collections.
2. `Migration`: any earlier version, two processes at once.
3. The MCP resolver: a project that is opened once and kept, and stores that are
   closed under running calls.
