------------------------------ MODULE ScanPool ------------------------------
(***************************************************************************)
(* internal/workspace/files.go, the second half of Scan: goroutines that   *)
(* read the candidates the walk has found, numbered from 1 to Size.  A     *)
(* feeder hands them out over the channel jobs, which has no buffer; each  *)
(* worker reads a file and sends what it found over the channel results,   *)
(* whose buffer has room for Capacity; Scan takes the results and returns  *)
(* at the first error, while the others are still at work.  A file may     *)
(* have gone or changed since the walk.  The order of results is left      *)
(* open: Scan sorts what it returns.                                       *)
(***************************************************************************)
EXTENDS Integers, FiniteSets

CONSTANTS Workers,           \* the pool, at least one and at most 8
          Size               \* how many candidates there are

ASSUME PoolAssumption == Workers # {} /\ IsFiniteSet(Workers) /\ Size \in Nat

VARIABLES fed,               \* how many candidates were handed out
          closed,            \* jobs is closed
          at, job,           \* each worker's next step and its candidate
          found,             \* what it found in the file
          results,           \* the channel: what it holds of each candidate
          ended,             \* results is closed
          files, skipped,    \* what Scan has taken
          scan               \* whether Scan has returned, and with what

vars == <<fed, closed, at, job, found, results, ended, files, skipped, scan>>

Candidates == 1..Size

Nothing == "nothing"

Kinds == {"text", "binary", "error"}

\* Types of every variable.
TypeOK ==
    /\ fed \in 0..Size
    /\ closed \in BOOLEAN
    /\ at \in [Workers -> {"receive", "read", "send", "done"}]
    /\ job \in [Workers -> 0..Size]
    /\ found \in [Workers -> Kinds \cup {Nothing}]
    /\ results \in [Candidates -> Kinds \cup {Nothing}]
    /\ ended \in BOOLEAN
    /\ files \subseteq Candidates
    /\ skipped \subseteq Candidates
    /\ scan \in {"collecting", "returned", "failed"}

Init ==
    /\ fed = 0 /\ closed = FALSE
    /\ at = [w \in Workers |-> "receive"]
    /\ job = [w \in Workers |-> 0]
    /\ found = [w \in Workers |-> Nothing]
    /\ results = [c \in Candidates |-> Nothing] /\ ended = FALSE
    /\ files = {} /\ skipped = {} /\ scan = "collecting"

\* Fault: the channel has room for one result.
CapacityOne == 1

Capacity == Size

Buffered == {c \in Candidates : results[c] # Nothing}

-----------------------------------------------------------------------------

\* The feeder's send meets a worker that receives.
Feed(w) ==
    /\ fed < Size
    /\ at[w] = "receive"
    /\ fed' = fed + 1
    /\ job' = [job EXCEPT ![w] = fed + 1]
    /\ at' = [at EXCEPT ![w] = "read"]
    /\ UNCHANGED <<closed, found, results, ended, files, skipped, scan>>

CloseJobs ==
    /\ fed = Size /\ ~closed
    /\ closed' = TRUE
    /\ UNCHANGED <<fed, at, job, found, results, ended, files, skipped, scan>>

ReadFile(w, kind) ==
    /\ at[w] = "read"
    /\ found' = [found EXCEPT ![w] = kind]
    /\ at' = [at EXCEPT ![w] = "send"]
    /\ UNCHANGED <<fed, closed, job, results, ended, files, skipped, scan>>

\* A full channel blocks the worker.
Send(w) ==
    /\ at[w] = "send"
    /\ Cardinality(Buffered) < Capacity
    /\ results' = [results EXCEPT ![job[w]] = found[w]]
    /\ found' = [found EXCEPT ![w] = Nothing]
    /\ at' = [at EXCEPT ![w] = "receive"]
    /\ UNCHANGED <<fed, closed, job, ended, files, skipped, scan>>

\* The worker's loop over jobs is over.
Done(w) ==
    /\ at[w] = "receive"
    /\ closed
    /\ at' = [at EXCEPT ![w] = "done"]
    /\ UNCHANGED <<fed, closed, job, found, results, ended, files, skipped, scan>>

\* Fault: the wait group is not waited for.
PoolIsDoneAtOnce == closed

PoolIsDone == closed /\ \A w \in Workers : at[w] = "done"

CloseResults ==
    /\ PoolIsDone /\ ~ended
    /\ ended' = TRUE
    /\ UNCHANGED <<fed, closed, at, job, found, results, files, skipped, scan>>

Collect(c) ==
    /\ scan = "collecting"
    /\ results[c] # Nothing
    /\ results' = [results EXCEPT ![c] = Nothing]
    /\ files' = IF results[c] = "text" THEN files \cup {c} ELSE files
    /\ skipped' = IF results[c] = "binary" THEN skipped \cup {c} ELSE skipped
    /\ scan' = IF results[c] = "error" THEN "failed" ELSE scan
    /\ UNCHANGED <<fed, closed, at, job, found, ended>>

Return ==
    /\ scan = "collecting"
    /\ ended /\ Buffered = {}
    /\ scan' = "returned"
    /\ UNCHANGED <<fed, closed, at, job, found, results, ended, files, skipped>>

WorkerStep(w) == Feed(w) \/ (\E kind \in Kinds : ReadFile(w, kind)) \/ Send(w) \/ Done(w)

ScanStep == (\E c \in Candidates : Collect(c)) \/ Return

Next ==
    \/ \E w \in Workers : WorkerStep(w)
    \/ CloseJobs
    \/ CloseResults
    \/ ScanStep

Spec == Init /\ [][Next]_vars

\* The scheduler runs every goroutine that can run, and reading a file ends.
FairSpec ==
    /\ Spec
    /\ \A w \in Workers : WF_vars(WorkerStep(w))
    /\ WF_vars(CloseJobs) /\ WF_vars(CloseResults) /\ WF_vars(ScanStep)
-----------------------------------------------------------------------------

\* A scan that returns without an error has every candidate, each either as a
\* text or as skipped, however the workers overlapped.
EveryFileIsReported ==
    scan = "returned" => files \cup skipped = Candidates /\ files \cap skipped = {}

\* The buffer always has room for a worker's result, so that no worker waits
\* for a Scan that has long returned with an error.
WorkersNeverBlock == \A w \in Workers : at[w] = "send" => Cardinality(Buffered) < Capacity

\* Scan returns, and every goroutine it started ends, also after an error.
EverythingEnds == <>(scan # "collecting" /\ ended)
=============================================================================
