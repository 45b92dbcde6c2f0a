--------------------------- MODULE ScanPoolProofs ---------------------------
(***************************************************************************)
(* ScanPool's invariants for every number of workers and of candidates.    *)
(* A candidate that was handed out is in exactly one place: with a worker, *)
(* in the channel or taken; only an error drops one.  So a worker with a   *)
(* candidate in hand knows one that is not in the channel, which therefore *)
(* has room.                                                               *)
(***************************************************************************)
EXTENDS ScanPool, FiniteSetTheorems, TLAPS

Holds(w) == at[w] \in {"read", "send"}

\* Candidates that are past the workers.
Sent == Buffered \cup files \cup skipped

\* No candidate is with two workers, and none that is with one was sent.
OneHolder ==
    /\ \A w, v \in Workers : Holds(w) /\ Holds(v) /\ job[w] = job[v] => w = v
    /\ \A w \in Workers : Holds(w) => job[w] \in 1..fed /\ job[w] \notin Sent

\* What is in the channel was not taken, and nothing is taken twice.
SentOnce ==
    /\ Sent \subseteq 1..fed
    /\ Buffered \cap (files \cup skipped) = {}
    /\ files \cap skipped = {}

\* As long as no error was met, every candidate handed out is somewhere.
NoneDropped ==
    scan # "failed" =>
        \A c \in 1..fed : c \in Sent \/ \E w \in Workers : Holds(w) /\ job[w] = c

\* The channels are closed in their order.
ClosedInOrder ==
    /\ closed => fed = Size
    /\ ended => PoolIsDone
    /\ scan = "returned" => ended /\ Buffered = {}
    /\ \A w \in Workers : at[w] = "send" => found[w] \in Kinds

IInv == TypeOK /\ OneHolder /\ SentOnce /\ NoneDropped /\ ClosedInOrder

\* Every initial state satisfies the inductive invariant.
LEMMA InitIInv == Init => IInv
<1> SUFFICES ASSUME Init PROVE IInv
  OBVIOUS
<1>1. TypeOK
  <2>1. fed \in 0..Size /\ 0 \in 0..Size
    BY PoolAssumption DEF Init
  <2>2. at \in [Workers -> {"receive", "read", "send", "done"}]
    BY DEF Init
  <2>3. job \in [Workers -> 0..Size] /\ found \in [Workers -> Kinds \cup {Nothing}]
    BY <2>1 DEF Init
  <2>4. results \in [Candidates -> Kinds \cup {Nothing}]
    BY DEF Init
  <2>5. files \subseteq Candidates /\ skipped \subseteq Candidates
    BY DEF Init
  <2> QED
    BY <2>1, <2>2, <2>3, <2>4, <2>5 DEF Init, TypeOK
<1>2. Sent = {}
  BY DEF Init, Sent, Buffered
<1>3. OneHolder
  BY DEF Init, OneHolder, Holds
<1>4. SentOnce
  BY <1>2 DEF SentOnce, Sent
<1>5. NoneDropped
  BY DEF Init, NoneDropped
<1>6. ClosedInOrder
  BY DEF Init, ClosedInOrder
<1> QED
  BY <1>1, <1>3, <1>4, <1>5, <1>6 DEF IInv

\* A candidate handed out is a new one.
LEMMA FeedIInv == ASSUME IInv, NEW w \in Workers, Feed(w) PROVE IInv'
<1> USE DEF Holds, Sent, Buffered, Candidates
<1>1. TypeOK'
  BY PoolAssumption DEF IInv, TypeOK, Feed
<1>2. OneHolder'
  <2>1. /\ Sent' = Sent /\ fed \in Nat /\ fed' = fed + 1
        /\ at' = [at EXCEPT ![w] = "read"] /\ job' = [job EXCEPT ![w] = fed + 1]
        /\ at \in [Workers -> {"receive", "read", "send", "done"}]
        /\ job \in [Workers -> 0..Size]
    BY PoolAssumption DEF IInv, TypeOK, Feed
  <2>2. /\ fed + 1 \notin Sent
        /\ \A v \in Workers : Holds(v) => job[v] \in 1..fed /\ job[v] \notin Sent
        /\ \A u, v \in Workers : Holds(u) /\ Holds(v) /\ job[u] = job[v] => u = v
    BY <2>1 DEF IInv, OneHolder, SentOnce
  <2> HIDE DEF Sent
  <2> QED
    BY <2>1, <2>2 DEF OneHolder
<1>3. SentOnce'
  BY PoolAssumption DEF IInv, TypeOK, SentOnce, Feed
<1>4. NoneDropped'
  BY PoolAssumption DEF IInv, TypeOK, NoneDropped, Feed
<1>5. ClosedInOrder'
  BY PoolAssumption DEF IInv, TypeOK, ClosedInOrder, PoolIsDone, Feed
<1> QED
  BY <1>1, <1>2, <1>3, <1>4, <1>5 DEF IInv

\* The steps that hand nothing on.
LEMMA LocalIInv ==
    ASSUME IInv,
           \/ CloseJobs
           \/ CloseResults
           \/ Return
           \/ \E w \in Workers : Done(w) \/ \E kind \in Kinds : ReadFile(w, kind)
    PROVE  IInv'
<1> USE DEF Holds, Sent, Buffered, Candidates
<1>1. CASE CloseJobs
  BY <1>1, PoolAssumption
  DEF IInv, TypeOK, OneHolder, SentOnce, NoneDropped, ClosedInOrder, PoolIsDone, CloseJobs
<1>2. CASE CloseResults
  BY <1>2, PoolAssumption
  DEF IInv, TypeOK, OneHolder, SentOnce, NoneDropped, ClosedInOrder, PoolIsDone, CloseResults
<1>3. CASE Return
  BY <1>3, PoolAssumption
  DEF IInv, TypeOK, OneHolder, SentOnce, NoneDropped, ClosedInOrder, PoolIsDone, Return
<1>4. ASSUME NEW w \in Workers, Done(w) PROVE IInv'
  BY <1>4, PoolAssumption
  DEF IInv, TypeOK, OneHolder, SentOnce, NoneDropped, ClosedInOrder, PoolIsDone, Done
<1>5. ASSUME NEW w \in Workers, NEW kind \in Kinds, ReadFile(w, kind) PROVE IInv'
  BY <1>5, PoolAssumption
  DEF IInv, TypeOK, OneHolder, SentOnce, NoneDropped, ClosedInOrder, PoolIsDone, ReadFile
<1> QED
  BY <1>1, <1>2, <1>3, <1>4, <1>5

\* A candidate moves from its worker into the channel.
LEMMA SendIInv == ASSUME IInv, NEW w \in Workers, Send(w) PROVE IInv'
<1> USE DEF Holds, Candidates
<1>1. /\ job[w] \in Candidates /\ found[w] \in Kinds /\ found[w] # Nothing
      /\ job[w] \notin Sent
      /\ fed \in Nat
  BY PoolAssumption DEF IInv, TypeOK, OneHolder, ClosedInOrder, Send, Kinds, Nothing
<1>2. TypeOK'
  BY <1>1, PoolAssumption DEF IInv, TypeOK, Send
<1>3. Buffered' = Buffered \cup {job[w]}
  BY <1>1 DEF IInv, TypeOK, Send, Buffered
<1>4. Sent' = Sent \cup {job[w]}
  BY <1>3 DEF Sent, Send
<1>5. OneHolder'
  BY <1>4 DEF IInv, TypeOK, OneHolder, Send
<1>6. SentOnce'
  BY <1>1, <1>3, <1>4 DEF IInv, TypeOK, OneHolder, SentOnce, Sent, Send
<1>7. NoneDropped'
  BY <1>4 DEF IInv, TypeOK, NoneDropped, Send
<1>8. ClosedInOrder'
  BY <1>3 DEF IInv, TypeOK, ClosedInOrder, PoolIsDone, Send
<1> QED
  BY <1>2, <1>5, <1>6, <1>7, <1>8 DEF IInv

\* Scan takes a result; only an error's candidate is in no place afterwards.
LEMMA CollectIInv == ASSUME IInv, NEW c \in Candidates, Collect(c) PROVE IInv'
<1> USE DEF Holds, Candidates
<1>1. c \in Buffered /\ results[c] \in Kinds
  BY DEF IInv, TypeOK, Collect, Buffered
<1>2. TypeOK'
  BY PoolAssumption DEF IInv, TypeOK, Collect
<1>3. Buffered' = Buffered \ {c}
  BY DEF IInv, TypeOK, Collect, Buffered
<1>4. Sent' \subseteq Sent /\ (scan' # "failed" => Sent' = Sent)
  BY <1>1, <1>3 DEF Sent, Collect, Kinds, IInv, TypeOK
<1>5. OneHolder'
  BY <1>4 DEF IInv, TypeOK, OneHolder, Collect
<1>6. SentOnce'
  BY <1>1, <1>3, <1>4 DEF IInv, TypeOK, SentOnce, Sent, Collect
<1>7. NoneDropped'
  BY <1>4 DEF IInv, TypeOK, NoneDropped, Collect
<1>8. ClosedInOrder'
  BY <1>3 DEF IInv, TypeOK, ClosedInOrder, PoolIsDone, Collect
<1> QED
  BY <1>2, <1>5, <1>6, <1>7, <1>8 DEF IInv

\* A step of any goroutine, or none, keeps the inductive invariant.
LEMMA NextIInv == IInv /\ [Next]_vars => IInv'
<1> SUFFICES ASSUME IInv, [Next]_vars PROVE IInv'
  OBVIOUS
<1>1. CASE UNCHANGED vars
  BY <1>1
  DEF vars, IInv, TypeOK, OneHolder, SentOnce, NoneDropped, ClosedInOrder, PoolIsDone, Holds,
      Sent, Buffered
<1>2. ASSUME NEW w \in Workers, WorkerStep(w) PROVE IInv'
  BY <1>2, FeedIInv, SendIInv, LocalIInv DEF WorkerStep
<1>3. CASE CloseJobs \/ CloseResults
  BY <1>3, LocalIInv
<1>4. CASE ScanStep
  BY <1>4, CollectIInv, LocalIInv DEF ScanStep
<1> QED
  BY <1>1, <1>2, <1>3, <1>4 DEF Next

\* The inductive invariant holds in every reachable state: candidates are never
\* lost or read twice, whatever the workers' order.
THEOREM PoolInvariant == Spec => []IInv
<1>1. Init => IInv
  BY InitIInv
<1>2. IInv /\ [Next]_vars => IInv'
  BY NextIInv
<1> QED
  BY <1>1, <1>2, PTL DEF Spec

\* Every reachable state is well typed.
THEOREM PoolTypeCorrect == Spec => []TypeOK
<1>1. IInv => TypeOK
  BY DEF IInv
<1> QED
  BY <1>1, PoolInvariant, PTL

\* A scan that returns without an error has taken every candidate once: the
\* pool was done, so no worker held one, and the channel was empty.
THEOREM EveryFileReported == Spec => []EveryFileIsReported
<1>1. ASSUME IInv, scan = "returned"
      PROVE  files \cup skipped = Candidates /\ files \cap skipped = {}
  <2>1. PoolIsDone /\ Buffered = {} /\ fed = Size
    BY <1>1 DEF IInv, ClosedInOrder, PoolIsDone
  <2>2. \A w \in Workers : ~Holds(w)
    BY <2>1 DEF PoolIsDone, Holds
  <2> QED
    BY <1>1, <2>1, <2>2 DEF IInv, NoneDropped, SentOnce, Sent, Candidates
<1>2. IInv => EveryFileIsReported
  BY <1>1 DEF EveryFileIsReported
<1> QED
  BY <1>2, PoolInvariant, PTL

\* No worker ever finds the channel full: it holds a candidate that is not in
\* the channel, and there are no more candidates than places.
THEOREM WorkersNeverWait == Spec => []WorkersNeverBlock
<1>1. ASSUME IInv, NEW w \in Workers, at[w] = "send"
      PROVE  Cardinality(Buffered) < Capacity
  <2>1. job[w] \in Candidates /\ Buffered \subseteq Candidates \ {job[w]}
    BY <1>1 DEF IInv, TypeOK, OneHolder, SentOnce, Holds, Sent, Buffered, Candidates
  <2>2. IsFiniteSet(Candidates) /\ Cardinality(Candidates) = Size /\ Size \in Nat
    BY PoolAssumption, FS_Interval DEF Candidates
  <2>3. /\ IsFiniteSet(Candidates \ {job[w]})
        /\ Cardinality(Candidates \ {job[w]}) = Size - 1
    BY <2>1, <2>2, FS_RemoveElement
  <2>4. Cardinality(Buffered) <= Size - 1
    BY <2>1, <2>3, FS_Subset
  <2>5. IsFiniteSet(Buffered)
    BY <2>1, <2>3, FS_Subset
  <2>6. Cardinality(Buffered) \in Nat
    BY <2>5, FS_CardinalityType
  <2> QED
    BY <2>2, <2>4, <2>6 DEF Capacity
<1>2. IInv => WorkersNeverBlock
  BY <1>1 DEF WorkersNeverBlock
<1> QED
  BY <1>2, PoolInvariant, PTL
=============================================================================
