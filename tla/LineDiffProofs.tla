--------------------------- MODULE LineDiffProofs ---------------------------
(***************************************************************************)
(* Theorems about LineDiff, for every two files: Myers' search and its walk*)
(* back find a script that leads from the one to the other, the shortest   *)
(* there is, and find one whenever the budget allows it.  Induction is over*)
(* the edits of the search and of a script, by the least number for which  *)
(* a claim would fail.                                                     *)
(***************************************************************************)
EXTENDS LineDiff, FiniteSetTheorems, SequenceTheorems, FunctionTheorems,
        WellFoundedInduction, TLAPS

-----------------------------------------------------------------------------
\* Induction, and the snakes.

\* A set of numbers that is not empty has a least one.
LEMMA LeastNumber ==
  ASSUME NEW T, T \subseteq Nat, T # {}
  PROVE  \E m \in T : \A n \in T : m <= n
<1>1. PICK R : R = OpToRel(<, Nat)
  OBVIOUS
<1>2. IsWellFoundedOn(R, Nat)
  BY <1>1, NatLessThanWellFounded
<1>3. PICK m \in T : \A n \in T : ~(<<n, m>> \in R)
  BY <1>2, WFMin
<1>4. \A n, k \in Nat : n < k => <<n, k>> \in R
  BY <1>1 DEF OpToRel
<1>5. \A n \in T : n \in Nat /\ m \in Nat /\ ~(n < m)
  BY <1>3, <1>4
<1> QED
  BY <1>5

\* What holds of 0, and of the successor of every number it holds of, holds of
\* all numbers.
LEMMA EveryNumber ==
  ASSUME NEW T, 0 \in T, \A n \in Nat : n \in T => n + 1 \in T
  PROVE  \A n \in Nat : n \in T
<1> DEFINE U == Nat \ T
<1> SUFFICES ASSUME U # {} PROVE FALSE
  OBVIOUS
<1>1. PICK m \in U : \A n \in U : m <= n
  BY LeastNumber
<1>2. m \in Nat /\ m # 0
  BY <1>1
<1>3. m - 1 \in Nat /\ ~(m <= m - 1)
  BY <1>2
<1>4. m - 1 \in T
  BY <1>1, <1>3
<1>5. (m - 1) + 1 \in T
  BY <1>3, <1>4
<1>6. (m - 1) + 1 = m
  BY <1>2
<1> QED
  BY <1>1, <1>5, <1>6

\* A snake runs over equal lines, inside both files, and no further can.
LEMMA SnakeRuns ==
  ASSUME NEW a, NEW b, Len(a) \in Nat, Len(b) \in Nat, NEW x \in Nat, NEW y \in Int
  PROVE  /\ Snake(a, b, x, y) \in 0..Len(a)
         /\ \A i \in 1..Snake(a, b, x, y) :
               x + i <= Len(a) /\ y + i <= Len(b) /\ a[x + i] = b[y + i]
         /\ LET n == Snake(a, b, x, y) + 1
            IN  ~(x + n <= Len(a) /\ y + n <= Len(b) /\ a[x + n] = b[y + n])
<1> DEFINE equal(i) == x + i <= Len(a) /\ y + i <= Len(b) /\ a[x + i] = b[y + i]
           T == {n \in Nat : ~equal(n + 1)}
<1>1. Len(a) \in T
  OBVIOUS
<1>2. PICK m \in T : \A n \in T : m <= n
  BY <1>1, LeastNumber
<1>3. m \in 0..Len(a) /\ ~equal(m + 1)
  BY <1>1, <1>2
<1>4. ASSUME NEW i \in 1..m PROVE equal(i)
  <2>1. i - 1 \in Nat /\ ~(m <= i - 1) /\ (i - 1) + 1 = i
    BY <1>3
  <2>2. equal((i - 1) + 1)
    BY <1>2, <2>1
  <2> QED
    BY <2>1, <2>2
<1>5. \E r \in 0..Len(a) : (\A i \in 1..r : equal(i)) /\ ~equal(r + 1)
  BY <1>3, <1>4
<1>6. Snake(a, b, x, y) = CHOOSE r \in 0..Len(a) : (\A i \in 1..r : equal(i)) /\ ~equal(r + 1)
  BY DEF Snake
<1> HIDE DEF equal
<1>7. /\ Snake(a, b, x, y) \in 0..Len(a) /\ \A i \in 1..Snake(a, b, x, y) : equal(i)
      /\ ~equal(Snake(a, b, x, y) + 1)
  BY <1>5, <1>6
<1> QED
  BY <1>7 DEF equal

\* Every frontier is the furthest that the one before it leads to.
LEMMA FrontierUnfolds ==
  ASSUME NEW a, NEW b, Len(a) \in Nat, Len(b) \in Nat
  PROVE  Frontier(a, b) = [d \in 0..(Len(a) + Len(b)) |->
            Furthest(a, b, IF d = 0 THEN [k \in {1} |-> 0] ELSE Frontier(a, b)[d - 1], d)]
<1> DEFINE front(n) == \E f : f = [d \in 0..n |->
              Furthest(a, b, IF d = 0 THEN [k \in {1} |-> 0] ELSE f[d - 1], d)]
           T == {n \in Nat : front(n)}
<1>1. 0 \in T
  <2>1. PICK f : f = [d \in 0..0 |-> Furthest(a, b, [k \in {1} |-> 0], d)]
    OBVIOUS
  <2>2. f = [d \in 0..0 |-> Furthest(a, b, IF d = 0 THEN [k \in {1} |-> 0] ELSE f[d - 1], d)]
    BY <2>1
  <2> QED
    BY <2>2
<1>2. ASSUME NEW n \in Nat, n \in T PROVE n + 1 \in T
  <2>1. PICK f : f = [d \in 0..n |->
              Furthest(a, b, IF d = 0 THEN [k \in {1} |-> 0] ELSE f[d - 1], d)]
    BY <1>2
  <2>2. PICK g : g = [d \in 0..(n + 1) |-> IF d = n + 1 THEN Furthest(a, b, f[n], n + 1) ELSE f[d]]
    OBVIOUS
  <2>3. ASSUME NEW d \in 0..(n + 1)
        PROVE  g[d] = Furthest(a, b, IF d = 0 THEN [k \in {1} |-> 0] ELSE g[d - 1], d)
    <3>1. CASE d = n + 1
      <4>1. g[d] = Furthest(a, b, f[n], d) /\ d # 0 /\ d - 1 = n
        BY <2>2, <3>1
      <4>2. g[n] = f[n]
        BY <2>2
      <4> QED
        BY <4>1, <4>2
    <3>2. CASE d # n + 1
      <4>1. d \in 0..n /\ g[d] = f[d]
        BY <2>2, <3>2
      <4>2. d # 0 => g[d - 1] = f[d - 1]
        BY <2>2, <4>1
      <4> QED
        BY <2>1, <4>1, <4>2
    <3> QED
      BY <3>1, <3>2
  <2>4. g = [d \in 0..(n + 1) |-> Furthest(a, b, IF d = 0 THEN [k \in {1} |-> 0] ELSE g[d - 1], d)]
    BY <2>2, <2>3
  <2> QED
    BY <2>4
<1>3. front(Len(a) + Len(b))
  <2>1. \A n \in Nat : n \in T
    BY <1>1, <1>2, EveryNumber
  <2> QED
    BY <2>1
<1> QED
  BY <1>3 DEF Frontier

-----------------------------------------------------------------------------
\* The frontiers: how they grow, and that one past the end of a file was there
\* an edit before.

\* The diagonals of d edits and those next to them.
LEMMA DiagonalsMeet ==
  ASSUME NEW d \in Nat, NEW k \in Diagonals(d)
  PROVE  /\ k \in Int /\ -d <= k /\ k <= d
         /\ k - 1 \in Diagonals(d + 1) /\ k + 1 \in Diagonals(d + 1)
         /\ d > 0 /\ k # d => k + 1 \in Diagonals(d - 1)
         /\ d > 0 /\ k # -d => k - 1 \in Diagonals(d - 1)
         /\ d = 0 => k = 0
<1>1. k \in -d..d /\ (k + d) % 2 = 0
  BY DEF Diagonals
<1>2. k \in Int /\ -d <= k /\ k <= d
  BY <1>1
<1>3. (k - 1 + (d + 1)) % 2 = 0 /\ (k + 1 + (d + 1)) % 2 = 0
  BY <1>1
<1>4. k - 1 \in -(d + 1)..(d + 1) /\ k + 1 \in -(d + 1)..(d + 1)
  BY <1>1
<1>5. ASSUME d > 0, k # d PROVE k + 1 \in -(d - 1)..(d - 1) /\ (k + 1 + (d - 1)) % 2 = 0
  BY <1>1, <1>5
<1>6. ASSUME d > 0, k # -d PROVE k - 1 \in -(d - 1)..(d - 1) /\ (k - 1 + (d - 1)) % 2 = 0
  BY <1>1, <1>6
<1> QED
  BY <1>2, <1>3, <1>4, <1>5, <1>6 DEF Diagonals

\* The frontier before the one after d edits.
Trace(a, b, d) == IF d = 0 THEN [k \in {1} |-> 0] ELSE Frontier(a, b)[d - 1]

\* Where diagonal k is entered.
Entry(v, k, d) == IF Down(v, k, d) THEN v[k + 1] ELSE v[k - 1] + 1

\* A frontier is where its diagonal is entered, and the snake from there.
LEMMA FrontierValue ==
  ASSUME NEW a, NEW b, Len(a) \in Nat, Len(b) \in Nat,
         NEW d \in 0..(Len(a) + Len(b)), NEW k \in Diagonals(d)
  PROVE  LET x == Entry(Trace(a, b, d), k, d)
         IN  Frontier(a, b)[d][k] = x + Snake(a, b, x, x - k)
<1>1. Frontier(a, b)[d] = Furthest(a, b, Trace(a, b, d), d)
  BY FrontierUnfolds DEF Trace
<1> QED
  BY <1>1 DEF Furthest, Entry

\* Without edits only the diagonal from the start is entered, at the start.
LEMMA EntryFirst ==
  ASSUME NEW a, NEW b, NEW k \in Diagonals(0)
  PROVE  k = 0 /\ Entry(Trace(a, b, 0), k, 0) = 0
<1>1. k = 0 /\ k = -0 /\ k + 1 = 1
  BY DiagonalsMeet
<1>2. Down(Trace(a, b, 0), k, 0)
  BY <1>1 DEF Down
<1>3. Trace(a, b, 0)[1] = 0
  BY DEF Trace
<1> QED
  BY <1>1, <1>2, <1>3 DEF Entry

\* After an edit a diagonal is entered from one next to it.
LEMMA EntryFrom ==
  ASSUME NEW a, NEW b, NEW d \in Nat \ {0}, NEW k \in Diagonals(d)
  PROVE  \/ /\ Down(Frontier(a, b)[d - 1], k, d) /\ k + 1 \in Diagonals(d - 1)
            /\ Entry(Trace(a, b, d), k, d) = Frontier(a, b)[d - 1][k + 1]
         \/ /\ ~Down(Frontier(a, b)[d - 1], k, d) /\ k - 1 \in Diagonals(d - 1)
            /\ Entry(Trace(a, b, d), k, d) = Frontier(a, b)[d - 1][k - 1] + 1
<1>1. Trace(a, b, d) = Frontier(a, b)[d - 1]
  BY DEF Trace
<1>2. /\ k + 1 \in Diagonals(d - 1) \/ k = d
      /\ k - 1 \in Diagonals(d - 1) \/ k = -d
      /\ k \in Int
  BY DiagonalsMeet
<1>3. k = d => k # -d
  OBVIOUS
<1> QED
  BY <1>1, <1>2, <1>3 DEF Entry, Down

\* No frontier is before the first line of either file.
LEMMA FrontierTyped ==
  ASSUME NEW a, NEW b, Len(a) \in Nat, Len(b) \in Nat
  PROVE  \A d \in 0..(Len(a) + Len(b)) : \A k \in Diagonals(d) :
            Frontier(a, b)[d][k] \in Nat /\ Frontier(a, b)[d][k] >= k
<1> DEFINE typed(d) == \A k \in Diagonals(d) :
                          Frontier(a, b)[d][k] \in Nat /\ Frontier(a, b)[d][k] >= k
           T == {d \in Nat : d <= Len(a) + Len(b) => typed(d)}
<1>1. ASSUME NEW d \in 0..(Len(a) + Len(b)), d > 0 => typed(d - 1) PROVE typed(d)
  <2> SUFFICES ASSUME NEW k \in Diagonals(d)
               PROVE  Frontier(a, b)[d][k] \in Nat /\ Frontier(a, b)[d][k] >= k
    OBVIOUS
  <2>1. PICK x : x = Entry(Trace(a, b, d), k, d)
    OBVIOUS
  <2>2. d \in Nat /\ k \in Int
    BY DiagonalsMeet
  <2>3. x \in Nat /\ x >= k
    <3>1. CASE d = 0
      BY <2>1, <3>1, EntryFirst
    <3>2. CASE d > 0
      <4>1. \/ k + 1 \in Diagonals(d - 1) /\ x = Frontier(a, b)[d - 1][k + 1]
            \/ k - 1 \in Diagonals(d - 1) /\ x = Frontier(a, b)[d - 1][k - 1] + 1
        BY <2>1, <3>2, EntryFrom
      <4>2. typed(d - 1)
        BY <1>1, <3>2
      <4> HIDE DEF T
      <4> QED
        BY <2>2, <4>1, <4>2
    <3> QED
      BY <2>2, <3>1, <3>2
  <2>4. Frontier(a, b)[d][k] = x + Snake(a, b, x, x - k)
    BY <2>1, FrontierValue
  <2>5. Snake(a, b, x, x - k) \in Nat
    <3>1. x - k \in Int
      BY <2>2, <2>3
    <3>2. Snake(a, b, x, x - k) \in 0..Len(a)
      BY <2>3, <3>1, SnakeRuns
    <3> QED
      BY <3>2
  <2> QED
    BY <2>2, <2>3, <2>4, <2>5
<1> HIDE DEF typed
<1>2. 0 \in T
  BY <1>1
<1>3. ASSUME NEW n \in Nat, n \in T PROVE n + 1 \in T
  <2> SUFFICES ASSUME n + 1 <= Len(a) + Len(b) PROVE typed(n + 1)
    OBVIOUS
  <2>1. typed(n) /\ n + 1 \in 0..(Len(a) + Len(b)) /\ (n + 1) - 1 = n
    BY <1>3
  <2> QED
    BY <1>1, <2>1
<1>4. \A n \in Nat : n \in T
  BY <1>2, <1>3, EveryNumber
<1>5. \A d \in 0..(Len(a) + Len(b)) : typed(d)
  BY <1>4
<1> QED
  BY <1>5 DEF typed

\* One more edit gets as far on both diagonals next to a diagonal.
LEMMA FrontierGrows ==
  ASSUME NEW a, NEW b, Len(a) \in Nat, Len(b) \in Nat,
         NEW d \in 1..(Len(a) + Len(b)), NEW k \in Diagonals(d - 1)
  PROVE  /\ k - 1 \in Diagonals(d) /\ k + 1 \in Diagonals(d)
         /\ Frontier(a, b)[d][k - 1] >= Frontier(a, b)[d - 1][k]
         /\ Frontier(a, b)[d][k + 1] >= Frontier(a, b)[d - 1][k] + 1
<1> DEFINE F == Frontier(a, b)
<1>1. d \in Nat /\ d > 0 /\ d - 1 \in Nat /\ d \in 0..(Len(a) + Len(b))
      /\ d - 1 \in 0..(Len(a) + Len(b)) /\ (d - 1) + 1 = d
  OBVIOUS
<1>2. k \in Int /\ -(d - 1) <= k /\ k <= d - 1 /\ k - 1 \in Diagonals(d) /\ k + 1 \in Diagonals(d)
  BY <1>1, DiagonalsMeet
<1>3. ASSUME NEW j \in Diagonals(d)
      PROVE  /\ F[d][j] \in Nat /\ Entry(Trace(a, b, d), j, d) \in Nat
             /\ F[d][j] >= Entry(Trace(a, b, d), j, d)
  <2>1. PICK x : x = Entry(Trace(a, b, d), j, d)
    OBVIOUS
  <2>2. \/ j + 1 \in Diagonals(d - 1) /\ x = F[d - 1][j + 1]
        \/ j - 1 \in Diagonals(d - 1) /\ x = F[d - 1][j - 1] + 1
    BY <1>1, <2>1, EntryFrom
  <2>3. x \in Nat /\ j \in Int
    <3>1. j \in Int
      BY <1>1, DiagonalsMeet
    <3>2. \A i \in Diagonals(d - 1) : F[d - 1][i] \in Nat
      BY <1>1, FrontierTyped
    <3> QED
      BY <2>2, <3>1, <3>2
  <2>4. F[d][j] = x + Snake(a, b, x, x - j) /\ F[d][j] \in Nat
    BY <1>1, <2>1, FrontierValue, FrontierTyped
  <2>5. Snake(a, b, x, x - j) \in Nat
    <3>1. x - j \in Int
      BY <2>3
    <3>2. Snake(a, b, x, x - j) \in 0..Len(a)
      BY <2>3, <3>1, SnakeRuns
    <3> QED
      BY <3>2
  <2> QED
    BY <2>1, <2>3, <2>4, <2>5
<1>4. F[d - 1][k] \in Nat
  BY <1>1, FrontierTyped
<1>5. F[d][k - 1] >= F[d - 1][k]
  <2>1. PICK x : x = Entry(Trace(a, b, d), k - 1, d)
    OBVIOUS
  <2>2. F[d][k - 1] \in Nat /\ x \in Nat /\ F[d][k - 1] >= x
    BY <1>2, <1>3, <2>1
  <2>3. (k - 1) + 1 = k /\ k - 1 # d
    BY <1>1, <1>2
  <2>4. \/ x = F[d - 1][k]
        \/ /\ ~Down(F[d - 1], k - 1, d) /\ (k - 1) - 1 \in Diagonals(d - 1)
           /\ x = F[d - 1][(k - 1) - 1] + 1
    BY <1>1, <1>2, <2>1, <2>3, EntryFrom
  <2>5. CASE x = F[d - 1][k]
    BY <2>2, <2>5
  <2>6. CASE ~Down(F[d - 1], k - 1, d) /\ (k - 1) - 1 \in Diagonals(d - 1)
             /\ x = F[d - 1][(k - 1) - 1] + 1
    <3>1. ~(F[d - 1][(k - 1) - 1] < F[d - 1][k])
      BY <2>3, <2>6 DEF Down
    <3>2. F[d - 1][(k - 1) - 1] \in Nat
      BY <1>1, <2>6, FrontierTyped
    <3> QED
      BY <1>4, <2>2, <2>6, <3>1, <3>2
  <2> QED
    BY <2>4, <2>5, <2>6
<1>6. F[d][k + 1] >= F[d - 1][k] + 1
  <2>1. PICK x : x = Entry(Trace(a, b, d), k + 1, d)
    OBVIOUS
  <2>2. F[d][k + 1] \in Nat /\ x \in Nat /\ F[d][k + 1] >= x
    BY <1>2, <1>3, <2>1
  <2>3. (k + 1) - 1 = k /\ k + 1 # -d
    BY <1>1, <1>2
  <2>4. \/ x = F[d - 1][k] + 1
        \/ /\ Down(F[d - 1], k + 1, d) /\ (k + 1) + 1 \in Diagonals(d - 1)
           /\ x = F[d - 1][(k + 1) + 1]
    BY <1>1, <1>2, <2>1, <2>3, EntryFrom
  <2>5. CASE x = F[d - 1][k] + 1
    BY <1>4, <2>2, <2>5
  <2>6. CASE Down(F[d - 1], k + 1, d) /\ (k + 1) + 1 \in Diagonals(d - 1)
             /\ x = F[d - 1][(k + 1) + 1]
    <3>1. F[d - 1][k] < F[d - 1][(k + 1) + 1]
      BY <2>3, <2>6 DEF Down
    <3>2. F[d - 1][(k + 1) + 1] \in Nat
      BY <1>1, <2>6, FrontierTyped
    <3> QED
      BY <1>4, <2>2, <2>6, <3>1, <3>2
  <2> QED
    BY <2>4, <2>5, <2>6
<1> QED
  BY <1>2, <1>5, <1>6

\* A snake that is not empty stays inside both files.
LEMMA SnakeInside ==
  ASSUME NEW a, NEW b, Len(a) \in Nat, Len(b) \in Nat, NEW x \in Nat, NEW y \in Int
  PROVE  /\ Snake(a, b, x, y) \in Nat
         /\ \/ Snake(a, b, x, y) = 0
            \/ x + Snake(a, b, x, y) <= Len(a) /\ y + Snake(a, b, x, y) <= Len(b)
<1>1. PICK r : r = Snake(a, b, x, y)
  OBVIOUS
<1>2. r \in 0..Len(a) /\ \A i \in 1..r : x + i <= Len(a) /\ y + i <= Len(b)
  BY <1>1, SnakeRuns
<1>3. r \in Nat /\ (r = 0 \/ r \in 1..r)
  BY <1>2
<1> QED
  BY <1>1, <1>2, <1>3

\* Past the first edits, where a frontier stands and where that came from.
LEMMA FrontierCame ==
  ASSUME NEW a, NEW b, Len(a) \in Nat, Len(b) \in Nat,
         NEW d \in 1..(Len(a) + Len(b)), NEW k \in Diagonals(d)
  PROVE  \E x, r \in Nat :
           /\ Frontier(a, b)[d][k] = x + r
           /\ r = 0 \/ (x + r <= Len(a) /\ x - k + r <= Len(b))
           /\ \A i \in 1..r : a[x + i] = b[x - k + i]
           /\ \/ /\ Down(Frontier(a, b)[d - 1], k, d) /\ k + 1 \in Diagonals(d - 1)
                 /\ x = Frontier(a, b)[d - 1][k + 1]
              \/ /\ ~Down(Frontier(a, b)[d - 1], k, d) /\ k - 1 \in Diagonals(d - 1)
                 /\ x = Frontier(a, b)[d - 1][k - 1] + 1
<1> DEFINE F == Frontier(a, b)
<1>1. PICK x : x = Entry(Trace(a, b, d), k, d)
  OBVIOUS
<1>2. \/ Down(F[d - 1], k, d) /\ k + 1 \in Diagonals(d - 1) /\ x = F[d - 1][k + 1]
      \/ ~Down(F[d - 1], k, d) /\ k - 1 \in Diagonals(d - 1) /\ x = F[d - 1][k - 1] + 1
  BY <1>1, EntryFrom
<1>3. d - 1 \in 0..(Len(a) + Len(b)) /\ d \in 0..(Len(a) + Len(b)) /\ d \in Nat
  OBVIOUS
<1>4. \A i \in Diagonals(d - 1) : F[d - 1][i] \in Nat
  BY <1>3, FrontierTyped
<1>5. x \in Nat
  BY <1>2, <1>4
<1>6. k \in Int /\ x - k \in Int
  <2>1. k \in Int
    BY <1>3, DiagonalsMeet
  <2> QED
    BY <1>5, <2>1
<1>7. PICK r : r = Snake(a, b, x, x - k)
  OBVIOUS
<1>8. r \in Nat /\ (r = 0 \/ (x + r <= Len(a) /\ x - k + r <= Len(b)))
  BY <1>5, <1>6, <1>7, SnakeInside
<1>9. \A i \in 1..r : a[x + i] = b[x - k + i]
  <2> SUFFICES ASSUME NEW i \in 1..r PROVE a[x + i] = b[x - k + i]
    OBVIOUS
  <2>1. i \in 1..Snake(a, b, x, x - k)
    BY <1>7
  <2> QED
    BY <1>5, <1>6, <2>1, SnakeRuns
<1>10. F[d][k] = x + r
  BY <1>1, <1>3, <1>7, FrontierValue
<1> QED
  BY <1>2, <1>5, <1>8, <1>9, <1>10

\* Without edits the frontier is the files' common beginning.
LEMMA FrontierFirst ==
  ASSUME NEW a, NEW b, Len(a) \in Nat, Len(b) \in Nat
  PROVE  /\ Diagonals(0) = {0}
         /\ Frontier(a, b)[0][0] \in Nat
         /\ Frontier(a, b)[0][0] <= Len(a) /\ Frontier(a, b)[0][0] <= Len(b)
         /\ \A i \in 1..Frontier(a, b)[0][0] : a[i] = b[i]
<1>1. 0 \in Diagonals(0) /\ \A k \in Diagonals(0) : k = 0
  <2>1. 0 \in -0..0 /\ (0 + 0) % 2 = 0
    OBVIOUS
  <2> QED
    BY <2>1, DiagonalsMeet DEF Diagonals
<1>2. Entry(Trace(a, b, 0), 0, 0) = 0
  BY <1>1, EntryFirst
<1>3. Frontier(a, b)[0][0] = 0 + Snake(a, b, 0, 0 - 0)
  BY <1>1, <1>2, FrontierValue
<1>4. PICK r : r = Snake(a, b, 0, 0)
  OBVIOUS
<1>5. /\ r \in Nat /\ (r = 0 \/ (0 + r <= Len(a) /\ 0 + r <= Len(b)))
      /\ \A i \in 1..r : a[0 + i] = b[0 + i]
  <2>1. 0 \in Nat /\ 0 \in Int
    OBVIOUS
  <2>2. r \in Nat /\ (r = 0 \/ (0 + r <= Len(a) /\ 0 + r <= Len(b)))
    BY <1>4, <2>1, SnakeInside
  <2>3. \A i \in 1..Snake(a, b, 0, 0) : a[0 + i] = b[0 + i]
    <3>1. PICK o : o = 0
      OBVIOUS
    <3>2. \A i \in 1..Snake(a, b, o, o) : a[o + i] = b[o + i]
      BY <2>1, <3>1, SnakeRuns
    <3> QED
      BY <3>1, <3>2
  <2> QED
    BY <1>4, <2>2, <2>3
<1>6. Frontier(a, b)[0][0] = r
  BY <1>3, <1>4, <1>5
<1> QED
  BY <1>1, <1>5, <1>6

\* A frontier past the end of the first file was there one edit before, on the
\* diagonal below: a deletion that deletes nothing.
LEMMA PastFirst ==
  ASSUME NEW a, NEW b, Len(a) \in Nat, Len(b) \in Nat
  PROVE  \A d \in 0..(Len(a) + Len(b)) : \A k \in Diagonals(d) :
            Frontier(a, b)[d][k] > Len(a) =>
              /\ d > 0 /\ k - 1 \in Diagonals(d - 1)
              /\ Frontier(a, b)[d - 1][k - 1] >= Frontier(a, b)[d][k] - 1
<1> DEFINE F == Frontier(a, b)
           past(d) == \A k \in Diagonals(d) : F[d][k] > Len(a) =>
                         /\ d > 0 /\ k - 1 \in Diagonals(d - 1)
                         /\ F[d - 1][k - 1] >= F[d][k] - 1
           T == {d \in Nat : d <= Len(a) + Len(b) => past(d)}
<1>1. 0 \in T
  <2>1. \A k \in Diagonals(0) : ~(F[0][k] > Len(a))
    BY FrontierFirst
  <2> QED
    BY <2>1
<1>2. ASSUME NEW n \in Nat, n \in T, n + 1 <= Len(a) + Len(b) PROVE past(n + 1)
  <2>1. PICK d : d = n + 1
    OBVIOUS
  <2>2. /\ d \in 1..(Len(a) + Len(b)) /\ d \in 0..(Len(a) + Len(b)) /\ d \in Nat
        /\ d - 1 = n /\ n \in 0..(Len(a) + Len(b)) /\ d > 0
    BY <1>2, <2>1
  <2> SUFFICES ASSUME NEW k \in Diagonals(d), F[d][k] > Len(a)
               PROVE  k - 1 \in Diagonals(d - 1) /\ F[d - 1][k - 1] >= F[d][k] - 1
    BY <2>1, <2>2
  <2>3. k \in Int /\ -d <= k /\ k <= d
    BY <2>2, DiagonalsMeet
  <2>4. PICK x, r \in Nat :
           /\ F[d][k] = x + r
           /\ r = 0 \/ (x + r <= Len(a) /\ x - k + r <= Len(b))
           /\ \A i \in 1..r : a[x + i] = b[x - k + i]
           /\ \/ /\ Down(F[d - 1], k, d) /\ k + 1 \in Diagonals(d - 1)
                 /\ x = F[d - 1][k + 1]
              \/ /\ ~Down(F[d - 1], k, d) /\ k - 1 \in Diagonals(d - 1)
                 /\ x = F[d - 1][k - 1] + 1
    BY <2>2, FrontierCame
  <2>5. F[d][k] = x /\ x > Len(a)
    BY <2>4
  <2>6. \A i \in Diagonals(d - 1) : F[d - 1][i] \in Nat
    BY <2>2, FrontierTyped
  <2>7. CASE k - 1 \in Diagonals(d - 1) /\ x = F[d - 1][k - 1] + 1
    BY <2>5, <2>6, <2>7
  <2>8. CASE k + 1 \in Diagonals(d - 1) /\ x = F[d - 1][k + 1]
    <3>1. past(n)
      BY <1>2, <2>2
    <3>2. (k + 1) - 1 = k
      BY <2>3
    <3>3. n > 0 /\ k \in Diagonals(n - 1) /\ F[n - 1][k] >= x - 1
      BY <2>2, <2>5, <2>8, <3>1, <3>2
    <3>4. n \in 1..(Len(a) + Len(b)) /\ n - 1 \in 0..(Len(a) + Len(b))
      BY <2>2, <3>3
    <3>5. k - 1 \in Diagonals(n) /\ F[n][k - 1] >= F[n - 1][k]
      BY <3>3, <3>4, FrontierGrows
    <3>6. F[n][k - 1] \in Nat /\ F[n - 1][k] \in Nat
      BY <2>2, <3>3, <3>4, <3>5, FrontierTyped
    <3>7. F[n][k - 1] >= x - 1
      BY <2>4, <3>3, <3>5, <3>6
    <3> QED
      BY <2>2, <2>5, <3>5, <3>7
  <2> QED
    BY <2>4, <2>7, <2>8
<1> HIDE DEF past
<1>3. \A n \in Nat : n \in T => n + 1 \in T
  BY <1>2
<1>4. \A d \in Nat : d \in T
  BY <1>1, <1>3, EveryNumber
<1>5. \A d \in 0..(Len(a) + Len(b)) : past(d)
  BY <1>4
<1> QED
  BY <1>5 DEF past

\* The same of the second file and an insertion.
LEMMA PastSecond ==
  ASSUME NEW a, NEW b, Len(a) \in Nat, Len(b) \in Nat
  PROVE  \A d \in 0..(Len(a) + Len(b)) : \A k \in Diagonals(d) :
            Frontier(a, b)[d][k] - k > Len(b) =>
              /\ d > 0 /\ k + 1 \in Diagonals(d - 1)
              /\ Frontier(a, b)[d - 1][k + 1] >= Frontier(a, b)[d][k]
<1> DEFINE F == Frontier(a, b)
           past(d) == \A k \in Diagonals(d) : F[d][k] - k > Len(b) =>
                         /\ d > 0 /\ k + 1 \in Diagonals(d - 1)
                         /\ F[d - 1][k + 1] >= F[d][k]
           T == {d \in Nat : d <= Len(a) + Len(b) => past(d)}
<1>1. 0 \in T
  <2>1. \A k \in Diagonals(0) : ~(F[0][k] - k > Len(b))
    BY FrontierFirst
  <2> QED
    BY <2>1
<1>2. ASSUME NEW n \in Nat, n \in T, n + 1 <= Len(a) + Len(b) PROVE past(n + 1)
  <2>1. PICK d : d = n + 1
    OBVIOUS
  <2>2. /\ d \in 1..(Len(a) + Len(b)) /\ d \in 0..(Len(a) + Len(b)) /\ d \in Nat
        /\ d - 1 = n /\ n \in 0..(Len(a) + Len(b)) /\ d > 0
    BY <1>2, <2>1
  <2> SUFFICES ASSUME NEW k \in Diagonals(d), F[d][k] - k > Len(b)
               PROVE  k + 1 \in Diagonals(d - 1) /\ F[d - 1][k + 1] >= F[d][k]
    BY <2>1, <2>2
  <2>3. k \in Int /\ -d <= k /\ k <= d
    BY <2>2, DiagonalsMeet
  <2>4. PICK x, r \in Nat :
           /\ F[d][k] = x + r
           /\ r = 0 \/ (x + r <= Len(a) /\ x - k + r <= Len(b))
           /\ \A i \in 1..r : a[x + i] = b[x - k + i]
           /\ \/ /\ Down(F[d - 1], k, d) /\ k + 1 \in Diagonals(d - 1)
                 /\ x = F[d - 1][k + 1]
              \/ /\ ~Down(F[d - 1], k, d) /\ k - 1 \in Diagonals(d - 1)
                 /\ x = F[d - 1][k - 1] + 1
    BY <2>2, FrontierCame
  <2>5. F[d][k] = x /\ x - k > Len(b)
    BY <2>3, <2>4
  <2>6. \A i \in Diagonals(d - 1) : F[d - 1][i] \in Nat
    BY <2>2, FrontierTyped
  <2>7. CASE k + 1 \in Diagonals(d - 1) /\ x = F[d - 1][k + 1]
    BY <2>5, <2>6, <2>7
  <2>8. CASE k - 1 \in Diagonals(d - 1) /\ x = F[d - 1][k - 1] + 1
    <3>1. past(n)
      BY <1>2, <2>2
    <3>2. (k - 1) + 1 = k /\ F[n][k - 1] - (k - 1) > Len(b)
      <4>1. PICK f : f = F[n][k - 1]
        OBVIOUS
      <4>2. f \in Nat /\ x = f + 1 /\ x - k > Len(b)
        BY <2>2, <2>5, <2>6, <2>8, <4>1
      <4>3. (k - 1) + 1 = k /\ f - (k - 1) > Len(b)
        BY <2>3, <4>2
      <4> QED
        BY <4>1, <4>3
    <3>3. n > 0 /\ k \in Diagonals(n - 1) /\ F[n - 1][k] >= F[n][k - 1]
      BY <2>2, <2>8, <3>1, <3>2
    <3>4. n \in 1..(Len(a) + Len(b)) /\ n - 1 \in 0..(Len(a) + Len(b))
      BY <2>2, <3>3
    <3>5. k + 1 \in Diagonals(n) /\ F[n][k + 1] >= F[n - 1][k] + 1
      BY <3>3, <3>4, FrontierGrows
    <3>6. F[n][k + 1] \in Nat /\ F[n - 1][k] \in Nat /\ F[n][k - 1] \in Nat
      BY <2>2, <2>8, <3>3, <3>4, <3>5, FrontierTyped
    <3>7. F[n][k + 1] >= x
      BY <2>2, <2>8, <3>3, <3>5, <3>6
    <3> QED
      BY <2>2, <2>5, <3>5, <3>7
  <2> QED
    BY <2>4, <2>7, <2>8
<1> HIDE DEF past
<1>3. \A n \in Nat : n \in T => n + 1 \in T
  BY <1>2
<1>4. \A d \in Nat : d \in T
  BY <1>1, <1>3, EveryNumber
<1>5. \A d \in 0..(Len(a) + Len(b)) : past(d)
  BY <1>4
<1> QED
  BY <1>5 DEF past

-----------------------------------------------------------------------------
\* Scripts: how many lines of each side they take, and where they lead.

\* Operations, and scripts of them.
Ops == {"equal", "insert", "delete"}

Scripts(S) == Seq([op : Ops, line : S])

\* How many lines are taken is a number.
LEMMA TakenFinite ==
  ASSUME NEW s, NEW e \in Nat, NEW other
  PROVE  /\ IsFiniteSet({k \in 1..e : s[k].op # other})
         /\ Taken(s, e, other) \in Nat
<1>1. IsFiniteSet(1..e)
  BY FS_Interval
<1>2. {k \in 1..e : s[k].op # other} \in SUBSET (1..e)
  OBVIOUS
<1>3. IsFiniteSet({k \in 1..e : s[k].op # other})
  BY <1>1, <1>2, FS_Subset
<1> QED
  BY <1>3, FS_CardinalityType DEF Taken

\* No edit takes no line.
LEMMA TakenNone ==
  ASSUME NEW s, NEW other
  PROVE  Taken(s, 0, other) = 0
<1>1. {k \in 1..0 : s[k].op # other} = {}
  OBVIOUS
<1> QED
  BY <1>1, FS_EmptySet DEF Taken

\* An edit takes a line of one side or none.
LEMMA TakenNext ==
  ASSUME NEW s, NEW e \in Nat, NEW other
  PROVE  Taken(s, e + 1, other)
           = Taken(s, e, other) + IF s[e + 1].op # other THEN 1 ELSE 0
<1> DEFINE U == {k \in 1..e : s[k].op # other}
           V == {k \in 1..(e + 1) : s[k].op # other}
<1>1. IsFiniteSet(U) /\ Cardinality(U) \in Nat
  BY TakenFinite, FS_CardinalityType
<1>2. CASE s[e + 1].op # other
  <2>1. V = U \cup {e + 1} /\ e + 1 \notin U
    BY <1>2
  <2>2. Cardinality(V) = Cardinality(U) + 1
    BY <1>1, <2>1, FS_AddElement
  <2> QED
    BY <1>2, <2>2 DEF Taken
<1>3. CASE ~(s[e + 1].op # other)
  <2>1. V = U
    BY <1>3
  <2> QED
    BY <1>1, <1>3, <2>1 DEF Taken
<1> QED
  BY <1>2, <1>3

\* What edits take does not depend on those after them.
LEMMA TakenSame ==
  ASSUME NEW s, NEW t, NEW e \in Nat, NEW other, \A k \in 1..e : s[k] = t[k]
  PROVE  Taken(s, e, other) = Taken(t, e, other)
<1>1. {k \in 1..e : s[k].op # other} = {k \in 1..e : t[k].op # other}
  OBVIOUS
<1> QED
  BY <1>1 DEF Taken

\* More edits take no fewer lines.
LEMMA TakenGrows ==
  ASSUME NEW s, NEW d \in Nat, NEW e \in Nat, NEW other, d <= e
  PROVE  /\ Taken(s, d, other) <= Taken(s, e, other)
         /\ d < e /\ s[e].op # other => Taken(s, d, other) < Taken(s, e, other)
<1>1. ASSUME NEW n \in Nat, NEW m \in Nat, n <= m PROVE Taken(s, n, other) <= Taken(s, m, other)
  <2> DEFINE U == {k \in 1..n : s[k].op # other}
             V == {k \in 1..m : s[k].op # other}
  <2>1. U \in SUBSET V
    BY <1>1
  <2>2. IsFiniteSet(V)
    <3>1. IsFiniteSet(1..m)
      BY FS_Interval
    <3>2. V \in SUBSET (1..m)
      OBVIOUS
    <3> QED
      BY <3>1, <3>2, FS_Subset
  <2>3. Cardinality(U) <= Cardinality(V)
    BY <2>1, <2>2, FS_Subset
  <2> QED
    BY <2>3 DEF Taken
<1>2. ASSUME d < e, s[e].op # other PROVE Taken(s, d, other) < Taken(s, e, other)
  <2>1. e - 1 \in Nat /\ d <= e - 1 /\ (e - 1) + 1 = e
    BY <1>2
  <2>2. Taken(s, d, other) <= Taken(s, e - 1, other)
    BY <1>1, <2>1
  <2>3. Taken(s, e, other) = Taken(s, e - 1, other) + 1
    BY <1>2, <2>1, TakenNext
  <2>4. Taken(s, d, other) \in Nat /\ Taken(s, e - 1, other) \in Nat
    BY <2>1, TakenFinite
  <2> QED
    BY <2>2, <2>3, <2>4
<1> QED
  BY <1>1, <1>2

\* The elements of two sequences, one after the other.
LEMMA ConcatOf ==
  ASSUME NEW S, NEW s \in Seq(S), NEW t \in Seq(S)
  PROVE  /\ s \o t \in Seq(S) /\ Len(s) \in Nat /\ Len(t) \in Nat
         /\ Len(s \o t) = Len(s) + Len(t)
         /\ \A k \in 1..Len(s) : (s \o t)[k] = s[k]
         /\ \A k \in 1..Len(t) : (s \o t)[Len(s) + k] = t[k]
<1>1. /\ s \o t \in Seq(S) /\ Len(s) \in Nat /\ Len(t) \in Nat
      /\ Len(s \o t) = Len(s) + Len(t)
  BY ConcatProperties, LenProperties
<1>2. \A i \in 1..(Len(s) + Len(t)) :
         (s \o t)[i] = IF i <= Len(s) THEN s[i] ELSE t[i - Len(s)]
  BY ConcatProperties
<1>3. ASSUME NEW k \in 1..Len(s) PROVE (s \o t)[k] = s[k]
  <2>1. k \in 1..(Len(s) + Len(t)) /\ k <= Len(s)
    BY <1>1
  <2> QED
    BY <1>2, <2>1
<1>4. ASSUME NEW k \in 1..Len(t) PROVE (s \o t)[Len(s) + k] = t[k]
  <2>1. Len(s) + k \in 1..(Len(s) + Len(t)) /\ ~(Len(s) + k <= Len(s)) /\ (Len(s) + k) - Len(s) = k
    BY <1>1
  <2> QED
    BY <1>2, <2>1
<1> QED
  BY <1>1, <1>3, <1>4

\* What two scripts take, one after the other.
LEMMA TakenConcat ==
  ASSUME NEW S, NEW s \in Seq(S), NEW t \in Seq(S), NEW other
  PROVE  /\ \A e \in 0..Len(s) : Taken(s \o t, e, other) = Taken(s, e, other)
         /\ \A e \in 0..Len(t) : Taken(s \o t, Len(s) + e, other)
                                  = Taken(s, Len(s), other) + Taken(t, e, other)
<1>1. /\ Len(s) \in Nat /\ Len(t) \in Nat
      /\ \A k \in 1..Len(s) : (s \o t)[k] = s[k]
      /\ \A k \in 1..Len(t) : (s \o t)[Len(s) + k] = t[k]
  BY ConcatOf
<1>2. ASSUME NEW e \in 0..Len(s) PROVE Taken(s \o t, e, other) = Taken(s, e, other)
  <2>1. e \in Nat /\ \A k \in 1..e : (s \o t)[k] = s[k]
    BY <1>1
  <2> QED
    BY <2>1, TakenSame
<1> DEFINE same(e) == Taken(s \o t, Len(s) + e, other) = Taken(s, Len(s), other) + Taken(t, e, other)
           T == {e \in Nat : e <= Len(t) => same(e)}
<1>3. 0 \in T
  <2>1. Taken(s \o t, Len(s), other) = Taken(s, Len(s), other) /\ Taken(s, Len(s), other) \in Nat
    <3>1. Len(s) \in 0..Len(s) /\ Len(s) \in Nat
      BY <1>1
    <3> QED
      BY <1>2, <3>1, TakenFinite
  <2>2. Taken(t, 0, other) = 0
    BY TakenNone
  <2>3. Len(s) + 0 = Len(s)
    BY <1>1
  <2> QED
    BY <2>1, <2>2, <2>3
<1>4. ASSUME NEW e \in Nat, e \in T PROVE e + 1 \in T
  <2> SUFFICES ASSUME e + 1 <= Len(t) PROVE same(e + 1)
    OBVIOUS
  <2>1. same(e)
    BY <1>1, <1>4
  <2>2. e + 1 \in 1..Len(t) /\ Len(s) + e \in Nat /\ Len(s) + (e + 1) = (Len(s) + e) + 1
    BY <1>1
  <2>3. (s \o t)[(Len(s) + e) + 1] = t[e + 1]
    BY <1>1, <2>2
  <2>4. Taken(s \o t, (Len(s) + e) + 1, other)
          = Taken(s \o t, Len(s) + e, other) + IF (s \o t)[(Len(s) + e) + 1].op # other THEN 1 ELSE 0
    <3>1. PICK u, m : u = s \o t /\ m = Len(s) + e
      OBVIOUS
    <3>2. m \in Nat
      BY <2>2, <3>1
    <3>3. Taken(u, m + 1, other) = Taken(u, m, other) + IF u[m + 1].op # other THEN 1 ELSE 0
      BY <3>2, TakenNext
    <3> QED
      BY <3>1, <3>3
  <2>5. Taken(t, e + 1, other) = Taken(t, e, other) + IF t[e + 1].op # other THEN 1 ELSE 0
    BY TakenNext
  <2>6. Taken(s, Len(s), other) \in Nat /\ Taken(t, e, other) \in Nat
    BY <1>1, TakenFinite
  <2> QED
    BY <2>1, <2>2, <2>3, <2>4, <2>5, <2>6
<1> HIDE DEF same
<1>5. \A e \in Nat : e \in T
  BY <1>3, <1>4, EveryNumber
<1>6. ASSUME NEW e \in 0..Len(t) PROVE same(e)
  <2>1. e \in Nat /\ e <= Len(t)
    BY <1>1
  <2> QED
    BY <1>5, <2>1
<1> QED
  BY <1>2, <1>6 DEF same

\* How many edits of a script are changes.
Changes(s) == Taken(s, Len(s), "equal")

\* The changes of two scripts, one after the other.
LEMMA ChangesConcat ==
  ASSUME NEW S, NEW s \in Seq(S), NEW t \in Seq(S)
  PROVE  Changes(s \o t) = Changes(s) + Changes(t) /\ Changes(s) \in Nat /\ Changes(t) \in Nat
<1>1. PICK u, m, n : u = s \o t /\ m = Len(s) /\ n = Len(t)
  OBVIOUS
<1>2. m \in Nat /\ n \in Nat /\ Len(u) = m + n
  BY <1>1, ConcatOf
<1>3. n \in 0..n
  BY <1>2
<1>4. Taken(u, m + n, "equal") = Taken(s, m, "equal") + Taken(t, n, "equal")
  <2>1. \A e \in 0..Len(t) : Taken(s \o t, Len(s) + e, "equal")
                                = Taken(s, Len(s), "equal") + Taken(t, e, "equal")
    BY TakenConcat
  <2> QED
    BY <1>1, <1>3, <2>1
<1>5. Taken(s, m, "equal") \in Nat /\ Taken(t, n, "equal") \in Nat
  BY <1>2, TakenFinite
<1> QED
  BY <1>1, <1>2, <1>4, <1>5 DEF Changes

\* An insertion or deletion is one change.
LEMMA ChangesOne ==
  ASSUME NEW op, NEW line, op # "equal"
  PROVE  Changes(<<Edit(op, line)>>) = 1
<1>1. PICK s : s = <<Edit(op, line)>>
  OBVIOUS
<1>2. Len(s) = 1 /\ s[0 + 1].op = op /\ 0 + 1 = 1
  BY <1>1 DEF Edit
<1>3. Taken(s, 0 + 1, "equal") = Taken(s, 0, "equal") + IF s[0 + 1].op # "equal" THEN 1 ELSE 0
  <2>1. 0 \in Nat
    OBVIOUS
  <2> QED
    BY <2>1, TakenNext
<1>4. Taken(s, 0, "equal") = 0
  BY TakenNone
<1> QED
  BY <1>1, <1>2, <1>3, <1>4 DEF Changes

\* A script of equal lines has no change.
LEMMA NoChanges ==
  ASSUME NEW s, Len(s) \in Nat, \A k \in 1..Len(s) : s[k].op = "equal"
  PROVE  Changes(s) = 0
<1>1. {k \in 1..Len(s) : s[k].op # "equal"} = {}
  OBVIOUS
<1> QED
  BY <1>1, FS_EmptySet DEF Changes, Taken

\* A script leads from before lines (x, y) to behind lines (u, w) of the files.
Leads(s, a, b, x, y, u, w) ==
    /\ \A e \in 1..Len(s) :
         /\ s[e].op # "insert" => /\ x + Taken(s, e, "insert") \in 1..Len(a)
                                  /\ s[e].line = a[x + Taken(s, e, "insert")]
         /\ s[e].op # "delete" => /\ y + Taken(s, e, "delete") \in 1..Len(b)
                                  /\ s[e].line = b[y + Taken(s, e, "delete")]
    /\ u = x + Taken(s, Len(s), "insert")
    /\ w = y + Taken(s, Len(s), "delete")

\* Two scripts, of which the second starts where the first leads.
LEMMA LeadsOn ==
  ASSUME NEW S, NEW s \in Seq(S), NEW t \in Seq(S), NEW a, NEW b,
         NEW x \in Nat, NEW y \in Nat, NEW u \in Nat, NEW w \in Nat, NEW m, NEW n,
         Leads(s, a, b, x, y, u, w), Leads(t, a, b, u, w, m, n)
  PROVE  Leads(s \o t, a, b, x, y, m, n)
<1> DEFINE st == s \o t
<1>1. /\ Len(s) \in Nat /\ Len(t) \in Nat /\ Len(st) = Len(s) + Len(t)
      /\ \A k \in 1..Len(s) : st[k] = s[k]
      /\ \A k \in 1..Len(t) : st[Len(s) + k] = t[k]
  BY ConcatOf
<1>2. ASSUME NEW other
      PROVE  /\ \A e \in 0..Len(s) : Taken(st, e, other) = Taken(s, e, other)
             /\ \A e \in 0..Len(t) : Taken(st, Len(s) + e, other)
                                      = Taken(s, Len(s), other) + Taken(t, e, other)
             /\ \A e \in 0..Len(t) : Taken(t, e, other) \in Nat
             /\ Taken(s, Len(s), other) \in Nat
  <2>1. \A e \in 0..Len(t) : Taken(t, e, other) \in Nat
    <3> SUFFICES ASSUME NEW e \in 0..Len(t) PROVE Taken(t, e, other) \in Nat
      OBVIOUS
    <3>1. e \in Nat
      BY <1>1
    <3> QED
      BY <3>1, TakenFinite
  <2>2. Taken(s, Len(s), other) \in Nat
    BY <1>1, TakenFinite
  <2> QED
    BY <2>1, <2>2, TakenConcat
<1> HIDE DEF st
<1>3. ASSUME NEW e \in 1..Len(s)
      PROVE  /\ st[e].op # "insert" => /\ x + Taken(st, e, "insert") \in 1..Len(a)
                                       /\ st[e].line = a[x + Taken(st, e, "insert")]
             /\ st[e].op # "delete" => /\ y + Taken(st, e, "delete") \in 1..Len(b)
                                       /\ st[e].line = b[y + Taken(st, e, "delete")]
  <2>1. /\ st[e] = s[e] /\ Taken(st, e, "insert") = Taken(s, e, "insert")
        /\ Taken(st, e, "delete") = Taken(s, e, "delete")
    <3>1. e \in 0..Len(s) /\ st[e] = s[e]
      BY <1>1
    <3> QED
      BY <1>2, <3>1
  <2> QED
    BY <2>1 DEF Leads
<1>4. /\ u = x + Taken(s, Len(s), "insert") /\ w = y + Taken(s, Len(s), "delete")
      /\ m = u + Taken(t, Len(t), "insert") /\ n = w + Taken(t, Len(t), "delete")
  BY DEF Leads
<1>5. ASSUME NEW f \in 0..Len(t)
      PROVE  /\ x + Taken(st, Len(s) + f, "insert") = u + Taken(t, f, "insert")
             /\ y + Taken(st, Len(s) + f, "delete") = w + Taken(t, f, "delete")
  BY <1>2, <1>4
<1>6. ASSUME NEW e \in 1..Len(st), ~(e <= Len(s))
      PROVE  /\ st[e].op # "insert" => /\ x + Taken(st, e, "insert") \in 1..Len(a)
                                       /\ st[e].line = a[x + Taken(st, e, "insert")]
             /\ st[e].op # "delete" => /\ y + Taken(st, e, "delete") \in 1..Len(b)
                                       /\ st[e].line = b[y + Taken(st, e, "delete")]
  <2>1. PICK f \in 1..Len(t) : e = Len(s) + f
    <3>1. e - Len(s) \in 1..Len(t) /\ e = Len(s) + (e - Len(s))
      BY <1>1, <1>6
    <3> QED
      BY <3>1
  <2>2. /\ st[e] = t[f] /\ x + Taken(st, e, "insert") = u + Taken(t, f, "insert")
        /\ y + Taken(st, e, "delete") = w + Taken(t, f, "delete")
    BY <1>1, <1>5, <2>1
  <2> QED
    BY <2>2 DEF Leads
<1>7. /\ m = x + Taken(st, Len(st), "insert") /\ n = y + Taken(st, Len(st), "delete")
  <2>1. Len(t) \in 0..Len(t)
    BY <1>1
  <2> QED
    BY <1>1, <1>4, <1>5, <2>1
<1>8. \A e \in 1..Len(st) : e <= Len(s) => e \in 1..Len(s)
  BY <1>1
<1> QED
  BY <1>3, <1>6, <1>7, <1>8 DEF Leads, st

\* The empty script leads to where it starts.
LEMMA LeadsNowhere ==
  ASSUME NEW S, NEW a, NEW b, NEW x \in Nat, NEW y \in Nat, NEW s, s = << >>
  PROVE  s \in Seq(S) /\ Leads(s, a, b, x, y, x, y)
<1>1. s \in Seq(S) /\ Len(s) = 0
  OBVIOUS
<1>2. Taken(s, 0, "insert") = 0 /\ Taken(s, 0, "delete") = 0
  BY TakenNone
<1> QED
  BY <1>1, <1>2 DEF Leads

\* One edit that inserts.
LEMMA LeadsByInsert ==
  ASSUME NEW a, NEW b, Len(b) \in Nat, NEW x \in Nat, NEW y \in 1..Len(b)
  PROVE  Leads(<<Edit("insert", b[y])>>, a, b, x, y - 1, x, y)
<1> DEFINE s == <<Edit("insert", b[y])>>
<1>1. Len(s) = 1 /\ s[1].op = "insert" /\ s[1].line = b[y] /\ 0 + 1 = 1
  BY DEF Edit
<1> HIDE DEF s
<1>2. Taken(s, 0 + 1, "insert") = 0 /\ Taken(s, 0 + 1, "delete") = 1
  <2>1. \A other : Taken(s, 0 + 1, other) = Taken(s, 0, other) + IF s[0 + 1].op # other THEN 1 ELSE 0
    BY TakenNext
  <2>2. \A other : Taken(s, 0, other) = 0
    BY TakenNone
  <2> QED
    BY <1>1, <2>1, <2>2
<1>3. (y - 1) + 1 = y
  OBVIOUS
<1> QED
  BY <1>1, <1>2, <1>3 DEF Leads, s

\* One edit that deletes.
LEMMA LeadsByDelete ==
  ASSUME NEW a, NEW b, Len(a) \in Nat, NEW x \in 1..Len(a), NEW y \in Nat
  PROVE  Leads(<<Edit("delete", a[x])>>, a, b, x - 1, y, x, y)
<1> DEFINE s == <<Edit("delete", a[x])>>
<1>1. Len(s) = 1 /\ s[1].op = "delete" /\ s[1].line = a[x] /\ 0 + 1 = 1
  BY DEF Edit
<1> HIDE DEF s
<1>2. Taken(s, 0 + 1, "delete") = 0 /\ Taken(s, 0 + 1, "insert") = 1
  <2>1. \A other : Taken(s, 0 + 1, other) = Taken(s, 0, other) + IF s[0 + 1].op # other THEN 1 ELSE 0
    BY TakenNext
  <2>2. \A other : Taken(s, 0, other) = 0
    BY TakenNone
  <2> QED
    BY <1>1, <2>1, <2>2
<1>3. (x - 1) + 1 = x
  OBVIOUS
<1> QED
  BY <1>1, <1>2, <1>3 DEF Leads, s

\* Equal lines lead along the diagonal.
LEMMA LeadsByEquals ==
  ASSUME NEW a, NEW b, Len(a) \in Nat, Len(b) \in Nat,
         NEW x \in Nat, NEW y \in Nat, NEW n \in Nat,
         n = 0 \/ (x + n <= Len(a) /\ y + n <= Len(b)),
         \A i \in 1..n : a[x + i] = b[y + i]
  PROVE  Leads(Equals(a, x, n), a, b, x, y, x + n, y + n)
<1> DEFINE s == Equals(a, x, n)
<1>1. Len(s) = n /\ \A i \in 1..n : s[i].op = "equal" /\ s[i].line = a[x + i]
  BY DEF Equals, Edit
<1> HIDE DEF s
<1>2. ASSUME NEW e \in 0..n, NEW other \in {"insert", "delete"} PROVE Taken(s, e, other) = e
  <2>1. {k \in 1..e : s[k].op # other} = 1..e
    <3>1. \A k \in 1..e : k \in 1..n
      OBVIOUS
    <3> QED
      BY <1>1, <3>1
  <2>2. Cardinality(1..e) = e
    <3>1. e \in Nat
      OBVIOUS
    <3>2. Cardinality(1..e) = IF 1 > e THEN 0 ELSE e - 1 + 1
      BY <3>1, FS_Interval
    <3> QED
      BY <3>1, <3>2
  <2> QED
    BY <2>1, <2>2 DEF Taken
<1>3. n \in 0..n /\ \A e \in 1..n : e \in 0..n /\ x + e \in 1..Len(a) /\ y + e \in 1..Len(b)
  OBVIOUS
<1>4. ASSUME NEW e \in 1..n
      PROVE  /\ x + Taken(s, e, "insert") \in 1..Len(a) /\ s[e].line = a[x + Taken(s, e, "insert")]
             /\ y + Taken(s, e, "delete") \in 1..Len(b) /\ s[e].line = b[y + Taken(s, e, "delete")]
  <2>1. Taken(s, e, "insert") = e /\ Taken(s, e, "delete") = e
    BY <1>2, <1>3
  <2> QED
    BY <1>1, <1>3, <2>1
<1>5. Taken(s, n, "insert") = n /\ Taken(s, n, "delete") = n
  BY <1>2, <1>3
<1> QED
  BY <1>1, <1>4, <1>5 DEF Leads, s

-----------------------------------------------------------------------------
\* The walk back over the trace.

\* Every stand of the walk is one step back from the one before.
LEMMA WalkUnfolds ==
  ASSUME NEW a, NEW b, NEW distance \in Nat
  PROVE  Walk(a, b, distance) = [i \in 0..distance |->
            IF i = 0 THEN [x |-> Len(a), y |-> Len(b), edits |-> <<>>]
            ELSE StepBack(a, b, Frontier(a, b)[distance - i], distance - i + 1,
                          Walk(a, b, distance)[i - 1])]
<1> DEFINE end == [x |-> Len(a), y |-> Len(b), edits |-> <<>>]
           walk(n) == \E f : f = [i \in 0..n |->
              IF i = 0 THEN end
              ELSE StepBack(a, b, Frontier(a, b)[distance - i], distance - i + 1, f[i - 1])]
           T == {n \in Nat : walk(n)}
<1> HIDE DEF end
<1>1. 0 \in T
  <2>1. PICK f : f = [i \in 0..0 |-> end]
    OBVIOUS
  <2>2. f = [i \in 0..0 |->
              IF i = 0 THEN end
              ELSE StepBack(a, b, Frontier(a, b)[distance - i], distance - i + 1, f[i - 1])]
    BY <2>1
  <2> QED
    BY <2>2
<1>2. ASSUME NEW n \in Nat, n \in T PROVE n + 1 \in T
  <2>1. PICK f : f = [i \in 0..n |->
              IF i = 0 THEN end
              ELSE StepBack(a, b, Frontier(a, b)[distance - i], distance - i + 1, f[i - 1])]
    BY <1>2
  <2>2. PICK g : g = [i \in 0..(n + 1) |->
              IF i = n + 1 THEN StepBack(a, b, Frontier(a, b)[distance - i], distance - i + 1, f[n])
              ELSE f[i]]
    OBVIOUS
  <2>3. ASSUME NEW i \in 0..(n + 1)
        PROVE  g[i] = IF i = 0 THEN end
                      ELSE StepBack(a, b, Frontier(a, b)[distance - i], distance - i + 1, g[i - 1])
    <3>1. CASE i = n + 1
      <4>1. /\ g[i] = StepBack(a, b, Frontier(a, b)[distance - i], distance - i + 1, f[n])
            /\ i # 0 /\ i - 1 = n
        BY <2>2, <3>1
      <4>2. g[n] = f[n]
        BY <2>2
      <4> QED
        BY <4>1, <4>2
    <3>2. CASE i # n + 1
      <4>1. i \in 0..n /\ g[i] = f[i]
        BY <2>2, <3>2
      <4>2. i # 0 => g[i - 1] = f[i - 1]
        BY <2>2, <4>1
      <4> QED
        BY <2>1, <4>1, <4>2
    <3> QED
      BY <3>1, <3>2
  <2>4. g = [i \in 0..(n + 1) |->
              IF i = 0 THEN end
              ELSE StepBack(a, b, Frontier(a, b)[distance - i], distance - i + 1, g[i - 1])]
    BY <2>2, <2>3
  <2> QED
    BY <2>4
<1>3. walk(distance)
  <2>1. \A n \in Nat : n \in T
    BY <1>1, <1>2, EveryNumber
  <2> QED
    BY <2>1
<1> QED
  BY <1>3 DEF Walk, end

\* The walk back stands on the frontier of d edits, inside both files, and what
\* it has found leads from there to their end.
OnTrace(a, b, S, d, at) ==
    /\ at.x \in 0..Len(a) /\ at.y \in 0..Len(b)
    /\ at.x - at.y \in Diagonals(d) /\ Frontier(a, b)[d][at.x - at.y] = at.x
    /\ at.edits \in Scripts(S) /\ Leads(at.edits, a, b, at.x, at.y, Len(a), Len(b))

\* One edit is a script.
LEMMA EditsTyped ==
  ASSUME NEW S, NEW op \in Ops, NEW line \in S
  PROVE  <<Edit(op, line)>> \in Scripts(S)
BY DEF Scripts, Edit

\* Equal lines are a script without changes.
LEMMA EqualsTyped ==
  ASSUME NEW S, NEW a \in Seq(S), NEW x \in Nat, NEW n \in Nat, n = 0 \/ x + n <= Len(a)
  PROVE  Equals(a, x, n) \in Scripts(S) /\ Changes(Equals(a, x, n)) = 0
<1>1. Len(a) \in Nat /\ \A i \in 1..Len(a) : a[i] \in S
  BY LenProperties, ElementOfSeq
<1>2. ASSUME NEW i \in 1..n PROVE Edit("equal", a[x + i]) \in [op : Ops, line : S]
  <2>1. x + i \in 1..Len(a)
    BY <1>1
  <2> QED
    BY <1>1, <2>1 DEF Edit, Ops
<1>3. Equals(a, x, n) \in Scripts(S)
  BY <1>2 DEF Equals, Scripts
<1>4. Changes(Equals(a, x, n)) = 0
  <2>1. PICK s : s = Equals(a, x, n)
    OBVIOUS
  <2>2. Len(s) = n /\ \A k \in 1..n : s[k].op = "equal"
    BY <2>1 DEF Equals, Edit
  <2> QED
    BY <2>1, <2>2, NoChanges
<1> QED
  BY <1>3, <1>4

\* A step of the walk back stays on the trace, and finds one change.
LEMMA StepBackLeads ==
  ASSUME NEW S, NEW a \in Seq(S), NEW b \in Seq(S), NEW d \in 1..(Len(a) + Len(b)),
         NEW at, OnTrace(a, b, S, d, at)
  PROVE  /\ OnTrace(a, b, S, d - 1, StepBack(a, b, Frontier(a, b)[d - 1], d, at))
         /\ Changes(StepBack(a, b, Frontier(a, b)[d - 1], d, at).edits) = Changes(at.edits) + 1
<1> DEFINE F == Frontier(a, b)
           k == at.x - at.y
<1>1. /\ Len(a) \in Nat /\ Len(b) \in Nat
      /\ \A i \in 1..Len(a) : a[i] \in S
      /\ \A i \in 1..Len(b) : b[i] \in S
  BY LenProperties, ElementOfSeq
<1>2. /\ at.x \in Nat /\ at.y \in Nat /\ at.x <= Len(a) /\ at.y <= Len(b)
      /\ k \in Int /\ at.y = at.x - k
      /\ k \in Diagonals(d) /\ F[d][k] = at.x
  BY <1>1 DEF OnTrace
<1> HIDE DEF k
<1>3. PICK x, r \in Nat :
           /\ F[d][k] = x + r
           /\ r = 0 \/ (x + r <= Len(a) /\ x - k + r <= Len(b))
           /\ \A i \in 1..r : a[x + i] = b[x - k + i]
           /\ \/ /\ Down(F[d - 1], k, d) /\ k + 1 \in Diagonals(d - 1)
                 /\ x = F[d - 1][k + 1]
              \/ /\ ~Down(F[d - 1], k, d) /\ k - 1 \in Diagonals(d - 1)
                 /\ x = F[d - 1][k - 1] + 1
  BY <1>1, <1>2, FrontierCame
<1>4. PICK y : y = x - k
  OBVIOUS
<1>5. /\ at.x = x + r /\ at.y = y + r /\ y \in Int /\ x <= Len(a) /\ y <= Len(b)
      /\ \A i \in 1..r : a[x + i] = b[y + i]
  BY <1>1, <1>2, <1>3, <1>4
<1>12. /\ at.x = x + r /\ at.y = y + r /\ x \in Nat /\ r \in Nat /\ k \in Int /\ y = x - k
       /\ x <= Len(a) /\ y <= Len(b) /\ Len(a) \in Nat /\ Len(b) \in Nat
  BY <1>1, <1>2, <1>4, <1>5
<1>6. \A j \in Diagonals(d - 1) : F[d - 1][j] \in Nat /\ F[d - 1][j] >= j
  <2>1. d - 1 \in 0..(Len(a) + Len(b))
    BY <1>1
  <2> QED
    BY <1>1, <2>1, FrontierTyped
<1>7. at.edits \in Scripts(S) /\ Leads(at.edits, a, b, x + r, y + r, Len(a), Len(b))
  BY <1>5 DEF OnTrace
<1>8. ASSUME y \in Nat
      PROVE  /\ Equals(a, x, r) \in Scripts(S)
             /\ Leads(Equals(a, x, r), a, b, x, y, x + r, y + r)
             /\ Changes(Equals(a, x, r)) = 0
  <2>1. r = 0 \/ (x + r <= Len(a) /\ y + r <= Len(b))
    BY <1>3, <1>4
  <2> QED
    BY <1>1, <1>5, <1>8, <2>1, EqualsTyped, LeadsByEquals
<1>9. ASSUME y \in Nat, NEW p \in Nat, NEW q \in Nat, NEW s \in Scripts(S),
             Leads(s, a, b, p, q, x, y), Changes(s) = 1
      PROVE  /\ s \o Equals(a, x, r) \o at.edits \in Scripts(S)
             /\ Leads(s \o Equals(a, x, r) \o at.edits, a, b, p, q, Len(a), Len(b))
             /\ Changes(s \o Equals(a, x, r) \o at.edits) = Changes(at.edits) + 1
  <2>1. PICK e : e = s \o Equals(a, x, r)
    OBVIOUS
  <2>2. e \in Scripts(S)
    BY <1>8, <1>9, <2>1, ConcatOf DEF Scripts
  <2>3. Leads(e, a, b, p, q, x + r, y + r)
    BY <1>8, <1>9, <2>1, LeadsOn DEF Scripts
  <2>4. x + r \in Nat /\ y + r \in Nat
    BY <1>9
  <2>5. e \o at.edits \in Scripts(S)
    BY <1>7, <2>2, ConcatOf DEF Scripts
  <2>6. Leads(e \o at.edits, a, b, p, q, Len(a), Len(b))
    BY <1>7, <1>9, <2>2, <2>3, <2>4, LeadsOn DEF Scripts
  <2>7. Changes(e) = 1
    <3>1. Changes(e) = Changes(s) + Changes(Equals(a, x, r))
      BY <1>8, <1>9, <2>1, ChangesConcat DEF Scripts
    <3> QED
      BY <1>8, <1>9, <3>1
  <2>8. Changes(e \o at.edits) = Changes(e) + Changes(at.edits) /\ Changes(at.edits) \in Nat
    BY <1>7, <2>2, ChangesConcat DEF Scripts
  <2> QED
    BY <2>1, <2>5, <2>6, <2>7, <2>8
<1>10. CASE Down(F[d - 1], k, d) /\ k + 1 \in Diagonals(d - 1) /\ x = F[d - 1][k + 1]
  <2>1. y - 1 \in Nat /\ y \in 1..Len(b) /\ y \in Nat /\ x - (y - 1) = k + 1
    <3>1. x >= k + 1
      BY <1>6, <1>10
    <3> QED
      BY <1>12, <3>1
  <2>2. PICK s : s = <<Edit("insert", b[y])>>
    OBVIOUS
  <2>3. StepBack(a, b, F[d - 1], d, at)
          = [x |-> x, y |-> y - 1, edits |-> s \o Equals(a, x, r) \o at.edits]
    <3>1. Least(at.x - F[d - 1][k + 1], at.y - (F[d - 1][k + 1] - (k + 1))) = r
      BY <1>10, <1>12 DEF Least
    <3>2. /\ at.x - (IF r > 0 THEN r ELSE 0) = x /\ at.y - (IF r > 0 THEN r ELSE 0) = y
          /\ (IF r > 0 THEN r ELSE 0) = r
      BY <1>12
    <3> QED
      BY <1>10, <2>2, <3>1, <3>2 DEF StepBack, k
  <2>4. s \in Scripts(S) /\ Leads(s, a, b, x, y - 1, x, y) /\ Changes(s) = 1
    BY <1>1, <2>1, <2>2, EditsTyped, LeadsByInsert, ChangesOne DEF Ops
  <2>5. /\ s \o Equals(a, x, r) \o at.edits \in Scripts(S)
        /\ Leads(s \o Equals(a, x, r) \o at.edits, a, b, x, y - 1, Len(a), Len(b))
        /\ Changes(s \o Equals(a, x, r) \o at.edits) = Changes(at.edits) + 1
    BY <1>9, <2>1, <2>4
  <2>6. x \in 0..Len(a) /\ y - 1 \in 0..Len(b)
    BY <1>1, <1>5, <2>1
  <2> QED
    BY <1>10, <2>1, <2>3, <2>5, <2>6 DEF OnTrace
<1>11. CASE ~Down(F[d - 1], k, d) /\ k - 1 \in Diagonals(d - 1) /\ x = F[d - 1][k - 1] + 1
  <2>1. x - 1 \in Nat /\ x \in 1..Len(a) /\ y \in Nat /\ (x - 1) - y = k - 1
        /\ F[d - 1][k - 1] = x - 1
    <3>1. F[d - 1][k - 1] \in Nat /\ F[d - 1][k - 1] >= k - 1
      BY <1>6, <1>11
    <3>2. PICK v : v = F[d - 1][k - 1]
      OBVIOUS
    <3>3. v \in Nat /\ v >= k - 1 /\ x = v + 1
      BY <1>11, <3>1, <3>2
    <3>4. x - 1 = v /\ y \in Nat /\ x \in 1..Len(a) /\ (x - 1) - y = k - 1
      BY <1>12, <3>3
    <3> QED
      BY <3>2, <3>3, <3>4
  <2>2. PICK s : s = <<Edit("delete", a[x])>>
    OBVIOUS
  <2>3. StepBack(a, b, F[d - 1], d, at)
          = [x |-> x - 1, y |-> y, edits |-> s \o Equals(a, x, r) \o at.edits]
    <3>1. Least(at.x - F[d - 1][k - 1], at.y - (F[d - 1][k - 1] - (k - 1))) = r
      BY <1>12, <2>1 DEF Least
    <3>2. /\ at.x - (IF r > 0 THEN r ELSE 0) = x /\ at.y - (IF r > 0 THEN r ELSE 0) = y
          /\ (IF r > 0 THEN r ELSE 0) = r
      BY <1>12
    <3>3. x # F[d - 1][k - 1]
      BY <2>1
    <3> QED
      BY <1>11, <2>2, <3>1, <3>2, <3>3 DEF StepBack, k
  <2>4. s \in Scripts(S) /\ Leads(s, a, b, x - 1, y, x, y) /\ Changes(s) = 1
    BY <1>1, <2>1, <2>2, EditsTyped, LeadsByDelete, ChangesOne DEF Ops
  <2>5. /\ s \o Equals(a, x, r) \o at.edits \in Scripts(S)
        /\ Leads(s \o Equals(a, x, r) \o at.edits, a, b, x - 1, y, Len(a), Len(b))
        /\ Changes(s \o Equals(a, x, r) \o at.edits) = Changes(at.edits) + 1
    BY <1>9, <2>1, <2>4
  <2>6. x - 1 \in 0..Len(a) /\ y \in 0..Len(b)
    BY <1>1, <1>5, <2>1
  <2>11. PICK es : es = s \o Equals(a, x, r) \o at.edits
    OBVIOUS
  <2>12. StepBack(a, b, F[d - 1], d, at) = [x |-> x - 1, y |-> y, edits |-> es]
    BY <2>3, <2>11
  <2>7. PICK to : to = StepBack(a, b, F[d - 1], d, at)
    OBVIOUS
  <2>8. to.x = x - 1 /\ to.y = y /\ to.edits = s \o Equals(a, x, r) \o at.edits
    <3>1. PICK p : p = x - 1
      OBVIOUS
    <3>2. to = [x |-> p, y |-> y, edits |-> es]
      BY <2>7, <2>12, <3>1
    <3>3. to.x = p /\ to.y = y /\ to.edits = es
      BY <3>2
    <3> QED
      BY <2>11, <3>1, <3>3
  <2>9. to.x - to.y = k - 1 /\ F[d - 1][to.x - to.y] = to.x
    BY <2>1, <2>8
  <2>10. OnTrace(a, b, S, d - 1, to)
    BY <1>11, <2>5, <2>6, <2>8, <2>9 DEF OnTrace
  <2> QED
    BY <2>5, <2>7, <2>8, <2>10
<1> QED
  BY <1>3, <1>10, <1>11

\* The first arrival is exactly at the end of both files.
LEMMA FirstArrival ==
  ASSUME NEW a, NEW b, Len(a) \in Nat, Len(b) \in Nat, NEW maxEdits \in Nat,
         NEW d \in Arrivals(a, b, maxEdits), \A e \in Arrivals(a, b, maxEdits) : d <= e
  PROVE  /\ d \in 0..(Len(a) + Len(b)) /\ Len(a) - Len(b) \in Diagonals(d)
         /\ Frontier(a, b)[d][Len(a) - Len(b)] = Len(a)
<1> DEFINE F == Frontier(a, b)
           limit == Limit(a, b, maxEdits)
<1>1. limit \in Nat /\ limit <= Len(a) + Len(b)
  BY DEF Limit, Least
<1> HIDE DEF limit
<1>2. ASSUME NEW e \in 0..limit, NEW j \in Diagonals(e), F[e][j] >= Len(a), F[e][j] - j >= Len(b)
      PROVE  e \in Arrivals(a, b, maxEdits)
  BY <1>2 DEF Arrivals, limit
<1>3. PICK k \in Diagonals(d) : F[d][k] >= Len(a) /\ F[d][k] - k >= Len(b)
  BY DEF Arrivals
<1>4. d \in 0..limit
  BY DEF Arrivals, limit
<1>5. d \in 0..(Len(a) + Len(b)) /\ d \in Nat
  BY <1>1, <1>4
<1>6. F[d][k] \in Nat /\ k \in Int
  BY <1>5, FrontierTyped, DiagonalsMeet
<1>7. d > 0 => /\ d - 1 \in 0..limit /\ d - 1 \in 0..(Len(a) + Len(b)) /\ ~(d <= d - 1)
  BY <1>1, <1>4
<1>8. ~(F[d][k] > Len(a))
  <2> SUFFICES ASSUME F[d][k] > Len(a) PROVE FALSE
    OBVIOUS
  <2>1. d > 0 /\ k - 1 \in Diagonals(d - 1) /\ F[d - 1][k - 1] >= F[d][k] - 1
    BY <1>5, PastFirst
  <2>2. F[d - 1][k - 1] \in Nat
    BY <1>7, <2>1, FrontierTyped
  <2>3. F[d - 1][k - 1] >= Len(a) /\ F[d - 1][k - 1] - (k - 1) >= Len(b)
    BY <1>3, <1>6, <2>1, <2>2
  <2>4. d - 1 \in Arrivals(a, b, maxEdits)
    BY <1>2, <1>7, <2>1, <2>3
  <2> QED
    BY <1>7, <2>1, <2>4
<1>9. ~(F[d][k] - k > Len(b))
  <2> SUFFICES ASSUME F[d][k] - k > Len(b) PROVE FALSE
    OBVIOUS
  <2>1. d > 0 /\ k + 1 \in Diagonals(d - 1) /\ F[d - 1][k + 1] >= F[d][k]
    BY <1>5, PastSecond
  <2>2. F[d - 1][k + 1] \in Nat
    BY <1>7, <2>1, FrontierTyped
  <2>3. F[d - 1][k + 1] >= Len(a) /\ F[d - 1][k + 1] - (k + 1) >= Len(b)
    BY <1>3, <1>6, <2>1, <2>2
  <2>4. d - 1 \in Arrivals(a, b, maxEdits)
    BY <1>2, <1>7, <2>1, <2>3
  <2> QED
    BY <1>7, <2>1, <2>4
<1>10. F[d][k] = Len(a) /\ k = Len(a) - Len(b)
  BY <1>3, <1>6, <1>8, <1>9
<1> QED
  BY <1>5, <1>10

\* The walk back stays on the trace, and finds a change at each step.
LEMMA WalkLeads ==
  ASSUME NEW S, NEW a \in Seq(S), NEW b \in Seq(S), NEW d \in 0..(Len(a) + Len(b)),
         Len(a) - Len(b) \in Diagonals(d), Frontier(a, b)[d][Len(a) - Len(b)] = Len(a)
  PROVE  \A i \in 0..d : /\ OnTrace(a, b, S, d - i, Walk(a, b, d)[i])
                         /\ Changes(Walk(a, b, d)[i].edits) = i
<1> DEFINE on(i) == /\ OnTrace(a, b, S, d - i, Walk(a, b, d)[i])
                    /\ Changes(Walk(a, b, d)[i].edits) = i
           T == {i \in Nat : i <= d => on(i)}
<1>1. /\ Len(a) \in Nat /\ Len(b) \in Nat /\ d \in Nat
  BY LenProperties
<1>2. on(0)
  <2>1. PICK at : at = Walk(a, b, d)[0]
    OBVIOUS
  <2>2. at = [x |-> Len(a), y |-> Len(b), edits |-> <<>>]
    BY <1>1, <2>1, WalkUnfolds
  <2>3. at.x = Len(a) /\ at.y = Len(b) /\ at.edits = <<>>
    BY <2>2
  <2>4. at.edits \in Scripts(S) /\ Leads(at.edits, a, b, at.x, at.y, Len(a), Len(b))
    BY <1>1, <2>3, LeadsNowhere DEF Scripts
  <2>5. d - 0 = d /\ Len(a) \in 0..Len(a) /\ Len(b) \in 0..Len(b)
    BY <1>1
  <2>6. OnTrace(a, b, S, d, at)
    BY <2>3, <2>4, <2>5 DEF OnTrace
  <2>7. Changes(at.edits) = 0
    <3>1. Len(at.edits) = 0
      BY <2>3
    <3> QED
      BY <3>1, NoChanges
  <2> QED
    BY <2>1, <2>5, <2>6, <2>7
<1>3. ASSUME NEW i \in Nat, i + 1 <= d, on(i) PROVE on(i + 1)
  <2>1. /\ i + 1 \in 0..d /\ i + 1 # 0 /\ (i + 1) - 1 = i /\ d - (i + 1) + 1 = d - i
        /\ d - i \in 1..(Len(a) + Len(b)) /\ (d - i) - 1 = d - (i + 1)
    BY <1>1, <1>3
  <2>2. Walk(a, b, d)[i + 1] = StepBack(a, b, Frontier(a, b)[d - (i + 1)], d - (i + 1) + 1, Walk(a, b, d)[i])
    <3>1. PICK w : w = Walk(a, b, d)
      OBVIOUS
    <3>2. w = [j \in 0..d |->
            IF j = 0 THEN [x |-> Len(a), y |-> Len(b), edits |-> <<>>]
            ELSE StepBack(a, b, Frontier(a, b)[d - j], d - j + 1, w[j - 1])]
      BY <1>1, <3>1, WalkUnfolds
    <3>3. w[i + 1] = StepBack(a, b, Frontier(a, b)[d - (i + 1)], d - (i + 1) + 1, w[(i + 1) - 1])
      BY <2>1, <3>2
    <3> QED
      BY <2>1, <3>1, <3>3
  <2>3. PICK e, at : e = d - i /\ at = Walk(a, b, d)[i]
    OBVIOUS
  <2>4. /\ OnTrace(a, b, S, e - 1, StepBack(a, b, Frontier(a, b)[e - 1], e, at))
        /\ Changes(StepBack(a, b, Frontier(a, b)[e - 1], e, at).edits) = Changes(at.edits) + 1
    BY <1>3, <2>1, <2>3, StepBackLeads
  <2>5. Changes(at.edits) = i
    BY <1>3, <2>3
  <2> QED
    BY <2>1, <2>2, <2>3, <2>4, <2>5
<1> HIDE DEF on
<1>4. 0 \in T
  BY <1>2
<1>5. \A i \in Nat : i \in T => i + 1 \in T
  BY <1>1, <1>3
<1>6. \A i \in Nat : i \in T
  BY <1>4, <1>5, EveryNumber
<1>7. \A i \in 0..d : on(i)
  BY <1>6
<1> QED
  BY <1>7 DEF on

\* From the first frontier what is left is equal in both files.
LEMMA StepOutLeads ==
  ASSUME NEW S, NEW a \in Seq(S), NEW b \in Seq(S), NEW at, OnTrace(a, b, S, 0, at)
  PROVE  /\ StepOut(a, b, at) \in Scripts(S)
         /\ Leads(StepOut(a, b, at), a, b, 0, 0, Len(a), Len(b))
         /\ Changes(StepOut(a, b, at)) = Changes(at.edits)
<1>1. Len(a) \in Nat /\ Len(b) \in Nat
  BY LenProperties
<1>2. PICK x, es : x = at.x /\ es = at.edits
  OBVIOUS
<1>3. at.x - at.y = 0 /\ Frontier(a, b)[0][0] = at.x
  BY <1>1, FrontierFirst DEF OnTrace
<1>4. x \in Nat /\ at.x = x /\ at.y = x /\ x <= Len(a) /\ x <= Len(b)
      /\ \A i \in 1..x : a[0 + i] = b[0 + i]
  BY <1>1, <1>2, <1>3, FrontierFirst DEF OnTrace
<1>5. es \in Scripts(S) /\ Leads(es, a, b, x, x, Len(a), Len(b))
  BY <1>2, <1>4 DEF OnTrace
<1>6. PICK none, same : none = <<>> /\ same = Equals(a, 0, x)
  OBVIOUS
<1>7. StepOut(a, b, at) = none \o none \o same \o es
  <2>1. Least(at.x, at.y) = x /\ at.y - x = 0 /\ at.x - x = 0
    BY <1>4 DEF Least
  <2>2. [i \in 1..0 |-> Edit("insert", b[i])] = none /\ [i \in 1..0 |-> Edit("delete", a[i])] = none
    BY <1>6
  <2> QED
    BY <1>2, <1>6, <2>1, <2>2 DEF StepOut
<1>8. none \in Scripts(S) /\ Leads(none, a, b, 0, 0, 0, 0) /\ Changes(none) = 0
  <2>1. Len(none) = 0
    BY <1>6
  <2> QED
    BY <1>6, <2>1, LeadsNowhere, NoChanges DEF Scripts
<1>9. same \in Scripts(S) /\ Leads(same, a, b, 0, 0, x, x) /\ Changes(same) = 0
  <2>1. x = 0 \/ (0 + x <= Len(a) /\ 0 + x <= Len(b))
    BY <1>1, <1>4
  <2>2. same \in Scripts(S) /\ Changes(same) = 0
    BY <1>1, <1>4, <1>6, <2>1, EqualsTyped
  <2>3. Leads(same, a, b, 0, 0, 0 + x, 0 + x)
    BY <1>1, <1>4, <1>6, <2>1, LeadsByEquals
  <2>4. 0 + x = x
    BY <1>4
  <2> QED
    BY <2>2, <2>3, <2>4
<1>10. PICK s : s = none \o none
  OBVIOUS
<1>11. s \in Scripts(S) /\ Leads(s, a, b, 0, 0, 0, 0)
  BY <1>8, <1>10, ConcatOf, LeadsOn DEF Scripts
<1>12. PICK t : t = s \o same
  OBVIOUS
<1>13. t \in Scripts(S) /\ Leads(t, a, b, 0, 0, x, x)
  BY <1>4, <1>9, <1>11, <1>12, ConcatOf, LeadsOn DEF Scripts
<1>14. Changes(t \o es) = Changes(es)
  <2>1. Changes(s) = 0
    BY <1>8, <1>10, ChangesConcat DEF Scripts
  <2>2. Changes(t) = 0
    BY <1>9, <1>11, <1>12, <2>1, ChangesConcat DEF Scripts
  <2>3. Changes(t \o es) = Changes(t) + Changes(es) /\ Changes(es) \in Nat
    BY <1>5, <1>13, ChangesConcat DEF Scripts
  <2> QED
    BY <2>2, <2>3
<1>15. t \o es \in Scripts(S) /\ Leads(t \o es, a, b, 0, 0, Len(a), Len(b))
  BY <1>4, <1>5, <1>13, ConcatOf, LeadsOn DEF Scripts
<1> QED
  BY <1>2, <1>7, <1>10, <1>12, <1>14, <1>15

\* What Myers returns is a script from the one file to the other.
THEOREM MyersLeads ==
  ASSUME NEW S, NEW a \in Seq(S), NEW b \in Seq(S), NEW maxEdits \in Nat,
         ~Myers(a, b, maxEdits).failed
  PROVE  /\ Myers(a, b, maxEdits).edits \in Scripts(S)
         /\ Leads(Myers(a, b, maxEdits).edits, a, b, 0, 0, Len(a), Len(b))
         /\ Changes(Myers(a, b, maxEdits).edits) \in Arrivals(a, b, maxEdits)
         /\ \A e \in Arrivals(a, b, maxEdits) : Changes(Myers(a, b, maxEdits).edits) <= e
<1> DEFINE found == Arrivals(a, b, maxEdits)
<1>1. Len(a) \in Nat /\ Len(b) \in Nat
  BY LenProperties
<1>2. found # {}
  BY DEF Myers, ResourceLimit
<1>3. found \subseteq Nat
  <2>1. Limit(a, b, maxEdits) \in Nat
    BY <1>1 DEF Limit, Least
  <2> QED
    BY <2>1 DEF Arrivals
<1>4. \E d \in found : \A e \in found : d <= e
  BY <1>2, <1>3, LeastNumber
<1>5. PICK d : d = CHOOSE n \in found : \A e \in found : n <= e
  OBVIOUS
<1>6. d \in found /\ \A e \in found : d <= e
  BY <1>4, <1>5
<1>7. Myers(a, b, maxEdits).edits = StepOut(a, b, Walk(a, b, d)[d])
  BY <1>2, <1>5 DEF Myers, Backtrack
<1> HIDE DEF found
<1>8. /\ d \in 0..(Len(a) + Len(b)) /\ Len(a) - Len(b) \in Diagonals(d)
      /\ Frontier(a, b)[d][Len(a) - Len(b)] = Len(a)
  BY <1>1, <1>6, FirstArrival DEF found
<1>9. d \in 0..d /\ d - d = 0
  BY <1>1, <1>8
<1>10. OnTrace(a, b, S, d - d, Walk(a, b, d)[d]) /\ Changes(Walk(a, b, d)[d].edits) = d
  BY <1>8, <1>9, WalkLeads
<1>11. OnTrace(a, b, S, 0, Walk(a, b, d)[d])
  BY <1>9, <1>10
<1>12. PICK at : at = Walk(a, b, d)[d]
  OBVIOUS
<1>13. /\ StepOut(a, b, at) \in Scripts(S)
       /\ Leads(StepOut(a, b, at), a, b, 0, 0, Len(a), Len(b))
       /\ Changes(StepOut(a, b, at)) = d
  BY <1>10, <1>11, <1>12, StepOutLeads
<1> QED
  BY <1>6, <1>7, <1>12, <1>13 DEF found

-----------------------------------------------------------------------------
\* What a script that leads from a file to another is about.

\* A one-to-one function into a finite set compares the two sets' sizes, and
\* takes every value if they are the same.
LEMMA OneToOne ==
  ASSUME NEW S, NEW T, IsFiniteSet(T), NEW f \in [S -> T],
         \A x, y \in S : f[x] = f[y] => x = y
  PROVE  /\ IsFiniteSet(S) /\ Cardinality(S) \in Nat /\ Cardinality(T) \in Nat
         /\ Cardinality(S) <= Cardinality(T)
         /\ Cardinality(S) = Cardinality(T) => \A y \in T : \E x \in S : f[x] = y
<1>1. f \in Injection(S, T)
  BY DEF Injection, IsInjective
<1>2. /\ IsFiniteSet(S) /\ Cardinality(S) <= Cardinality(T)
      /\ Cardinality(S) = Cardinality(T) <=> f \in Surjection(S, T)
  BY <1>1, FS_Injection
<1> QED
  BY <1>2, FS_CardinalityType DEF Surjection

\* What the edits of a script are about.
LEMMA ScriptSides ==
  ASSUME NEW S, NEW a \in Seq(S), NEW b \in Seq(S), NEW s \in Scripts(S),
         Leads(s, a, b, 0, 0, Len(a), Len(b))
  PROVE  /\ DOMAIN s = 1..Len(s) /\ Len(s) \in Nat /\ Len(a) \in Nat /\ Len(b) \in Nat
         /\ \A e \in 1..Len(s) :
              /\ s[e] \in [op : Ops, line : S]
              /\ s[e].op # "insert" => /\ Taken(s, e, "insert") \in 1..Len(a)
                                       /\ s[e].line = a[Taken(s, e, "insert")]
              /\ s[e].op # "delete" => /\ Taken(s, e, "delete") \in 1..Len(b)
                                       /\ s[e].line = b[Taken(s, e, "delete")]
         /\ Taken(s, Len(s), "insert") = Len(a) /\ Taken(s, Len(s), "delete") = Len(b)
<1>1. Len(s) \in Nat /\ DOMAIN s = 1..Len(s) /\ Len(a) \in Nat /\ Len(b) \in Nat
      /\ \A e \in 1..Len(s) : s[e] \in [op : Ops, line : S]
  BY LenProperties, ElementOfSeq DEF Scripts
<1>2. ASSUME NEW e \in 0..Len(s), NEW other
      PROVE  0 + Taken(s, e, other) = Taken(s, e, other)
  <2>1. e \in Nat
    BY <1>1
  <2>2. Taken(s, e, other) \in Nat
    BY <2>1, TakenFinite
  <2> QED
    BY <2>2
<1>3. Len(s) \in 0..Len(s) /\ \A e \in 1..Len(s) : e \in 0..Len(s)
  BY <1>1
<1>4. Taken(s, Len(s), "insert") = Len(a) /\ Taken(s, Len(s), "delete") = Len(b)
  BY <1>2, <1>3 DEF Leads
<1>5. ASSUME NEW e \in 1..Len(s)
      PROVE  /\ s[e].op # "insert" => /\ Taken(s, e, "insert") \in 1..Len(a)
                                      /\ s[e].line = a[Taken(s, e, "insert")]
             /\ s[e].op # "delete" => /\ Taken(s, e, "delete") \in 1..Len(b)
                                      /\ s[e].line = b[Taken(s, e, "delete")]
  <2>1. 0 + Taken(s, e, "insert") = Taken(s, e, "insert") /\ 0 + Taken(s, e, "delete") = Taken(s, e, "delete")
    BY <1>2, <1>3
  <2> QED
    BY <2>1 DEF Leads
<1> QED
  BY <1>1, <1>4, <1>5

\* Two edits do not take the same line.
LEMMA TakenApart ==
  ASSUME NEW s, NEW e \in Nat, NEW f \in Nat, NEW other,
         s[e].op # other, s[f].op # other, Taken(s, e, other) = Taken(s, f, other)
  PROVE  e = f
<1>1. Taken(s, e, other) \in Nat /\ Taken(s, f, other) \in Nat
  BY TakenFinite
<1>2. ~(e < f)
  <2> SUFFICES ASSUME e < f PROVE FALSE
    OBVIOUS
  <2>1. Taken(s, e, other) < Taken(s, f, other)
    BY TakenGrows
  <2> QED
    BY <1>1, <2>1
<1>3. ~(f < e)
  <2> SUFFICES ASSUME f < e PROVE FALSE
    OBVIOUS
  <2>1. Taken(s, f, other) < Taken(s, e, other)
    BY TakenGrows
  <2> QED
    BY <1>1, <2>1
<1> QED
  BY <1>2, <1>3

\* Every line is taken by an edit.
LEMMA TakenAll ==
  ASSUME NEW s, NEW n \in Nat, NEW other, NEW j \in 1..Taken(s, n, other)
  PROVE  \E e \in 1..n : s[e].op # other /\ Taken(s, e, other) = j
<1> DEFINE T == {m \in 0..n : Taken(s, m, other) >= j}
<1>0. Taken(s, n, other) \in Nat
  BY TakenFinite
<1>1. T \subseteq Nat /\ n \in T
  BY <1>0
<1> HIDE DEF T
<1>2. PICK m \in T : \A k \in T : m <= k
  BY <1>1, LeastNumber
<1> USE DEF T
<1>3. m # 0
  <2>1. Taken(s, 0, other) = 0
    BY TakenNone
  <2> QED
    BY <1>2, <2>1
<1>4. m - 1 \in Nat /\ m - 1 \in 0..n /\ (m - 1) + 1 = m /\ ~(m <= m - 1) /\ m \in 1..n
  BY <1>3
<1>5. Taken(s, m - 1, other) \in Nat /\ Taken(s, m, other) \in Nat
  <2>1. m \in Nat
    OBVIOUS
  <2> QED
    BY <1>4, <2>1, TakenFinite
<1>6. Taken(s, m - 1, other) < j
  BY <1>2, <1>4, <1>5
<1>7. Taken(s, m, other) = Taken(s, m - 1, other) + IF s[m].op # other THEN 1 ELSE 0
  <2>1. PICK k : k = m - 1
    OBVIOUS
  <2>2. Taken(s, k + 1, other) = Taken(s, k, other) + IF s[k + 1].op # other THEN 1 ELSE 0
    BY <1>4, <2>1, TakenNext
  <2> QED
    BY <1>4, <2>1, <2>2
<1>8. s[m].op # other /\ Taken(s, m, other) = j
  BY <1>2, <1>5, <1>6, <1>7
<1> QED
  BY <1>4, <1>8

\* Two scripts without changes make one.
LEMMA SameConcat ==
  ASSUME NEW S, NEW s \in Seq(S), NEW t \in Seq(S), ~HasChanges(s), ~HasChanges(t)
  PROVE  s \o t \in Seq(S) /\ ~HasChanges(s \o t)
<1>1. /\ s \o t \in Seq(S) /\ Len(s) \in Nat /\ Len(t) \in Nat
      /\ Len(s \o t) = Len(s) + Len(t)
      /\ \A k \in 1..Len(s) : (s \o t)[k] = s[k]
      /\ \A k \in 1..Len(t) : (s \o t)[Len(s) + k] = t[k]
  BY ConcatOf
<1>2. DOMAIN s = 1..Len(s) /\ DOMAIN t = 1..Len(t) /\ DOMAIN (s \o t) = 1..(Len(s) + Len(t))
  BY <1>1, LenProperties
<1>3. ASSUME NEW k \in 1..(Len(s) + Len(t)) PROVE (s \o t)[k].op = "equal"
  <2>1. CASE k \in 1..Len(s)
    BY <1>1, <1>2, <2>1 DEF HasChanges
  <2>2. CASE k \notin 1..Len(s)
    <3>1. k - Len(s) \in 1..Len(t) /\ Len(s) + (k - Len(s)) = k
      BY <1>1, <2>2
    <3>2. (s \o t)[k] = t[k - Len(s)]
      BY <1>1, <3>1
    <3> QED
      BY <1>2, <3>1, <3>2 DEF HasChanges
  <2> QED
    BY <2>1, <2>2
<1> QED
  BY <1>1, <1>2, <1>3 DEF HasChanges

\* No change is found between a file and itself.
THEOREM MyersSame ==
  ASSUME NEW S, NEW a \in Seq(S), NEW maxEdits \in Nat
  PROVE  ~HasChanges(Myers(a, a, maxEdits).edits)
<1> DEFINE found == Arrivals(a, a, maxEdits)
<1>1. Len(a) \in Nat
  BY LenProperties
<1>2. Limit(a, a, maxEdits) \in Nat /\ 0 \in 0..Limit(a, a, maxEdits) /\ 0 \in 0..(Len(a) + Len(a))
  BY <1>1 DEF Limit, Least
<1>3. 0 \in Diagonals(0) /\ Frontier(a, a)[0][0] \in Nat
  BY <1>1, FrontierFirst
<1>4. Frontier(a, a)[0][0] >= Len(a)
  <2>1. Entry(Trace(a, a, 0), 0, 0) = 0
    BY <1>3, EntryFirst
  <2>2. PICK x, n : x = 0 /\ n = Snake(a, a, x, x - 0)
    OBVIOUS
  <2>3. Frontier(a, a)[0][0] = x + n
    BY <1>1, <1>2, <1>3, <2>1, <2>2, FrontierValue
  <2>4. x \in Nat /\ x - 0 \in Int /\ x - 0 = x
    BY <2>2
  <2>5. n \in 0..Len(a) /\ ~(x + (n + 1) <= Len(a) /\ x + (n + 1) <= Len(a) /\ a[x + (n + 1)] = a[x + (n + 1)])
    BY <1>1, <2>2, <2>4, SnakeRuns
  <2>6. n \in Nat /\ x + (n + 1) = n + 1 /\ x + n = n
    BY <1>1, <2>2, <2>5
  <2>7. ~(n + 1 <= Len(a))
    BY <2>5, <2>6
  <2> QED
    BY <1>1, <2>3, <2>6, <2>7
<1>5. 0 \in found
  <2>1. Frontier(a, a)[0][0] - 0 >= Len(a)
    BY <1>3, <1>4
  <2> QED
    BY <1>2, <1>3, <1>4, <2>1 DEF Arrivals
<1>6. found \subseteq Nat
  BY <1>2 DEF Arrivals
<1> HIDE DEF found
<1>7. PICK d : d = CHOOSE n \in found : \A e \in found : n <= e
  OBVIOUS
<1>8. d = 0
  <2>1. \A e \in found : 0 <= e
    BY <1>6
  <2>2. d \in found /\ \A e \in found : d <= e
    BY <1>5, <1>7, <2>1
  <2> QED
    BY <1>5, <1>6, <2>2
<1>9. Myers(a, a, maxEdits).edits = StepOut(a, a, Walk(a, a, 0)[0])
  <2>1. Myers(a, a, maxEdits).edits = StepOut(a, a, Walk(a, a, d)[d])
    BY <1>5, <1>7 DEF Myers, Backtrack, found
  <2> QED
    BY <1>8, <2>1
<1>10. PICK at, x : at = Walk(a, a, 0)[0] /\ x = Len(a)
  OBVIOUS
<1>11. at.x = x /\ at.y = x /\ at.edits = <<>> /\ x \in Nat
  <2>1. 0 \in 0..0 /\ 0 \in Nat
    OBVIOUS
  <2>2. at = [x |-> Len(a), y |-> Len(a), edits |-> <<>>]
    BY <1>10, <2>1, WalkUnfolds
  <2> QED
    BY <1>1, <1>10, <2>2
<1>12. PICK none, same : none = <<>> /\ same = Equals(a, 0, x)
  OBVIOUS
<1>13. StepOut(a, a, at) = none \o none \o same \o none
  <2>1. Least(at.x, at.y) = x /\ at.y - x = 0 /\ at.x - x = 0
    BY <1>11 DEF Least
  <2>2. [i \in 1..0 |-> Edit("insert", a[i])] = none /\ [i \in 1..0 |-> Edit("delete", a[i])] = none
    BY <1>12
  <2> QED
    BY <1>11, <1>12, <2>1, <2>2 DEF StepOut
<1>14. none \in Scripts(S) /\ ~HasChanges(none)
  BY <1>12 DEF Scripts, HasChanges
<1>15. same \in Scripts(S) /\ ~HasChanges(same)
  <2>1. 0 + x <= Len(a)
    BY <1>1, <1>10
  <2>2. same \in Scripts(S)
    BY <1>11, <1>12, <2>1, EqualsTyped
  <2>3. DOMAIN same = 1..x /\ \A i \in 1..x : same[i].op = "equal"
    BY <1>12 DEF Equals, Edit
  <2> QED
    BY <2>2, <2>3 DEF HasChanges
<1>16. PICK s, t : s = none \o none /\ t = s \o same
  OBVIOUS
<1>17. s \in Scripts(S) /\ ~HasChanges(s)
  BY <1>14, <1>16, SameConcat DEF Scripts
<1>18. t \in Scripts(S) /\ ~HasChanges(t)
  BY <1>15, <1>16, <1>17, SameConcat DEF Scripts
<1>19. ~HasChanges(t \o none)
  BY <1>14, <1>18, SameConcat DEF Scripts
<1> QED
  BY <1>9, <1>10, <1>12, <1>13, <1>16, <1>19

\* A script without changes leads from a file to the same.
LEMMA SameBySide ==
  ASSUME NEW S, NEW a \in Seq(S), NEW b \in Seq(S), NEW s \in Scripts(S),
         Leads(s, a, b, 0, 0, Len(a), Len(b)), ~HasChanges(s)
  PROVE  a = b
<1>1. /\ DOMAIN s = 1..Len(s) /\ Len(s) \in Nat /\ Len(a) \in Nat /\ Len(b) \in Nat
      /\ \A e \in 1..Len(s) :
           /\ s[e].op # "insert" => /\ Taken(s, e, "insert") \in 1..Len(a)
                                    /\ s[e].line = a[Taken(s, e, "insert")]
           /\ s[e].op # "delete" => /\ Taken(s, e, "delete") \in 1..Len(b)
                                    /\ s[e].line = b[Taken(s, e, "delete")]
      /\ Taken(s, Len(s), "insert") = Len(a) /\ Taken(s, Len(s), "delete") = Len(b)
  BY ScriptSides
<1>2. \A e \in 1..Len(s) : s[e].op = "equal"
  BY <1>1 DEF HasChanges
<1>3. ASSUME NEW e \in 0..Len(s)
      PROVE  Taken(s, e, "insert") = e /\ Taken(s, e, "delete") = e
  <2>1. e \in Nat /\ Cardinality(1..e) = e
    BY <1>1, FS_Interval
  <2>2. {k \in 1..e : s[k].op # "insert"} = 1..e /\ {k \in 1..e : s[k].op # "delete"} = 1..e
    BY <1>1, <1>2
  <2> QED
    BY <2>1, <2>2 DEF Taken
<1>4. Len(a) = Len(s) /\ Len(b) = Len(s)
  BY <1>1, <1>3
<1>5. \A e \in 1..Len(s) : a[e] = b[e]
  BY <1>1, <1>2, <1>3
<1> QED
  BY <1>4, <1>5, SeqEqual

-----------------------------------------------------------------------------
\* No script is shorter.

\* Where a frontier stands, the two files' next lines differ, or one of them
\* has no next line.
LEMMA FrontierStops ==
  ASSUME NEW a, NEW b, Len(a) \in Nat, Len(b) \in Nat,
         NEW d \in 0..(Len(a) + Len(b)), NEW k \in Diagonals(d), NEW x, x = Frontier(a, b)[d][k]
  PROVE  ~(x + 1 <= Len(a) /\ x - k + 1 <= Len(b) /\ a[x + 1] = b[x - k + 1])
<1>1. PICK u : u = Entry(Trace(a, b, d), k, d)
  OBVIOUS
<1>2. d \in Nat /\ k \in Int
  BY DiagonalsMeet
<1>3. u \in Nat /\ u - k \in Int
  <2>1. CASE d = 0
    BY <1>1, <1>2, <2>1, EntryFirst
  <2>2. CASE d > 0
    <3>1. \/ k + 1 \in Diagonals(d - 1) /\ u = Frontier(a, b)[d - 1][k + 1]
          \/ k - 1 \in Diagonals(d - 1) /\ u = Frontier(a, b)[d - 1][k - 1] + 1
      BY <1>1, <2>2, EntryFrom
    <3>2. d - 1 \in 0..(Len(a) + Len(b))
      BY <2>2
    <3>3. \A j \in Diagonals(d - 1) : Frontier(a, b)[d - 1][j] \in Nat
      BY <3>2, FrontierTyped
    <3> QED
      BY <1>2, <3>1, <3>3
  <2> QED
    BY <1>2, <2>1, <2>2
<1>4. PICK r : r = Snake(a, b, u, u - k)
  OBVIOUS
<1>5. r \in Nat
  BY <1>3, <1>4, SnakeInside
<1>6. ~(u + (r + 1) <= Len(a) /\ u - k + (r + 1) <= Len(b) /\ a[u + (r + 1)] = b[u - k + (r + 1)])
  <2>1. PICK w : w = u - k
    OBVIOUS
  <2>2. w \in Int /\ r = Snake(a, b, u, w)
    BY <1>3, <1>4, <2>1
  <2>3. /\ Len(a) \in Nat /\ Len(b) \in Nat /\ u \in Nat /\ w \in Int
    BY <1>3, <2>2
  <2>4. LET n == Snake(a, b, u, w) + 1
        IN  ~(u + n <= Len(a) /\ w + n <= Len(b) /\ a[u + n] = b[w + n])
    BY ONLY <2>3, SnakeRuns
  <2> QED
    BY <2>1, <2>2, <2>4
<1>7. x = u + r
  BY <1>1, <1>4, FrontierValue
<1>8. u + (r + 1) = x + 1 /\ u - k + (r + 1) = x - k + 1
  BY <1>2, <1>3, <1>5, <1>7
<1> QED
  BY <1>6, <1>8

\* The frontier of a script's changes is not behind the script.
LEMMA FrontierLeads ==
  ASSUME NEW S, NEW a \in Seq(S), NEW b \in Seq(S), NEW s \in Scripts(S),
         Leads(s, a, b, 0, 0, Len(a), Len(b))
  PROVE  \A e \in 0..Len(s) : \E d, x, y \in Nat :
            /\ d = Taken(s, e, "equal") /\ x = Taken(s, e, "insert") /\ y = Taken(s, e, "delete")
            /\ d <= x + y /\ x <= Len(a) /\ y <= Len(b)
            /\ x - y \in Diagonals(d) /\ Frontier(a, b)[d][x - y] >= x
<1> DEFINE F == Frontier(a, b)
           reached(e) == \E d, x, y \in Nat :
              /\ d = Taken(s, e, "equal") /\ x = Taken(s, e, "insert") /\ y = Taken(s, e, "delete")
              /\ d <= x + y /\ x <= Len(a) /\ y <= Len(b)
              /\ x - y \in Diagonals(d) /\ F[d][x - y] >= x
           T == {e \in Nat : e <= Len(s) => reached(e)}
<1>1. /\ Len(a) \in Nat /\ Len(b) \in Nat /\ Len(s) \in Nat
      /\ \A e \in 1..Len(s) : s[e].op \in Ops
  <2>1. s \in Seq([op : Ops, line : S])
    BY DEF Scripts
  <2>2. \A e \in 1..Len(s) : s[e] \in [op : Ops, line : S]
    BY <2>1, LenProperties, ElementOfSeq
  <2>3. \A e \in 1..Len(s) : s[e].op \in Ops
    BY <2>2
  <2> QED
    BY <2>1, <2>3, LenProperties
<1>2. /\ \A e \in 1..Len(s) :
           /\ s[e].op # "insert" => /\ Taken(s, e, "insert") \in 1..Len(a)
                                    /\ s[e].line = a[Taken(s, e, "insert")]
           /\ s[e].op # "delete" => /\ Taken(s, e, "delete") \in 1..Len(b)
                                    /\ s[e].line = b[Taken(s, e, "delete")]
      /\ Taken(s, Len(s), "insert") = Len(a) /\ Taken(s, Len(s), "delete") = Len(b)
  BY ScriptSides
<1>3. 0 \in T
  <2>1. /\ Taken(s, 0, "equal") = 0 /\ Taken(s, 0, "insert") = 0 /\ Taken(s, 0, "delete") = 0
        /\ 0 - 0 = 0 /\ 0 <= 0 + 0 /\ 0 <= Len(a) /\ 0 <= Len(b)
    BY <1>1, TakenNone
  <2>2. 0 \in Diagonals(0) /\ F[0][0] >= 0
    BY <1>1, FrontierFirst
  <2>3. reached(0)
    BY <2>1, <2>2
  <2> QED
    BY <2>3
<1>4. ASSUME NEW e \in Nat, e \in T, e + 1 <= Len(s) PROVE reached(e + 1)
  <2>1. e <= Len(s)
    BY <1>1, <1>4
  <2>2. PICK d, x, y \in Nat :
           /\ d = Taken(s, e, "equal") /\ x = Taken(s, e, "insert") /\ y = Taken(s, e, "delete")
           /\ d <= x + y /\ x <= Len(a) /\ y <= Len(b)
           /\ x - y \in Diagonals(d) /\ F[d][x - y] >= x
    BY <1>4, <2>1
  <2>3. PICK n, k : n = e + 1 /\ k = x - y
    OBVIOUS
  <2>4. n \in 1..Len(s) /\ n \in Nat /\ k \in Int /\ k \in Diagonals(d) /\ F[d][k] >= x
    BY <1>1, <1>4, <2>2, <2>3
  <2>5. /\ Taken(s, n, "equal") = d + IF s[n].op # "equal" THEN 1 ELSE 0
        /\ Taken(s, n, "insert") = x + IF s[n].op # "insert" THEN 1 ELSE 0
        /\ Taken(s, n, "delete") = y + IF s[n].op # "delete" THEN 1 ELSE 0
    BY <2>2, <2>3, TakenNext
  <2>6. Taken(s, n, "insert") <= Len(a) /\ Taken(s, n, "delete") <= Len(b)
    <3>1. n <= Len(s)
      BY <2>4
    <3> QED
      BY <1>1, <1>2, <2>4, <3>1, TakenGrows
  <2>7. F[d][k] \in Nat /\ d \in 0..(Len(a) + Len(b))
    <3>1. d \in 0..(Len(a) + Len(b))
      BY <1>1, <2>2
    <3> QED
      BY <1>1, <2>4, <3>1, FrontierTyped
  <2>8. s[n].op \in {"equal", "insert", "delete"}
    BY <1>1, <2>4 DEF Ops
  <2>9. CASE s[n].op = "insert"
    <3>1. /\ Taken(s, n, "equal") = d + 1 /\ Taken(s, n, "insert") = x
          /\ Taken(s, n, "delete") = y + 1
      BY <2>2, <2>5, <2>9
    <3>2. /\ d + 1 <= x + (y + 1) /\ y + 1 <= Len(b) /\ x - (y + 1) = k - 1
          /\ d + 1 \in 1..(Len(a) + Len(b)) /\ (d + 1) - 1 = d /\ d + 1 \in Nat /\ y + 1 \in Nat
      <4>1. y + 1 <= Len(b) /\ x <= Len(a) /\ d <= x + y
        BY <2>2, <2>6, <3>1
      <4> QED
        BY <1>1, <2>3, <4>1
    <3>3. PICK c : c = d + 1
      OBVIOUS
    <3>4. c \in 1..(Len(a) + Len(b)) /\ c - 1 = d /\ c \in 0..(Len(a) + Len(b))
      BY <3>2, <3>3
    <3>5. k - 1 \in Diagonals(c) /\ F[c][k - 1] >= F[d][k]
      BY <1>1, <2>4, <3>4, FrontierGrows
    <3>6. F[c][k - 1] \in Nat
      BY <1>1, <3>4, <3>5, FrontierTyped
    <3>7. F[c][k - 1] >= x
      <4>1. PICK f, g : f = F[d][k] /\ g = F[c][k - 1]
        OBVIOUS
      <4>2. f \in Nat /\ g \in Nat /\ f >= x /\ g >= f
        BY <2>4, <2>7, <3>5, <3>6, <4>1
      <4>3. g >= x
        BY <4>2
      <4> QED
        BY <4>1, <4>3
    <3> QED
      BY <2>2, <2>3, <3>1, <3>2, <3>3, <3>5, <3>7
  <2>10. CASE s[n].op = "delete"
    <3>1. /\ Taken(s, n, "equal") = d + 1 /\ Taken(s, n, "insert") = x + 1
          /\ Taken(s, n, "delete") = y
      BY <2>2, <2>5, <2>10
    <3>2. /\ d + 1 <= (x + 1) + y /\ x + 1 <= Len(a) /\ (x + 1) - y = k + 1
          /\ d + 1 \in 1..(Len(a) + Len(b)) /\ (d + 1) - 1 = d /\ d + 1 \in Nat /\ x + 1 \in Nat
      <4>1. x + 1 <= Len(a) /\ y <= Len(b) /\ d <= x + y
        BY <2>2, <2>6, <3>1
      <4> QED
        BY <1>1, <2>3, <4>1
    <3>3. PICK c : c = d + 1
      OBVIOUS
    <3>4. c \in 1..(Len(a) + Len(b)) /\ c - 1 = d /\ c \in 0..(Len(a) + Len(b))
      BY <3>2, <3>3
    <3>5. k + 1 \in Diagonals(c) /\ F[c][k + 1] >= F[d][k] + 1
      BY <1>1, <2>4, <3>4, FrontierGrows
    <3>6. F[c][k + 1] \in Nat
      BY <1>1, <3>4, <3>5, FrontierTyped
    <3>7. F[c][k + 1] >= x + 1
      <4>1. PICK f, g : f = F[d][k] /\ g = F[c][k + 1]
        OBVIOUS
      <4>2. f \in Nat /\ g \in Nat /\ f >= x /\ g >= f + 1
        BY <2>4, <2>7, <3>5, <3>6, <4>1
      <4>3. g >= x + 1
        BY <4>2
      <4> QED
        BY <4>1, <4>3
    <3> QED
      BY <2>2, <2>3, <3>1, <3>2, <3>3, <3>5, <3>7
  <2>11. CASE s[n].op = "equal"
    <3>1. /\ Taken(s, n, "equal") = d /\ Taken(s, n, "insert") = x + 1
          /\ Taken(s, n, "delete") = y + 1
      BY <2>2, <2>5, <2>11
    <3>2. /\ d <= (x + 1) + (y + 1) /\ x + 1 <= Len(a) /\ y + 1 <= Len(b)
          /\ (x + 1) - (y + 1) = k /\ x + 1 \in Nat /\ y + 1 \in Nat
      <4>1. x + 1 <= Len(a) /\ y + 1 <= Len(b) /\ d <= x + y
        BY <2>2, <2>6, <3>1
      <4> QED
        BY <2>3, <4>1
    <3>3. a[x + 1] = b[y + 1]
      BY <1>2, <2>4, <2>11, <3>1
    <3>4. F[d][k] # x
      <4> SUFFICES ASSUME x = F[d][k] PROVE FALSE
        OBVIOUS
      <4>1. ~(x + 1 <= Len(a) /\ x - k + 1 <= Len(b) /\ a[x + 1] = b[x - k + 1])
        BY <1>1, <2>4, <2>7, FrontierStops
      <4>2. x - k + 1 = y + 1
        BY <2>2, <2>3
      <4> QED
        BY <3>2, <3>3, <4>1, <4>2
    <3>5. F[d][k] >= x + 1
      <4>1. PICK f : f = F[d][k]
        OBVIOUS
      <4>2. f \in Nat /\ f >= x /\ f # x
        BY <2>4, <2>7, <3>4, <4>1
      <4>3. f >= x + 1
        BY <4>2
      <4> QED
        BY <4>1, <4>3
    <3> QED
      BY <2>2, <2>3, <2>4, <3>1, <3>2, <3>5
  <2> QED
    BY <2>8, <2>9, <2>10, <2>11
<1> HIDE DEF reached
<1>5. \A n \in Nat : n \in T => n + 1 \in T
  BY <1>4
<1>6. \A e \in Nat : e \in T
  BY <1>3, <1>5, EveryNumber
<1>7. \A e \in 0..Len(s) : reached(e)
  BY <1>1, <1>6
<1> QED
  BY <1>7 DEF reached

\* Myers finds a script within the budget whenever there is one, and none that
\* leads from the one file to the other has fewer changes than the one it finds.
THEOREM ShortestScript ==
  ASSUME NEW S, NEW a \in Seq(S), NEW b \in Seq(S), NEW maxEdits \in Nat,
         NEW s \in Scripts(S), Leads(s, a, b, 0, 0, Len(a), Len(b)), Changes(s) <= maxEdits
  PROVE  /\ ~Myers(a, b, maxEdits).failed
         /\ Changes(Myers(a, b, maxEdits).edits) <= Changes(s)
<1>1. /\ Len(a) \in Nat /\ Len(b) \in Nat /\ Len(s) \in Nat
      /\ Taken(s, Len(s), "insert") = Len(a) /\ Taken(s, Len(s), "delete") = Len(b)
  BY ScriptSides
<1>2. PICK d, x, y \in Nat :
         /\ d = Taken(s, Len(s), "equal") /\ x = Len(a) /\ y = Len(b)
         /\ d <= x + y /\ x - y \in Diagonals(d) /\ Frontier(a, b)[d][x - y] >= x
  <2>1. Len(s) \in 0..Len(s)
    BY <1>1
  <2>2. \E d, x, y \in Nat :
            /\ d = Taken(s, Len(s), "equal") /\ x = Taken(s, Len(s), "insert")
            /\ y = Taken(s, Len(s), "delete")
            /\ d <= x + y /\ x <= Len(a) /\ y <= Len(b)
            /\ x - y \in Diagonals(d) /\ Frontier(a, b)[d][x - y] >= x
    BY <2>1, FrontierLeads
  <2> QED
    BY <1>1, <2>2
<1>3. d = Changes(s)
  BY <1>2 DEF Changes
<1>4. d \in 0..Limit(a, b, maxEdits)
  BY <1>1, <1>2, <1>3 DEF Limit, Least
<1>5. Frontier(a, b)[d][x - y] - (x - y) >= y
  <2>1. d \in 0..(Len(a) + Len(b))
    BY <1>2
  <2>2. Frontier(a, b)[d][x - y] \in Nat
    BY <1>1, <1>2, <2>1, FrontierTyped
  <2> QED
    BY <1>2, <2>2
<1>6. d \in Arrivals(a, b, maxEdits)
  BY <1>2, <1>4, <1>5 DEF Arrivals
<1>7. ~Myers(a, b, maxEdits).failed
  BY <1>6 DEF Myers
<1>8. Changes(Myers(a, b, maxEdits).edits) <= d
  BY <1>6, <1>7, MyersLeads
<1> QED
  BY <1>3, <1>7, <1>8

-----------------------------------------------------------------------------
\* The shortest script, against the longest common subsequence.

HeadsOf(a, b) == (0..Len(a)) \X (0..Len(b))

\* What is common to two prefixes, from what is to shorter ones.
Common(l, a, b, at) ==
    LET i == at[1] j == at[2]
    IN  IF i = 0 \/ j = 0 THEN 0
        ELSE IF a[i] = b[j] THEN l[<<i - 1, j - 1>>] + 1
        ELSE LET p == l[<<i - 1, j>>] q == l[<<i, j - 1>>]
             IN  IF p > q THEN p ELSE q

\* It depends on shorter prefixes alone.
LEMMA CommonSame ==
  ASSUME NEW a, NEW b, Len(a) \in Nat, Len(b) \in Nat, NEW l, NEW r,
         NEW at \in HeadsOf(a, b),
         \A to \in HeadsOf(a, b) : to[1] + to[2] < at[1] + at[2] => l[to] = r[to]
  PROVE  Common(l, a, b, at) = Common(r, a, b, at)
<1>1. PICK i, j : i = at[1] /\ j = at[2]
  OBVIOUS
<1>2. i \in 0..Len(a) /\ j \in 0..Len(b)
  BY <1>1 DEF HeadsOf
<1>3. CASE i = 0 \/ j = 0
  BY <1>1, <1>3 DEF Common
<1>4. CASE ~(i = 0 \/ j = 0)
  <2>1. ASSUME NEW k \in {i - 1, i}, NEW m \in {j - 1, j}, k + m < i + j
        PROVE  l[<<k, m>>] = r[<<k, m>>]
    <3>1. PICK to : to = <<k, m>>
      OBVIOUS
    <3>2. to \in HeadsOf(a, b) /\ to[1] = k /\ to[2] = m
      BY <1>2, <1>4, <3>1 DEF HeadsOf
    <3>3. to[1] + to[2] < at[1] + at[2]
      BY <1>1, <2>1, <3>2
    <3> QED
      BY <3>1, <3>2, <3>3
  <2>2. i - 1 + j < i + j /\ i + (j - 1) < i + j /\ i - 1 + (j - 1) < i + j
    BY <1>2
  <2>3. l[<<i - 1, j>>] = r[<<i - 1, j>>] /\ l[<<i, j - 1>>] = r[<<i, j - 1>>]
        /\ l[<<i - 1, j - 1>>] = r[<<i - 1, j - 1>>]
    BY <2>1, <2>2
  <2> QED
    BY <1>1, <1>4, <2>3 DEF Common
<1> QED
  BY <1>3, <1>4

\* LongestCommon is what the recursion says.
LEMMA CommonUnfolds ==
  ASSUME NEW a, NEW b, Len(a) \in Nat, Len(b) \in Nat
  PROVE  \E l : /\ \A at \in HeadsOf(a, b) : l[at] = Common(l, a, b, at)
                /\ LongestCommon(a, b) = l[<<Len(a), Len(b)>>]
<1> DEFINE D == HeadsOf(a, b)
           all == Len(a) + Len(b) + 1
           known(n) == \E l : l = [at \in D |->
             IF at[1] + at[2] < n THEN Common(l, a, b, at) ELSE 0]
           T == {n \in Nat : known(n)}
<1>1. \A at \in D : at[1] + at[2] \in Nat /\ at[1] + at[2] < all
  BY DEF HeadsOf
<1>0. all \in Nat
  OBVIOUS
<1> HIDE DEF D, all
<1>2. 0 \in T
  <2>1. PICK l : l = [at \in D |-> 0]
    OBVIOUS
  <2>2. \A at \in D : ~(at[1] + at[2] < 0)
    BY <1>1
  <2>3. l = [at \in D |-> IF at[1] + at[2] < 0 THEN Common(l, a, b, at) ELSE 0]
    BY <2>1, <2>2
  <2> QED
    BY <2>3
<1>3. ASSUME NEW n \in Nat, n \in T PROVE n + 1 \in T
  <2>1. PICK l : l = [at \in D |-> IF at[1] + at[2] < n THEN Common(l, a, b, at) ELSE 0]
    BY <1>3
  <2>2. PICK r : r = [at \in D |-> IF at[1] + at[2] < n + 1 THEN Common(l, a, b, at) ELSE 0]
    OBVIOUS
  <2>3. ASSUME NEW at \in D, at[1] + at[2] < n PROVE l[at] = r[at]
    <3>1. at[1] + at[2] < n + 1
      BY <1>1, <2>3
    <3> QED
      BY <2>1, <2>2, <2>3, <3>1
  <2>4. ASSUME NEW at \in D, at[1] + at[2] < n + 1
        PROVE  Common(l, a, b, at) = Common(r, a, b, at)
    <3>1. ASSUME NEW to \in D, to[1] + to[2] < at[1] + at[2] PROVE l[to] = r[to]
      <4>1. to[1] + to[2] < n
        BY <1>1, <2>4, <3>1
      <4> QED
        BY <2>3, <4>1
    <3> QED
      BY <3>1, CommonSame DEF D
  <2>5. r = [at \in D |-> IF at[1] + at[2] < n + 1 THEN Common(r, a, b, at) ELSE 0]
    BY <2>2, <2>4
  <2>6. known(n + 1)
    BY <2>5
  <2> HIDE DEF known
  <2> QED
    BY <2>6
<1> HIDE DEF known
<1>4. \A n \in Nat : n \in T
  <2> HIDE DEF T
  <2> QED
    BY <1>2, <1>3, EveryNumber
<1>5. known(all)
  BY <1>0, <1>4
<1>6. PICK l : l = [at \in D |-> IF at[1] + at[2] < all THEN Common(l, a, b, at) ELSE 0]
  BY <1>5 DEF known
<1>7. l = [at \in D |-> Common(l, a, b, at)]
  BY <1>1, <1>6
<1>8. PICK w : w = CHOOSE f : f = [at \in D |-> Common(f, a, b, at)]
  OBVIOUS
<1>9. w = [at \in D |-> Common(w, a, b, at)]
  BY <1>7, <1>8
<1>10. LongestCommon(a, b) = w[<<Len(a), Len(b)>>]
  BY <1>8 DEF LongestCommon, Common, D, HeadsOf
<1> QED
  BY <1>9, <1>10 DEF D

\* What l says of the prefixes of i and j lines.
CommonOf(l, a, b) == \A at \in HeadsOf(a, b) : l[at] = Common(l, a, b, at)

CommonCase(l, a, b) ==
    \A i \in 0..Len(a), j \in 0..Len(b) :
       /\ (i = 0 \/ j = 0) => l[<<i, j>>] = 0
       /\ (i # 0 /\ j # 0 /\ a[i] = b[j]) => l[<<i, j>>] = l[<<i - 1, j - 1>>] + 1
       /\ (i # 0 /\ j # 0 /\ a[i] # b[j]) =>
            l[<<i, j>>] = IF l[<<i - 1, j>>] > l[<<i, j - 1>>] THEN l[<<i - 1, j>>] ELSE l[<<i, j - 1>>]

\* What is common, case by case.
LEMMA CommonCases ==
  ASSUME NEW a, NEW b, NEW l, CommonOf(l, a, b)
  PROVE  CommonCase(l, a, b)
<1> SUFFICES ASSUME NEW i \in 0..Len(a), NEW j \in 0..Len(b)
             PROVE  /\ (i = 0 \/ j = 0) => l[<<i, j>>] = 0
                    /\ (i # 0 /\ j # 0 /\ a[i] = b[j]) => l[<<i, j>>] = l[<<i - 1, j - 1>>] + 1
                    /\ (i # 0 /\ j # 0 /\ a[i] # b[j]) =>
                         l[<<i, j>>] = IF l[<<i - 1, j>>] > l[<<i, j - 1>>] THEN l[<<i - 1, j>>] ELSE l[<<i, j - 1>>]
  BY DEF CommonCase
<1>1. PICK at : at = <<i, j>>
  OBVIOUS
<1>2. at \in HeadsOf(a, b) /\ at[1] = i /\ at[2] = j
  BY <1>1 DEF HeadsOf
<1>3. l[<<i, j>>] = Common(l, a, b, at)
  BY <1>1, <1>2 DEF CommonOf
<1> QED
  BY <1>2, <1>3 DEF Common

\* One line more on a side has as much in common, or one line more.
LEMMA CommonGrows ==
  ASSUME NEW a, NEW b, Len(a) \in Nat, Len(b) \in Nat, NEW l, CommonOf(l, a, b)
  PROVE  \A i \in 0..Len(a), j \in 0..Len(b) :
           /\ l[<<i, j>>] \in Nat
           /\ i # 0 => l[<<i - 1, j>>] <= l[<<i, j>>] /\ l[<<i, j>>] <= l[<<i - 1, j>>] + 1
           /\ j # 0 => l[<<i, j - 1>>] <= l[<<i, j>>] /\ l[<<i, j>>] <= l[<<i, j - 1>>] + 1
<1> DEFINE grows(i, j) ==
             /\ l[<<i, j>>] \in Nat
             /\ i # 0 => l[<<i - 1, j>>] <= l[<<i, j>>] /\ l[<<i, j>>] <= l[<<i - 1, j>>] + 1
             /\ j # 0 => l[<<i, j - 1>>] <= l[<<i, j>>] /\ l[<<i, j>>] <= l[<<i, j - 1>>] + 1
           upTo(n) == \A i \in 0..Len(a), j \in 0..Len(b) : i + j < n => grows(i, j)
           T == {n \in Nat : upTo(n)}
<1>0. CommonCase(l, a, b)
  BY CommonCases
<1>1. 0 \in T
  <2>1. \A i \in 0..Len(a), j \in 0..Len(b) : ~(i + j < 0)
    OBVIOUS
  <2> QED
    BY <2>1
<1>2. ASSUME NEW n \in Nat, n \in T PROVE n + 1 \in T
  <2>1. ASSUME NEW i \in 0..Len(a), NEW j \in 0..Len(b), i + j < n + 1 PROVE grows(i, j)
    <3>1. CASE i = 0 \/ j = 0
      <4>1. l[<<i, j>>] = 0
        BY <1>0, <3>1 DEF CommonCase
      <4>2. i # 0 => l[<<i - 1, j>>] = 0
        <5>1. i # 0 => i - 1 \in 0..Len(a) /\ j = 0
          BY <3>1
        <5> QED
          BY <1>0, <5>1 DEF CommonCase
      <4>3. j # 0 => l[<<i, j - 1>>] = 0
        <5>1. j # 0 => j - 1 \in 0..Len(b) /\ i = 0
          BY <3>1
        <5> QED
          BY <1>0, <5>1 DEF CommonCase
      <4> QED
        BY <4>1, <4>2, <4>3
    <3>2. CASE i # 0 /\ j # 0
      <4>1. i - 1 \in 0..Len(a) /\ j - 1 \in 0..Len(b)
            /\ i - 1 + j < n /\ i + (j - 1) < n /\ i - 1 + (j - 1) < n
        BY <2>1, <3>2
      <4>2. upTo(n)
        BY <1>2
      <4>3. grows(i - 1, j) /\ grows(i, j - 1) /\ grows(i - 1, j - 1)
        <5> HIDE DEF grows
        <5> QED
          BY <4>1, <4>2
      <4>4. PICK p, q, c : p = l[<<i - 1, j>>] /\ q = l[<<i, j - 1>>] /\ c = l[<<i - 1, j - 1>>]
        OBVIOUS
      <4>5. /\ p \in Nat /\ q \in Nat /\ c \in Nat
            /\ c <= p /\ p <= c + 1 /\ c <= q /\ q <= c + 1
        BY <3>2, <4>3, <4>4
      <4>6. l[<<i, j>>] = IF a[i] = b[j] THEN c + 1 ELSE IF p > q THEN p ELSE q
        BY <1>0, <3>2, <4>4 DEF CommonCase
      <4>7. PICK v : v = l[<<i, j>>]
        OBVIOUS
      <4>8. v \in Nat /\ p <= v /\ v <= p + 1 /\ q <= v /\ v <= q + 1
        BY <4>5, <4>6, <4>7
      <4> QED
        BY <4>4, <4>7, <4>8
    <3> QED
      BY <3>1, <3>2
  <2> HIDE DEF grows
  <2>2. upTo(n + 1)
    BY <2>1
  <2> HIDE DEF upTo
  <2> QED
    BY <2>2
<1>3. \A n \in Nat : n \in T
  <2> HIDE DEF T
  <2> QED
    BY <1>1, <1>2, EveryNumber
<1>4. upTo(Len(a) + Len(b) + 1)
  <2>1. Len(a) + Len(b) + 1 \in Nat
    OBVIOUS
  <2> HIDE DEF upTo
  <2> QED
    BY <1>3, <2>1
<1>5. \A i \in 0..Len(a), j \in 0..Len(b) : i + j < Len(a) + Len(b) + 1
  OBVIOUS
<1>6. \A i \in 0..Len(a), j \in 0..Len(b) : grows(i, j)
  <2> HIDE DEF grows
  <2> QED
    BY <1>4, <1>5
<1> QED
  BY <1>6

\* Some script keeps all that is common.
LEMMA CommonIsKept ==
  ASSUME NEW S, NEW a \in Seq(S), NEW b \in Seq(S), NEW l, CommonOf(l, a, b)
  PROVE  \A i \in 0..Len(a), j \in 0..Len(b) :
           \E s \in Scripts(S) : Leads(s, a, b, 0, 0, i, j) /\ Changes(s) = i + j - 2 * l[<<i, j>>]
<1>0. Len(a) \in Nat /\ Len(b) \in Nat
      /\ (\A i \in 1..Len(a) : a[i] \in S) /\ (\A j \in 1..Len(b) : b[j] \in S)
  BY LenProperties, ElementOfSeq
<1>8. CommonCase(l, a, b)
  BY CommonCases
<1>9. \A i \in 0..Len(a), j \in 0..Len(b) : l[<<i, j>>] \in Nat
  BY <1>0, CommonGrows
<1> DEFINE kept(i, j) ==
             \E s \in Scripts(S) : Leads(s, a, b, 0, 0, i, j) /\ Changes(s) = i + j - 2 * l[<<i, j>>]
           upTo(n) == \A i \in 0..Len(a), j \in 0..Len(b) : i + j < n => kept(i, j)
           T == {n \in Nat : upTo(n)}
<1>1. 0 \in T
  <2>1. \A i \in 0..Len(a), j \in 0..Len(b) : ~(i + j < 0)
    BY <1>0
  <2> QED
    BY <2>1
\* One edit more.
<1>2. ASSUME NEW i \in Nat, NEW j \in Nat, kept(i, j), NEW m \in Nat, NEW n \in Nat,
             NEW t \in Scripts(S), Leads(t, a, b, i, j, m, n),
             l[<<i, j>>] \in Nat, l[<<m, n>>] \in Nat,
             Changes(t) = (m + n - 2 * l[<<m, n>>]) - (i + j - 2 * l[<<i, j>>])
      PROVE  kept(m, n)
  <2>1. PICK s \in Scripts(S) : Leads(s, a, b, 0, 0, i, j) /\ Changes(s) = i + j - 2 * l[<<i, j>>]
    BY <1>2
  <2>2. s \o t \in Scripts(S)
    BY ConcatOf DEF Scripts
  <2>3. Leads(s \o t, a, b, 0, 0, m, n)
    BY <1>2, <2>1, LeadsOn DEF Scripts
  <2>4. Changes(s \o t) = Changes(s) + Changes(t)
    BY ChangesConcat DEF Scripts
  <2>5. Changes(s \o t) = m + n - 2 * l[<<m, n>>]
    BY <1>2, <2>1, <2>4
  <2> QED
    BY <2>2, <2>3, <2>5
<1>3. ASSUME NEW n \in Nat, n \in T PROVE n + 1 \in T
  <2>1. ASSUME NEW i \in 0..Len(a), NEW j \in 0..Len(b), i + j < n + 1 PROVE kept(i, j)
    <3>0. l[<<i, j>>] \in Nat
      BY <1>9
    <3>1. CASE i # 0 /\ (j = 0 \/ (a[i] # b[j] /\ l[<<i - 1, j>>] > l[<<i, j - 1>>]))
      <4>1. i - 1 \in 0..Len(a) /\ i - 1 \in Nat /\ i \in 1..Len(a) /\ i - 1 + j < n /\ j \in Nat /\ i \in Nat
        BY <1>0, <2>1, <3>1
      <4>2. kept(i - 1, j)
        <5> HIDE DEF kept
        <5> QED
          BY <1>3, <4>1
      <4>3. PICK t : t = <<Edit("delete", a[i])>>
        OBVIOUS
      <4>4. t \in Scripts(S) /\ Changes(t) = 1
        BY <1>0, <4>1, <4>3, ChangesOne DEF Scripts, Edit, Ops
      <4>5. Leads(t, a, b, i - 1, j, i, j)
        BY <1>0, <4>1, <4>3, LeadsByDelete
      <4>6. l[<<i - 1, j>>] \in Nat /\ l[<<i, j>>] = l[<<i - 1, j>>]
        <5>1. CASE j = 0
          BY <1>0, <4>1, <5>1, <1>8 DEF CommonCase
        <5>2. CASE j # 0
          BY <1>0, <3>0, <3>1, <4>1, <5>2, <1>8, <1>9 DEF CommonCase
        <5> QED
          BY <5>1, <5>2
      <4>7. Changes(t) = (i + j - 2 * l[<<i, j>>]) - (i - 1 + j - 2 * l[<<i - 1, j>>])
        BY <4>1, <4>4, <4>6
      <4> HIDE DEF kept
      <4> QED
        BY <1>2, <3>0, <4>1, <4>2, <4>4, <4>5, <4>6, <4>7
    <3>2. CASE j # 0 /\ (i = 0 \/ (a[i] # b[j] /\ ~(l[<<i - 1, j>>] > l[<<i, j - 1>>])))
      <4>1. j - 1 \in 0..Len(b) /\ j - 1 \in Nat /\ j \in 1..Len(b) /\ i + (j - 1) < n /\ j \in Nat /\ i \in Nat
        BY <1>0, <2>1, <3>2
      <4>2. kept(i, j - 1)
        <5> HIDE DEF kept
        <5> QED
          BY <1>3, <4>1
      <4>3. PICK t : t = <<Edit("insert", b[j])>>
        OBVIOUS
      <4>4. t \in Scripts(S) /\ Changes(t) = 1
        BY <1>0, <4>1, <4>3, ChangesOne DEF Scripts, Edit, Ops
      <4>5. Leads(t, a, b, i, j - 1, i, j)
        BY <1>0, <4>1, <4>3, LeadsByInsert
      <4>6. l[<<i, j - 1>>] \in Nat /\ l[<<i, j>>] = l[<<i, j - 1>>]
        <5>1. CASE i = 0
          BY <1>0, <4>1, <5>1, <1>8 DEF CommonCase
        <5>2. CASE i # 0
          BY <1>0, <3>0, <3>2, <4>1, <5>2, <1>8, <1>9 DEF CommonCase
        <5> QED
          BY <5>1, <5>2
      <4>7. Changes(t) = (i + j - 2 * l[<<i, j>>]) - (i + (j - 1) - 2 * l[<<i, j - 1>>])
        BY <4>1, <4>4, <4>6
      <4> HIDE DEF kept
      <4> QED
        BY <1>2, <3>0, <4>1, <4>2, <4>4, <4>5, <4>6, <4>7
    <3>3. CASE i # 0 /\ j # 0 /\ a[i] = b[j]
      <4>1. /\ i - 1 \in 0..Len(a) /\ i - 1 \in Nat /\ i \in Nat /\ i \in 1..Len(a)
            /\ j - 1 \in 0..Len(b) /\ j - 1 \in Nat /\ j \in Nat
            /\ i - 1 + (j - 1) < n
        BY <1>0, <2>1, <3>3
      <4>2. kept(i - 1, j - 1)
        <5> HIDE DEF kept
        <5> QED
          BY <1>3, <4>1
      <4>3. PICK x, y, t : x = i - 1 /\ y = j - 1 /\ t = Equals(a, x, 1)
        OBVIOUS
      <4>4. Leads(t, a, b, x, y, x + 1, y + 1)
        <5>1. \A k \in 1..1 : a[x + k] = b[y + k]
          <6>1. \A k \in 1..1 : k = 1
            OBVIOUS
          <6>2. x + 1 = i /\ y + 1 = j
            BY <4>1, <4>3
          <6> QED
            BY <3>3, <6>1, <6>2
        <5>2. x \in Nat /\ y \in Nat /\ x + 1 <= Len(a) /\ y + 1 <= Len(b)
          BY <1>0, <4>1, <4>3
        <5>3. 1 \in Nat
          OBVIOUS
        <5> QED
          BY <1>0, <4>3, <5>1, <5>2, <5>3, LeadsByEquals
      <4>5. Leads(t, a, b, i - 1, j - 1, i, j)
        <5>1. x + 1 = i /\ y + 1 = j
          BY <4>1, <4>3
        <5> QED
          BY <4>3, <4>4, <5>1
      <4>6. t \in Scripts(S) /\ Changes(t) = 0
        <5>1. t = [k \in 1..1 |-> Edit("equal", a[x + k])]
          BY <4>3 DEF Equals
        <5>2. a[x + 1] \in S
          BY <1>0, <4>1, <4>3
        <5>3. t \in Scripts(S) /\ Len(t) = 1 /\ \A k \in 1..1 : t[k].op = "equal"
          BY <5>1, <5>2 DEF Scripts, Edit, Ops
        <5> QED
          BY <5>3, NoChanges
      <4>7. l[<<i - 1, j - 1>>] \in Nat /\ l[<<i, j>>] = l[<<i - 1, j - 1>>] + 1
        BY <1>0, <3>3, <4>1, <1>8, <1>9 DEF CommonCase
      <4>8. Changes(t) = (i + j - 2 * l[<<i, j>>]) - (i - 1 + (j - 1) - 2 * l[<<i - 1, j - 1>>])
        <5>1. PICK p, q : p = l[<<i, j>>] /\ q = l[<<i - 1, j - 1>>]
          OBVIOUS
        <5>2. q \in Nat /\ p = q + 1
          BY <4>7, <5>1
        <5>3. 0 = (i + j - 2 * p) - (i - 1 + (j - 1) - 2 * q)
          BY <4>1, <5>2
        <5> QED
          BY <4>6, <5>1, <5>3
      <4> HIDE DEF kept
      <4> QED
        BY <1>2, <3>0, <4>1, <4>2, <4>5, <4>6, <4>7, <4>8
    <3>4. CASE i = 0 /\ j = 0
      <4>1. PICK s : s = << >>
        OBVIOUS
      <4>2. s \in Scripts(S) /\ Leads(s, a, b, 0, 0, 0, 0)
        BY <4>1, LeadsNowhere DEF Scripts
      <4>3. Changes(s) = 0
        BY <4>1, TakenNone DEF Changes
      <4>4. l[<<0, 0>>] = 0
        BY <1>0, <3>4, <1>8 DEF CommonCase
      <4> QED
        BY <3>4, <4>2, <4>3, <4>4
    <3> QED
      BY <3>1, <3>2, <3>3, <3>4
  <2> HIDE DEF kept
  <2>2. upTo(n + 1)
    BY <2>1
  <2> HIDE DEF upTo
  <2> QED
    BY <2>2
<1>4. \A n \in Nat : n \in T
  <2> HIDE DEF T
  <2> QED
    BY <1>1, <1>3, EveryNumber
<1>5. upTo(Len(a) + Len(b) + 1)
  <2>1. Len(a) + Len(b) + 1 \in Nat
    BY <1>0
  <2> HIDE DEF upTo
  <2> QED
    BY <1>4, <2>1
<1>6. \A i \in 0..Len(a), j \in 0..Len(b) : i + j < Len(a) + Len(b) + 1
  BY <1>0
<1>7. \A i \in 0..Len(a), j \in 0..Len(b) : kept(i, j)
  <2> HIDE DEF kept
  <2> QED
    BY <1>5, <1>6
<1> QED
  BY <1>7

\* No script keeps more than what is common.
LEMMA NoneKeepsMore ==
  ASSUME NEW S, NEW a \in Seq(S), NEW b \in Seq(S), NEW l, CommonOf(l, a, b),
         NEW s \in Scripts(S), Leads(s, a, b, 0, 0, Len(a), Len(b))
  PROVE  Changes(s) >= Len(a) + Len(b) - 2 * l[<<Len(a), Len(b)>>]
<1>1. /\ Len(s) \in Nat /\ Len(a) \in Nat /\ Len(b) \in Nat
      /\ \A e \in 1..Len(s) :
           /\ s[e] \in [op : Ops, line : S]
           /\ s[e].op # "insert" => s[e].line = a[Taken(s, e, "insert")]
           /\ s[e].op # "delete" => s[e].line = b[Taken(s, e, "delete")]
      /\ Taken(s, Len(s), "insert") = Len(a) /\ Taken(s, Len(s), "delete") = Len(b)
  BY ScriptSides
<1>2. ASSUME NEW e \in 0..Len(s)
      PROVE  /\ Taken(s, e, "insert") \in 0..Len(a) /\ Taken(s, e, "delete") \in 0..Len(b)
             /\ Taken(s, e, "equal") \in Nat
  <2>1. e \in Nat /\ e <= Len(s)
    BY <1>1
  <2>2. Taken(s, e, "insert") \in Nat /\ Taken(s, e, "delete") \in Nat /\ Taken(s, e, "equal") \in Nat
    BY <2>1, TakenFinite
  <2>3. Taken(s, e, "insert") <= Len(a) /\ Taken(s, e, "delete") <= Len(b)
    BY <1>1, <2>1, TakenGrows
  <2> QED
    BY <1>1, <2>2, <2>3
<1>3. \A i \in 0..Len(a), j \in 0..Len(b) :
        /\ l[<<i, j>>] \in Nat
        /\ i # 0 => l[<<i - 1, j>>] <= l[<<i, j>>]
        /\ j # 0 => l[<<i, j - 1>>] <= l[<<i, j>>]
  BY <1>1, CommonGrows
<1>4. CommonCase(l, a, b)
  BY CommonCases
<1> DEFINE keeps(e) == Taken(s, e, "equal") >= Taken(s, e, "insert") + Taken(s, e, "delete")
                         - 2 * l[<<Taken(s, e, "insert"), Taken(s, e, "delete")>>]
           T == {e \in Nat : e <= Len(s) => keeps(e)}
<1>5. 0 \in T
  <2>1. \A other : Taken(s, 0, other) = 0
    BY TakenNone
  <2>2. l[<<0, 0>>] = 0
    <3>1. 0 \in 0..Len(a) /\ 0 \in 0..Len(b)
      BY <1>1
    <3> QED
      BY <1>4, <3>1 DEF CommonCase
  <2> QED
    BY <2>1, <2>2
<1>6. ASSUME NEW e \in Nat, e \in T PROVE e + 1 \in T
  <2>1. ASSUME e + 1 <= Len(s) PROVE keeps(e + 1)
    <3>1. e \in 0..Len(s) /\ e + 1 \in 0..Len(s) /\ e + 1 \in 1..Len(s) /\ e <= Len(s)
      BY <1>1, <2>1
    <3>2. PICK x, y, d, u, w, c :
            /\ x = Taken(s, e, "insert") /\ y = Taken(s, e, "delete") /\ d = Taken(s, e, "equal")
            /\ u = Taken(s, e + 1, "insert") /\ w = Taken(s, e + 1, "delete")
            /\ c = Taken(s, e + 1, "equal")
      OBVIOUS
    <3>3. /\ x \in 0..Len(a) /\ y \in 0..Len(b) /\ d \in Nat
          /\ u \in 0..Len(a) /\ w \in 0..Len(b) /\ c \in Nat
      BY <1>2, <3>1, <3>2
    <3>4. /\ u = x + IF s[e + 1].op # "insert" THEN 1 ELSE 0
          /\ w = y + IF s[e + 1].op # "delete" THEN 1 ELSE 0
          /\ c = d + IF s[e + 1].op # "equal" THEN 1 ELSE 0
      BY <3>2, TakenNext
    <3>5. PICK m, n : m = l[<<x, y>>] /\ n = l[<<u, w>>]
      OBVIOUS
    <3>6. m \in Nat /\ n \in Nat
      BY <1>3, <3>3, <3>5
    <3>7. d >= x + y - 2 * m
      BY <1>6, <3>1, <3>2, <3>5
    <3>8. s[e + 1].op \in {"equal", "insert", "delete"}
      BY <1>1, <3>1 DEF Ops
    <3>9. c >= u + w - 2 * n
      <4>1. CASE s[e + 1].op = "equal"
        <5>1. u = x + 1 /\ w = y + 1 /\ c = d
          BY <3>3, <3>4, <4>1
        <5>2. a[u] = b[w]
          BY <1>1, <3>1, <3>2, <4>1
        <5>3. u # 0 /\ w # 0 /\ u - 1 = x /\ w - 1 = y
          BY <1>1, <3>3, <5>1
        <5>4. n = m + 1
          BY <1>4, <3>3, <3>5, <5>2, <5>3 DEF CommonCase
        <5> QED
          BY <1>1, <3>3, <3>6, <3>7, <5>1, <5>4
      <4>2. CASE s[e + 1].op = "insert"
        <5>1. u = x /\ w = y + 1 /\ c = d + 1
          BY <3>3, <3>4, <4>2
        <5>2. w # 0 /\ w - 1 = y
          BY <1>1, <3>3, <5>1
        <5>3. m <= n
          BY <1>3, <3>3, <3>5, <5>1, <5>2
        <5> QED
          BY <1>1, <3>3, <3>6, <3>7, <5>1, <5>3
      <4>3. CASE s[e + 1].op = "delete"
        <5>1. u = x + 1 /\ w = y /\ c = d + 1
          BY <3>3, <3>4, <4>3
        <5>2. u # 0 /\ u - 1 = x
          BY <1>1, <3>3, <5>1
        <5>3. m <= n
          BY <1>3, <3>3, <3>5, <5>1, <5>2
        <5> QED
          BY <1>1, <3>3, <3>6, <3>7, <5>1, <5>3
      <4> QED
        BY <3>8, <4>1, <4>2, <4>3
    <3> QED
      BY <3>2, <3>5, <3>9
  <2> HIDE DEF keeps
  <2> QED
    BY <2>1
<1>7. keeps(Len(s))
  <2>1. \A e \in Nat : e \in T
    <3> HIDE DEF T
    <3> QED
      BY <1>5, <1>6, EveryNumber
  <2> HIDE DEF keeps
  <2> QED
    BY <1>1, <2>1
<1> QED
  BY <1>1, <1>7 DEF Changes

\* For every two files and every budget: the diff fails exactly if what is not
\* common to the files, line by line, is more than the budget; otherwise its
\* script rebuilds both files and changes just those lines.
THEOREM MyersIsShortest ==
  ASSUME NEW S, NEW a \in Seq(S), NEW b \in Seq(S), NEW maxEdits \in Nat
  PROVE  LET shortest == ShortestLength(a, b)
             diff == Myers(a, b, maxEdits)
         IN  /\ shortest \in Nat
             /\ IF shortest > maxEdits THEN diff.failed
                ELSE /\ ~diff.failed
                     /\ Rebuilds(diff.edits, a, b)
                     /\ Changes(diff.edits) = shortest
<1> DEFINE shortest == ShortestLength(a, b)
           diff == Myers(a, b, maxEdits)
<1>1. Len(a) \in Nat /\ Len(b) \in Nat
  BY LenProperties
<1>2. PICK l : CommonOf(l, a, b) /\ LongestCommon(a, b) = l[<<Len(a), Len(b)>>]
  BY <1>1, CommonUnfolds DEF CommonOf
<1>3. shortest = Len(a) + Len(b) - 2 * l[<<Len(a), Len(b)>>]
  BY <1>2 DEF ShortestLength
<1>4. PICK s \in Scripts(S) : Leads(s, a, b, 0, 0, Len(a), Len(b)) /\ Changes(s) = shortest
  <2>1. Len(a) \in 0..Len(a) /\ Len(b) \in 0..Len(b)
    BY <1>1
  <2> QED
    BY <1>2, <1>3, <2>1, CommonIsKept
<1>5. shortest \in Nat
  <2>1. Len(s) \in Nat
    BY LenProperties DEF Scripts
  <2> QED
    BY <1>4, <2>1, TakenFinite DEF Changes
<1>6. ASSUME ~diff.failed
      PROVE  /\ diff.edits \in Scripts(S) /\ Leads(diff.edits, a, b, 0, 0, Len(a), Len(b))
             /\ Changes(diff.edits) \in 0..maxEdits /\ Changes(diff.edits) >= shortest
  <2>1. /\ diff.edits \in Scripts(S) /\ Leads(diff.edits, a, b, 0, 0, Len(a), Len(b))
        /\ Changes(diff.edits) \in Arrivals(a, b, maxEdits)
    BY <1>6, MyersLeads
  <2>2. \A n \in 0..Limit(a, b, maxEdits) : n \in 0..maxEdits
    BY <1>1 DEF Limit, Least
  <2>3. Changes(diff.edits) \in 0..maxEdits
    BY <2>1, <2>2 DEF Arrivals
  <2>4. Changes(diff.edits) >= shortest
    BY <1>2, <1>3, <2>1, NoneKeepsMore
  <2> QED
    BY <2>1, <2>3, <2>4
<1> HIDE DEF shortest, diff
<1>7. CASE shortest > maxEdits
  BY <1>5, <1>6, <1>7 DEF shortest, diff
<1>8. CASE ~(shortest > maxEdits)
  <2>1. Changes(s) <= maxEdits
    BY <1>4, <1>5, <1>8
  <2>2. ~diff.failed /\ Changes(diff.edits) <= shortest
    BY <1>4, <2>1, ShortestScript DEF diff
  <2>3. Changes(diff.edits) = shortest
    BY <1>5, <1>6, <2>2
  <2>4. Rebuilds(diff.edits, a, b)
    <3>1. diff.edits \in Scripts(S) /\ Leads(diff.edits, a, b, 0, 0, Len(a), Len(b))
      BY <1>6, <2>2
    <3> DEFINE t == diff.edits
    <3>2. /\ DOMAIN t = 1..Len(t)
          /\ \A e \in 1..Len(t) :
               /\ t[e].op # "insert" => /\ Taken(t, e, "insert") \in 1..Len(a)
                                        /\ t[e].line = a[Taken(t, e, "insert")]
               /\ t[e].op # "delete" => /\ Taken(t, e, "delete") \in 1..Len(b)
                                        /\ t[e].line = b[Taken(t, e, "delete")]
          /\ Taken(t, Len(t), "insert") = Len(a) /\ Taken(t, Len(t), "delete") = Len(b)
      BY <3>1, ScriptSides
    <3>3. DOMAIN a = 1..Len(a) /\ DOMAIN b = 1..Len(b)
      BY LenProperties
    <3> HIDE DEF t
    <3>4. IsSide(t, "insert", a) /\ IsSide(t, "delete", b)
      BY <3>2, <3>3 DEF IsSide
    <3> QED
      BY <3>4 DEF Rebuilds, t
  <2> QED
    BY <1>5, <1>8, <2>2, <2>3, <2>4 DEF shortest, diff
<1> QED
  BY <1>7, <1>8
=============================================================================
