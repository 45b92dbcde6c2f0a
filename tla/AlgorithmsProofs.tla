-------------------------- MODULE AlgorithmsProofs --------------------------
(***************************************************************************)
(* Theorems about the pure functions that MCAlgorithms evaluates, for every*)
(* input: what an ignore file says, what a line is recognised by, what an  *)
(* edit makes of the configuration, how long a script is; and that what is *)
(* checked on the small inputs is an instance of them.                     *)
(***************************************************************************)
EXTENDS MCAlgorithms, LineDiffProofs

-----------------------------------------------------------------------------
\* Ignore rules: what a pattern matches and what it may match beneath.

\* Where a pattern and a name may stand.
Stands(pattern, name) == (1..(Len(pattern) + 1)) \X (1..(Len(name) + 1))

\* What is left of a pattern from segment i on matches what is left of a name
\* from part j on.
Matching(m, pattern, name, at) ==
    LET i == at[1] j == at[2]
    IN  IF i > Len(pattern) THEN j > Len(name)
        ELSE IF pattern[i] = "**" THEN \E k \in j..(Len(name) + 1) : m[<<i + 1, k>>]
        ELSE j <= Len(name) /\ Tree!MatchSegment(pattern[i], name[j]) /\ m[<<i + 1, j + 1>>]

\* It depends on what is left of the pattern from the next segment on.
LEMMA MatchingSame ==
  ASSUME NEW pattern, NEW name, Len(pattern) \in Nat, Len(name) \in Nat, NEW m, NEW r,
         NEW at \in Stands(pattern, name),
         \A to \in Stands(pattern, name) : to[1] = at[1] + 1 => m[to] = r[to]
  PROVE  Matching(m, pattern, name, at) = Matching(r, pattern, name, at)
<1>1. PICK i, j : i = at[1] /\ j = at[2]
  OBVIOUS
<1>2. i \in 1..(Len(pattern) + 1) /\ j \in 1..(Len(name) + 1)
  BY <1>1 DEF Stands
<1>3. CASE i > Len(pattern)
  BY <1>1, <1>3 DEF Matching
<1>4. CASE ~(i > Len(pattern))
  <2>1. ASSUME NEW k \in 1..(Len(name) + 1) PROVE m[<<i + 1, k>>] = r[<<i + 1, k>>]
    <3>1. PICK to : to = <<i + 1, k>>
      OBVIOUS
    <3>2. to \in Stands(pattern, name) /\ to[1] = at[1] + 1
      BY <1>1, <1>2, <1>4, <3>1 DEF Stands
    <3> QED
      BY <3>1, <3>2
  <2>2. \A k \in j..(Len(name) + 1) : k \in 1..(Len(name) + 1)
    BY <1>2
  <2>3. j <= Len(name) => j + 1 \in 1..(Len(name) + 1)
    BY <1>2
  <2>4. j <= Len(name) => m[<<i + 1, j + 1>>] = r[<<i + 1, j + 1>>]
    BY <2>1, <2>3
  <2>5. Matching(m, pattern, name, at) =
          IF pattern[i] = "**" THEN \E k \in j..(Len(name) + 1) : m[<<i + 1, k>>]
          ELSE j <= Len(name) /\ Tree!MatchSegment(pattern[i], name[j]) /\ m[<<i + 1, j + 1>>]
    BY <1>1, <1>4 DEF Matching
  <2>6. Matching(r, pattern, name, at) =
          IF pattern[i] = "**" THEN \E k \in j..(Len(name) + 1) : r[<<i + 1, k>>]
          ELSE j <= Len(name) /\ Tree!MatchSegment(pattern[i], name[j]) /\ r[<<i + 1, j + 1>>]
    BY <1>1, <1>4 DEF Matching
  <2>7. CASE pattern[i] = "**"
    <3>1. (\E k \in j..(Len(name) + 1) : m[<<i + 1, k>>]) = (\E k \in j..(Len(name) + 1) : r[<<i + 1, k>>])
      BY <2>1, <2>2, Zenon
    <3> QED
      BY <2>5, <2>6, <2>7, <3>1
  <2>8. CASE pattern[i] # "**"
    <3>1. CASE j <= Len(name)
      BY <2>4, <2>5, <2>6, <2>8, <3>1
    <3>2. CASE ~(j <= Len(name))
      BY <2>5, <2>6, <2>8, <3>2
    <3> QED
      BY <3>1, <3>2
  <2> QED
    BY <2>7, <2>8
<1> QED
  BY <1>3, <1>4

\* MatchPath is what the recursion says.
LEMMA MatchUnfolds ==
  ASSUME NEW pattern, NEW name, Len(pattern) \in Nat, Len(name) \in Nat
  PROVE  \E m : /\ \A at \in Stands(pattern, name) : m[at] = Matching(m, pattern, name, at)
                /\ Tree!MatchPath(pattern, name) = m[<<1, 1>>]
<1> DEFINE D == Stands(pattern, name)
           known(n) == \E m : m = [at \in D |->
             IF at[1] > Len(pattern) + 1 - n THEN Matching(m, pattern, name, at) ELSE FALSE]
           T == {n \in Nat : known(n)}
<1>1. \A at \in D : at[1] \in 1..(Len(pattern) + 1)
  BY DEF Stands
<1> HIDE DEF D
<1>2. 0 \in T
  <2>1. PICK m : m = [at \in D |-> FALSE]
    OBVIOUS
  <2>2. \A at \in D : ~(at[1] > Len(pattern) + 1 - 0)
    BY <1>1
  <2>3. m = [at \in D |->
              IF at[1] > Len(pattern) + 1 - 0 THEN Matching(m, pattern, name, at) ELSE FALSE]
    BY <2>1, <2>2
  <2> QED
    BY <2>3
<1>3. ASSUME NEW n \in Nat, n \in T PROVE n + 1 \in T
  <2>1. PICK m : m = [at \in D |->
             IF at[1] > Len(pattern) + 1 - n THEN Matching(m, pattern, name, at) ELSE FALSE]
    BY <1>3
  <2>2. PICK r : r = [at \in D |->
             IF at[1] > Len(pattern) + 1 - (n + 1) THEN Matching(m, pattern, name, at) ELSE FALSE]
    OBVIOUS
  <2>3. ASSUME NEW at \in D, at[1] > Len(pattern) + 1 - n PROVE m[at] = r[at]
    <3>1. at[1] > Len(pattern) + 1 - (n + 1)
      BY <1>1, <2>3
    <3> QED
      BY <2>1, <2>2, <2>3, <3>1
  <2>4. ASSUME NEW at \in D, at[1] > Len(pattern) + 1 - (n + 1)
        PROVE  Matching(m, pattern, name, at) = Matching(r, pattern, name, at)
    <3>1. ASSUME NEW to \in D, to[1] = at[1] + 1 PROVE m[to] = r[to]
      <4>1. to[1] > Len(pattern) + 1 - n
        BY <1>1, <2>4, <3>1
      <4> QED
        BY <2>3, <4>1
    <3> QED
      BY <3>1, MatchingSame DEF D
  <2>5. r = [at \in D |->
             IF at[1] > Len(pattern) + 1 - (n + 1) THEN Matching(r, pattern, name, at) ELSE FALSE]
    BY <2>2, <2>4
  <2>6. known(n + 1)
    BY <2>5
  <2> HIDE DEF known
  <2> QED
    BY <2>6
<1> HIDE DEF known
<1>4. \A n \in Nat : n \in T
  <2> HIDE DEF T
  <2> QED
    BY <1>2, <1>3, EveryNumber
<1>5. known(Len(pattern) + 1)
  <2>1. Len(pattern) + 1 \in Nat
    OBVIOUS
  <2> QED
    BY <1>4, <2>1
<1>6. PICK m : m = [at \in D |->
          IF at[1] > Len(pattern) + 1 - (Len(pattern) + 1) THEN Matching(m, pattern, name, at) ELSE FALSE]
  BY <1>5 DEF known
<1>7. m = [at \in D |-> Matching(m, pattern, name, at)]
  <2>1. \A at \in D : at[1] > Len(pattern) + 1 - (Len(pattern) + 1)
    BY <1>1
  <2> QED
    BY <1>6, <2>1
<1>8. PICK w : w = CHOOSE f : f = [at \in D |-> Matching(f, pattern, name, at)]
  OBVIOUS
<1>9. w = [at \in D |-> Matching(w, pattern, name, at)]
  BY <1>7, <1>8
<1>10. Tree!MatchPath(pattern, name) = w[<<1, 1>>]
  BY <1>8 DEF Tree!MatchPath, Matching, D, Stands
<1> QED
  BY <1>9, <1>10 DEF D

\* Something beneath what the prefix has from part j on may match what is
\* left of the pattern from segment i on.
Reaching(m, pattern, prefix, at) ==
    LET i == at[1] j == at[2]
    IN  IF j > Len(prefix) THEN TRUE
        ELSE IF i > Len(pattern) THEN FALSE
        ELSE IF pattern[i] = "**" THEN m[<<i + 1, j>>] \/ m[<<i, j + 1>>]
        ELSE Tree!MatchSegment(pattern[i], prefix[j]) /\ m[<<i + 1, j + 1>>]

\* It depends on what is left further on.
LEMMA ReachingSame ==
  ASSUME NEW pattern, NEW prefix, Len(pattern) \in Nat, Len(prefix) \in Nat, NEW m, NEW r,
         NEW at \in Stands(pattern, prefix),
         \A to \in Stands(pattern, prefix) : to[1] + to[2] > at[1] + at[2] => m[to] = r[to]
  PROVE  Reaching(m, pattern, prefix, at) = Reaching(r, pattern, prefix, at)
<1>1. PICK i, j : i = at[1] /\ j = at[2]
  OBVIOUS
<1>2. i \in 1..(Len(pattern) + 1) /\ j \in 1..(Len(prefix) + 1)
  BY <1>1 DEF Stands
<1>3. CASE j > Len(prefix)
  BY <1>1, <1>3 DEF Reaching
<1>4. CASE ~(j > Len(prefix)) /\ i > Len(pattern)
  BY <1>1, <1>4 DEF Reaching
<1>5. CASE ~(j > Len(prefix)) /\ ~(i > Len(pattern))
  <2>1. ASSUME NEW k \in {i, i + 1}, NEW l \in {j, j + 1}, k + l > i + j
        PROVE  m[<<k, l>>] = r[<<k, l>>]
    <3>1. PICK to : to = <<k, l>>
      OBVIOUS
    <3>2. to \in Stands(pattern, prefix) /\ to[1] = k /\ to[2] = l
      BY <1>2, <1>5, <2>1, <3>1 DEF Stands
    <3>3. to[1] + to[2] > at[1] + at[2]
      BY <1>1, <2>1, <3>2
    <3> QED
      BY <3>1, <3>2, <3>3
  <2>2. m[<<i + 1, j>>] = r[<<i + 1, j>>] /\ m[<<i, j + 1>>] = r[<<i, j + 1>>]
        /\ m[<<i + 1, j + 1>>] = r[<<i + 1, j + 1>>]
    <3>1. i + 1 + j > i + j /\ i + (j + 1) > i + j /\ i + 1 + (j + 1) > i + j
      BY <1>2
    <3> QED
      BY <2>1, <3>1
  <2>3. Reaching(m, pattern, prefix, at) =
          IF pattern[i] = "**" THEN m[<<i + 1, j>>] \/ m[<<i, j + 1>>]
          ELSE Tree!MatchSegment(pattern[i], prefix[j]) /\ m[<<i + 1, j + 1>>]
    BY <1>1, <1>5 DEF Reaching
  <2>4. Reaching(r, pattern, prefix, at) =
          IF pattern[i] = "**" THEN r[<<i + 1, j>>] \/ r[<<i, j + 1>>]
          ELSE Tree!MatchSegment(pattern[i], prefix[j]) /\ r[<<i + 1, j + 1>>]
    BY <1>1, <1>5 DEF Reaching
  <2> QED
    BY <2>2, <2>3, <2>4
<1> QED
  BY <1>3, <1>4, <1>5

\* MayHavePrefix is what the recursion says.
LEMMA ReachUnfolds ==
  ASSUME NEW pattern, NEW prefix, Len(pattern) \in Nat, Len(prefix) \in Nat
  PROVE  \E m : /\ \A at \in Stands(pattern, prefix) : m[at] = Reaching(m, pattern, prefix, at)
                /\ Tree!MayHavePrefix(pattern, prefix) = m[<<1, 1>>]
<1> DEFINE D == Stands(pattern, prefix)
           all == Len(pattern) + Len(prefix) + 2
           known(n) == \E m : m = [at \in D |->
             IF at[1] + at[2] > all - n THEN Reaching(m, pattern, prefix, at) ELSE FALSE]
           T == {n \in Nat : known(n)}
<1>1. \A at \in D : at[1] + at[2] \in 2..all
  BY DEF Stands
<1>2. all \in Nat
  OBVIOUS
<1> HIDE DEF D, all
<1>3. 0 \in T
  <2>1. PICK m : m = [at \in D |-> FALSE]
    OBVIOUS
  <2>2. \A at \in D : ~(at[1] + at[2] > all - 0)
    BY <1>1, <1>2
  <2>3. m = [at \in D |->
              IF at[1] + at[2] > all - 0 THEN Reaching(m, pattern, prefix, at) ELSE FALSE]
    BY <2>1, <2>2
  <2> QED
    BY <2>3
<1>4. ASSUME NEW n \in Nat, n \in T PROVE n + 1 \in T
  <2>1. PICK m : m = [at \in D |->
             IF at[1] + at[2] > all - n THEN Reaching(m, pattern, prefix, at) ELSE FALSE]
    BY <1>4
  <2>2. PICK r : r = [at \in D |->
             IF at[1] + at[2] > all - (n + 1) THEN Reaching(m, pattern, prefix, at) ELSE FALSE]
    OBVIOUS
  <2>3. ASSUME NEW at \in D, at[1] + at[2] > all - n PROVE m[at] = r[at]
    <3>1. at[1] + at[2] > all - (n + 1)
      BY <1>1, <1>2, <2>3
    <3> QED
      BY <2>1, <2>2, <2>3, <3>1
  <2>4. ASSUME NEW at \in D, at[1] + at[2] > all - (n + 1)
        PROVE  Reaching(m, pattern, prefix, at) = Reaching(r, pattern, prefix, at)
    <3>1. ASSUME NEW to \in D, to[1] + to[2] > at[1] + at[2] PROVE m[to] = r[to]
      <4>1. to[1] + to[2] > all - n
        BY <1>1, <1>2, <2>4, <3>1
      <4> QED
        BY <2>3, <4>1
    <3> QED
      BY <3>1, ReachingSame DEF D
  <2>5. r = [at \in D |->
             IF at[1] + at[2] > all - (n + 1) THEN Reaching(r, pattern, prefix, at) ELSE FALSE]
    BY <2>2, <2>4
  <2>6. known(n + 1)
    BY <2>5
  <2> HIDE DEF known
  <2> QED
    BY <2>6
<1> HIDE DEF known
<1>5. \A n \in Nat : n \in T
  <2> HIDE DEF T
  <2> QED
    BY <1>3, <1>4, EveryNumber
<1>6. known(all)
  BY <1>2, <1>5
<1>7. PICK m : m = [at \in D |->
          IF at[1] + at[2] > all - all THEN Reaching(m, pattern, prefix, at) ELSE FALSE]
  BY <1>6 DEF known
<1>8. m = [at \in D |-> Reaching(m, pattern, prefix, at)]
  <2>1. \A at \in D : at[1] + at[2] > all - all
    BY <1>1, <1>2
  <2> QED
    BY <1>7, <2>1
<1>9. PICK w : w = CHOOSE f : f = [at \in D |-> Reaching(f, pattern, prefix, at)]
  OBVIOUS
<1>10. w = [at \in D |-> Reaching(w, pattern, prefix, at)]
  BY <1>8, <1>9
<1>11. Tree!MayHavePrefix(pattern, prefix) = w[<<1, 1>>]
  BY <1>9 DEF Tree!MayHavePrefix, Reaching, D, Stands
<1> QED
  BY <1>10, <1>11 DEF D

\* A pattern that matches a path may match beneath every directory above it.
LEMMA MatchReaches ==
  ASSUME NEW S, NEW pattern \in Seq(S), NEW P, NEW path \in Seq(P),
         NEW n \in 0..Len(path), Tree!MatchPath(pattern, path)
  PROVE  Tree!MayHavePrefix(pattern, SubSeq(path, 1, n))
<1> DEFINE prefix == SubSeq(path, 1, n)
           all == Len(pattern) + n + 2
<1>1. Len(pattern) \in Nat /\ Len(path) \in Nat /\ Len(prefix) = n /\ n \in Nat
  OBVIOUS
<1>2. \A j \in 1..n : prefix[j] = path[j]
  OBVIOUS
<1> HIDE DEF prefix
<1>3. PICK m : /\ \A at \in Stands(pattern, path) : m[at] = Matching(m, pattern, path, at)
               /\ Tree!MatchPath(pattern, path) = m[<<1, 1>>]
  BY <1>1, MatchUnfolds
<1>4. PICK r : /\ \A at \in Stands(pattern, prefix) : r[at] = Reaching(r, pattern, prefix, at)
               /\ Tree!MayHavePrefix(pattern, prefix) = r[<<1, 1>>]
  BY <1>1, ReachUnfolds
<1> DEFINE reached(k) == \A i \in 1..(Len(pattern) + 1), j \in 1..(n + 1) :
                           (i + j + k >= all /\ m[<<i, j>>]) => r[<<i, j>>]
           T == {k \in Nat : reached(k)}
<1>5. ASSUME NEW i \in 1..(Len(pattern) + 1), NEW j \in 1..(n + 1), m[<<i, j>>],
             (i <= Len(pattern) /\ j <= n) =>
                \A k \in {i, i + 1}, l \in {j, j + 1} : (k + l > i + j /\ m[<<k, l>>]) => r[<<k, l>>]
      PROVE  r[<<i, j>>]
  <2>1. PICK at : at = <<i, j>>
    OBVIOUS
  <2>2. at \in Stands(pattern, path) /\ at \in Stands(pattern, prefix) /\ at[1] = i /\ at[2] = j
    BY <1>1, <2>1 DEF Stands
  <2>3. Matching(m, pattern, path, at)
    BY <1>3, <1>5, <2>1, <2>2
  <2>4. r[at] = Reaching(r, pattern, prefix, at)
    BY <1>4, <2>2
  <2>5. CASE j > n
    BY <1>1, <2>1, <2>2, <2>4, <2>5 DEF Reaching
  <2>6. CASE j <= n
    <3>1. i <= Len(pattern)
      <4>1. ~(j > Len(path))
        BY <1>1, <2>6
      <4>2. ~(i > Len(pattern))
        BY <2>2, <2>3, <4>1 DEF Matching
      <4> QED
        BY <1>1, <4>2
    <3>2. i + 1 + j > i + j /\ i + (j + 1) > i + j /\ i + 1 + (j + 1) > i + j
      BY <1>1
    <3>3. m[<<i + 1, j>>] => r[<<i + 1, j>>]
      BY <1>5, <2>6, <3>1, <3>2
    <3>4. m[<<i, j + 1>>] => r[<<i, j + 1>>]
      BY <1>5, <2>6, <3>1, <3>2
    <3>5. m[<<i + 1, j + 1>>] => r[<<i + 1, j + 1>>]
      BY <1>5, <2>6, <3>1, <3>2
    <3>6. ~(i > Len(pattern)) /\ ~(j > Len(prefix)) /\ j \in 1..n
      BY <1>1, <2>6, <3>1
    <3>7. Reaching(r, pattern, prefix, at) =
            IF pattern[i] = "**" THEN r[<<i + 1, j>>] \/ r[<<i, j + 1>>]
            ELSE Tree!MatchSegment(pattern[i], prefix[j]) /\ r[<<i + 1, j + 1>>]
      BY <2>2, <3>6 DEF Reaching
    <3>8. CASE pattern[i] = "**"
      <4>1. PICK k \in j..(Len(path) + 1) : m[<<i + 1, k>>]
        BY <2>2, <2>3, <3>6, <3>8 DEF Matching
      <4>2. CASE k = j
        BY <2>1, <2>4, <3>3, <3>7, <3>8, <4>1, <4>2
      <4>3. CASE k # j
        <5>1. PICK to : to = <<i, j + 1>>
          OBVIOUS
        <5>2. to \in Stands(pattern, path) /\ to[1] = i /\ to[2] = j + 1
          BY <1>1, <2>6, <5>1 DEF Stands
        <5>3. k \in (j + 1)..(Len(path) + 1)
          BY <1>1, <4>1, <4>3
        <5>4. Matching(m, pattern, path, to)
          BY <3>6, <3>8, <4>1, <5>2, <5>3 DEF Matching
        <5>5. m[<<i, j + 1>>]
          BY <1>3, <5>1, <5>2, <5>4
        <5> QED
          BY <2>1, <2>4, <3>4, <3>7, <3>8, <5>5
      <4> QED
        BY <4>2, <4>3
    <3>9. CASE pattern[i] # "**"
      <4>1. Tree!MatchSegment(pattern[i], path[j]) /\ m[<<i + 1, j + 1>>]
        BY <2>2, <2>3, <3>6, <3>9 DEF Matching
      <4> QED
        BY <1>2, <2>1, <2>4, <3>5, <3>6, <3>7, <3>9, <4>1
    <3> QED
      BY <3>8, <3>9
  <2> QED
    BY <1>1, <2>5, <2>6
<1>6. 0 \in T
  <2>1. ASSUME NEW i \in 1..(Len(pattern) + 1), NEW j \in 1..(n + 1), i + j + 0 >= all, m[<<i, j>>]
        PROVE  r[<<i, j>>]
    <3>1. ~(i <= Len(pattern) /\ j <= n)
      BY <1>1, <2>1
    <3> QED
      BY <1>5, <2>1, <3>1
  <2> QED
    BY <2>1
<1>7. ASSUME NEW k \in Nat, k \in T PROVE k + 1 \in T
  <2>1. ASSUME NEW i \in 1..(Len(pattern) + 1), NEW j \in 1..(n + 1), i + j + (k + 1) >= all, m[<<i, j>>]
        PROVE  r[<<i, j>>]
    <3>1. ASSUME i <= Len(pattern), j <= n, NEW p \in {i, i + 1}, NEW q \in {j, j + 1},
                 p + q > i + j, m[<<p, q>>]
          PROVE  r[<<p, q>>]
      <4>1. p \in 1..(Len(pattern) + 1) /\ q \in 1..(n + 1) /\ p + q + k >= all
        BY <1>1, <1>7, <2>1, <3>1
      <4> QED
        BY <1>7, <3>1, <4>1
    <3> QED
      BY <1>5, <2>1, <3>1
  <2> QED
    BY <2>1
<1>8. reached(all)
  <2>1. \A k \in Nat : k \in T
    <3> HIDE DEF T
    <3> QED
      BY <1>6, <1>7, EveryNumber
  <2>2. all \in Nat
    BY <1>1
  <2> HIDE DEF reached
  <2> QED
    BY <2>1, <2>2
<1>9. 1 \in 1..(Len(pattern) + 1) /\ 1 \in 1..(n + 1) /\ 1 + 1 + all >= all
  BY <1>1
<1> QED
  BY <1>3, <1>4, <1>8, <1>9 DEF prefix

\* A set of numbers with a bound has a greatest.
LEMMA GreatestBelow ==
  ASSUME NEW T, NEW top \in Nat, T \subseteq 0..top, T # {}
  PROVE  \E i \in T : \A j \in T : j <= i
<1> DEFINE U == {n \in Nat : \E i \in T : n = top - i}
<1>1. PICK n \in U : \A k \in U : n <= k
  <2>1. PICK i \in T : TRUE
    OBVIOUS
  <2>2. top - i \in U
    BY <2>1
  <2> HIDE DEF U
  <2>3. U \subseteq Nat
    BY DEF U
  <2> QED
    BY <2>2, <2>3, LeastNumber
<1>2. PICK i \in T : n = top - i
  BY <1>1
<1>3. ASSUME NEW j \in T PROVE j <= i
  <2>1. top - j \in U
    OBVIOUS
  <2>2. n <= top - j
    BY <1>1, <2>1
  <2> QED
    BY <1>2, <2>2
<1> QED
  BY <1>3

\* The last rule that matches is one, and none after it matches.
LEMMA LastMatches ==
  ASSUME NEW rules, Len(rules) \in Nat, DOMAIN rules = 1..Len(rules), NEW parts, NEW isDir
  PROVE  LET last == Tree!LastMatch(rules, parts, isDir)
         IN  /\ last \in 0..Len(rules)
             /\ last # 0 => Tree!Matches(rules[last], parts, isDir)
             /\ \A i \in DOMAIN rules : Tree!Matches(rules[i], parts, isDir) => i <= last
<1> DEFINE matching == {0} \cup {i \in DOMAIN rules : Tree!Matches(rules[i], parts, isDir)}
           last == CHOOSE i \in matching : \A j \in matching : j <= i
<1>1. matching \subseteq 0..Len(rules) /\ matching # {}
  OBVIOUS
<1>2. last \in matching /\ \A j \in matching : j <= last
  <2> HIDE DEF matching
  <2>1. \E i \in matching : \A j \in matching : j <= i
    BY <1>1, GreatestBelow
  <2> QED
    BY <2>1
<1>3. Tree!LastMatch(rules, parts, isDir) = last
  BY DEF Tree!LastMatch
<1> HIDE DEF last
<1> QED
  BY <1>1, <1>2, <1>3

\* What the first parts of a path are does not change by looking further.
LEMMA PrefixOfPrefix ==
  ASSUME NEW P, NEW path \in Seq(P), NEW n \in 0..Len(path), NEW end \in 0..n
  PROVE  SubSeq(SubSeq(path, 1, n), 1, end) = SubSeq(path, 1, end)
<1> DEFINE long == SubSeq(path, 1, n)
<1>1. long \in Seq(P) /\ Len(long) = n /\ \A i \in 1..n : long[i] = path[i]
  OBVIOUS
<1> HIDE DEF long
<1>2. SubSeq(long, 1, end) \in Seq(P) /\ Len(SubSeq(long, 1, end)) = end
      /\ \A i \in 1..end : SubSeq(long, 1, end)[i] = long[i]
  BY <1>1
<1>3. SubSeq(path, 1, end) \in Seq(P) /\ Len(SubSeq(path, 1, end)) = end
      /\ \A i \in 1..end : SubSeq(path, 1, end)[i] = path[i]
  OBVIOUS
<1>4. \A i \in 1..end : SubSeq(long, 1, end)[i] = SubSeq(path, 1, end)[i]
  BY <1>1, <1>2, <1>3
<1>5. SubSeq(long, 1, end) = SubSeq(path, 1, end)
  BY <1>2, <1>3, <1>4
<1> QED
  BY <1>5 DEF long

\* A rule of the ignore file: at least one segment, and the marks.
RulesOf(S) == [pattern : Seq(S) \ {<<>>}, negated : BOOLEAN, rooted : BOOLEAN, directory : BOOLEAN]

\* A rule that matches a file may match beneath every directory above the
\* file, or matches that directory itself.
LEMMA RuleReaches ==
  ASSUME NEW S, NEW rule \in RulesOf(S), NEW P, NEW path \in Seq(P),
         NEW n \in 1..(Len(path) - 1),
         Tree!HasSlash(rule),
         Tree!Matches(rule, path, FALSE),
         ~Tree!Matches(rule, SubSeq(path, 1, n), TRUE)
  PROVE  Tree!MayHavePrefix(rule.pattern, SubSeq(path, 1, n))
<1>1. rule.pattern \in Seq(S) /\ n \in 0..Len(path) /\ n \in Nat /\ Len(path) \in Nat
  BY DEF RulesOf
<1>2. CASE ~rule.directory
  <2>1. Tree!MatchPath(rule.pattern, path)
    BY <1>2 DEF Tree!Matches
  <2> QED
    BY <1>1, <2>1, MatchReaches
<1>3. CASE rule.directory
  <2>1. PICK end \in 1..(Len(path) - 1) : Tree!MatchPath(rule.pattern, SubSeq(path, 1, end))
    BY <1>3 DEF Tree!Matches
  <2>2. Len(SubSeq(path, 1, n)) = n
    BY <1>1
  <2>3. CASE end <= n
    <3>1. end \in 0..n /\ end \in 1..n
      BY <1>1, <2>3
    <3>2. SubSeq(SubSeq(path, 1, n), 1, end) = SubSeq(path, 1, end)
      BY <1>1, <3>1, PrefixOfPrefix
    <3>3. \E e \in 1..Len(SubSeq(path, 1, n)) : Tree!MatchPath(rule.pattern, SubSeq(SubSeq(path, 1, n), 1, e))
      BY <2>1, <2>2, <3>1, <3>2
    <3>4. Tree!Matches(rule, SubSeq(path, 1, n), TRUE)
      BY <1>3, <3>3 DEF Tree!Matches
    <3> QED
      BY <3>4
  <2>4. CASE n < end
    <3>1. PICK cut : cut = SubSeq(path, 1, end)
      OBVIOUS
    <3>2. end \in 0..Len(path) /\ n \in 0..end
      BY <1>1, <2>1, <2>4
    <3>3. cut \in Seq(P) /\ Len(cut) = end
      BY <1>1, <3>1, <3>2
    <3>4. Tree!MatchPath(rule.pattern, cut)
      BY <2>1, <3>1
    <3>5. Tree!MayHavePrefix(rule.pattern, SubSeq(cut, 1, n))
      BY <1>1, <3>2, <3>3, <3>4, MatchReaches
    <3>6. SubSeq(cut, 1, n) = SubSeq(path, 1, n)
      BY <3>1, <3>2, PrefixOfPrefix
    <3> QED
      BY <3>5, <3>6
  <2> QED
    BY <1>1, <2>1, <2>3, <2>4
<1>4. rule.directory \in BOOLEAN
  BY DEF RulesOf
<1> QED
  BY <1>2, <1>3, <1>4

\* Whatever the ignore files say, in any number of rules: Scan walks a directory
\* above a file that a "!" rule takes back (mayIncludeDescendant finds it may
\* match beneath), unless a rule after that one ignores the directory.
THEOREM NegatedIsWalked ==
  ASSUME NEW S, NEW rules \in Seq(RulesOf(S)), NEW P, NEW path \in Seq(P)
  PROVE  Tree!NegationIsReached(rules, path)
<1>1. Len(rules) \in Nat /\ DOMAIN rules = 1..Len(rules)
  OBVIOUS
<1> DEFINE last == Tree!LastMatch(rules, path, FALSE)
<1>2. /\ last \in 0..Len(rules)
      /\ last # 0 => Tree!Matches(rules[last], path, FALSE)
  BY <1>1, LastMatches
<1> HIDE DEF last
<1>3. ASSUME last # 0, rules[last].negated,
             NEW d \in Tree!Ancestors(path), ~Tree!ProtectedDir(d),
             Tree!LastMatch(rules, d, TRUE) < last
      PROVE  ~Tree!Pruned(rules, d)
  <2>1. PICK n \in 1..(Len(path) - 1) : d = SubSeq(path, 1, n)
    BY <1>3 DEF Tree!Ancestors
  <2>2. last \in DOMAIN rules /\ rules[last] \in RulesOf(S)
    BY <1>1, <1>2, <1>3
  <2>3. ~Tree!Matches(rules[last], d, TRUE)
    <3>1. PICK above : above = Tree!LastMatch(rules, d, TRUE)
      OBVIOUS
    <3>2. above \in 0..Len(rules) /\ (Tree!Matches(rules[last], d, TRUE) => last <= above)
      BY <1>1, <2>2, <3>1, LastMatches
    <3>3. above < last
      BY <1>3, <3>1
    <3>4. last \in Nat /\ above \in Nat
      BY <1>1, <1>2, <3>2
    <3>5. ~(last <= above)
      BY <3>3, <3>4
    <3> QED
      BY <3>2, <3>5
  <2>4. Tree!HasSlash(rules[last]) => Tree!MayHavePrefix(rules[last].pattern, d)
    BY <1>2, <1>3, <2>1, <2>2, <2>3, RuleReaches
  <2>5. Tree!MayIncludeDescendant(rules, d)
    BY <1>3, <2>2, <2>4 DEF Tree!MayIncludeDescendant
  <2> QED
    BY <1>3, <2>5 DEF Tree!Pruned
<1> QED
  BY <1>3 DEF Tree!NegationIsReached, last

-----------------------------------------------------------------------------
\* Identities of lines, with and without a blank line put among them.

\* Where the lines of a text are once a blank line is put in.
LEMMA PutAmong ==
  ASSUME NEW S, BlankLine \in S, NEW lines \in Seq(S), NEW at \in 0..Len(lines), NEW put,
         put = BlankPut(lines, at)
  PROVE  /\ DOMAIN put = 1..(Len(lines) + 1) /\ Len(put) = Len(lines) + 1 /\ Len(lines) \in Nat
         /\ DOMAIN lines = 1..Len(lines)
         /\ put[at + 1] = BlankLine
         /\ \A i \in 1..Len(lines) : Shifted(at, i) \in 1..(Len(lines) + 1)
                                     /\ Shifted(at, i) # at + 1 /\ put[Shifted(at, i)] = lines[i]
         /\ \A j \in 1..(Len(lines) + 1) : j # at + 1 => \E i \in 1..Len(lines) : j = Shifted(at, i)
<1>1. Len(lines) \in Nat /\ DOMAIN lines = 1..Len(lines) /\ at \in Nat
  BY LenProperties
<1> DEFINE head == SubSeq(lines, 1, at)
           tail == SubSeq(lines, at + 1, Len(lines))
           blank == <<BlankLine>>
<1>2. head \in Seq(S) /\ Len(head) = at /\ \A i \in 1..at : head[i] = lines[i]
  BY <1>1
<1>3. tail \in Seq(S) /\ Len(tail) = Len(lines) - at
      /\ \A k \in 1..(Len(lines) - at) : tail[k] = lines[at + k]
  <2>1. at + 1 \in 1..(Len(lines) + 1) /\ Len(lines) \in at..Len(lines)
    BY <1>1
  <2>2. tail \in Seq(S) /\ Len(tail) = Len(lines) - at
    <3>1. PICK m : m = at + 1
      OBVIOUS
    <3>2. m \in Int /\ Len(lines) \in Int /\ \A i \in m..Len(lines) : lines[i] \in S
      BY <1>1, <3>1, ElementOfSeq
    <3>3. /\ SubSeq(lines, m, Len(lines)) \in Seq(S)
          /\ Len(SubSeq(lines, m, Len(lines))) = IF m <= Len(lines) THEN Len(lines) - m + 1 ELSE 0
      BY <3>2, SubSeqProperties
    <3>4. (IF m <= Len(lines) THEN Len(lines) - m + 1 ELSE 0) = Len(lines) - at
      <4>1. at <= Len(lines) /\ at \in Nat /\ Len(lines) \in Nat
        BY <1>1
      <4>2. CASE at = Len(lines)
        BY <3>1, <4>1, <4>2
      <4>3. CASE at # Len(lines)
        BY <3>1, <4>1, <4>3
      <4> QED
        BY <4>2, <4>3
    <3> QED
      BY <3>1, <3>3, <3>4
  <2>3. ASSUME NEW k \in 1..(Len(lines) - at) PROVE tail[k] = lines[at + k]
    <3>1. PICK m : m = at + 1
      OBVIOUS
    <3>2. k \in 1..(Len(lines) - m + 1) /\ m + k - 1 = at + k /\ m \in Nat /\ m >= 1
      BY <1>1, <3>1
    <3>3. SubSeq(lines, m, Len(lines))[k] = lines[m + k - 1]
      BY <1>1, <3>1, <3>2
    <3> QED
      BY <3>1, <3>2, <3>3
  <2> QED
    BY <2>2, <2>3
<1>4. blank \in Seq(S) /\ Len(blank) = 1 /\ blank[1] = BlankLine
  OBVIOUS
<1>5. put = (head \o blank) \o tail
  BY DEF BlankPut
<1> HIDE DEF head, tail, blank
<1>6. PICK first : first = head \o blank
  OBVIOUS
<1>7. /\ first \in Seq(S) /\ Len(first) = at + 1
      /\ \A i \in 1..at : first[i] = lines[i]
      /\ first[at + 1] = BlankLine
  <2>1. head \in Seq(S) /\ blank \in Seq(S)
    BY <1>2, <1>4
  <2>2. /\ head \o blank \in Seq(S) /\ Len(head) \in Nat /\ Len(blank) \in Nat
        /\ Len(head \o blank) = Len(head) + Len(blank)
        /\ \A k \in 1..Len(head) : (head \o blank)[k] = head[k]
        /\ \A k \in 1..Len(blank) : (head \o blank)[Len(head) + k] = blank[k]
    BY <2>1, ConcatOf
  <2>3. 1 \in 1..1
    OBVIOUS
  <2> QED
    BY <1>2, <1>4, <1>6, <2>2, <2>3
<1>8. /\ put \in Seq(S) /\ Len(put) = Len(lines) + 1
      /\ \A k \in 1..(at + 1) : put[k] = first[k]
      /\ \A k \in 1..(Len(lines) - at) : put[at + 1 + k] = lines[at + k]
  <2>1. first \in Seq(S) /\ tail \in Seq(S)
    BY <1>3, <1>7
  <2>2. /\ first \o tail \in Seq(S) /\ Len(first) \in Nat /\ Len(tail) \in Nat
        /\ Len(first \o tail) = Len(first) + Len(tail)
        /\ \A k \in 1..Len(first) : (first \o tail)[k] = first[k]
        /\ \A k \in 1..Len(tail) : (first \o tail)[Len(first) + k] = tail[k]
    BY <2>1, ConcatOf
  <2>3. put = first \o tail
    BY <1>5, <1>6
  <2>4. Len(put) = Len(lines) + 1 /\ put \in Seq(S) /\ \A k \in 1..(at + 1) : put[k] = first[k]
    BY <1>1, <1>3, <1>7, <2>2, <2>3
  <2>5. \A k \in 1..(Len(lines) - at) : put[at + 1 + k] = tail[k]
    BY <1>3, <1>7, <2>2, <2>3
  <2> QED
    BY <1>3, <2>4, <2>5
<1>9. DOMAIN put = 1..(Len(lines) + 1)
  BY <1>8, LenProperties
<1>10. put[at + 1] = BlankLine
  <2>1. at + 1 \in 1..(at + 1)
    BY <1>1
  <2> QED
    BY <1>7, <1>8, <2>1
<1>11. ASSUME NEW i \in 1..Len(lines)
       PROVE  Shifted(at, i) \in 1..(Len(lines) + 1) /\ Shifted(at, i) # at + 1
              /\ put[Shifted(at, i)] = lines[i]
  <2>1. CASE i <= at
    <3>1. i \in 1..at /\ i \in 1..(at + 1) /\ Shifted(at, i) = i /\ i # at + 1
      BY <1>1, <2>1 DEF Shifted
    <3> QED
      BY <1>1, <1>7, <1>8, <3>1
  <2>2. CASE ~(i <= at)
    <3>1. PICK k : k = i - at
      OBVIOUS
    <3>2. k \in 1..(Len(lines) - at) /\ at + k = i /\ at + 1 + k = i + 1 /\ Shifted(at, i) = i + 1
      BY <1>1, <2>2, <3>1 DEF Shifted
    <3>3. put[i + 1] = lines[i]
      BY <1>8, <3>2
    <3> QED
      BY <1>1, <2>2, <3>2, <3>3
  <2> QED
    BY <2>1, <2>2
<1>12. ASSUME NEW j \in 1..(Len(lines) + 1), j # at + 1
       PROVE  \E i \in 1..Len(lines) : j = Shifted(at, i)
  <2>1. CASE j <= at
    <3>1. j \in 1..Len(lines) /\ j = Shifted(at, j)
      BY <1>1, <2>1 DEF Shifted
    <3> QED
      BY <3>1
  <2>2. CASE ~(j <= at)
    <3>1. j - 1 \in 1..Len(lines) /\ j = Shifted(at, j - 1)
      BY <1>1, <1>12, <2>2 DEF Shifted
    <3> QED
      BY <3>1
  <2> QED
    BY <2>1, <2>2
<1> QED
  BY <1>1, <1>8, <1>9, <1>10, <1>11, <1>12

\* The shift keeps the order.
LEMMA ShiftedInOrder ==
  ASSUME NEW at \in Nat, NEW i \in Nat, NEW j \in Nat
  PROVE  /\ Shifted(at, i) \in Nat
         /\ i <= j <=> Shifted(at, i) <= Shifted(at, j)
         /\ i < j <=> Shifted(at, i) < Shifted(at, j)
         /\ i = j <=> Shifted(at, i) = Shifted(at, j)
BY DEF Shifted

\* The lines with text stay the nearest ones.
LEMMA AnchorsKept ==
  ASSUME NEW S, BlankLine \in S, NEW lines \in Seq(S), NEW at \in 0..Len(lines), NEW i \in 1..Len(lines)
  PROVE  /\ AnchorBefore(BlankPut(lines, at), Shifted(at, i)) = AnchorBefore(lines, i)
         /\ AnchorAfter(BlankPut(lines, at), Shifted(at, i)) = AnchorAfter(lines, i)
<1> DEFINE put == BlankPut(lines, at)
           n == Len(lines)
           h(j) == Shifted(at, j)
<1>1. /\ Len(put) = n + 1 /\ n \in Nat /\ put[at + 1] = BlankLine /\ at \in Nat
      /\ \A j \in 1..n : h(j) \in 1..(n + 1) /\ h(j) # at + 1 /\ put[h(j)] = lines[j]
      /\ \A j \in 1..(n + 1) : j # at + 1 => \E k \in 1..n : j = h(k)
  <2>1. PICK p : p = BlankPut(lines, at)
    OBVIOUS
  <2> QED
    BY <2>1, PutAmong
<1>2. \A j, k \in 1..n : /\ h(j) \in Nat
                         /\ j <= k <=> h(j) <= h(k)
                         /\ j < k <=> h(j) < h(k)
                         /\ j = k <=> h(j) = h(k)
  <2> SUFFICES ASSUME NEW j \in 1..n, NEW k \in 1..n
               PROVE  /\ h(j) \in Nat
                      /\ j <= k <=> h(j) <= h(k)
                      /\ j < k <=> h(j) < h(k)
                      /\ j = k <=> h(j) = h(k)
    OBVIOUS
  <2>1. j \in Nat /\ k \in Nat
    BY <1>1
  <2> HIDE DEF h
  <2> QED
    BY <1>1, <2>1, ShiftedInOrder DEF h
<1>3. IsBlank(BlankLine)
  BY Zenon DEF IsBlank, BlankLine
<1> HIDE DEF put, n, h
<1>4. \A j \in 1..n : IsBlank(put[h(j)]) <=> IsBlank(lines[j])
  BY <1>1
<1>5. i \in 1..n /\ n \in Nat
  BY <1>1 DEF n
<1>6. AnchorBefore(put, h(i)) = AnchorBefore(lines, i)
  <2> DEFINE T == {j \in 1..(i - 1) : ~IsBlank(lines[j])}
             U == {j \in 1..(h(i) - 1) : ~IsBlank(put[j])}
  <2>1. \A j \in T : j \in 1..n /\ j < i /\ h(j) \in U
    <3> SUFFICES ASSUME NEW j \in T PROVE j \in 1..n /\ j < i /\ h(j) \in U
      OBVIOUS
    <3>1. j \in 1..n /\ j < i /\ ~IsBlank(lines[j])
      BY <1>5
    <3>2. h(j) \in 1..(n + 1) /\ h(j) < h(i) /\ h(i) \in 1..(n + 1) /\ ~IsBlank(put[h(j)])
      BY <1>1, <1>2, <1>4, <1>5, <3>1
    <3>3. h(j) \in 1..(h(i) - 1)
      BY <1>5, <3>2
    <3> QED
      BY <3>1, <3>2, <3>3
  <2>2. \A j \in U : \E k \in T : j = h(k)
    <3> SUFFICES ASSUME NEW j \in U PROVE \E k \in T : j = h(k)
      OBVIOUS
    <3>1. h(i) \in 1..(n + 1)
      BY <1>1, <1>5
    <3>2. j \in 1..(n + 1) /\ j < h(i) /\ ~IsBlank(put[j])
      BY <1>5, <3>1
    <3>3. PICK k \in 1..n : j = h(k)
      BY <1>1, <1>3, <3>2
    <3>4. k < i /\ ~IsBlank(lines[k])
      BY <1>2, <1>4, <1>5, <3>2, <3>3
    <3>5. k \in T
      BY <1>5, <3>4
    <3> QED
      BY <3>3, <3>5
  <2>3. T \subseteq 0..n
    BY <1>5
  <2>4. AnchorBefore(lines, i) = IF T = {} THEN NoLine ELSE lines[CHOOSE j \in T : \A k \in T : k <= j]
    BY DEF AnchorBefore
  <2>5. AnchorBefore(put, h(i)) = IF U = {} THEN NoLine ELSE put[CHOOSE j \in U : \A k \in U : k <= j]
    BY DEF AnchorBefore
  <2> HIDE DEF T, U
  <2>6. CASE T = {}
    BY <2>2, <2>4, <2>5, <2>6
  <2>7. CASE T # {}
    <3>1. PICK m \in T : \A k \in T : k <= m
      BY <1>5, <2>3, <2>7, GreatestBelow
    <3>2. h(m) \in U /\ \A j \in U : j <= h(m)
      <4>1. ASSUME NEW j \in U PROVE j <= h(m)
        <5>1. PICK k \in T : j = h(k)
          BY <2>2
        <5> QED
          BY <1>2, <2>1, <3>1, <5>1
      <4> QED
        BY <2>1, <4>1
    <3>3. (CHOOSE j \in T : \A k \in T : k <= j) = m
      <4>1. PICK c : c = CHOOSE j \in T : \A k \in T : k <= j
        OBVIOUS
      <4>2. c \in T /\ \A k \in T : k <= c
        BY <3>1, <4>1
      <4>3. c <= m /\ m <= c /\ c \in Nat /\ m \in Nat
        BY <1>5, <2>1, <3>1, <4>2
      <4>4. c = m
        BY <4>3
      <4> QED
        BY <4>1, <4>4
    <3>4. (CHOOSE j \in U : \A k \in U : k <= j) = h(m)
      <4>1. PICK c : c = CHOOSE j \in U : \A k \in U : k <= j
        OBVIOUS
      <4>2. c \in U /\ \A k \in U : k <= c
        BY <3>2, <4>1
      <4>3. c <= h(m) /\ h(m) <= c
        BY <3>2, <4>2
      <4>4. c \in Nat /\ h(m) \in Nat
        BY <1>2, <2>1, <2>2, <3>1, <4>2
      <4>5. c = h(m)
        BY <4>3, <4>4
      <4> QED
        BY <4>1, <4>5
    <3>5. put[h(m)] = lines[m]
      BY <1>1, <2>1
    <3> QED
      BY <2>4, <2>5, <2>7, <3>2, <3>3, <3>4, <3>5
  <2> QED
    BY <2>6, <2>7
<1>7. AnchorAfter(put, h(i)) = AnchorAfter(lines, i)
  <2> DEFINE T == {j \in (i + 1)..n : ~IsBlank(lines[j])}
             U == {j \in (h(i) + 1)..(n + 1) : ~IsBlank(put[j])}
  <2>1. \A j \in T : j \in 1..n /\ i < j /\ h(j) \in U
    <3> SUFFICES ASSUME NEW j \in T PROVE j \in 1..n /\ i < j /\ h(j) \in U
      OBVIOUS
    <3>1. j \in 1..n /\ i < j /\ ~IsBlank(lines[j])
      BY <1>5
    <3>2. h(j) \in 1..(n + 1) /\ h(i) < h(j) /\ h(i) \in 1..(n + 1) /\ ~IsBlank(put[h(j)])
      BY <1>1, <1>2, <1>4, <1>5, <3>1
    <3>3. h(j) \in (h(i) + 1)..(n + 1)
      BY <1>5, <3>2
    <3> QED
      BY <3>1, <3>2, <3>3
  <2>2. \A j \in U : \E k \in T : j = h(k)
    <3> SUFFICES ASSUME NEW j \in U PROVE \E k \in T : j = h(k)
      OBVIOUS
    <3>1. h(i) \in 1..(n + 1)
      BY <1>1, <1>5
    <3>2. j \in 1..(n + 1) /\ h(i) < j /\ ~IsBlank(put[j])
      BY <1>5, <3>1
    <3>3. PICK k \in 1..n : j = h(k)
      BY <1>1, <1>3, <3>2
    <3>4. i < k /\ ~IsBlank(lines[k])
      BY <1>2, <1>4, <1>5, <3>2, <3>3
    <3>5. k \in T
      BY <1>5, <3>4
    <3> QED
      BY <3>3, <3>5
  <2>3. T \subseteq Nat
    BY <1>5
  <2>4. AnchorAfter(lines, i) = IF T = {} THEN NoLine ELSE lines[CHOOSE j \in T : \A k \in T : j <= k]
    BY DEF AnchorAfter, n
  <2>5. AnchorAfter(put, h(i)) = IF U = {} THEN NoLine ELSE put[CHOOSE j \in U : \A k \in U : j <= k]
    <3>1. Len(put) = n + 1
      BY <1>1
    <3> QED
      BY <3>1 DEF AnchorAfter
  <2> HIDE DEF T, U
  <2>6. CASE T = {}
    BY <2>2, <2>4, <2>5, <2>6
  <2>7. CASE T # {}
    <3>1. PICK m \in T : \A k \in T : m <= k
      BY <2>3, <2>7, LeastNumber
    <3>2. h(m) \in U /\ \A j \in U : h(m) <= j
      <4>1. ASSUME NEW j \in U PROVE h(m) <= j
        <5>1. PICK k \in T : j = h(k)
          BY <2>2
        <5> QED
          BY <1>2, <2>1, <3>1, <5>1
      <4> QED
        BY <2>1, <4>1
    <3>3. (CHOOSE j \in T : \A k \in T : j <= k) = m
      <4>1. PICK c : c = CHOOSE j \in T : \A k \in T : j <= k
        OBVIOUS
      <4>2. c \in T /\ \A k \in T : c <= k
        BY <3>1, <4>1
      <4>3. c <= m /\ m <= c /\ c \in Nat /\ m \in Nat
        BY <1>5, <2>1, <3>1, <4>2
      <4>4. c = m
        BY <4>3
      <4> QED
        BY <4>1, <4>4
    <3>4. (CHOOSE j \in U : \A k \in U : j <= k) = h(m)
      <4>1. PICK c : c = CHOOSE j \in U : \A k \in U : j <= k
        OBVIOUS
      <4>2. c \in U /\ \A k \in U : c <= k
        BY <3>2, <4>1
      <4>3. c <= h(m) /\ h(m) <= c
        BY <3>2, <4>2
      <4>4. c \in Nat /\ h(m) \in Nat
        BY <1>2, <2>1, <2>2, <3>1, <4>2
      <4>5. c = h(m)
        BY <4>3, <4>4
      <4> QED
        BY <4>1, <4>5
    <3>5. put[h(m)] = lines[m]
      BY <1>1, <2>1
    <3> QED
      BY <2>4, <2>5, <2>7, <3>2, <3>3, <3>4, <3>5
  <2> QED
    BY <2>6, <2>7
<1> QED
  BY <1>6, <1>7 DEF put, h

\* Whatever the text: a blank line put anywhere changes nothing of what a line
\* with text is recognised by.
THEOREM BlankLineKeeps ==
  ASSUME NEW S, BlankLine \in S, NEW lines \in Seq(S), NEW at \in 0..Len(lines),
         NEW i \in DOMAIN lines, ~IsBlank(lines[i])
  PROVE  Identities(BlankPut(lines, at))[Shifted(at, i)] = Identities(lines)[i]
<1> DEFINE put == BlankPut(lines, at)
           n == Len(lines)
           h(j) == Shifted(at, j)
<1>1. /\ DOMAIN put = 1..(n + 1) /\ n \in Nat /\ put[at + 1] = BlankLine /\ at \in Nat
      /\ DOMAIN lines = 1..n
      /\ \A j \in 1..n : h(j) \in 1..(n + 1) /\ h(j) # at + 1 /\ put[h(j)] = lines[j]
      /\ \A j \in 1..(n + 1) : j # at + 1 => \E k \in 1..n : j = h(k)
  <2>1. PICK p : p = put
    OBVIOUS
  <2>2. /\ DOMAIN p = 1..(n + 1) /\ n \in Nat /\ p[at + 1] = BlankLine
        /\ DOMAIN lines = 1..n
        /\ \A j \in 1..n : h(j) \in 1..(n + 1) /\ h(j) # at + 1 /\ p[h(j)] = lines[j]
        /\ \A j \in 1..(n + 1) : j # at + 1 => \E k \in 1..n : j = h(k)
    BY <2>1, PutAmong
  <2> HIDE DEF put, h
  <2> QED
    BY <2>1, <2>2
<1>2. i \in 1..n
  BY <1>1
<1>3. \A j, k \in 1..n : h(j) \in Nat /\ (j <= k <=> h(j) <= h(k)) /\ (j = k <=> h(j) = h(k))
  <2> SUFFICES ASSUME NEW j \in 1..n, NEW k \in 1..n
               PROVE  h(j) \in Nat /\ (j <= k <=> h(j) <= h(k)) /\ (j = k <=> h(j) = h(k))
    OBVIOUS
  <2>1. j \in Nat /\ k \in Nat
    BY <1>1
  <2> QED
    BY <1>1, <2>1, ShiftedInOrder
<1>4. AnchorBefore(put, h(i)) = AnchorBefore(lines, i) /\ AnchorAfter(put, h(i)) = AnchorAfter(lines, i)
  BY <1>2, AnchorsKept
<1> HIDE DEF put, n, h
<1> DEFINE T == {j \in 1..i : lines[j] = lines[i]}
           U == {j \in 1..h(i) : put[j] = put[h(i)]}
<1>5. Cardinality(U) = Cardinality(T)
  <2>1. put[h(i)] = lines[i] /\ lines[i] # BlankLine /\ h(i) \in 1..(n + 1)
    <3>1. IsBlank(BlankLine)
      BY Zenon DEF IsBlank, BlankLine
    <3> QED
      BY <1>1, <1>2, <3>1
  <2>2. \A j \in T : j \in 1..n /\ h(j) \in U
    <3> SUFFICES ASSUME NEW j \in T PROVE j \in 1..n /\ h(j) \in U
      OBVIOUS
    <3>1. j \in 1..n /\ j <= i /\ lines[j] = lines[i]
      BY <1>1, <1>2
    <3>2. h(j) \in 1..(n + 1) /\ h(j) <= h(i) /\ put[h(j)] = put[h(i)]
      BY <1>1, <1>2, <1>3, <2>1, <3>1
    <3>3. h(j) \in 1..h(i)
      BY <1>1, <2>1, <3>2
    <3> QED
      BY <3>1, <3>2, <3>3
  <2>3. \A j \in U : \E k \in T : j = h(k)
    <3> SUFFICES ASSUME NEW j \in U PROVE \E k \in T : j = h(k)
      OBVIOUS
    <3>1. j \in 1..(n + 1) /\ j <= h(i) /\ put[j] = lines[i]
      BY <1>1, <2>1
    <3>2. j # at + 1
      BY <1>1, <2>1, <3>1
    <3>3. PICK k \in 1..n : j = h(k)
      BY <1>1, <3>1, <3>2
    <3>4. k <= i /\ lines[k] = lines[i]
      BY <1>1, <1>2, <1>3, <3>1, <3>3
    <3>5. k \in T
      BY <1>1, <1>2, <3>4
    <3> QED
      BY <3>3, <3>5
  <2>4. IsFiniteSet(T) /\ IsFiniteSet(U)
    <3>1. h(i) \in Nat /\ i \in Nat
      BY <1>1, <1>2, <1>3
    <3>2. IsFiniteSet(1..i) /\ IsFiniteSet(1..h(i))
      BY <3>1, FS_Interval
    <3>3. T \in SUBSET (1..i) /\ U \in SUBSET (1..h(i))
      OBVIOUS
    <3> HIDE DEF T, U
    <3> QED
      BY <3>2, <3>3, FS_Subset
  <2> HIDE DEF T, U
  <2>5. PICK f : f = [j \in T |-> h(j)]
    OBVIOUS
  <2>6. f \in [T -> U] /\ \A x, y \in T : f[x] = f[y] => x = y
    BY <1>3, <2>2, <2>5
  <2>7. Cardinality(T) <= Cardinality(U)
    BY <2>4, <2>6, OneToOne
  <2>8. Cardinality(T) \in Nat /\ Cardinality(U) \in Nat
    BY <2>4, FS_CardinalityType
  <2>9. PICK g : g = [j \in U |-> CHOOSE k \in T : j = h(k)]
    OBVIOUS
  <2>10. \A j \in U : g[j] \in T /\ j = h(g[j])
    BY <2>3, <2>9
  <2>11. g \in [U -> T] /\ \A x, y \in U : g[x] = g[y] => x = y
    BY <2>9, <2>10
  <2>12. Cardinality(U) <= Cardinality(T)
    BY <2>4, <2>11, OneToOne
  <2> QED
    BY <2>7, <2>8, <2>12
<1>6. put[h(i)] = lines[i] /\ h(i) \in DOMAIN put /\ i \in DOMAIN lines
  BY <1>1, <1>2
<1>7. Identities(put)[h(i)] = [content |-> put[h(i)], occurrence |-> Cardinality(U),
                               before |-> AnchorBefore(put, h(i)), after |-> AnchorAfter(put, h(i))]
  BY <1>6 DEF Identities
<1>8. Identities(lines)[i] = [content |-> lines[i], occurrence |-> Cardinality(T),
                              before |-> AnchorBefore(lines, i), after |-> AnchorAfter(lines, i)]
  BY <1>6 DEF Identities
<1>9. Identities(put)[h(i)] = Identities(lines)[i]
  <2> HIDE DEF T, U
  <2> QED
    BY <1>4, <1>5, <1>6, <1>7, <1>8
<1> QED
  BY <1>9 DEF put, h

-----------------------------------------------------------------------------
\* The configuration: what a file holds, and what an edit makes of it.

\* A key of a file that may have a value of S, what a file may hold, and what
\* is held of it in memory.
Key(S) == {<<>>} \cup {<<v>> : v \in S}

TrailersOf(F) == [fields : F, comments : Key(BOOLEAN)]

FilesOf(F) ==
    [schema : Key(Int), maxFileBytes : Key(Int), strictVerify : Key(BOOLEAN),
     limits : [Limits -> Key(Int)],
     hook : Key([strict : Key(BOOLEAN), writeTrailer : Key(BOOLEAN),
                 titleCoverage : Key(BOOLEAN), trailer : Key(TrailersOf(F))])]

HooksOf(F) ==
    [strict : BOOLEAN, writeTrailer : BOOLEAN,
     titleCoverage : Key(BOOLEAN), trailer : Key(TrailersOf(F))]

ConfigsOf(F) ==
    [schema : Int, maxFileBytes : Int, strictVerify : BOOLEAN, limits : [Limits -> Int],
     hook : Key(HooksOf(F))]

\* What a key holds, or its default, is one of its values.
LEMMA KeyHolds ==
  ASSUME NEW S, NEW key \in Key(S), NEW default \in S
  PROVE  (IF key = Conf!Absent THEN default ELSE key[1]) \in S
BY DEF Key, Conf!Absent

\* Normalising keeps the type, and leaves a valid configuration as it is.
LEMMA NormalTyped ==
  ASSUME NEW F, NEW cfg \in ConfigsOf(F)
  PROVE  /\ Conf!Normalise(cfg) \in ConfigsOf(F)
         /\ Conf!Validate(cfg) => Conf!Normalise(cfg) = cfg
<1>1. cfg.limits \in [Limits -> Int]
  BY DEF ConfigsOf
<1> DEFINE normal == [k \in Limits |-> IF cfg.limits[k] = 0 THEN Conf!DefaultLimit ELSE cfg.limits[k]]
<1>2. normal \in [Limits -> Int]
  BY <1>1 DEF Conf!DefaultLimit
<1>3. Conf!Normalise(cfg) = [cfg EXCEPT !.limits = normal]
  BY DEF Conf!Normalise, ConfigsOf
<1>4. Conf!Validate(cfg) => normal = cfg.limits
  BY <1>1 DEF Conf!Validate
<1> HIDE DEF normal
<1>5. [cfg EXCEPT !.limits = normal] \in ConfigsOf(F)
  BY <1>2 DEF ConfigsOf
<1>6. [cfg EXCEPT !.limits = cfg.limits] = cfg
  BY DEF ConfigsOf
<1> QED
  BY <1>3, <1>4, <1>5, <1>6

\* What Load holds of a file has its type and is valid.
LEMMA LoadTyped ==
  ASSUME NEW F, NEW file \in FilesOf(F), NEW cfg \in Conf!Load(file)
  PROVE  cfg \in ConfigsOf(F) /\ Conf!Validate(cfg)
<1> DEFINE orElse(key, default) == IF key = Conf!Absent THEN default ELSE key[1]
           hook == [i \in DOMAIN file.hook |->
                     [file.hook[i] EXCEPT !.strict = orElse(@, FALSE),
                                          !.writeTrailer = orElse(@, FALSE)]]
           limits == [k \in Limits |-> orElse(file.limits[k], Conf!DefaultLimit)]
<1>1. hook \in Key(HooksOf(F))
  <2>1. CASE file.hook = <<>>
    <3>1. hook = <<>>
      BY <2>1
    <3> QED
      BY <3>1 DEF Key
  <2>2. CASE file.hook # <<>>
    <3>1. PICK h : /\ file.hook = <<h>>
                   /\ h \in [strict : Key(BOOLEAN), writeTrailer : Key(BOOLEAN),
                             titleCoverage : Key(BOOLEAN), trailer : Key(TrailersOf(F))]
      BY <2>2 DEF FilesOf, Key
    <3> DEFINE g == [h EXCEPT !.strict = orElse(@, FALSE), !.writeTrailer = orElse(@, FALSE)]
    <3>2. orElse(h.strict, FALSE) \in BOOLEAN /\ orElse(h.writeTrailer, FALSE) \in BOOLEAN
      <4>1. h.strict \in Key(BOOLEAN) /\ h.writeTrailer \in Key(BOOLEAN) /\ FALSE \in BOOLEAN
        BY <3>1
      <4> QED
        BY <4>1, KeyHolds
    <3>3. g \in HooksOf(F)
      <4> HIDE DEF orElse
      <4> QED
        BY <3>1, <3>2 DEF HooksOf
    <3>4. DOMAIN file.hook = {1} /\ file.hook[1] = h
      BY <3>1
    <3>5. hook = [i \in {1} |-> g]
      BY <3>4
    <3>6. hook = <<g>>
      <4> HIDE DEF g, hook
      <4>1. DOMAIN <<g>> = {1} /\ <<g>>[1] = g
        OBVIOUS
      <4> QED
        BY <3>5, <4>1
    <3> HIDE DEF g, hook
    <3> QED
      BY <3>3, <3>6 DEF Key
  <2> QED
    BY <2>1, <2>2
<1>2. limits \in [Limits -> Int]
  <2>1. ASSUME NEW k \in Limits PROVE orElse(file.limits[k], Conf!DefaultLimit) \in Int
    <3>1. file.limits[k] \in Key(Int) /\ Conf!DefaultLimit \in Int
      BY DEF FilesOf, Conf!DefaultLimit
    <3> QED
      BY <3>1, KeyHolds
  <2> HIDE DEF orElse
  <2> QED
    BY <2>1
<1>3. /\ orElse(file.schema, Conf!CurrentSchemaVersion) \in Int
      /\ orElse(file.maxFileBytes, Conf!DefaultLimit) \in Int
      /\ orElse(file.strictVerify, FALSE) \in BOOLEAN
  <2>1. /\ file.schema \in Key(Int) /\ file.maxFileBytes \in Key(Int) /\ file.strictVerify \in Key(BOOLEAN)
        /\ Conf!CurrentSchemaVersion \in Int /\ Conf!DefaultLimit \in Int
    BY DEF FilesOf, Conf!DefaultLimit, Conf!CurrentSchemaVersion
  <2> QED
    BY <2>1, KeyHolds
<1>4. Conf!Decode(file) =
        [schema |-> orElse(file.schema, Conf!CurrentSchemaVersion),
         maxFileBytes |-> orElse(file.maxFileBytes, Conf!DefaultLimit),
         strictVerify |-> orElse(file.strictVerify, FALSE),
         limits |-> limits, hook |-> hook]
  BY DEF Conf!Decode
<1>5. Conf!Decode(file) \in ConfigsOf(F)
  <2>1. PICK schema, maxFileBytes, strictVerify :
           /\ schema = orElse(file.schema, Conf!CurrentSchemaVersion)
           /\ maxFileBytes = orElse(file.maxFileBytes, Conf!DefaultLimit)
           /\ strictVerify = orElse(file.strictVerify, FALSE)
    OBVIOUS
  <2> HIDE DEF orElse, limits, hook
  <2>2. Conf!Decode(file) =
          [schema |-> schema, maxFileBytes |-> maxFileBytes, strictVerify |-> strictVerify,
           limits |-> limits, hook |-> hook]
    BY <1>4, <2>1
  <2>3. schema \in Int /\ maxFileBytes \in Int /\ strictVerify \in BOOLEAN
    BY <1>3, <2>1
  <2> QED
    BY <1>1, <1>2, <2>2, <2>3 DEF ConfigsOf
<1>6. cfg = Conf!Normalise(Conf!Decode(file)) /\ Conf!Validate(cfg)
  BY DEF Conf!Load
<1> QED
  BY <1>5, <1>6, NormalTyped

\* A valid configuration is saved, and loading what was saved gives it back.
LEMMA SaveLoads ==
  ASSUME NEW F, NEW cfg \in ConfigsOf(F), Conf!Validate(cfg)
  PROVE  \E f \in Conf!Save(cfg) : Conf!Load(f) = {cfg}
<1> DEFINE hook == [i \in DOMAIN cfg.hook |->
                      [cfg.hook[i] EXCEPT !.strict = <<@>>, !.writeTrailer = <<@>>]]
           file == [schema |-> <<cfg.schema>>, maxFileBytes |-> <<cfg.maxFileBytes>>,
                    strictVerify |-> <<cfg.strictVerify>>,
                    limits |-> [k \in Limits |-> <<cfg.limits[k]>>],
                    hook |-> hook]
           orElse(key, default) == IF key = Conf!Absent THEN default ELSE key[1]
           back == [i \in DOMAIN hook |->
                      [hook[i] EXCEPT !.strict = orElse(@, FALSE), !.writeTrailer = orElse(@, FALSE)]]
<1>1. Conf!Normalise(cfg) = cfg
  BY NormalTyped
<1>2. Conf!Save(cfg) = {file}
  BY <1>1 DEF Conf!Save
<1>3. \A v, d : orElse(<<v>>, d) = v
  BY DEF Conf!Absent
<1>4. back = cfg.hook
  <2>1. CASE cfg.hook = <<>>
    BY <2>1
  <2>2. CASE cfg.hook # <<>>
    <3>1. PICK h \in HooksOf(F) : cfg.hook = <<h>>
      BY <2>2 DEF ConfigsOf, Key
    <3> DEFINE g == [h EXCEPT !.strict = <<@>>, !.writeTrailer = <<@>>]
    <3>2. DOMAIN cfg.hook = {1} /\ cfg.hook[1] = h
      BY <3>1
    <3>3. DOMAIN hook = {1} /\ hook[1] = g
      BY <3>2
    <3>4. back = [i \in {1} |-> [g EXCEPT !.strict = orElse(@, FALSE), !.writeTrailer = orElse(@, FALSE)]]
      <4> HIDE DEF hook, g, orElse
      <4> QED
        BY <3>3
    <3>5. [g EXCEPT !.strict = orElse(@, FALSE), !.writeTrailer = orElse(@, FALSE)] = h
      <4>1. g.strict = <<h.strict>> /\ g.writeTrailer = <<h.writeTrailer>>
            /\ DOMAIN g = {"strict", "writeTrailer", "titleCoverage", "trailer"}
            /\ g.titleCoverage = h.titleCoverage /\ g.trailer = h.trailer
        BY DEF HooksOf
      <4>2. orElse(g.strict, FALSE) = h.strict /\ orElse(g.writeTrailer, FALSE) = h.writeTrailer
        BY <1>3, <4>1
      <4>3. g \in [{"strict", "writeTrailer", "titleCoverage", "trailer"} -> {g[x] : x \in {"strict", "writeTrailer", "titleCoverage", "trailer"}}]
        BY DEF HooksOf
      <4> HIDE DEF g, orElse
      <4>4. h = [strict |-> h.strict, writeTrailer |-> h.writeTrailer,
                 titleCoverage |-> h.titleCoverage, trailer |-> h.trailer]
        BY DEF HooksOf
      <4> QED
        BY <4>1, <4>2, <4>3, <4>4
    <3> HIDE DEF back
    <3> QED
      BY <3>1, <3>4, <3>5
  <2> QED
    BY <2>1, <2>2
<1>5. [k \in Limits |-> orElse(file.limits[k], Conf!DefaultLimit)] = cfg.limits
  BY <1>3 DEF ConfigsOf
<1>6. Conf!Decode(file) =
        [schema |-> orElse(<<cfg.schema>>, Conf!CurrentSchemaVersion),
         maxFileBytes |-> orElse(<<cfg.maxFileBytes>>, Conf!DefaultLimit),
         strictVerify |-> orElse(<<cfg.strictVerify>>, FALSE),
         limits |-> [k \in Limits |-> orElse(file.limits[k], Conf!DefaultLimit)],
         hook |-> back]
  BY DEF Conf!Decode
<1>7. Conf!Decode(file) = cfg
  <2>1. Conf!Decode(file) =
          [schema |-> cfg.schema, maxFileBytes |-> cfg.maxFileBytes,
           strictVerify |-> cfg.strictVerify, limits |-> cfg.limits, hook |-> cfg.hook]
    <3>1. /\ orElse(<<cfg.schema>>, Conf!CurrentSchemaVersion) = cfg.schema
          /\ orElse(<<cfg.maxFileBytes>>, Conf!DefaultLimit) = cfg.maxFileBytes
          /\ orElse(<<cfg.strictVerify>>, FALSE) = cfg.strictVerify
      BY <1>3
    <3> HIDE DEF orElse, back, file
    <3> QED
      BY <1>4, <1>5, <1>6, <3>1
  <2> HIDE DEF file
  <2> QED
    BY <2>1 DEF ConfigsOf
<1>8. Conf!Load(file) = {cfg}
  <2> HIDE DEF file
  <2> QED
    BY <1>1, <1>7 DEF Conf!Load
<1> QED
  BY <1>2, <1>8

\* What an edit puts in the hook section is a section, and the rest of the
\* configuration stays valid.
LEMMA EditTyped ==
  ASSUME NEW F, NEW cfg \in ConfigsOf(F), Conf!Validate(cfg), NEW h \in HooksOf(F)
  PROVE  /\ [cfg EXCEPT !.hook = <<h>>] \in ConfigsOf(F)
         /\ Conf!Validate([cfg EXCEPT !.hook = <<h>>])
         /\ [cfg EXCEPT !.hook = <<h>>].hook = <<h>>
         /\ [cfg EXCEPT !.hook = <<h>>].strictVerify = cfg.strictVerify
<1>1. <<h>> \in Key(HooksOf(F))
  BY DEF Key
<1>2. [cfg EXCEPT !.hook = <<h>>] \in ConfigsOf(F)
  BY <1>1 DEF ConfigsOf
<1> QED
  BY <1>2 DEF ConfigsOf, Conf!Validate

\* The section that an edit starts from is a section.
LEMMA EnsureTyped ==
  ASSUME NEW F, NEW cfg \in ConfigsOf(F)
  PROVE  Conf!EnsureHook(cfg) \in HooksOf(F)
<1>1. CASE cfg.hook = <<>>
  <2>1. cfg.strictVerify \in BOOLEAN
    BY DEF ConfigsOf
  <2>2. <<>> \in Key(BOOLEAN) /\ <<>> \in Key(TrailersOf(F))
    BY DEF Key
  <2> QED
    BY <1>1, <2>1, <2>2 DEF Conf!EnsureHook, HooksOf
<1>2. CASE cfg.hook # <<>>
  BY <1>2 DEF ConfigsOf, Key, Conf!EnsureHook
<1> QED
  BY <1>1, <1>2

\* What an edit makes of a configuration that was loaded.
LEMMA ResetTyped ==
  ASSUME NEW F, <<"lines", "agent">> \in F, <<"coverage", "lines", "agent">> \in F,
         NEW cfg \in ConfigsOf(F),
         NEW c \in {Conf!HookConfigReset(cfg)} \cup {Conf!HookInstallDefaults(cfg, t) : t \in BOOLEAN}
  PROVE  \E h \in HooksOf(F) : c = [cfg EXCEPT !.hook = <<h>>] /\ h.strict = Conf!EnsureHook(cfg).strict
<1> DEFINE e == Conf!EnsureHook(cfg)
<1>1. e \in HooksOf(F)
  BY EnsureTyped
<1> HIDE DEF e
<1>2. \A fields \in F : Conf!Trailer(fields, FALSE) \in Key(TrailersOf(F))
  BY DEF Conf!Trailer, Key, TrailersOf
<1>3. \A t \in BOOLEAN : <<t>> \in Key(BOOLEAN)
  BY DEF Key
<1>4. CASE c = Conf!HookConfigReset(cfg)
  <2> DEFINE tr == Conf!Trailer(<<"lines", "agent">>, FALSE)
             h == [e EXCEPT !.titleCoverage = <<TRUE>>, !.trailer = tr]
  <2>1. tr \in Key(TrailersOf(F)) /\ <<TRUE>> \in Key(BOOLEAN)
    BY <1>2, <1>3
  <2>2. c = [cfg EXCEPT !.hook = <<h>>]
    BY <1>4 DEF Conf!HookConfigReset, e
  <2> HIDE DEF tr
  <2>3. h \in HooksOf(F) /\ h.strict = e.strict
    BY <1>1, <2>1 DEF HooksOf
  <2> QED
    BY <2>2, <2>3 DEF e
<1>5. ASSUME NEW t \in BOOLEAN, c = Conf!HookInstallDefaults(cfg, t)
      PROVE  \E h \in HooksOf(F) : c = [cfg EXCEPT !.hook = <<h>>] /\ h.strict = e.strict
  <2> DEFINE fields == IF t THEN <<"coverage", "lines", "agent">> ELSE <<"lines", "agent">>
             tr == Conf!Trailer(fields, FALSE)
             h == [e EXCEPT !.titleCoverage = <<~t>>, !.writeTrailer = TRUE, !.trailer = tr]
  <2>1. fields \in F
    OBVIOUS
  <2>2. tr \in Key(TrailersOf(F)) /\ <<~t>> \in Key(BOOLEAN)
    <3> HIDE DEF fields
    <3>1. (~t) \in BOOLEAN
      OBVIOUS
    <3> QED
      BY <1>2, <1>3, <2>1, <3>1
  <2>3. c = [cfg EXCEPT !.hook = <<h>>]
    BY <1>5 DEF Conf!HookInstallDefaults, e
  <2> HIDE DEF tr
  <2>4. h \in HooksOf(F) /\ h.strict = e.strict
    BY <1>1, <2>2 DEF HooksOf
  <2> QED
    BY <2>3, <2>4
<1> QED
  BY <1>4, <1>5 DEF e

\* The hook is as strict as the section that EnsureHook starts from.
LEMMA StrictIsEnsured ==
  ASSUME NEW cfg, NEW h, NEW c, c.hook = <<h>>
  PROVE  /\ Conf!HookSettings(cfg).strict = Conf!EnsureHook(cfg).strict
         /\ Conf!HookSettings(c).strict = h.strict
<1>1. CASE cfg.hook = <<>>
  BY <1>1 DEF Conf!HookSettings, Conf!EnsureHook
<1>2. CASE cfg.hook # <<>>
  BY <1>2 DEF Conf!HookSettings, Conf!EnsureHook
<1>3. c.hook # <<>> /\ c.hook[1] = h
  OBVIOUS
<1>4. Conf!HookSettings(c).strict = h.strict
  BY <1>3 DEF Conf!HookSettings
<1> QED
  BY <1>1, <1>2, <1>4

\* The hook's settings with another trailer.
LEMMA TrailerReplaced ==
  ASSUME NEW strict, NEW writing, NEW titled, NEW was, NEW now, NEW settings,
         settings = [strict |-> strict, writeTrailer |-> writing, titleCoverage |-> titled, trailer |-> was]
  PROVE  [settings EXCEPT !.trailer = now]
           = [strict |-> strict, writeTrailer |-> writing, titleCoverage |-> titled, trailer |-> now]
OBVIOUS

\* Setting the trailer changes the trailer and nothing else of what the hook does.
LEMMA SetKeepsRest ==
  ASSUME NEW F, NEW cfg \in ConfigsOf(F), NEW fields \in F, fields # <<>>, NEW c,
         c.hook = <<[Conf!EnsureHook(cfg) EXCEPT !.trailer = Conf!Trailer(fields, TRUE)]>>
  PROVE  Conf!HookSettings(c)
           = [Conf!HookSettings(cfg) EXCEPT !.trailer = [fields |-> fields, comments |-> TRUE]]
<1> DEFINE e == Conf!EnsureHook(cfg)
           h == [e EXCEPT !.trailer = Conf!Trailer(fields, TRUE)]
           tr == [fields |-> fields, comments |-> TRUE]
           plain == [fields |-> <<"lines", "agent">>, comments |-> FALSE]
           trailer(g) ==
             IF g.trailer = <<>> THEN plain
             ELSE [fields |-> IF g.trailer[1].fields = <<>> THEN plain.fields ELSE g.trailer[1].fields,
                   comments |-> g.trailer[1].comments = <<TRUE>>]
<1>1. e \in HooksOf(F)
  BY EnsureTyped
<1>2. h.strict = e.strict /\ h.writeTrailer = e.writeTrailer /\ h.titleCoverage = e.titleCoverage
      /\ h.trailer = Conf!Trailer(fields, TRUE)
  <2> HIDE DEF e
  <2> QED
    BY <1>1 DEF HooksOf
<1>3. trailer(h) = tr
  <2> HIDE DEF h
  <2>1. h.trailer = <<[fields |-> fields, comments |-> <<TRUE>>]>>
    BY <1>2 DEF Conf!Trailer
  <2>2. PICK r : r = [fields |-> fields, comments |-> <<TRUE>>]
    OBVIOUS
  <2>3. h.trailer # <<>> /\ h.trailer[1] = r
    BY <2>1, <2>2
  <2>4. r.fields = fields /\ r.comments = <<TRUE>>
    BY <2>2
  <2>5. trailer(h) = [fields |-> IF r.fields = <<>> THEN plain.fields ELSE r.fields,
                      comments |-> r.comments = <<TRUE>>]
    BY <2>3
  <2>6. (r.comments = <<TRUE>>) = TRUE
    BY <2>4
  <2>7. trailer(h) = [fields |-> fields, comments |-> r.comments = <<TRUE>>]
    BY <2>4, <2>5
  <2> HIDE DEF trailer
  <2> QED
    BY <2>6, <2>7
<1>4. c.hook # <<>> /\ c.hook[1] = h
  <2> HIDE DEF h
  <2>1. c.hook = <<h>>
    BY DEF h
  <2>2. DOMAIN <<h>> = {1} /\ <<h>>[1] = h /\ <<h>> # <<>>
    OBVIOUS
  <2> QED
    BY <2>1, <2>2
<1>5. PICK titled : titled = (e.titleCoverage # <<FALSE>>)
  OBVIOUS
<1>6. Conf!HookSettings(c) =
        [strict |-> e.strict, writeTrailer |-> e.writeTrailer,
         titleCoverage |-> titled, trailer |-> tr]
  <2>1. Conf!HookSettings(c) =
          [strict |-> h.strict, writeTrailer |-> h.writeTrailer,
           titleCoverage |-> h.titleCoverage # <<FALSE>>, trailer |-> trailer(h)]
    <3> HIDE DEF h
    <3> QED
      BY <1>4 DEF Conf!HookSettings
  <2> HIDE DEF h, trailer, e, tr
  <2> QED
    BY <1>2, <1>3, <1>5, <2>1
<1>7. CASE cfg.hook = <<>>
  <2>1. e.strict = cfg.strictVerify /\ e.writeTrailer = TRUE /\ e.titleCoverage # <<FALSE>>
    BY <1>7 DEF Conf!EnsureHook
  <2>2. Conf!HookSettings(cfg) =
          [strict |-> cfg.strictVerify, writeTrailer |-> TRUE, titleCoverage |-> TRUE, trailer |-> plain]
    BY <1>7 DEF Conf!HookSettings
  <2>3. titled = TRUE
    BY <1>5, <2>1
  <2>4. PICK yes : yes = TRUE
    OBVIOUS
  <2>5. e.strict = cfg.strictVerify /\ e.writeTrailer = yes /\ titled = yes
    BY <2>1, <2>3, <2>4
  <2> HIDE DEF e, h, plain
  <2>6. Conf!HookSettings(cfg) =
          [strict |-> cfg.strictVerify, writeTrailer |-> yes, titleCoverage |-> yes, trailer |-> plain]
    BY <2>2, <2>4
  <2>7. [Conf!HookSettings(cfg) EXCEPT !.trailer = tr] =
          [strict |-> cfg.strictVerify, writeTrailer |-> yes, titleCoverage |-> yes, trailer |-> tr]
    <3> HIDE DEF tr
    <3> QED
      BY <2>6, TrailerReplaced
  <2>8. Conf!HookSettings(c) =
          [strict |-> cfg.strictVerify, writeTrailer |-> yes, titleCoverage |-> yes, trailer |-> tr]
    <3> HIDE DEF tr
    <3> QED
      BY <1>6, <2>5
  <2> QED
    BY <2>7, <2>8, Zenon
<1>8. CASE cfg.hook # <<>>
  <2>1. e = cfg.hook[1]
    BY <1>8 DEF Conf!EnsureHook
  <2>2. Conf!HookSettings(cfg) =
          [strict |-> e.strict, writeTrailer |-> e.writeTrailer,
           titleCoverage |-> titled, trailer |-> trailer(cfg.hook[1])]
    <3>1. Conf!HookSettings(cfg) =
            [strict |-> e.strict, writeTrailer |-> e.writeTrailer,
             titleCoverage |-> e.titleCoverage # <<FALSE>>, trailer |-> trailer(cfg.hook[1])]
      <4> HIDE DEF e
      <4> QED
        BY <1>8, <2>1 DEF Conf!HookSettings
    <3> HIDE DEF e, trailer
    <3> QED
      BY <1>5, <3>1
  <2> HIDE DEF e, h, plain, trailer
  <2>3. [Conf!HookSettings(cfg) EXCEPT !.trailer = tr] =
          [strict |-> e.strict, writeTrailer |-> e.writeTrailer, titleCoverage |-> titled, trailer |-> tr]
    <3> HIDE DEF tr
    <3> QED
      BY <2>2, TrailerReplaced
  <2> QED
    BY <1>6, <2>3, Zenon
<1> QED
  BY <1>7, <1>8

\* Whatever the file says and whichever fields the user gives, in any number:
\* what hook config set, hook config reset and hook install save can be loaded
\* again, is what it was outside the hook section, and of the hook changes only
\* what the edit is for.
THEOREM EditsAreLocal ==
  ASSUME NEW F, <<"lines", "agent">> \in F, <<"coverage", "lines", "agent">> \in F,
         NEW file \in FilesOf(F), NEW fields \in F
  PROVE  Conf!EditsKeepTheRest(file, fields)
<1> SUFFICES ASSUME NEW cfg \in Conf!Load(file),
                    NEW c \in Conf!HookConfigSet(cfg, fields, TRUE)
                              \cup ({Conf!HookConfigReset(cfg)}
                                    \cup {Conf!HookInstallDefaults(cfg, t) : t \in BOOLEAN})
             PROVE  \E f \in Conf!Save(c) : \E reloaded \in Conf!Load(f) :
                      /\ reloaded = [cfg EXCEPT !.hook = c.hook]
                      /\ Conf!HookSettings(reloaded).strict = Conf!HookSettings(cfg).strict
                      /\ c \in Conf!HookConfigSet(cfg, fields, TRUE) =>
                           Conf!HookSettings(reloaded)
                             = [Conf!HookSettings(cfg) EXCEPT
                                  !.trailer = [fields |-> fields, comments |-> TRUE]]
  BY DEF Conf!EditsKeepTheRest
<1>1. cfg \in ConfigsOf(F) /\ Conf!Validate(cfg)
  BY LoadTyped
<1>2. ASSUME c \in Conf!HookConfigSet(cfg, fields, TRUE)
      PROVE  /\ fields # <<>>
             /\ c = [cfg EXCEPT !.hook = <<[Conf!EnsureHook(cfg) EXCEPT
                                              !.trailer = Conf!Trailer(fields, TRUE)]>>]
  BY <1>2 DEF Conf!HookConfigSet, Conf!ValidateTrailerFields
<1>3. \E h \in HooksOf(F) : c = [cfg EXCEPT !.hook = <<h>>] /\ h.strict = Conf!EnsureHook(cfg).strict
  <2>1. CASE c \in Conf!HookConfigSet(cfg, fields, TRUE)
    <3> DEFINE e == Conf!EnsureHook(cfg)
               tr == Conf!Trailer(fields, TRUE)
               h == [e EXCEPT !.trailer = tr]
    <3>1. e \in HooksOf(F)
      BY <1>1, EnsureTyped
    <3>2. tr \in Key(TrailersOf(F))
      BY DEF Conf!Trailer, Key, TrailersOf
    <3>3. c = [cfg EXCEPT !.hook = <<h>>]
      BY <1>2, <2>1
    <3> HIDE DEF e, tr
    <3>4. h \in HooksOf(F) /\ h.strict = e.strict
      BY <3>1, <3>2 DEF HooksOf
    <3> QED
      BY <3>3, <3>4 DEF e
  <2>2. CASE c \notin Conf!HookConfigSet(cfg, fields, TRUE)
    <3>1. c \in {Conf!HookConfigReset(cfg)} \cup {Conf!HookInstallDefaults(cfg, t) : t \in BOOLEAN}
      BY <2>2
    <3> QED
      BY <1>1, <3>1, ResetTyped
  <2> QED
    BY <2>1, <2>2
<1>4. PICK h \in HooksOf(F) : c = [cfg EXCEPT !.hook = <<h>>] /\ h.strict = Conf!EnsureHook(cfg).strict
  BY <1>3
<1>5. c \in ConfigsOf(F) /\ Conf!Validate(c) /\ c.hook = <<h>>
  BY <1>1, <1>4, EditTyped
<1>6. PICK f \in Conf!Save(c) : Conf!Load(f) = {c}
  BY <1>5, SaveLoads
<1>7. c = [cfg EXCEPT !.hook = c.hook]
  BY <1>4, <1>5
<1>8. Conf!HookSettings(c).strict = Conf!HookSettings(cfg).strict
  BY <1>4, <1>5, StrictIsEnsured
<1>9. ASSUME c \in Conf!HookConfigSet(cfg, fields, TRUE)
      PROVE  Conf!HookSettings(c) = [Conf!HookSettings(cfg) EXCEPT
                                       !.trailer = [fields |-> fields, comments |-> TRUE]]
  <2>1. c.hook = <<[Conf!EnsureHook(cfg) EXCEPT !.trailer = Conf!Trailer(fields, TRUE)]>>
    <3> DEFINE g == [Conf!EnsureHook(cfg) EXCEPT !.trailer = Conf!Trailer(fields, TRUE)]
    <3>1. c = [cfg EXCEPT !.hook = <<g>>]
      BY <1>2, <1>9
    <3> HIDE DEF g
    <3>2. c.hook = <<g>>
      BY <1>1, <3>1 DEF ConfigsOf
    <3> QED
      BY <3>2 DEF g
  <2>2. fields # <<>>
    BY <1>2, <1>9
  <2> QED
    BY <1>1, <2>1, <2>2, SetKeepsRest
<1>10. c \in Conf!Load(f)
  BY <1>6
<1> QED
  BY <1>7, <1>8, <1>9, <1>10

-----------------------------------------------------------------------------
\* Sequences: what holds of all, and what their concatenation is.

\* What holds of no element, and of a sequence with one more element of every
\* sequence it holds of, holds of all sequences.
LEMMA EverySequence ==
  ASSUME NEW A, NEW T, << >> \in T, \A s \in Seq(A), x \in A : s \in T => Append(s, x) \in T
  PROVE  \A s \in Seq(A) : s \in T
<1> DEFINE N == {n \in Nat : \A s \in Seq(A) : Len(s) = n => s \in T}
<1>1. 0 \in N
  <2>1. \A s \in Seq(A) : Len(s) = 0 => s = << >>
    BY EmptySeq
  <2> QED
    BY <2>1
<1>2. ASSUME NEW n \in Nat, n \in N PROVE n + 1 \in N
  <2> SUFFICES ASSUME NEW s \in Seq(A), Len(s) = n + 1 PROVE s \in T
    OBVIOUS
  <2>1. PICK r, x : r = SubSeq(s, 1, n) /\ x = s[n + 1]
    OBVIOUS
  <2>2. x \in A
    BY <2>1, ElementOfSeq
  <2>3. r \in Seq(A) /\ Len(r) = n
    <3>1. 1..n \subseteq 1..Len(s)
      OBVIOUS
    <3>2. \A i \in 1..n : s[i] \in A
      BY <3>1, ElementOfSeq
    <3> QED
      BY <2>1, <3>2, SubSeqProperties
  <2>4. Append(r, x) = s
    <3>1. Append(r, x) \in Seq(A) /\ Len(Append(r, x)) = n + 1
      BY <2>2, <2>3, AppendProperties
    <3>2. ASSUME NEW i \in 1..(n + 1) PROVE Append(r, x)[i] = s[i]
      <4>1. CASE i = n + 1
        BY <2>1, <2>2, <2>3, <4>1, AppendProperties
      <4>2. CASE i # n + 1
        <5>1. i \in 1..n /\ i \in 1..Len(r)
          BY <2>3, <4>2
        <5>2. Append(r, x)[i] = r[i]
          BY <2>2, <2>3, <5>1, AppendProperties
        <5>3. r[i] = s[i]
          BY <2>1, <3>2, <5>1
        <5> QED
          BY <5>2, <5>3
      <4> QED
        BY <4>1, <4>2
    <3> QED
      BY <3>1, <3>2, SeqEqual
  <2> QED
    BY <1>2, <2>2, <2>3, <2>4
<1>3. \A n \in Nat : n \in N
  <2> HIDE DEF N
  <2> QED
    BY <1>1, <1>2, EveryNumber
<1> QED
  BY <1>3, LenProperties

\* What FlattenSeq is of the library, in every module that uses it.
Flat(ss) ==
  IF Len(ss) = 0 THEN ss
  ELSE LET flatten[i \in 1..Len(ss)] == IF i = 1 THEN ss[i] ELSE flatten[i - 1] \o ss[i]
       IN  flatten[Len(ss)]

\* The module of every instance has the same.
LEMMA FlattenIsFlat ==
  ASSUME NEW ss
  PROVE  Diff!FlattenSeq(ss) = Flat(ss) /\ Hook!FlattenSeq(ss) = Flat(ss)
BY DEF Flat, Diff!FlattenSeq, Hook!FlattenSeq

\* It is what its recursion says.
LEMMA FlatUnfolds ==
  ASSUME NEW ss, NEW n \in Nat, Len(ss) = n, n > 0
  PROVE  \E f : /\ f[1] = ss[1]
                /\ \A i \in 2..n : f[i] = f[i - 1] \o ss[i]
                /\ Flat(ss) = f[n]
<1> DEFINE known(m) == \E f : f = [i \in 1..m |-> IF i = 1 THEN ss[i] ELSE f[i - 1] \o ss[i]]
           T == {m \in Nat : known(m)}
<1>1. 0 \in T
  <2>1. PICK f : f = [i \in 1..0 |-> ss[i]]
    OBVIOUS
  <2>2. f = [i \in 1..0 |-> IF i = 1 THEN ss[i] ELSE f[i - 1] \o ss[i]]
    BY <2>1
  <2> QED
    BY <2>2
<1>2. ASSUME NEW m \in Nat, m \in T PROVE m + 1 \in T
  <2>1. PICK f : f = [i \in 1..m |-> IF i = 1 THEN ss[i] ELSE f[i - 1] \o ss[i]]
    BY <1>2
  <2>2. PICK g : g = [i \in 1..(m + 1) |->
                        IF i = m + 1 THEN (IF i = 1 THEN ss[i] ELSE f[m] \o ss[i]) ELSE f[i]]
    OBVIOUS
  <2>3. ASSUME NEW i \in 1..(m + 1)
        PROVE  g[i] = IF i = 1 THEN ss[i] ELSE g[i - 1] \o ss[i]
    <3>1. CASE i = m + 1
      <4>1. g[i] = IF i = 1 THEN ss[i] ELSE f[m] \o ss[i]
        BY <2>2, <3>1
      <4>2. i # 1 => i - 1 = m /\ m \in 1..(m + 1) /\ m # m + 1
        BY <3>1
      <4>3. i # 1 => g[i - 1] = f[m]
        BY <2>2, <4>2
      <4> QED
        BY <4>1, <4>3
    <3>2. CASE i # m + 1
      <4>1. i \in 1..m /\ g[i] = f[i]
        BY <2>2, <3>2
      <4>2. i # 1 => i - 1 \in 1..(m + 1) /\ i - 1 # m + 1
        BY <4>1
      <4>3. i # 1 => g[i - 1] = f[i - 1]
        BY <2>2, <4>2
      <4> QED
        BY <2>1, <4>1, <4>3
    <3> QED
      BY <3>1, <3>2
  <2>4. g = [i \in 1..(m + 1) |-> IF i = 1 THEN ss[i] ELSE g[i - 1] \o ss[i]]
    BY <2>2, <2>3
  <2>5. known(m + 1)
    BY <2>4, Zenon
  <2> HIDE DEF known
  <2> QED
    BY <2>5
<1>3. known(n)
  <2>1. \A m \in Nat : m \in T
    <3> HIDE DEF T
    <3> QED
      BY <1>1, <1>2, EveryNumber
  <2> QED
    BY <2>1
<1> DEFINE f == CHOOSE f : f = [i \in 1..n |-> IF i = 1 THEN ss[i] ELSE f[i - 1] \o ss[i]]
<1>4. f = [i \in 1..n |-> IF i = 1 THEN ss[i] ELSE f[i - 1] \o ss[i]]
  BY <1>3
<1>5. Flat(ss) = f[n]
  BY DEF Flat
<1> HIDE DEF f
<1>6. f[1] = ss[1] /\ \A i \in 2..n : f[i] = f[i - 1] \o ss[i]
  <2>1. 1 \in 1..n /\ \A i \in 2..n : i \in 1..n /\ i # 1
    OBVIOUS
  <2> QED
    BY <1>4, <2>1
<1> QED
  BY <1>5, <1>6

\* Of sequences it makes a sequence, of one more the concatenation.
LEMMA FlatGrows ==
  ASSUME NEW A, NEW ss \in Seq(Seq(A)), NEW t \in Seq(A)
  PROVE  /\ Flat(<< >>) = << >>
         /\ Flat(ss) \in Seq(A)
         /\ Flat(Append(ss, t)) = Flat(ss) \o t
<1>1. Flat(<< >>) = << >>
  BY DEF Flat
<1>2. PICK n \in Nat : n = Len(ss)
  BY LenProperties
<1>3. PICK tt : tt = Append(ss, t)
  OBVIOUS
<1>4. Len(tt) = n + 1 /\ tt[n + 1] = t /\ \A i \in 1..n : tt[i] = ss[i]
  BY <1>2, <1>3, AppendProperties
<1>5. PICK g : /\ g[1] = tt[1]
               /\ \A i \in 2..(n + 1) : g[i] = g[i - 1] \o tt[i]
               /\ Flat(tt) = g[n + 1]
  <2>1. n + 1 \in Nat /\ n + 1 > 0
    OBVIOUS
  <2> QED
    BY <1>4, <2>1, FlatUnfolds
<1>6. CASE n = 0
  <2>1. ss = << >>
    BY <1>2, <1>6, EmptySeq
  <2>2. Flat(tt) = t
    BY <1>4, <1>5, <1>6
  <2>3. << >> \o t = t /\ << >> \in Seq(A)
    BY ConcatEmptySeq, EmptySeq
  <2> QED
    BY <1>1, <1>3, <2>1, <2>2, <2>3
<1>7. CASE n > 0
  <2>1. PICK f : /\ f[1] = ss[1]
                 /\ \A i \in 2..n : f[i] = f[i - 1] \o ss[i]
                 /\ Flat(ss) = f[n]
    BY <1>2, <1>7, FlatUnfolds
  <2> DEFINE T == {m \in Nat : m + 1 \in 1..n => f[m + 1] = g[m + 1] /\ f[m + 1] \in Seq(A)}
  <2>2. \A i \in 1..n : ss[i] \in Seq(A)
    BY <1>2, ElementOfSeq
  <2>3. 0 \in T
    <3>1. 1 \in 1..n
      BY <1>7
    <3>2. f[1] = g[1] /\ f[1] \in Seq(A)
      BY <1>4, <1>5, <2>1, <2>2, <3>1
    <3> QED
      BY <3>2
  <2>4. ASSUME NEW m \in Nat, m \in T PROVE m + 1 \in T
    <3> SUFFICES ASSUME m + 2 \in 1..n PROVE f[m + 2] = g[m + 2] /\ f[m + 2] \in Seq(A)
      OBVIOUS
    <3>1. f[m + 1] = g[m + 1] /\ f[m + 1] \in Seq(A)
      BY <2>4
    <3>2. m + 2 \in 2..n /\ m + 2 \in 2..(n + 1) /\ (m + 2) - 1 = m + 1
      OBVIOUS
    <3>3. f[m + 2] = f[m + 1] \o ss[m + 2] /\ g[m + 2] = g[m + 1] \o tt[m + 2]
      BY <1>5, <2>1, <3>2
    <3>4. tt[m + 2] = ss[m + 2] /\ ss[m + 2] \in Seq(A)
      BY <1>4, <2>2
    <3> QED
      BY <3>1, <3>3, <3>4, ConcatProperties
  <2>5. \A m \in Nat : m \in T
    <3> HIDE DEF T
    <3> QED
      BY <2>3, <2>4, EveryNumber
  <2>6. f[n] = g[n] /\ f[n] \in Seq(A)
    <3>1. n - 1 \in Nat /\ (n - 1) + 1 = n /\ n \in 1..n
      BY <1>7
    <3>2. n - 1 \in T
      BY <2>5, <3>1
    <3> QED
      BY <3>1, <3>2
  <2>7. n + 1 \in 2..(n + 1) /\ (n + 1) - 1 = n
    BY <1>7
  <2>8. g[n + 1] = g[n] \o t
    BY <1>4, <1>5, <2>7
  <2> QED
    BY <1>1, <1>3, <1>5, <2>1, <2>6, <2>8
<1> QED
  BY <1>2, <1>6, <1>7

\* One sequence more at the end of what is flattened.
LEMMA FlatNext ==
  ASSUME NEW A, NEW n \in Nat, NEW f \in [1..n -> Seq(A)], NEW g \in [1..(n + 1) -> Seq(A)],
         \A i \in 1..n : g[i] = f[i]
  PROVE  Flat(f) \in Seq(A) /\ Flat(g) = Flat(f) \o g[n + 1]
<1>1. PICK t : t = g[n + 1]
  OBVIOUS
<1>2. f \in Seq(Seq(A)) /\ Len(f) = n /\ t \in Seq(A)
  BY <1>1
<1>3. g = Append(f, t)
  BY <1>1, <1>2
<1> QED
  BY <1>1, <1>2, <1>3, FlatGrows

-----------------------------------------------------------------------------
\* The commit-msg hook: what is kept of a message, cleaned and written again.

\* The pieces at some places: of no pieces, and of one piece more.
LEMMA PiecesGrow ==
  ASSUME NEW A, NEW s \in Seq(A), NEW x \in A, NEW P
  PROVE  /\ Hook!PiecesAt(<< >>, P) = << >>
         /\ Hook!PiecesAt(s, P) \in Seq(A)
         /\ Hook!PiecesAt(Append(s, x), P) =
              IF Len(s) + 1 \in P THEN Append(Hook!PiecesAt(s, P), x) ELSE Hook!PiecesAt(s, P)
<1> DEFINE F(p) == [i \in DOMAIN p |-> IF i \in P THEN <<p[i]>> ELSE << >>]
<1>1. \A p : Hook!PiecesAt(p, P) = Flat(F(p))
  BY FlattenIsFlat DEF Hook!PiecesAt
<1>2. PICK n \in Nat : n = Len(s)
  BY LenProperties
<1>3. PICK t : t = Append(s, x)
  OBVIOUS
<1>4. t \in Seq(A) /\ Len(t) = n + 1 /\ t[n + 1] = x /\ \A i \in 1..n : t[i] = s[i]
  BY <1>2, <1>3, AppendProperties
<1>5. DOMAIN s = 1..n /\ DOMAIN t = 1..(n + 1)
  BY <1>2, <1>4, LenProperties
<1>6. \A i \in 1..n : s[i] \in A
  BY <1>2, ElementOfSeq
<1>7. \A y \in A : <<y>> \in Seq(A) /\ << >> \in Seq(A)
  OBVIOUS
<1>8. F(s) \in [1..n -> Seq(A)]
  BY <1>5, <1>6, <1>7
<1>9. F(t) \in [1..(n + 1) -> Seq(A)]
  <2>1. \A i \in 1..(n + 1) : t[i] \in A
    BY <1>4, ElementOfSeq
  <2> QED
    BY <1>5, <1>7, <2>1
<1>10. \A i \in 1..n : F(t)[i] = F(s)[i]
  BY <1>4, <1>5
<1>11. F(t)[n + 1] = IF n + 1 \in P THEN <<x>> ELSE << >>
  <2>1. n + 1 \in 1..(n + 1)
    OBVIOUS
  <2> QED
    BY <1>4, <1>5, <2>1
<1>12. Flat(F(<< >>)) = << >>
  <2>1. F(<< >>) = << >>
    OBVIOUS
  <2>2. Flat(<< >>) = << >>
    BY DEF Flat
  <2> QED
    BY <2>1, <2>2
<1> HIDE DEF F
<1>13. Flat(F(s)) \in Seq(A) /\ Flat(F(t)) = Flat(F(s)) \o F(t)[n + 1]
  BY <1>8, <1>9, <1>10, FlatNext
<1>14. PICK r : r = Flat(F(s))
  OBVIOUS
<1>15. r \o << >> = r /\ r \o <<x>> = Append(r, x)
  <2>1. r \in Seq(A)
    BY <1>13, <1>14
  <2> QED
    BY <2>1, ConcatEmptySeq
<1> QED
  BY <1>1, <1>2, <1>3, <1>11, <1>12, <1>13, <1>14, <1>15

\* Only places that are there count.
LEMMA PiecesSame ==
  ASSUME NEW s, NEW P, NEW Q, \A i \in DOMAIN s : i \in P <=> i \in Q
  PROVE  Hook!PiecesAt(s, P) = Hook!PiecesAt(s, Q)
<1>1. [i \in DOMAIN s |-> IF i \in P THEN <<s[i]>> ELSE << >>] =
      [i \in DOMAIN s |-> IF i \in Q THEN <<s[i]>> ELSE << >>]
  OBVIOUS
<1> QED
  BY <1>1 DEF Hook!PiecesAt

\* The pieces of a kind.
Only(s, V) == Hook!PiecesAt(s, {i \in DOMAIN s : s[i] \in V})

\* One piece more, kept when it is of the kind.
LEMMA OnlyGrows ==
  ASSUME NEW A, NEW s \in Seq(A), NEW x \in A, NEW V
  PROVE  /\ Only(<< >>, V) = << >>
         /\ Only(s, V) \in Seq(A)
         /\ Only(Append(s, x), V) = IF x \in V THEN Append(Only(s, V), x) ELSE Only(s, V)
<1>1. PICK n \in Nat : n = Len(s)
  BY LenProperties
<1>2. PICK t : t = Append(s, x)
  OBVIOUS
<1>3. t \in Seq(A) /\ Len(t) = n + 1 /\ t[n + 1] = x /\ \A i \in 1..n : t[i] = s[i]
  BY <1>1, <1>2, AppendProperties
<1>4. DOMAIN s = 1..n /\ DOMAIN t = 1..(n + 1)
  BY <1>1, <1>3, LenProperties
<1>5. PICK P : P = {i \in DOMAIN t : t[i] \in V}
  OBVIOUS
<1>6. Only(t, V) = IF n + 1 \in P THEN Append(Hook!PiecesAt(s, P), x) ELSE Hook!PiecesAt(s, P)
  <2>1. Hook!PiecesAt(t, P) = IF n + 1 \in P THEN Append(Hook!PiecesAt(s, P), x) ELSE Hook!PiecesAt(s, P)
    BY <1>1, <1>2, PiecesGrow
  <2> QED
    BY <1>5, <2>1 DEF Only
<1>7. n + 1 \in P <=> x \in V
  <2>1. n + 1 \in 1..(n + 1)
    OBVIOUS
  <2> QED
    BY <1>3, <1>4, <1>5, <2>1
<1>8. Hook!PiecesAt(s, P) = Only(s, V)
  <2>1. \A i \in DOMAIN s : i \in P <=> i \in {j \in DOMAIN s : s[j] \in V}
    BY <1>3, <1>4, <1>5
  <2> QED
    BY <2>1, PiecesSame DEF Only
<1>9. Only(<< >>, V) = << >> /\ Only(s, V) \in Seq(A)
  <2>1. PICK Q, R : Q = {i \in DOMAIN << >> : << >>[i] \in V} /\ R = {i \in DOMAIN s : s[i] \in V}
    OBVIOUS
  <2>2. Hook!PiecesAt(<< >>, Q) = << >> /\ Hook!PiecesAt(s, R) \in Seq(A)
    BY PiecesGrow
  <2> QED
    BY <2>1, <2>2 DEF Only
<1> QED
  BY <1>2, <1>6, <1>7, <1>8, <1>9

\* Of no pieces, none.
LEMMA OnlyOfNone == ASSUME NEW V PROVE Only(<< >>, V) = << >>
<1>1. PICK Q : Q = {i \in DOMAIN << >> : << >>[i] \in V}
  OBVIOUS
<1>2. << >> \in Seq({0}) /\ 0 \in {0}
  OBVIOUS
<1>3. Hook!PiecesAt(<< >>, Q) = << >>
  BY <1>2, PiecesGrow
<1> QED
  BY <1>1, <1>3 DEF Only

\* Of pieces of the kind, all.
LEMMA OnlyAll ==
  ASSUME NEW V, NEW s \in Seq(V)
  PROVE  Only(s, V) = s
<1> DEFINE T == {r \in Seq(V) : Only(r, V) = r}
<1>1. << >> \in T
  <2>1. << >> \in Seq(V)
    OBVIOUS
  <2>2. Only(<< >>, V) = << >>
    BY OnlyOfNone
  <2> QED
    BY <2>1, <2>2
<1>2. ASSUME NEW r \in Seq(V), NEW x \in V, r \in T PROVE Append(r, x) \in T
  BY <1>2, OnlyGrows, AppendProperties
<1> QED
  <2> HIDE DEF T
  <2>1. s \in T
    BY <1>1, <1>2, EverySequence
  <2> QED
    BY <2>1 DEF T

\* Of pieces of another, none.
LEMMA OnlyNone ==
  ASSUME NEW A, NEW s \in Seq(A), NEW V, V \cap A = {}
  PROVE  Only(s, V) = << >>
<1> DEFINE T == {r \in Seq(A) : Only(r, V) = << >>}
<1>1. << >> \in T
  <2>1. << >> \in Seq(A)
    OBVIOUS
  <2>2. Only(<< >>, V) = << >>
    BY OnlyOfNone
  <2> QED
    BY <2>1, <2>2
<1>2. ASSUME NEW r \in Seq(A), NEW x \in A, r \in T PROVE Append(r, x) \in T
  <2>1. Append(r, x) \in Seq(A) /\ x \notin V
    BY AppendProperties
  <2>2. Only(Append(r, x), V) = Only(r, V)
    BY <2>1, OnlyGrows
  <2> QED
    BY <1>2, <2>1, <2>2
<1> QED
  <2> HIDE DEF T
  <2>1. s \in T
    BY <1>1, <1>2, EverySequence
  <2> QED
    BY <2>1 DEF T

\* Behind one another.
LEMMA OnlyConcat ==
  ASSUME NEW A, NEW s \in Seq(A), NEW t \in Seq(A), NEW V
  PROVE  Only(s \o t, V) = Only(s, V) \o Only(t, V)
<1> DEFINE T == {r \in Seq(A) : Only(s \o r, V) = Only(s, V) \o Only(r, V)}
<1>1. << >> \in T
  <2>1. << >> \in Seq(A)
    OBVIOUS
  <2>2. Only(<< >>, V) = << >> /\ Only(s, V) \in Seq(A)
    <3>1. CASE s = << >>
      BY <2>1, <3>1, OnlyOfNone
    <3>2. CASE s # << >>
      <4>1. s[1] \in A
        BY <3>2, EmptySeq, ElementOfSeq
      <4> QED
        BY <4>1, OnlyGrows, OnlyOfNone
    <3> QED
      BY <3>1, <3>2
  <2> QED
    BY <2>1, <2>2, ConcatEmptySeq
<1>2. ASSUME NEW r \in Seq(A), NEW x \in A, r \in T PROVE Append(r, x) \in T
  <2>1. PICK u, v, w : u = s \o r /\ v = Only(s, V) /\ w = Only(r, V)
    OBVIOUS
  <2>2. u \in Seq(A) /\ v \in Seq(A) /\ w \in Seq(A)
    BY <2>1, OnlyGrows, ConcatProperties
  <2>3. Only(u, V) = v \o w
    BY <1>2, <2>1
  <2>4. s \o Append(r, x) = Append(u, x)
    BY <2>1
  <2>5. ASSUME NEW p \in Seq(A)
        PROVE  Only(Append(p, x), V) = IF x \in V THEN Append(Only(p, V), x) ELSE Only(p, V)
    BY OnlyGrows
  <2>6. /\ Only(Append(u, x), V) = IF x \in V THEN Append(Only(u, V), x) ELSE Only(u, V)
        /\ Only(Append(r, x), V) = IF x \in V THEN Append(w, x) ELSE w
    BY <2>1, <2>2, <2>5, Zenon
  <2>7. v \o Append(w, x) = Append(v \o w, x)
    BY <2>2
  <2>8. Append(r, x) \in Seq(A)
    BY AppendProperties
  <2> QED
    BY <2>1, <2>3, <2>4, <2>5, <2>6, <2>7, <2>8
<1> QED
  <2> HIDE DEF T
  <2>1. t \in T
    BY <1>1, <1>2, EverySequence
  <2> QED
    BY <2>1 DEF T

\* Where the blank pieces at the end begin.
Stops(p, m) ==
    /\ m \in 1..Len(p)
    /\ m = 1 \/ p[m] # Hook!Blank
    /\ \A i \in (m + 1)..Len(p) : p[i] = Hook!Blank

\* They are cut there.
LEMMA TrimStops ==
  ASSUME NEW A, NEW p \in Seq(A), p # << >>
  PROVE  /\ \E m : Stops(p, m)
         /\ \A m : Stops(p, m) => Hook!TrimRight(p) = SubSeq(p, 1, m)
<1>1. PICK n \in Nat : n = Len(p) /\ n > 0 /\ DOMAIN p = 1..n
  BY EmptySeq, LenProperties
<1>2. PICK texts : texts = {1} \cup {i \in DOMAIN p : p[i] # Hook!Blank}
  OBVIOUS
<1>3. texts \subseteq 1..n /\ 1 \in texts
  BY <1>1, <1>2
<1>4. \A m : Stops(p, m) <=> m \in texts /\ \A j \in texts : j <= m
  <2>1. ASSUME NEW m, Stops(p, m) PROVE m \in texts /\ \A j \in texts : j <= m
    <3>1. m \in texts
      BY <1>1, <1>2, <2>1 DEF Stops
    <3>2. ASSUME NEW j \in texts, ~(j <= m) PROVE FALSE
      <4>1. m \in 1..n /\ j \in 1..n /\ j # 1
        BY <1>1, <1>3, <2>1, <3>2 DEF Stops
      <4>2. j \in (m + 1)..Len(p)
        BY <1>1, <3>2, <4>1
      <4> QED
        BY <1>2, <2>1, <4>1, <4>2 DEF Stops
    <3> QED
      BY <3>1, <3>2
  <2>2. ASSUME NEW m, m \in texts, \A j \in texts : j <= m PROVE Stops(p, m)
    <3>1. m \in 1..n /\ (m = 1 \/ p[m] # Hook!Blank)
      BY <1>2, <1>3, <2>2
    <3>2. ASSUME NEW i \in (m + 1)..n PROVE p[i] = Hook!Blank
      <4>1. i \in 1..n /\ ~(i <= m)
        BY <3>1
      <4> QED
        BY <1>1, <1>2, <2>2, <4>1
    <3> QED
      BY <1>1, <3>1, <3>2 DEF Stops
  <2> QED
    BY <2>1, <2>2
<1>5. \E m \in texts : \A j \in texts : j <= m
  <2>1. texts \subseteq 0..n /\ texts # {}
    BY <1>3
  <2> QED
    BY <2>1, GreatestBelow
<1>6. PICK c : c = CHOOSE i \in texts : \A j \in texts : j <= i
  OBVIOUS
<1>7. c \in texts /\ \A j \in texts : j <= c
  BY <1>5, <1>6
<1>8. Hook!TrimRight(p) = SubSeq(p, 1, c)
  BY <1>2, <1>6 DEF Hook!TrimRight
<1>9. ASSUME NEW m, Stops(p, m) PROVE m = c
  <2>1. m \in texts /\ c \in texts /\ m <= c /\ c <= m
    BY <1>4, <1>7, <1>9
  <2>2. m \in 1..n /\ c \in 1..n
    BY <1>3, <2>1
  <2> QED
    BY <2>1, <2>2
<1> QED
  BY <1>4, <1>7, <1>8, <1>9

\* The first piece replaced.
First(p, x) == <<x>> \o Tail(p)

\* Only the first piece changes.
LEMMA FirstIs ==
  ASSUME NEW A, NEW p \in Seq(A), p # << >>, NEW x \in A
  PROVE  /\ First(p, x) \in Seq(A) /\ First(p, x) # << >> /\ Len(First(p, x)) = Len(p)
         /\ First(p, x)[1] = x
         /\ \A i \in 2..Len(p) : First(p, x)[i] = p[i]
<1>1. PICK n \in Nat : n = Len(p) /\ n > 0
  BY EmptySeq
<1>2. PICK t : t = Tail(p)
  OBVIOUS
<1>3. t \in Seq(A) /\ Len(t) = n - 1 /\ \A i \in 1..(n - 1) : t[i] = p[i + 1]
  BY <1>1, <1>2, HeadTailProperties
<1>4. PICK h : h = <<x>>
  OBVIOUS
<1>5. h \in Seq(A) /\ Len(h) = 1 /\ h[1] = x
  BY <1>4
<1>6. PICK f : f = h \o t
  OBVIOUS
<1>7. f \in Seq(A) /\ Len(f) = n /\ \A i \in 1..n : f[i] = IF i <= 1 THEN h[i] ELSE t[i - 1]
  <2>1. Len(h) + Len(t) = n
    BY <1>1, <1>3, <1>5
  <2>2. h \o t \in Seq(A) /\ Len(h \o t) = Len(h) + Len(t)
    BY <1>3, <1>5, ConcatProperties
  <2>3. \A i \in 1..(Len(h) + Len(t)) : (h \o t)[i] = IF i <= Len(h) THEN h[i] ELSE t[i - Len(h)]
    BY <1>3, <1>5, ConcatProperties
  <2> QED
    BY <1>5, <1>6, <2>1, <2>2, <2>3
<1>8. f[1] = x /\ f # << >>
  <2>1. 1 \in 1..n
    BY <1>1
  <2> QED
  BY <1>5, <1>7, <2>1, EmptySeq
<1>9. ASSUME NEW i \in 2..n PROVE f[i] = p[i]
  <2>1. i \in 1..n /\ ~(i <= 1) /\ i - 1 \in 1..(n - 1) /\ (i - 1) + 1 = i
    OBVIOUS
  <2> QED
    BY <1>3, <1>7, <2>1
<1>10. First(p, x) = f
  BY <1>2, <1>4, <1>6 DEF First
<1> QED
  BY <1>1, <1>7, <1>8, <1>9, <1>10

\* Whose first piece is another and whose others are the same is this.
LEMMA FirstOnly ==
  ASSUME NEW A, NEW p \in Seq(A), p # << >>, NEW x \in A,
         NEW q \in Seq(A), Len(q) = Len(p), q[1] = x, \A i \in 2..Len(p) : q[i] = p[i]
  PROVE  First(p, x) = q
<1>1. First(p, x) \in Seq(A) /\ Len(First(p, x)) = Len(p) /\ First(p, x)[1] = x
  BY FirstIs
<1>2. \A i \in 2..Len(p) : First(p, x)[i] = p[i]
  BY FirstIs
<1>3. PICK f : f = First(p, x)
  OBVIOUS
<1>4. PICK n \in Nat : n = Len(p)
  BY LenProperties
<1>5. \A i \in 1..n : i = 1 \/ i \in 2..n
  OBVIOUS
<1>6. f \in Seq(A) /\ Len(f) = n /\ f[1] = x /\ \A i \in 2..n : f[i] = q[i]
  BY <1>1, <1>2, <1>3, <1>4
<1>7. Len(q) = n /\ \A i \in 1..n : f[i] = q[i]
  BY <1>4, <1>5, <1>6
<1> QED
  BY <1>3, <1>6, <1>7, SeqEqual

\* It may be replaced before a piece is added.
LEMMA FirstAppend ==
  ASSUME NEW A, NEW p \in Seq(A), p # << >>, NEW x \in A, NEW y \in A
  PROVE  First(Append(p, y), x) = Append(First(p, x), y)
<1>1. /\ First(p, x) \in Seq(A) /\ First(p, x) # << >> /\ Len(First(p, x)) = Len(p)
      /\ First(p, x)[1] = x
  BY FirstIs
<1>2. \A i \in 2..Len(p) : First(p, x)[i] = p[i]
  BY FirstIs
<1>3. PICK q, h : q = Append(p, y) /\ h = Append(First(p, x), y)
  OBVIOUS
<1>4. /\ q \in Seq(A) /\ q # << >> /\ Len(q) = Len(p) + 1 /\ q[Len(p) + 1] = y
      /\ \A i \in 1..Len(p) : q[i] = p[i]
  BY <1>3, AppendProperties
<1>5. /\ h \in Seq(A) /\ Len(h) = Len(p) + 1 /\ h[Len(p) + 1] = y
      /\ \A i \in 1..Len(p) : h[i] = First(p, x)[i]
  BY <1>1, <1>3, AppendProperties
<1>6. h[1] = x /\ \A i \in 2..(Len(p) + 1) : h[i] = q[i]
  <2>1. /\ 1 \in 1..Len(p)
        /\ \A i \in 2..(Len(p) + 1) : i = Len(p) + 1 \/ (i \in 1..Len(p) /\ i \in 2..Len(p))
    BY EmptySeq
  <2> QED
    BY <1>1, <1>2, <1>4, <1>5, <2>1
<1> QED
  BY <1>3, <1>4, <1>5, <1>6, FirstOnly

\* It may be replaced again.
LEMMA FirstAgain ==
  ASSUME NEW A, NEW p \in Seq(A), p # << >>, NEW x \in A, NEW y \in A
  PROVE  First(First(p, x), y) = First(p, y)
<1>1. /\ First(p, x) \in Seq(A) /\ First(p, x) # << >> /\ Len(First(p, x)) = Len(p)
      /\ First(p, x)[1] = x
  BY FirstIs
<1>2. \A i \in 2..Len(p) : First(p, x)[i] = p[i]
  BY FirstIs
<1>3. First(p, y) \in Seq(A) /\ Len(First(p, y)) = Len(p) /\ First(p, y)[1] = y
  BY FirstIs
<1>4. \A i \in 2..Len(p) : First(p, y)[i] = p[i]
  BY FirstIs
<1>5. \A i \in 2..Len(First(p, x)) : First(p, y)[i] = First(p, x)[i]
  BY <1>1, <1>2, <1>4
<1>6. Len(First(p, y)) = Len(First(p, x))
  BY <1>1, <1>3
<1> QED
  BY <1>1, <1>3, <1>5, <1>6, FirstOnly

\* Of one piece.
LEMMA FirstOfOne == \A x, y : First(<<x>>, y) = <<y>>
<1> SUFFICES ASSUME NEW x, NEW y PROVE First(<<x>>, y) = <<y>>
  OBVIOUS
<1>1. Tail(<<x>>) = << >>
  OBVIOUS
<1>2. <<y>> \o << >> = <<y>>
  OBVIOUS
<1> QED
  BY <1>1, <1>2 DEF First

\* When the first piece is among the places, it is the first there.
LEMMA PiecesFirst ==
  ASSUME NEW A, NEW p \in Seq(A), p # << >>, NEW x \in A, NEW P, 1 \in P
  PROVE  /\ Hook!PiecesAt(p, P) \in Seq(A) /\ Hook!PiecesAt(p, P) # << >>
         /\ Hook!PiecesAt(p, P)[1] = p[1]
         /\ Hook!PiecesAt(First(p, x), P) = First(Hook!PiecesAt(p, P), x)
<1> DEFINE K(s) == Hook!PiecesAt(s, P)
           holds(s) == /\ K(s) \in Seq(A) /\ K(s) # << >> /\ K(s)[1] = s[1]
                       /\ K(First(s, x)) = First(K(s), x)
           T == {s \in Seq(A) : s # << >> => holds(s)}
<1>1. \A s \in Seq(A), y \in A :
        /\ K(<< >>) = << >> /\ K(s) \in Seq(A)
        /\ K(Append(s, y)) = IF Len(s) + 1 \in P THEN Append(K(s), y) ELSE K(s)
  BY PiecesGrow
<1> HIDE DEF K
<1> HIDE DEF T, holds
<1>2. ASSUME NEW s \in Seq(A), s # << >>, NEW y \in A
      PROVE  First(Append(s, y), x) = Append(First(s, x), y)
  BY <1>2, FirstAppend
<1> USE DEF T, holds
<1>3. << >> \in T
  OBVIOUS
<1>4. ASSUME NEW s \in Seq(A), NEW y \in A, s \in T PROVE Append(s, y) \in T
  <2>1. PICK t : t = Append(s, y)
    OBVIOUS
  <2>2. t \in Seq(A)
    BY <2>1, AppendProperties
  <2>3. CASE s = << >>
    <3>1. PICK h, g : h = <<y>> /\ g = <<x>>
      OBVIOUS
    <3>2. t = h /\ h \in Seq(A) /\ h # << >> /\ h[1] = y /\ y = t[1]
      BY <2>1, <2>3, <3>1
    <3>3. \A z \in A : K(Append(<< >>, z)) = Append(<< >>, z)
      <4>1. Len(<< >>) + 1 = 1 /\ << >> \in Seq(A)
        OBVIOUS
      <4> QED
        BY <1>1, <4>1
    <3>4. K(h) = h /\ K(g) = g
      <4>1. h = Append(<< >>, y) /\ g = Append(<< >>, x)
        BY <3>1
      <4> QED
        BY <3>3, <4>1
    <3>5. First(h, x) = g
      BY <3>1, FirstOfOne
    <3>6. holds(t)
      BY <3>2, <3>4, <3>5
    <3> QED
      BY <2>1, <2>2, <3>6
  <2>4. CASE s # << >>
    <3>1. PICK r, f : r = K(s) /\ f = First(s, x)
      OBVIOUS
    <3>2. r \in Seq(A) /\ r # << >> /\ r[1] = s[1] /\ K(f) = First(r, x)
      BY <1>4, <2>4, <3>1
    <3>3. f \in Seq(A) /\ Len(f) = Len(s) /\ First(t, x) = Append(f, y)
      <4>1. First(s, x) \in Seq(A) /\ Len(First(s, x)) = Len(s)
        BY <2>4, FirstIs
      <4>2. First(Append(s, y), x) = Append(First(s, x), y)
        BY <1>2, <2>4
      <4> QED
        BY <2>1, <3>1, <4>1, <4>2
    <3>4. t[1] = s[1]
      <4>1. 1 \in 1..Len(s)
        BY <2>4, EmptySeq
      <4> QED
        BY <2>1, <4>1, AppendProperties
    <3>5. CASE Len(s) + 1 \in P
      <4>1. K(t) = Append(r, y) /\ K(First(t, x)) = Append(K(f), y)
        BY <1>1, <2>1, <3>1, <3>3, <3>5
      <4>2. Append(r, y) \in Seq(A) /\ Append(r, y) # << >> /\ Append(r, y)[1] = r[1]
        <5>1. 1 \in 1..Len(r)
          BY <3>2, EmptySeq
        <5> QED
          BY <3>2, <5>1, AppendProperties
      <4>3. First(Append(r, y), x) = Append(First(r, x), y)
        BY <1>2, <3>2
      <4>4. holds(t)
        BY <3>2, <3>4, <4>1, <4>2, <4>3
      <4> QED
        BY <2>1, <2>2, <4>4
    <3>6. CASE Len(s) + 1 \notin P
      <4>1. K(t) = r /\ K(First(t, x)) = K(f)
        BY <1>1, <2>1, <3>1, <3>3, <3>6
      <4>2. holds(t)
        BY <3>2, <3>4, <4>1
      <4> QED
        BY <2>1, <2>2, <4>2
    <3> QED
      BY <3>5, <3>6
  <2> QED
    BY <2>3, <2>4
<1>5. p \in T
  <2> HIDE DEF T
  <2> QED
    BY <1>3, <1>4, EverySequence
<1> QED
  BY <1>5 DEF K

\* The places Collapse leaves.
Left(p) == {i \in DOMAIN p :
              ~(i > 1 /\ i < Len(p) /\ p[i] = Hook!Blank /\ p[i + 1] = Hook!Blank)}

\* What the message is before the trailer is added.
Clean(p) == Hook!TrimRight(Hook!Collapse(p))

\* The first piece is kept, whatever it is, and decides nothing else.
LEMMA CleanFirst ==
  ASSUME NEW A, NEW p \in Seq(A), p # << >>, NEW x \in A
  PROVE  /\ Clean(p) \in Seq(A) /\ Clean(p) # << >> /\ Clean(p)[1] = p[1]
         /\ Clean(First(p, x)) = First(Clean(p), x)
<1>1. /\ First(p, x) \in Seq(A) /\ First(p, x) # << >> /\ Len(First(p, x)) = Len(p)
      /\ \A i \in 2..Len(p) : First(p, x)[i] = p[i]
  BY FirstIs
<1>2. PICK f, n : f = First(p, x) /\ n = Len(p)
  OBVIOUS
<1>3. /\ n \in Nat /\ n > 0 /\ DOMAIN p = 1..n
      /\ f \in Seq(A) /\ f # << >> /\ Len(f) = n /\ DOMAIN f = 1..n
      /\ \A i \in 2..n : f[i] = p[i]
  BY <1>1, <1>2, EmptySeq, LenProperties
<1>4. PICK P : P = Left(p)
  OBVIOUS
<1>5. Left(f) = P /\ 1 \in P
  <2>1. ASSUME NEW i \in 1..n PROVE i \in Left(f) <=> i \in Left(p)
    <3>1. i > 1 /\ i < n => i \in 2..n /\ i + 1 \in 2..n
      BY <1>3
    <3> QED
      BY <1>2, <1>3, <3>1 DEF Left
  <2>2. Left(f) \subseteq 1..n /\ Left(p) \subseteq 1..n /\ 1 \in Left(p)
    BY <1>3 DEF Left
  <2> QED
    BY <1>4, <2>1, <2>2
<1>6. PICK r, s : r = Hook!Collapse(p) /\ s = Hook!Collapse(f)
  OBVIOUS
<1>7. r = Hook!PiecesAt(p, P) /\ s = Hook!PiecesAt(f, P)
  BY <1>4, <1>5, <1>6 DEF Hook!Collapse, Left
<1>8. r \in Seq(A) /\ r # << >> /\ r[1] = p[1] /\ s = First(r, x)
  BY <1>2, <1>5, <1>7, PiecesFirst
<1>9. /\ First(r, x) \in Seq(A) /\ First(r, x) # << >> /\ Len(First(r, x)) = Len(r)
      /\ First(r, x)[1] = x
      /\ \A i \in 2..Len(r) : First(r, x)[i] = r[i]
  <2>1. r \in Seq(A) /\ r # << >>
    BY <1>8
  <2> QED
    BY <2>1, FirstIs
<1>10. PICK k : k = Len(r)
  OBVIOUS
<1>11. /\ k \in Nat /\ k > 0
       /\ s \in Seq(A) /\ s # << >> /\ Len(s) = k /\ s[1] = x /\ \A i \in 2..k : s[i] = r[i]
  BY <1>8, <1>9, <1>10, EmptySeq
<1>12. PICK m : Stops(r, m)
  BY <1>8, TrimStops
<1>13. m \in 1..k
  BY <1>10, <1>12 DEF Stops
<1>14. Stops(s, m)
  <2>1. m = 1 \/ m \in 2..k
    BY <1>13
  <2>2. m = 1 \/ s[m] # Hook!Blank
    BY <1>11, <1>12, <2>1 DEF Stops
  <2>3. \A i \in (m + 1)..k : i \in 2..k /\ s[i] = r[i] /\ r[i] = Hook!Blank
    BY <1>10, <1>11, <1>12, <1>13 DEF Stops
  <2> QED
    BY <1>11, <1>13, <2>2, <2>3 DEF Stops
<1>15. PICK c, d : c = SubSeq(r, 1, m) /\ d = SubSeq(s, 1, m)
  OBVIOUS
<1>16. Clean(p) = c /\ Clean(f) = d
  BY <1>6, <1>8, <1>11, <1>12, <1>14, <1>15, TrimStops DEF Clean
<1>17. c \in Seq(A) /\ Len(c) = m /\ \A i \in 1..m : c[i] = r[i]
  <2>1. \A i \in 1..m : r[i] \in A
    BY <1>8, <1>10, <1>11, <1>13, ElementOfSeq
  <2> QED
    BY <1>13, <1>15, <2>1, SubSeqProperties
<1>18. d \in Seq(A) /\ Len(d) = m /\ \A i \in 1..m : d[i] = s[i]
  <2>1. \A i \in 1..m : s[i] \in A
    BY <1>11, <1>13, ElementOfSeq
  <2> QED
    BY <1>13, <1>15, <2>1, SubSeqProperties
<1>19. c # << >> /\ c[1] = p[1]
  <2>1. 1 \in 1..m
    BY <1>13
  <2> QED
    BY <1>8, <1>13, <1>17, <2>1, EmptySeq
<1>20. d = First(c, x)
  <2>1. d[1] = x
    <3>1. 1 \in 1..m
      BY <1>13
    <3> QED
      BY <1>11, <1>18, <3>1
  <2>2. \A i \in 2..m : i \in 1..m /\ i \in 2..k
    BY <1>11, <1>13
  <2>3. \A i \in 2..Len(c) : d[i] = c[i]
    BY <1>11, <1>17, <1>18, <2>2
  <2>4. Len(d) = Len(c)
    BY <1>17, <1>18
  <2> QED
    BY <1>17, <1>18, <1>19, <2>1, <2>3, <2>4, FirstOnly
<1> QED
  BY <1>2, <1>16, <1>17, <1>19, <1>20

\* A sequence that is not empty has a last.
LEMMA LastApart ==
  ASSUME NEW A, NEW s \in Seq(A), s # << >>
  PROVE  \E r \in Seq(A), y \in A : s = Append(r, y)
<1> DEFINE T == {t \in Seq(A) : t # << >> => \E r \in Seq(A), y \in A : t = Append(r, y)}
<1>1. << >> \in T
  OBVIOUS
<1>2. ASSUME NEW t \in Seq(A), NEW x \in A, t \in T PROVE Append(t, x) \in T
  BY AppendProperties
<1> QED
  <2> HIDE DEF T
  <2>1. s \in T
    BY <1>1, <1>2, EverySequence
  <2> QED
    BY <2>1 DEF T

\* What holds of one piece, and with a sequence of one more, holds of all that
\* are not empty.
LEMMA EveryText ==
  ASSUME NEW A, NEW T, \A x \in A : <<x>> \in T,
         \A s \in Seq(A), x \in A : s # << >> /\ s \in T => Append(s, x) \in T
  PROVE  \A s \in Seq(A) : s # << >> => s \in T
<1> DEFINE U == {s \in Seq(A) : s # << >> => s \in T}
<1>1. << >> \in U
  OBVIOUS
<1>2. ASSUME NEW s \in Seq(A), NEW x \in A, s \in U PROVE Append(s, x) \in U
  <2>1. Append(s, x) \in Seq(A)
    BY AppendProperties
  <2>2. CASE s = << >>
    <3>1. Append(s, x) = <<x>>
      BY <2>2
    <3> QED
      BY <2>1, <3>1
  <2>3. CASE s # << >>
    BY <1>2, <2>1, <2>3
  <2> QED
    BY <2>2, <2>3
<1> QED
  <2> HIDE DEF U
  <2>1. \A s \in Seq(A) : s \in U
    BY <1>1, <1>2, EverySequence
  <2> QED
    BY <2>1 DEF U

\* One piece more, and what Collapse makes of it.
LEMMA CollapseGrows ==
  ASSUME NEW A, NEW s \in Seq(A), s # << >>, NEW x \in A
  PROVE  /\ Hook!Collapse(s) \in Seq(A) /\ Hook!Collapse(s) # << >>
         /\ Hook!Collapse(s)[Len(Hook!Collapse(s))] = s[Len(s)]
         /\ Hook!Collapse(Append(s, x)) =
              IF Len(s) > 1 /\ s[Len(s)] = Hook!Blank /\ x = Hook!Blank THEN Hook!Collapse(s)
              ELSE Append(Hook!Collapse(s), x)
<1>1. \A p : Hook!Collapse(p) = Hook!PiecesAt(p, Left(p))
  BY DEF Hook!Collapse, Left
<1>2. PICK n : n = Len(s)
  OBVIOUS
<1>3. n \in Nat /\ n > 0 /\ DOMAIN s = 1..n
  BY <1>2, EmptySeq, LenProperties
<1>4. PICK r \in Seq(A), y \in A : s = Append(r, y)
  BY LastApart
<1>5. Len(r) + 1 = n /\ s[n] = y
  BY <1>2, <1>4, AppendProperties
<1>6. \A P : \A p \in Seq(A), z \in A :
        /\ Hook!PiecesAt(p, P) \in Seq(A)
        /\ Hook!PiecesAt(Append(p, z), P) =
             IF Len(p) + 1 \in P THEN Append(Hook!PiecesAt(p, P), z) ELSE Hook!PiecesAt(p, P)
  BY PiecesGrow
<1>7. PICK t : t = Append(s, x)
  OBVIOUS
<1>8. t \in Seq(A) /\ Len(t) = n + 1 /\ t[n + 1] = x /\ (\A i \in 1..n : t[i] = s[i]) /\ DOMAIN t = 1..(n + 1)
  BY <1>2, <1>7, AppendProperties, LenProperties
<1>9. PICK P, Q : P = Left(s) /\ Q = Left(t)
  OBVIOUS
<1>10. n \in P /\ n + 1 \in Q
  BY <1>2, <1>3, <1>8, <1>9 DEF Left
<1>11. \A i \in 1..(n - 1) : i \in P <=> i \in Q
  <2>1. ASSUME NEW i \in 1..(n - 1) PROVE i \in P <=> i \in Q
    <3>1. i \in 1..n /\ i + 1 \in 1..n /\ i \in 1..(n + 1) /\ i < n /\ i < n + 1
      BY <1>3
    <3>2. t[i] = s[i] /\ t[i + 1] = s[i + 1]
      BY <1>8, <3>1
    <3> QED
      BY <1>2, <1>3, <1>8, <1>9, <3>1, <3>2 DEF Left
  <2> QED
    BY <2>1
<1>12. n \in Q <=> ~(n > 1 /\ y = Hook!Blank /\ x = Hook!Blank)
  <2>1. n \in 1..n /\ n \in 1..(n + 1) /\ n < n + 1
    BY <1>3
  <2>2. t[n] = y
    BY <1>5, <1>8, <2>1
  <2> QED
    BY <1>8, <1>9, <2>1, <2>2 DEF Left
<1>13. PICK k : k = Hook!PiecesAt(r, P)
  OBVIOUS
<1>14. k \in Seq(A) /\ k = Hook!PiecesAt(r, Q)
  <2>1. \A i \in DOMAIN r : i \in P <=> i \in Q
    <3>1. DOMAIN r = 1..(n - 1)
      BY <1>3, <1>5, LenProperties
    <3> QED
      BY <1>11, <3>1
  <2> QED
    BY <1>6, <1>13, <2>1, PiecesSame
<1>15. Hook!Collapse(s) = Append(k, y)
  BY <1>1, <1>4, <1>5, <1>6, <1>9, <1>10, <1>13
<1>16. Hook!Collapse(t) = IF n \in Q THEN Append(Append(k, y), x) ELSE Append(k, x)
  <2>1. Hook!PiecesAt(s, Q) = IF n \in Q THEN Append(k, y) ELSE k
    BY <1>4, <1>5, <1>6, <1>14
  <2>2. Hook!PiecesAt(t, Q) = Append(Hook!PiecesAt(s, Q), x)
    BY <1>2, <1>6, <1>7, <1>10
  <2> QED
    BY <1>1, <1>9, <2>1, <2>2
<1>17. Append(k, y) \in Seq(A) /\ Append(k, y) # << >> /\ Append(k, y)[Len(Append(k, y))] = y
  BY <1>14, AppendProperties
<1> QED
  BY <1>2, <1>5, <1>7, <1>12, <1>15, <1>16, <1>17

\* And what TrimRight makes of it.
LEMMA TrimGrows ==
  ASSUME NEW A, NEW s \in Seq(A), s # << >>, NEW x \in A
  PROVE  Hook!TrimRight(Append(s, x)) =
           IF x = Hook!Blank THEN Hook!TrimRight(s) ELSE Append(s, x)
<1>1. PICK t, n : t = Append(s, x) /\ n = Len(s)
  OBVIOUS
<1>2. /\ n \in Nat /\ n > 0
      /\ t \in Seq(A) /\ t # << >> /\ Len(t) = n + 1 /\ t[n + 1] = x
      /\ \A i \in 1..n : t[i] = s[i]
  BY <1>1, EmptySeq, AppendProperties
<1>3. CASE x = Hook!Blank
  <2>1. PICK m : Stops(s, m)
    BY TrimStops
  <2>2. m \in 1..n
    BY <1>1, <2>1 DEF Stops
  <2>3. Stops(t, m)
    <3>1. m \in 1..(n + 1) /\ (m = 1 \/ t[m] # Hook!Blank)
      BY <1>2, <2>1, <2>2 DEF Stops
    <3>2. ASSUME NEW i \in (m + 1)..(n + 1) PROVE t[i] = Hook!Blank
      <4>1. i = n + 1 \/ (i \in (m + 1)..n /\ i \in 1..n)
        BY <1>2, <2>2
      <4> QED
        BY <1>1, <1>2, <1>3, <2>1, <4>1 DEF Stops
    <3> QED
      BY <1>2, <3>1, <3>2 DEF Stops
  <2>4. Hook!TrimRight(s) = SubSeq(s, 1, m) /\ Hook!TrimRight(t) = SubSeq(t, 1, m)
    BY <1>2, <2>1, <2>3, TrimStops
  <2>5. SubSeq(s, 1, m) = SubSeq(t, 1, m)
    <3>1. \A i \in 1..m : i \in 1..n /\ i \in 1..(n + 1)
      BY <1>2, <2>2
    <3>2. \A i \in 1..m : s[i] \in A /\ t[i] = s[i]
      BY <1>1, <1>2, <3>1, ElementOfSeq
    <3>3. PICK c, d : c = SubSeq(s, 1, m) /\ d = SubSeq(t, 1, m)
      OBVIOUS
    <3>4. c \in Seq(A) /\ Len(c) = m /\ \A i \in 1..m : c[i] = s[i]
      BY <2>2, <3>2, <3>3, SubSeqProperties
    <3>5. d \in Seq(A) /\ Len(d) = m /\ \A i \in 1..m : d[i] = t[i]
      BY <2>2, <3>2, <3>3, SubSeqProperties
    <3> QED
      BY <2>2, <3>2, <3>3, <3>4, <3>5, SeqEqual
  <2> QED
    BY <1>1, <1>3, <2>4, <2>5
<1>4. CASE x # Hook!Blank
  <2>1. Stops(t, n + 1)
    BY <1>2, <1>4 DEF Stops
  <2>2. Hook!TrimRight(t) = SubSeq(t, 1, n + 1)
    BY <1>2, <2>1, TrimStops
  <2> QED
    BY <1>1, <1>2, <1>4, <2>2, SubSeqFull
<1> QED
  BY <1>3, <1>4

\* What both make of one piece.
LEMMA OneIsClean ==
  ASSUME NEW x
  PROVE  Hook!Collapse(<<x>>) = <<x>> /\ Hook!TrimRight(<<x>>) = <<x>>
<1>1. PICK h : h = <<x>>
  OBVIOUS
<1>2. h \in Seq({x}) /\ h # << >> /\ Len(h) = 1 /\ DOMAIN h = {1} /\ h[1] = x
  BY <1>1
<1>3. Hook!TrimRight(h) = h
  <2>1. Stops(h, 1)
    BY <1>2 DEF Stops
  <2>2. Hook!TrimRight(h) = SubSeq(h, 1, 1)
    BY <1>2, <2>1, TrimStops
  <2>3. SubSeq(h, 1, Len(h)) = h
    BY <1>2, SubSeqFull
  <2> QED
    BY <1>2, <2>2, <2>3
<1>4. Hook!Collapse(h) = h
  <2>1. PICK P : P = Left(h)
    OBVIOUS
  <2>2. 1 \in P
    BY <1>2, <2>1 DEF Left
  <2>3. PICK A, e : A = {x} /\ e = << >>
    OBVIOUS
  <2>4. x \in A /\ e \in Seq(A) /\ h = Append(e, x) /\ Len(e) + 1 = 1 /\ Append(e, x) = <<x>>
    BY <1>1, <2>3
  <2>5. Hook!PiecesAt(Append(e, x), P) = Append(Hook!PiecesAt(e, P), x)
    <3>1. e \in Seq(A) /\ x \in A
      BY <2>4
    <3>2. Hook!PiecesAt(Append(e, x), P) =
            IF Len(e) + 1 \in P THEN Append(Hook!PiecesAt(e, P), x) ELSE Hook!PiecesAt(e, P)
      BY <3>1, PiecesGrow
    <3> QED
      BY <2>2, <2>4, <3>2
  <2>6. Hook!PiecesAt(h, P) = h
    <3>1. Hook!PiecesAt(<< >>, P) = << >>
      BY <2>3, <2>4, PiecesGrow
    <3> QED
      BY <2>3, <2>4, <2>5, <3>1
  <2> QED
    BY <2>1, <2>6 DEF Hook!Collapse, Left
<1> QED
  BY <1>1, <1>3, <1>4

\* What is collapsed has nothing left to collapse, and only blanks are gone.
LEMMA CollapseTwice ==
  ASSUME NEW A, NEW p \in Seq(A), p # << >>, NEW V, Hook!Blank \notin V
  PROVE  /\ Hook!Collapse(Hook!Collapse(p)) = Hook!Collapse(p)
         /\ Only(Hook!Collapse(p), V) = Only(p, V)
<1> DEFINE C(s) == Hook!Collapse(s)
           holds(s) == /\ Len(C(s)) > 1 <=> Len(s) > 1
                       /\ C(C(s)) = C(s)
                       /\ Only(C(s), V) = Only(s, V)
           T == {s \in Seq(A) : holds(s)}
<1> HIDE DEF C
<1>1. \A x : C(<<x>>) = <<x>>
  BY OneIsClean DEF C
<1>2. ASSUME NEW s \in Seq(A), s # << >>, NEW x \in A
      PROVE  /\ C(s) \in Seq(A) /\ C(s) # << >> /\ C(s)[Len(C(s))] = s[Len(s)]
             /\ C(Append(s, x)) = IF Len(s) > 1 /\ s[Len(s)] = Hook!Blank /\ x = Hook!Blank
                                  THEN C(s) ELSE Append(C(s), x)
  <2> HIDE DEF T
  <2> QED
    BY <1>2, CollapseGrows DEF C
<1>3. \A s \in Seq(A), x \in A :
        Only(Append(s, x), V) = IF x \in V THEN Append(Only(s, V), x) ELSE Only(s, V)
  BY OnlyGrows
<1>4. \A x \in A : <<x>> \in T
  <2>1. ASSUME NEW x \in A PROVE holds(<<x>>)
    BY <1>1
  <2>2. \A x \in A : <<x>> \in Seq(A)
    OBVIOUS
  <2> HIDE DEF holds
  <2> QED
    BY <2>1, <2>2
<1>5. ASSUME NEW s \in Seq(A), NEW x \in A, s # << >>, s \in T
      PROVE  Append(s, x) \in T
  <2>1. PICK t, c : t = Append(s, x) /\ c = C(s)
    OBVIOUS
  <2>2. /\ c \in Seq(A) /\ c # << >> /\ c[Len(c)] = s[Len(s)]
        /\ C(t) = IF Len(s) > 1 /\ s[Len(s)] = Hook!Blank /\ x = Hook!Blank
                  THEN c ELSE Append(c, x)
    BY <1>2, <1>5, <2>1
  <2>3. (Len(c) > 1 <=> Len(s) > 1) /\ C(c) = c /\ Only(c, V) = Only(s, V)
    BY <1>5, <2>1
  <2>4. C(Append(c, x)) = IF Len(c) > 1 /\ c[Len(c)] = Hook!Blank /\ x = Hook!Blank
                          THEN C(c) ELSE Append(C(c), x)
    BY <1>2, <2>2
  <2>5. t \in Seq(A) /\ Len(t) > 1 /\ Len(Append(c, x)) > 1
    <3>1. Len(t) = Len(s) + 1 /\ Len(Append(c, x)) = Len(c) + 1 /\ t \in Seq(A)
      BY <2>1, <2>2, AppendProperties
    <3>2. Len(s) \in Nat /\ Len(s) > 0 /\ Len(c) \in Nat /\ Len(c) > 0
      BY <1>5, <2>2, EmptySeq
    <3> QED
      BY <3>1, <3>2
  <2>6. /\ Only(t, V) = IF x \in V THEN Append(Only(s, V), x) ELSE Only(s, V)
        /\ Only(Append(c, x), V) = IF x \in V THEN Append(Only(c, V), x) ELSE Only(c, V)
    BY <1>3, <2>1, <2>2
  <2>7. CASE Len(s) > 1 /\ s[Len(s)] = Hook!Blank /\ x = Hook!Blank
    <3>1. C(t) = c
      BY <2>2, <2>7
    <3>2. Only(t, V) = Only(s, V)
      BY <2>6, <2>7
    <3>3. holds(t)
      BY <2>3, <2>5, <2>7, <3>1, <3>2
    <3> QED
      BY <2>1, <2>5, <3>3
  <2>8. CASE ~(Len(s) > 1 /\ s[Len(s)] = Hook!Blank /\ x = Hook!Blank)
    <3>1. C(t) = Append(c, x)
      BY <2>2, <2>8
    <3>2. C(C(t)) = C(t)
      BY <2>2, <2>3, <2>4, <2>8, <3>1
    <3>3. Only(C(t), V) = Only(t, V)
      BY <2>3, <2>6, <3>1
    <3>4. holds(t)
      BY <2>5, <3>1, <3>2, <3>3
    <3> QED
      BY <2>1, <2>5, <3>4
  <2> QED
    BY <2>7, <2>8
<1>6. p \in T
  <2> HIDE DEF T
  <2> QED
    BY <1>4, <1>5, EveryText
<1> QED
  BY <1>6 DEF C

\* A blank piece at the end goes, and any other ends the message.
LEMMA CleanGrows ==
  ASSUME NEW A, NEW s \in Seq(A), s # << >>, NEW x \in A
  PROVE  Clean(Append(s, x)) = IF x = Hook!Blank THEN Clean(s)
                               ELSE Append(Hook!Collapse(s), x)
<1>1. PICK c : c = Hook!Collapse(s)
  OBVIOUS
<1>2. /\ c \in Seq(A) /\ c # << >>
      /\ Hook!Collapse(Append(s, x)) =
           IF Len(s) > 1 /\ s[Len(s)] = Hook!Blank /\ x = Hook!Blank THEN c ELSE Append(c, x)
  BY <1>1, CollapseGrows
<1>3. Hook!TrimRight(Append(c, x)) = IF x = Hook!Blank THEN Hook!TrimRight(c) ELSE Append(c, x)
  BY <1>2, TrimGrows
<1> QED
  BY <1>1, <1>2, <1>3 DEF Clean

\* What is clean stays, and only blanks are gone.
LEMMA CleanTwice ==
  ASSUME NEW A, NEW p \in Seq(A), p # << >>, NEW V, Hook!Blank \notin V
  PROVE  /\ Clean(Clean(p)) = Clean(p)
         /\ Only(Clean(p), V) = Only(p, V)
<1> DEFINE T == {s \in Seq(A) : Clean(Clean(s)) = Clean(s) /\ Only(Clean(s), V) = Only(s, V)}
<1>1. \A x \in A : <<x>> \in T
  <2>1. \A x : Clean(<<x>>) = <<x>>
    BY OneIsClean DEF Clean
  <2>2. \A x \in A : <<x>> \in Seq(A)
    OBVIOUS
  <2> QED
    BY <2>1, <2>2
<1>2. ASSUME NEW s \in Seq(A), NEW x \in A, s # << >>, s \in T
      PROVE  Append(s, x) \in T
  <2>1. PICK t, c : t = Append(s, x) /\ c = Hook!Collapse(s)
    OBVIOUS
  <2>2. t \in Seq(A) /\ c \in Seq(A) /\ c # << >>
    BY <1>2, <2>1, AppendProperties, CollapseGrows
  <2>3. Clean(t) = IF x = Hook!Blank THEN Clean(s) ELSE Append(c, x)
    BY <1>2, <2>1, CleanGrows
  <2>4. Only(t, V) = IF x \in V THEN Append(Only(s, V), x) ELSE Only(s, V)
    BY <2>1, OnlyGrows
  <2>5. CASE x = Hook!Blank
    BY <1>2, <2>1, <2>2, <2>3, <2>4, <2>5
  <2>6. CASE x # Hook!Blank
    <3>1. Clean(Append(c, x)) = Append(Hook!Collapse(c), x)
      BY <2>2, <2>6, CleanGrows
    <3>2. Hook!Collapse(c) = c /\ Only(c, V) = Only(s, V)
      BY <1>2, <2>1, CollapseTwice
    <3>3. Only(Append(c, x), V) = IF x \in V THEN Append(Only(c, V), x) ELSE Only(c, V)
      BY <2>2, OnlyGrows
    <3> QED
      BY <2>1, <2>2, <2>3, <2>4, <2>6, <3>1, <3>2, <3>3
  <2> QED
    BY <2>5, <2>6
<1>3. p \in T
  <2> HIDE DEF T
  <2> QED
    BY <1>1, <1>2, EveryText
<1> QED
  BY <1>3

\* The texts with their suffixes, and what the trailer may hold.
TextPieces(X, S) == [is : {"text"}, text : X \cup {""}, ai : Seq(S)]

\* The pieces a record is made of.
Recorded(res, agents) ==
    {Hook!Mark, Hook!Ours("AI-Contribution", Hook!Percent(res)),
     Hook!Ours("AI-Lines", <<res.ai, res.total>>),
     Hook!Ours("AI-Agent", IF agents = {} THEN {"unknown"} ELSE agents),
     Hook!Ours("AI-Provenance-ID", res.sessions)}

\* The hook takes the one for text and the other for its own.
LEMMA PieceKinds ==
  ASSUME NEW X, NEW S, NEW res, NEW agents
  PROVE  /\ Hook!Blank \in TextPieces(X, S)
         /\ \A x \in TextPieces(X, S) : x.is = "text" /\ ~Hook!IsOurs(x)
         /\ \A x \in Recorded(res, agents) : x.is # "text" /\ Hook!IsOurs(x)
<1>1. << >> \in Seq(S)
  OBVIOUS
<1>2. Hook!Blank \in TextPieces(X, S)
  BY <1>1 DEF TextPieces, Hook!Blank, Hook!Words
<1>3. \A x \in TextPieces(X, S) : x.is = "text"
  BY DEF TextPieces
<1>4. \A x \in Recorded(res, agents) : x.is \in {"ours", "mark"}
  BY DEF Recorded, Hook!Ours, Hook!Mark
<1> QED
  BY <1>2, <1>3, <1>4 DEF Hook!IsOurs

\* The line of a field.
LineOf(field, res, agents) ==
    CASE field = "coverage" -> <<Hook!Ours("AI-Contribution", Hook!Percent(res))>>
      [] field = "lines" -> <<Hook!Ours("AI-Lines", <<res.ai, res.total>>)>>
      [] field = "agent" -> <<Hook!Ours("AI-Agent", IF agents = {} THEN {"unknown"} ELSE agents)>>
      [] OTHER -> IF res.sessions = <<>> THEN <<>>
                  ELSE <<Hook!Ours("AI-Provenance-ID", res.sessions)>>

\* The lines of some fields.
LinesOf(fields, res, agents) == Flat([i \in DOMAIN fields |-> LineOf(fields[i], res, agents)])

\* The trailer is the mark, when there is to be one, and the lines.
LEMMA TrailerIs ==
  ASSUME NEW res, NEW agents, NEW settings
  PROVE  Hook!RenderTrailer(res, agents, settings) =
           LET lines == LinesOf(settings.trailer.fields, res, agents)
           IN  IF res.total = 0 \/ lines = <<>> THEN <<>>
               ELSE IF settings.trailer.comments THEN <<Hook!Mark>> \o lines ELSE lines
BY FlattenIsFlat DEF Hook!RenderTrailer, LinesOf, LineOf

\* One field more, one line more at most.
LEMMA LinesGrow ==
  ASSUME NEW F, NEW fields \in Seq(F), NEW field \in F, NEW res, NEW agents
  PROVE  /\ LinesOf(<< >>, res, agents) = << >>
         /\ LinesOf(fields, res, agents) \in Seq(Recorded(res, agents))
         /\ LineOf(field, res, agents) \in Seq(Recorded(res, agents))
         /\ LinesOf(Append(fields, field), res, agents)
              = LinesOf(fields, res, agents) \o LineOf(field, res, agents)
<1> DEFINE L(fs) == [i \in DOMAIN fs |-> LineOf(fs[i], res, agents)]
<1>1. PICK R : R = Recorded(res, agents)
  OBVIOUS
<1>2. \A f : LineOf(f, res, agents) \in Seq(R)
  <2>1. \A x \in R : <<x>> \in Seq(R) /\ << >> \in Seq(R)
    OBVIOUS
  <2> QED
    BY <1>1, <2>1 DEF LineOf, Recorded
<1>3. \A fs : LinesOf(fs, res, agents) = Flat(L(fs))
  BY DEF LinesOf
<1>4. PICK n \in Nat : n = Len(fields)
  BY LenProperties
<1>5. PICK t : t = Append(fields, field)
  OBVIOUS
<1>6. DOMAIN fields = 1..n /\ DOMAIN t = 1..(n + 1) /\ t[n + 1] = field /\ \A i \in 1..n : t[i] = fields[i]
  BY <1>4, <1>5, AppendProperties, LenProperties
<1>7. L(fields) \in [1..n -> Seq(R)] /\ L(t) \in [1..(n + 1) -> Seq(R)]
  BY <1>2, <1>6
<1>8. (\A i \in 1..n : L(t)[i] = L(fields)[i]) /\ L(t)[n + 1] = LineOf(field, res, agents)
  <2>1. n + 1 \in 1..(n + 1)
    OBVIOUS
  <2> QED
    BY <1>6, <2>1
<1>9. Flat(L(<< >>)) = << >>
  <2>1. L(<< >>) = << >>
    OBVIOUS
  <2>2. Flat(<< >>) = << >>
    BY DEF Flat
  <2> QED
    BY <2>1, <2>2
<1> HIDE DEF L
<1>10. Flat(L(fields)) \in Seq(R) /\ Flat(L(t)) = Flat(L(fields)) \o L(t)[n + 1]
  BY <1>7, <1>8, FlatNext
<1> QED
  BY <1>1, <1>2, <1>3, <1>5, <1>8, <1>9, <1>10

\* The trailer holds what is ai-prov's and nothing else.
LEMMA TrailerTyped ==
  ASSUME NEW res, NEW agents, NEW settings, NEW F, settings.trailer.fields \in Seq(F)
  PROVE  Hook!RenderTrailer(res, agents, settings) \in Seq(Recorded(res, agents))
<1>1. PICK R, lines : R = Recorded(res, agents) /\ lines = LinesOf(settings.trailer.fields, res, agents)
  OBVIOUS
<1>2. lines \in Seq(R)
  <2>1. CASE settings.trailer.fields = << >>
    <3>1. "lines" \in {"lines"} /\ << >> \in Seq({"lines"})
      OBVIOUS
    <3> QED
      BY <1>1, <2>1, <3>1, LinesGrow
  <2>2. CASE settings.trailer.fields # << >>
    <3>1. settings.trailer.fields[1] \in F
      BY <2>2, EmptySeq, ElementOfSeq
    <3> QED
      BY <1>1, <3>1, LinesGrow
  <2> QED
    BY <2>1, <2>2
<1>3. << >> \in Seq(R) /\ <<Hook!Mark>> \in Seq(R)
  <2>1. Hook!Mark \in R
    BY <1>1 DEF Recorded
  <2> QED
    BY <2>1
<1>4. <<Hook!Mark>> \o lines \in Seq(R)
  BY <1>2, <1>3, ConcatProperties
<1> QED
  BY <1>1, <1>2, <1>3, <1>4, TrailerIs

\* The title with what is recorded now.
Titled(title, res, titleCoverage) ==
    LET bare == IF title.ai = <<>> THEN <<>> ELSE Hook!Front(title.ai)
        suffixes == IF titleCoverage /\ res.total > 0 THEN Append(bare, Hook!Percent(res)) ELSE bare
    IN  [title EXCEPT !.ai = suffixes]

\* A message with nothing but ai-prov's pieces has a blank title.
TextOf(kept) == IF kept = <<>> THEN <<Hook!Blank>> ELSE kept

\* The message around the trailer.
Around(clean, trailer) ==
    IF trailer = <<>> THEN Append(clean, Hook!Blank)
    ELSE clean \o <<Hook!Blank>> \o trailer \o <<Hook!Blank>>

\* What is rewritten, by the pieces that are kept.
LEMMA RewriteIs ==
  ASSUME NEW N, NEW O, \A x \in N : ~Hook!IsOurs(x), \A x \in O : Hook!IsOurs(x),
         NEW msg \in Seq(N \cup O), NEW trailer, NEW res, NEW titleCoverage
  PROVE  Hook!Rewrite(msg, trailer, res, titleCoverage) =
           LET pieces == TextOf(Only(msg, N))
           IN  Around(Clean(First(pieces, Titled(pieces[1], res, titleCoverage))), trailer)
<1>1. Hook!PiecesAt(msg, {i \in DOMAIN msg : ~Hook!IsOurs(msg[i])}) = Only(msg, N)
  <2>1. \A i \in DOMAIN msg : msg[i] \in N \cup O
    BY LenProperties, ElementOfSeq
  <2>2. \A i \in DOMAIN msg : ~Hook!IsOurs(msg[i]) <=> msg[i] \in N
    BY <2>1
  <2> QED
    BY <2>2, PiecesSame DEF Only
<1> QED
  BY <1>1 DEF Hook!Rewrite, Hook!RewriteTitleCoverage, Titled, TextOf, Around, Clean, First

\* What is not ai-prov's of what the hook writes: the text and one or two blanks.
Padded(clean, trailer) ==
    IF trailer = <<>> THEN Append(clean, Hook!Blank)
    ELSE Append(Append(clean, Hook!Blank), Hook!Blank)

\* One piece behind the others leaves the first one.
LEMMA Appended ==
  ASSUME NEW A, NEW s \in Seq(A), s # << >>, NEW x \in A
  PROVE  /\ Append(s, x) \in Seq(A) /\ Append(s, x) # << >> /\ Append(s, x)[1] = s[1]
         /\ Append(s, x) = s \o <<x>>
<1>1. 1 \in 1..Len(s)
  BY EmptySeq
<1> QED
  BY <1>1, AppendProperties

\* The blanks behind leave the first piece.
LEMMA PaddedIs ==
  ASSUME NEW N, Hook!Blank \in N, NEW c \in Seq(N), c # << >>, NEW trailer
  PROVE  /\ Padded(c, trailer) \in Seq(N) /\ Padded(c, trailer) # << >>
         /\ Padded(c, trailer)[1] = c[1]
<1>1. PICK a : a = Append(c, Hook!Blank)
  OBVIOUS
<1>2. a \in Seq(N) /\ a # << >> /\ a[1] = c[1]
  BY <1>1, Appended
<1>3. Append(a, Hook!Blank) \in Seq(N) /\ Append(a, Hook!Blank) # << >> /\ Append(a, Hook!Blank)[1] = a[1]
  BY <1>2, Appended
<1> QED
  BY <1>1, <1>2, <1>3 DEF Padded

\* Of what the hook writes the trailer goes when it runs again.
LEMMA KeptAround ==
  ASSUME NEW N, Hook!Blank \in N, NEW c \in Seq(N), c # << >>, NEW R, R \cap N = {},
         NEW trailer \in Seq(R)
  PROVE  Only(Around(c, trailer), N) = Padded(c, trailer)
<1>1. PICK a, d, e : a = Append(c, Hook!Blank) /\ d = Append(a, Hook!Blank) /\ e = <<Hook!Blank>>
  OBVIOUS
<1>2. a \in Seq(N) /\ a # << >> /\ a = c \o e /\ e \in Seq(N)
  BY <1>1, Appended
<1>3. d = a \o e
  BY <1>1, <1>2, Appended
<1>4. ASSUME NEW p \in Seq(N) PROVE Only(p, N) = p
  BY OnlyAll
<1>5. Only(trailer, N) = << >>
  BY OnlyNone
<1>6. ASSUME NEW A, NEW p \in Seq(A), NEW q \in Seq(A)
      PROVE  Only(p \o q, N) = Only(p, N) \o Only(q, N)
  BY OnlyConcat
<1>7. CASE trailer = << >>
  BY <1>1, <1>2, <1>4, <1>7 DEF Around, Padded
<1>8. CASE trailer # << >>
  <2>1. PICK A, h : A = N \cup R /\ h = a \o trailer
    OBVIOUS
  <2>2. a \in Seq(A) /\ trailer \in Seq(A) /\ e \in Seq(A)
    BY <1>2, <2>1
  <2>3. h \in Seq(A)
    BY <2>1, <2>2, ConcatProperties
  <2>4. Only(h, N) = a
    <3>1. Only(h, N) = Only(a, N) \o Only(trailer, N)
      BY <1>6, <2>1, <2>2
    <3> QED
      BY <1>2, <1>4, <1>5, <3>1, ConcatEmptySeq
  <2>5. Only(h \o e, N) = d
    <3>1. Only(h \o e, N) = Only(h, N) \o Only(e, N)
      BY <1>6, <2>2, <2>3
    <3>2. Only(e, N) = e
      BY <1>2, <1>4
    <3> QED
      BY <1>3, <2>4, <3>1, <3>2
  <2>6. Around(c, trailer) = h \o e
    BY <1>1, <1>2, <1>8, <2>1 DEF Around
  <2> QED
    BY <1>1, <1>8, <2>5, <2>6 DEF Padded
<1> QED
  BY <1>7, <1>8

\* Cleaned again with another first piece, the blanks are gone.
LEMMA OnceMore ==
  ASSUME NEW N, Hook!Blank \in N, NEW c \in Seq(N), c # << >>, NEW trailer, NEW x \in N
  PROVE  Clean(First(Padded(c, trailer), x)) = First(Clean(c), x)
<1>1. PICK a, d : a = Append(c, Hook!Blank) /\ d = Append(a, Hook!Blank)
  OBVIOUS
<1>2. a \in Seq(N) /\ a # << >>
  BY <1>1, Appended
<1>3. d \in Seq(N) /\ d # << >>
  BY <1>1, <1>2, Appended
<1>4. Clean(Append(c, Hook!Blank)) = Clean(c)
  BY CleanGrows
<1>5. Clean(Append(a, Hook!Blank)) = Clean(a)
  BY <1>2, CleanGrows
<1>6. Clean(First(a, x)) = First(Clean(a), x)
  BY <1>2, CleanFirst
<1>7. Clean(First(d, x)) = First(Clean(d), x)
  BY <1>3, CleanFirst
<1> QED
  BY <1>1, <1>4, <1>5, <1>6, <1>7 DEF Padded

\* The new title of a text is a text, and titled anew it is what the text is.
LEMMA TitleIs ==
  ASSUME NEW X, NEW S, NEW x \in TextPieces(X, S), NEW res, Hook!Percent(res) \in S,
         NEW titleCoverage
  PROVE  /\ Titled(x, res, titleCoverage) \in TextPieces(X, S)
         /\ \A first :
              (Len(x.ai) <= 1 \/ (titleCoverage /\ first.total > 0)) /\ Hook!Percent(first) \in S
              => Titled(Titled(x, first, titleCoverage), res, titleCoverage) = Titled(x, res, titleCoverage)
<1> DEFINE bare(ai) == IF ai = << >> THEN << >> ELSE Hook!Front(ai)
           with(ai, r) == IF titleCoverage /\ r.total > 0 THEN Append(ai, Hook!Percent(r)) ELSE ai
<1>1. \A y, r : Titled(y, r, titleCoverage) = [y EXCEPT !.ai = with(bare(y.ai), r)]
  BY DEF Titled
<1>2. x.ai \in Seq(S)
  BY DEF TextPieces
<1>3. bare(x.ai) \in Seq(S) /\ (Len(x.ai) <= 1 => bare(x.ai) = << >>)
  <2>1. CASE x.ai = << >>
    BY <2>1
  <2>2. CASE x.ai # << >>
    <3>1. PICK s, n : s = x.ai /\ n = Len(s)
      OBVIOUS
    <3>2. s \in Seq(S) /\ n \in Nat /\ n > 0
      BY <1>2, <2>2, <3>1, EmptySeq
    <3>3. Hook!Front(s) = SubSeq(s, 1, n - 1)
      BY <3>1 DEF Hook!Front
    <3>4. \A i \in 1..(n - 1) : s[i] \in S
      BY <3>1, <3>2, ElementOfSeq
    <3>5. SubSeq(s, 1, n - 1) \in Seq(S)
      BY <3>2, <3>4, SubSeqProperties
    <3>6. n <= 1 => SubSeq(s, 1, n - 1) = << >>
      BY <3>2, SubSeqEmpty
    <3> QED
      BY <2>2, <3>1, <3>3, <3>5, <3>6
  <2> QED
    BY <2>1, <2>2
<1>4. PICK b : b = bare(x.ai)
  OBVIOUS
<1>5. \A p \in S : Append(b, p) \in Seq(S) /\ bare(Append(b, p)) = b
  <2>1. ASSUME NEW p \in S PROVE Append(b, p) \in Seq(S) /\ bare(Append(b, p)) = b
    <3>1. PICK s, n : s = Append(b, p) /\ n = Len(b)
      OBVIOUS
    <3>2. n \in Nat /\ b \in Seq(S) /\ s \in Seq(S) /\ Len(s) = n + 1 /\ s # << >> /\ \A i \in 1..n : s[i] = b[i]
      BY <1>3, <1>4, <3>1, AppendProperties
    <3>3. bare(s) = SubSeq(s, 1, n)
      BY <3>2 DEF Hook!Front
    <3>4. PICK d : d = SubSeq(s, 1, n)
      OBVIOUS
    <3>5. \A i \in 1..n : s[i] \in S
      BY <3>1, <3>2, ElementOfSeq
    <3>6. d \in Seq(S) /\ Len(d) = n /\ \A i \in 1..n : d[i] = s[i]
      BY <3>2, <3>4, <3>5, SubSeqProperties
    <3>7. d = b
      BY <3>1, <3>2, <3>6, SeqEqual
    <3> QED
      BY <3>1, <3>2, <3>3, <3>4, <3>7
  <2> QED
    BY <2>1
<1>6. b \in Seq(S) /\ bare(<< >>) = << >> /\ (Len(x.ai) <= 1 => b = << >>)
  BY <1>3, <1>4
<1> HIDE DEF bare
<1>7. with(b, res) \in Seq(S)
  BY <1>5, <1>6
<1>8. Titled(x, res, titleCoverage) \in TextPieces(X, S)
  <2>1. Titled(x, res, titleCoverage) = [x EXCEPT !.ai = with(b, res)]
    BY <1>1, <1>4
  <2>2. PICK w : w = with(b, res)
    OBVIOUS
  <2>3. [x EXCEPT !.ai = w] \in TextPieces(X, S)
    BY <1>7, <2>2 DEF TextPieces
  <2> QED
    BY <2>1, <2>2, <2>3
<1>9. ASSUME NEW first, Len(x.ai) <= 1 \/ (titleCoverage /\ first.total > 0), Hook!Percent(first) \in S
      PROVE  Titled(Titled(x, first, titleCoverage), res, titleCoverage) = Titled(x, res, titleCoverage)
  <2>1. PICK y, w : y = Titled(x, first, titleCoverage) /\ w = with(b, first)
    OBVIOUS
  <2>2. y = [x EXCEPT !.ai = w]
    BY <1>1, <1>4, <2>1
  <2>3. y.ai = w /\ \A v : [y EXCEPT !.ai = v] = [x EXCEPT !.ai = v]
    BY <2>2 DEF TextPieces
  <2>4. bare(w) = b
    BY <1>5, <1>6, <1>9, <2>1
  <2> QED
    BY <1>1, <1>4, <2>1, <2>3, <2>4
<1> QED
  BY <1>8, <1>9

\* What is kept of a kind is of that kind.
LEMMA OnlyOf ==
  ASSUME NEW A, NEW s \in Seq(A), NEW V
  PROVE  Only(s, V) \in Seq(A \cap V)
<1> DEFINE T == {r \in Seq(A) : Only(r, V) \in Seq(A \cap V)}
<1>1. << >> \in T
  <2>1. << >> \in Seq(A) /\ << >> \in Seq(A \cap V)
    OBVIOUS
  <2> QED
    BY <2>1, OnlyOfNone
<1>2. ASSUME NEW r \in Seq(A), NEW x \in A, r \in T PROVE Append(r, x) \in T
  <2>1. Append(r, x) \in Seq(A) /\ (x \in V => Append(Only(r, V), x) \in Seq(A \cap V))
    BY <1>2, AppendProperties
  <2>2. Only(Append(r, x), V) = IF x \in V THEN Append(Only(r, V), x) ELSE Only(r, V)
    BY OnlyGrows
  <2> QED
    BY <1>2, <2>1, <2>2
<1> QED
  <2> HIDE DEF T
  <2>1. s \in T
    BY <1>1, <1>2, EverySequence
  <2> QED
    BY <2>1 DEF T

\* What the hook adds.
Trailer(res, agentOf, settings) ==
    IF settings.writeTrailer
    THEN Hook!RenderTrailer(res, Hook!SessionAgents(res.sessions, agentOf), settings) ELSE <<>>

\* The pieces that record what verify says.
OursIn(res, agentOf) == Recorded(res, Hook!SessionAgents(res.sessions, agentOf))

\* A message of texts N with suffixes S and of pieces that are ai-prov's, what
\* verify says, and the settings.
HookInput(N, S, msg, res, settings) ==
    /\ \E X : N = TextPieces(X, S)
    /\ \E O : msg \in Seq(N \cup O) /\ \A x \in O : Hook!IsOurs(x)
    /\ Hook!Percent(res) \in S
    /\ \E F : settings.trailer.fields \in Seq(F)

\* What the hook writes.
LEMMA HookWrites ==
  ASSUME NEW N, NEW S, NEW msg, NEW res, NEW settings, HookInput(N, S, msg, res, settings),
         NEW agentOf, NEW pieces, pieces = TextOf(Only(msg, N))
  PROVE  /\ pieces \in Seq(N) /\ pieces # << >> /\ pieces[1] \in N
         /\ Titled(pieces[1], res, settings.titleCoverage) \in N
         /\ Trailer(res, agentOf, settings) \in Seq(OursIn(res, agentOf))
         /\ Hook!RunCommitMsgHook(msg, res, agentOf, settings).msg
              = Around(Clean(First(pieces, Titled(pieces[1], res, settings.titleCoverage))),
                       Trailer(res, agentOf, settings))
<1>1. PICK X : N = TextPieces(X, S)
  BY DEF HookInput
<1>2. PICK O : msg \in Seq(N \cup O) /\ \A x \in O : Hook!IsOurs(x)
  BY DEF HookInput
<1>3. Hook!Percent(res) \in S
  BY DEF HookInput
<1>4. PICK F : settings.trailer.fields \in Seq(F)
  BY DEF HookInput
<1>5. Hook!Blank \in N /\ \A x \in N : ~Hook!IsOurs(x)
  BY <1>1, PieceKinds
<1>6. pieces \in Seq(N) /\ pieces # << >> /\ pieces[1] \in N
  <2>1. (N \cup O) \cap N = N
    OBVIOUS
  <2>2. Only(msg, N) \in Seq(N)
    <3>1. Only(msg, N) \in Seq((N \cup O) \cap N)
      BY <1>2, OnlyOf
    <3> QED
      BY <2>1, <3>1
  <2>3. <<Hook!Blank>> \in Seq(N) /\ <<Hook!Blank>> # << >>
    BY <1>5
  <2>4. pieces \in Seq(N) /\ pieces # << >>
    BY <2>2, <2>3 DEF TextOf
  <2> QED
    BY <2>4, EmptySeq, ElementOfSeq
<1>7. Titled(pieces[1], res, settings.titleCoverage) \in N
  BY <1>1, <1>3, <1>6, TitleIs
<1>8. Trailer(res, agentOf, settings) \in Seq(OursIn(res, agentOf))
  <2>1. << >> \in Seq(OursIn(res, agentOf))
    OBVIOUS
  <2> QED
    BY <1>4, <2>1, TrailerTyped DEF Trailer, OursIn
<1>9. Hook!RunCommitMsgHook(msg, res, agentOf, settings).msg
        = Hook!Rewrite(msg, Trailer(res, agentOf, settings), res, settings.titleCoverage)
  BY DEF Hook!RunCommitMsgHook, Trailer
<1>10. Hook!Rewrite(msg, Trailer(res, agentOf, settings), res, settings.titleCoverage)
         = Around(Clean(First(pieces, Titled(pieces[1], res, settings.titleCoverage))),
                  Trailer(res, agentOf, settings))
  BY <1>2, <1>5, RewriteIs
<1> QED
  BY <1>6, <1>7, <1>8, <1>9, <1>10

\* What is around the trailer is text and blanks.
LEMMA AroundTyped ==
  ASSUME NEW N, Hook!Blank \in N, NEW c \in Seq(N), NEW R, NEW trailer \in Seq(R)
  PROVE  Around(c, trailer) \in Seq(N \cup R)
<1>1. PICK A, e : A = N \cup R /\ e = <<Hook!Blank>>
  OBVIOUS
<1>2. c \in Seq(A) /\ e \in Seq(A) /\ trailer \in Seq(A) /\ Append(c, Hook!Blank) = c \o e
  BY <1>1
<1>3. PICK a, h : a = c \o e /\ h = a \o trailer
  OBVIOUS
<1>4. a \in Seq(A)
  BY <1>2, <1>3, ConcatProperties
<1>5. h \in Seq(A)
  BY <1>2, <1>3, <1>4, ConcatProperties
<1>6. h \o e \in Seq(A)
  BY <1>2, <1>5, ConcatProperties
<1> QED
  BY <1>1, <1>2, <1>3, <1>4, <1>6 DEF Around

\* An amend never stacks, whatever the message, the settings and what verify
\* says: the hook over its own result gives what it gives over the original.
\* One suffix goes per run, so the title has at most one, or gets one anew.
THEOREM AmendsNeverStack ==
  ASSUME NEW N, NEW S, NEW msg, NEW first, NEW second, NEW settings, NEW agentOf,
         HookInput(N, S, msg, first, settings), HookInput(N, S, msg, second, settings),
         \/ Len(TextOf(Only(msg, N))[1].ai) <= 1
         \/ settings.titleCoverage /\ first.total > 0
  PROVE  Hook!AmendNeverStacks(msg, first, second, agentOf, settings)
<1> DEFINE pieces == TextOf(Only(msg, N))
           x1 == Titled(pieces[1], first, settings.titleCoverage)
           x2 == Titled(pieces[1], second, settings.titleCoverage)
           t1 == Trailer(first, agentOf, settings)
           t2 == Trailer(second, agentOf, settings)
           R == OursIn(first, agentOf)
           c == Clean(First(pieces, x1))
           out == Around(c, t1)
           kept == Only(out, N)
<1>1. /\ pieces \in Seq(N) /\ pieces # << >> /\ pieces[1] \in N
      /\ x1 \in N /\ t1 \in Seq(R)
      /\ Hook!RunCommitMsgHook(msg, first, agentOf, settings).msg = out
  BY HookWrites
<1>2. x2 \in N /\ Hook!RunCommitMsgHook(msg, second, agentOf, settings).msg
                   = Around(Clean(First(pieces, x2)), t2)
  BY HookWrites
<1>3. Titled(x1, second, settings.titleCoverage) = x2
  BY <1>1, TitleIs DEF HookInput
<1>4. Hook!Blank \in N /\ R \cap N = {} /\ \A x \in R : Hook!IsOurs(x)
  BY PieceKinds DEF OursIn, HookInput
<1> HIDE DEF pieces, x1, x2
<1>5. c \in Seq(N) /\ c # << >> /\ c[1] = x1 /\ Clean(c) = c
      /\ First(c, x2) = Clean(First(pieces, x2))
  <2>1. First(pieces, x1) \in Seq(N) /\ First(pieces, x1) # << >> /\ First(pieces, x1)[1] = x1
    BY <1>1, FirstIs
  <2>2. First(First(pieces, x1), x2) = First(pieces, x2)
    BY <1>1, <1>2, FirstAgain
  <2>3. PICK q : q = First(pieces, x1)
    OBVIOUS
  <2>4. q \in Seq(N) /\ q # << >> /\ q[1] = x1 /\ c = Clean(q) /\ First(q, x2) = First(pieces, x2)
    BY <2>1, <2>2, <2>3
  <2>5. /\ Clean(q) \in Seq(N) /\ Clean(q) # << >> /\ Clean(q)[1] = q[1]
        /\ Clean(First(q, x2)) = First(Clean(q), x2)
    BY <1>2, <2>4, CleanFirst
  <2>6. Clean(Clean(q)) = Clean(q)
    <3>1. Hook!Blank \notin {}
      OBVIOUS
    <3> QED
      BY <2>4, <3>1, CleanTwice
  <2> QED
    BY <2>4, <2>5, <2>6
<1> HIDE DEF c, t1, t2
<1>6. /\ kept \in Seq(N) /\ kept # << >> /\ kept[1] = c[1]
      /\ Clean(First(kept, x2)) = First(Clean(c), x2)
  <2> HIDE DEF R
  <2>1. kept = Padded(c, t1)
    BY <1>1, <1>2, <1>4, <1>5, KeptAround
  <2> HIDE DEF kept
  <2>2. Clean(First(Padded(c, t1), x2)) = First(Clean(c), x2)
    BY <1>2, <1>4, <1>5, OnceMore
  <2> QED
    BY <1>4, <1>5, <2>1, <2>2, PaddedIs
<1>7. out \in Seq(N \cup R)
  <2> HIDE DEF R
  <2> QED
    BY <1>1, <1>4, <1>5, AroundTyped
<1> HIDE DEF out
<1>8. HookInput(N, S, out, second, settings)
  BY <1>4, <1>7 DEF HookInput
<1>9. Hook!RunCommitMsgHook(out, second, agentOf, settings).msg
        = Around(Clean(First(kept, Titled(kept[1], second, settings.titleCoverage))), t2)
  <2>1. kept = TextOf(Only(out, N))
    BY <1>6 DEF TextOf
  <2> HIDE DEF kept
  <2> QED
    BY <1>8, <2>1, HookWrites DEF t2
<1> HIDE DEF kept
<1> QED
  BY <1>1, <1>2, <1>3, <1>5, <1>6, <1>9 DEF Hook!AmendNeverStacks

\* A piece without its suffixes.
Bare(piece) == [piece EXCEPT !.ai = <<>>]

\* What is not ai-prov's, of the pieces that are kept.
ForeignOf(kept, N) ==
    IF kept = <<>> THEN <<>> ELSE Only(First(kept, Bare(kept[1])), N \ {Hook!Blank})

\* A title without its suffixes is the same, whatever is recorded in it.
LEMMA BareIs ==
  ASSUME NEW X, NEW S, NEW x \in TextPieces(X, S)
  PROVE  /\ Bare(x) \in TextPieces(X, S)
         /\ \A res, titleCoverage : Bare(Titled(x, res, titleCoverage)) = Bare(x)
<1>1. << >> \in Seq(S)
  OBVIOUS
<1>2. Bare(x) \in TextPieces(X, S)
  BY <1>1 DEF Bare, TextPieces
<1>3. ASSUME NEW v PROVE Bare([x EXCEPT !.ai = v]) = Bare(x)
  BY DEF Bare, TextPieces
<1>4. ASSUME NEW res, NEW titleCoverage PROVE Bare(Titled(x, res, titleCoverage)) = Bare(x)
  <2>1. PICK v : Titled(x, res, titleCoverage) = [x EXCEPT !.ai = v]
    BY DEF Titled
  <2> QED
    BY <1>3, <2>1
<1> QED
  BY <1>2, <1>4

\* What is foreign, by the pieces that are kept.
LEMMA ForeignIs ==
  ASSUME NEW X, NEW S, NEW N, N = TextPieces(X, S), NEW O, \A x \in O : Hook!IsOurs(x),
         NEW msg \in Seq(N \cup O)
  PROVE  Hook!Foreign(msg) = ForeignOf(Only(msg, N), N)
<1>1. PICK kept : kept = Only(msg, N)
  OBVIOUS
<1>2. Hook!PiecesAt(msg, {i \in DOMAIN msg : msg[i].is = "text"}) = kept
  <2>1. \A i \in DOMAIN msg : msg[i] \in N \cup O
    BY LenProperties, ElementOfSeq
  <2>2. \A x \in O : x.is # "text"
    BY DEF Hook!IsOurs
  <2>3. \A x \in N : x.is = "text"
    BY PieceKinds
  <2>4. \A i \in DOMAIN msg : msg[i].is = "text" <=> msg[i] \in N
    BY <2>1, <2>2, <2>3
  <2> QED
    BY <1>1, <2>4, PiecesSame DEF Only
<1>3. PICK bare : bare = [i \in DOMAIN kept |-> [kept[i] EXCEPT !.ai = IF i = 1 THEN <<>> ELSE @]]
  OBVIOUS
<1>4. Hook!Foreign(msg) = Only(bare, N \ {Hook!Blank})
  <2>1. Hook!Foreign(msg) = Hook!PiecesAt(bare, {i \in DOMAIN bare : bare[i] # Hook!Blank})
    BY <1>2, <1>3 DEF Hook!Foreign
  <2>2. \A i \in DOMAIN bare : bare[i] \in N
    <3>1. kept \in Seq(N)
      <4>1. kept \in Seq((N \cup O) \cap N)
        BY <1>1, OnlyOf
      <4>2. (N \cup O) \cap N = N
        OBVIOUS
      <4> QED
        BY <4>1, <4>2
    <3>2. \A i \in DOMAIN kept : kept[i] \in N
      BY <3>1, LenProperties, ElementOfSeq
    <3>3. \A y \in N : [y EXCEPT !.ai = <<>>] \in N /\ [y EXCEPT !.ai = @] \in N
      <4>1. << >> \in Seq(S)
        OBVIOUS
      <4> QED
        BY <4>1 DEF TextPieces
    <3> QED
      BY <1>3, <3>2, <3>3
  <2>3. \A i \in DOMAIN bare : bare[i] # Hook!Blank <=> bare[i] \in N \ {Hook!Blank}
    BY <2>2
  <2> QED
    BY <2>1, <2>3, PiecesSame DEF Only
<1>5. CASE kept = << >>
  <2>1. bare = << >>
    BY <1>3, <1>5
  <2> QED
    BY <1>1, <1>4, <1>5, <2>1, OnlyOfNone DEF ForeignOf
<1>6. CASE kept # << >>
  <2>1. kept \in Seq(N)
    <3>1. kept \in Seq((N \cup O) \cap N)
      BY <1>1, OnlyOf
    <3>2. (N \cup O) \cap N = N
      OBVIOUS
    <3> QED
      BY <3>1, <3>2
  <2>2. PICK n \in Nat : n = Len(kept) /\ n > 0 /\ DOMAIN kept = 1..n
    BY <1>6, <2>1, EmptySeq, LenProperties
  <2>3. \A i \in 1..n : kept[i] \in N
    BY <2>1, <2>2, ElementOfSeq
  <2>4. \A y \in N : [y EXCEPT !.ai = @] = y /\ Bare(y) \in N
    <3>1. << >> \in Seq(S)
      OBVIOUS
    <3> QED
      BY <3>1 DEF TextPieces, Bare
  <2>5. PICK b : b = Bare(kept[1])
    OBVIOUS
  <2>6. b \in N /\ DOMAIN bare = 1..n /\ bare[1] = b /\ \A i \in 2..n : bare[i] = kept[i]
    <3>1. 1 \in 1..n /\ \A i \in 2..n : i \in 1..n /\ i # 1
      BY <2>2
    <3>2. bare[1] = b
      BY <1>3, <2>2, <2>5, <3>1 DEF Bare
    <3>3. \A i \in 2..n : bare[i] = [kept[i] EXCEPT !.ai = @]
      BY <1>3, <2>2, <3>1
    <3>4. \A i \in 2..n : bare[i] = kept[i]
      BY <2>3, <2>4, <3>1, <3>3
    <3>5. b \in N
      BY <2>3, <2>4, <2>5, <3>1
    <3>6. DOMAIN bare = 1..n
      BY <1>3, <2>2
    <3> QED
      BY <3>2, <3>4, <3>5, <3>6
  <2>7. bare \in Seq(N) /\ Len(bare) = n
    <3>1. \A i \in 1..n : i = 1 \/ i \in 2..n
      OBVIOUS
    <3>2. \A i \in 1..n : bare[i] \in N
      BY <2>3, <2>6, <3>1
    <3>3. bare \in [1..n -> N]
      BY <1>3, <2>2, <3>2
    <3> QED
      BY <3>3
  <2>8. First(kept, b) = bare
    BY <1>6, <2>1, <2>2, <2>6, <2>7, FirstOnly
  <2> QED
    BY <1>1, <1>4, <1>6, <2>5, <2>8 DEF ForeignOf
<1> QED
  BY <1>5, <1>6

\* What is not ai-prov's stays.
LEMMA ForeignStays ==
  ASSUME NEW N, NEW S, NEW msg, NEW res, NEW settings, HookInput(N, S, msg, res, settings),
         NEW agentOf
  PROVE  Hook!Foreign(Hook!RunCommitMsgHook(msg, res, agentOf, settings).msg) = Hook!Foreign(msg)
<1> DEFINE pieces == TextOf(Only(msg, N))
           x == Titled(pieces[1], res, settings.titleCoverage)
           t == Trailer(res, agentOf, settings)
           R == OursIn(res, agentOf)
           c == Clean(First(pieces, x))
           out == Around(c, t)
           kept == Only(out, N)
           b == Bare(pieces[1])
           V == N \ {Hook!Blank}
<1>1. /\ pieces \in Seq(N) /\ pieces # << >> /\ pieces[1] \in N
      /\ x \in N /\ t \in Seq(R)
      /\ Hook!RunCommitMsgHook(msg, res, agentOf, settings).msg = out
  BY HookWrites
<1>2. Hook!Blank \in N /\ R \cap N = {} /\ \A y \in R : Hook!IsOurs(y)
  BY PieceKinds DEF OursIn, HookInput
<1>3. b \in N /\ Bare(x) = b
  BY <1>1, BareIs DEF HookInput
<1>4. Hook!Foreign(msg) = ForeignOf(Only(msg, N), N)
  BY ForeignIs DEF HookInput
<1>5. Hook!Blank \notin V
  OBVIOUS
<1>6. ForeignOf(Only(msg, N), N) = Only(First(pieces, b), V)
  <2>1. CASE Only(msg, N) # << >>
    BY <2>1 DEF ForeignOf, TextOf
  <2>2. CASE Only(msg, N) = << >>
    <3>1. pieces = <<Hook!Blank>>
      BY <2>2 DEF TextOf
    <3>2. Bare(Hook!Blank) = Hook!Blank
      <4>1. Hook!Blank.ai = << >>
        BY DEF Hook!Blank, Hook!Words
      <4>2. \A y \in N : y.ai = << >> => Bare(y) = y
        BY DEF HookInput, TextPieces, Bare
      <4> QED
        BY <1>2, <4>1, <4>2
    <3>3. First(<<Hook!Blank>>, Hook!Blank) = <<Hook!Blank>>
      BY FirstOfOne
    <3>4. First(pieces, b) = <<Hook!Blank>>
      BY <3>1, <3>2, <3>3
    <3>5. PICK B, e : B = {Hook!Blank} /\ e = <<Hook!Blank>>
      OBVIOUS
    <3>6. e \in Seq(B) /\ V \cap B = {}
      BY <3>5
    <3>7. Only(e, V) = << >>
      BY <3>6, OnlyNone
    <3> QED
      BY <2>2, <3>4, <3>5, <3>7 DEF ForeignOf
  <2> QED
    BY <2>1, <2>2
<1> HIDE DEF pieces, x, b, V
<1>7. /\ c \in Seq(N) /\ c # << >> /\ c[1] = x
      /\ First(c, b) \in Seq(N) /\ Only(First(c, b), V) = Only(First(pieces, b), V)
  <2>1. First(pieces, x) \in Seq(N) /\ First(pieces, x) # << >> /\ First(pieces, x)[1] = x
    BY <1>1, FirstIs
  <2>2. First(First(pieces, x), b) = First(pieces, b)
    BY <1>1, <1>3, FirstAgain
  <2>3. First(pieces, b) \in Seq(N) /\ First(pieces, b) # << >>
    BY <1>1, <1>3, FirstIs
  <2>4. PICK q : q = First(pieces, x)
    OBVIOUS
  <2>5. q \in Seq(N) /\ q # << >> /\ q[1] = x /\ c = Clean(q) /\ First(q, b) = First(pieces, b)
    BY <2>1, <2>2, <2>4
  <2>6. /\ Clean(q) \in Seq(N) /\ Clean(q) # << >> /\ Clean(q)[1] = q[1]
        /\ Clean(First(q, b)) = First(Clean(q), b)
    BY <1>3, <2>5, CleanFirst
  <2>7. PICK r : r = First(pieces, b)
    OBVIOUS
  <2>8. r \in Seq(N) /\ r # << >>
    BY <2>3, <2>7
  <2>9. Only(Clean(r), V) = Only(r, V) /\ Clean(r) \in Seq(N)
    BY <1>2, <1>5, <2>8, CleanTwice, CleanFirst
  <2> QED
    BY <2>5, <2>6, <2>7, <2>9
<1> HIDE DEF c, t
<1>8. kept # << >> /\ kept[1] = c[1] /\ kept = Padded(c, t)
  <2> HIDE DEF R
  <2>1. kept = Padded(c, t)
    BY <1>1, <1>2, <1>7, KeptAround
  <2> HIDE DEF kept
  <2> QED
    BY <1>2, <1>7, <2>1, PaddedIs
<1>9. out \in Seq(N \cup R)
  <2> HIDE DEF R
  <2> QED
    BY <1>1, <1>2, <1>7, AroundTyped
<1> HIDE DEF out
<1>10. Hook!Foreign(out) = ForeignOf(kept, N)
  BY <1>2, <1>9, ForeignIs DEF HookInput
<1> HIDE DEF kept
<1>11. Only(First(kept, b), V) = Only(First(c, b), V)
  <2>1. PICK a, g, h : a = Append(c, Hook!Blank) /\ g = First(c, b) /\ h = Append(g, Hook!Blank)
    OBVIOUS
  <2>2. a \in Seq(N) /\ a # << >> /\ g \in Seq(N) /\ h \in Seq(N)
    BY <1>2, <1>7, <2>1, AppendProperties
  <2>3. First(a, b) = h
    <3>1. First(Append(c, Hook!Blank), b) = Append(First(c, b), Hook!Blank)
      BY <1>2, <1>3, <1>7, FirstAppend
    <3> QED
      BY <2>1, <3>1
  <2>4. First(Append(a, Hook!Blank), b) = Append(First(a, b), Hook!Blank)
    BY <1>2, <1>3, <2>2, FirstAppend
  <2>5. \A q \in Seq(N) : Only(Append(q, Hook!Blank), V) = Only(q, V)
    BY <1>2, <1>5, OnlyGrows
  <2> QED
    BY <1>8, <2>1, <2>2, <2>3, <2>4, <2>5 DEF Padded
<1>12. ForeignOf(kept, N) = Only(First(kept, b), V)
  BY <1>3, <1>7, <1>8 DEF ForeignOf, V
<1> QED
  BY <1>1, <1>4, <1>6, <1>7, <1>10, <1>11, <1>12

\* No piece is there twice.
Distinct(s) == \A i, j \in DOMAIN s : i # j => s[i] # s[j]

\* What a field says, when it says something.
PieceOf(field, res, agents) ==
    CASE field = "coverage" -> Hook!Ours("AI-Contribution", Hook!Percent(res))
      [] field = "lines" -> Hook!Ours("AI-Lines", <<res.ai, res.total>>)
      [] field = "agent" -> Hook!Ours("AI-Agent", IF agents = {} THEN {"unknown"} ELSE agents)
      [] OTHER -> Hook!Ours("AI-Provenance-ID", res.sessions)

\* Two fields never say the same.
LEMMA PieceIs ==
  ASSUME NEW res, NEW agents, NEW f \in Conf!TrailerFields
  PROVE  /\ LineOf(f, res, agents) = IF f = "provenance-id" /\ res.sessions = <<>> THEN <<>>
                                     ELSE <<PieceOf(f, res, agents)>>
         /\ PieceOf(f, res, agents) # Hook!Mark
         /\ \A g \in Conf!TrailerFields :
              PieceOf(f, res, agents) = PieceOf(g, res, agents) => f = g
<1> DEFINE key(h) == CASE h = "coverage" -> "AI-Contribution" [] h = "lines" -> "AI-Lines"
                       [] h = "agent" -> "AI-Agent" [] OTHER -> "AI-Provenance-ID"
<1>1. LineOf(f, res, agents) = IF f = "provenance-id" /\ res.sessions = <<>> THEN <<>>
                               ELSE <<PieceOf(f, res, agents)>>
  BY DEF LineOf, PieceOf, Conf!TrailerFields
<1>2. \A h \in Conf!TrailerFields : PieceOf(h, res, agents).key = key(h) /\ PieceOf(h, res, agents).is = "ours"
  BY DEF PieceOf, Hook!Ours, Conf!TrailerFields
<1>3. \A h, g \in Conf!TrailerFields : key(h) = key(g) => h = g
  BY DEF Conf!TrailerFields
<1>4. Hook!Mark.is # "ours"
  BY DEF Hook!Mark
<1> QED
  BY <1>1, <1>2, <1>3, <1>4

\* Fields that differ have lines that differ, and of a field that says something
\* there is a line.
LEMMA LinesDistinct ==
  ASSUME NEW res, NEW agents, NEW fields \in Seq(Conf!TrailerFields), Distinct(fields)
  PROVE  /\ Distinct(LinesOf(fields, res, agents))
         /\ \A k \in DOMAIN LinesOf(fields, res, agents) : LinesOf(fields, res, agents)[k] # Hook!Mark
         /\ LinesOf(fields, res, agents) = <<>>
              => \A i \in DOMAIN fields : fields[i] = "provenance-id" /\ res.sessions = <<>>
<1> DEFINE L(fs) == LinesOf(fs, res, agents)
           P(f) == PieceOf(f, res, agents)
           silent(f) == f = "provenance-id" /\ res.sessions = <<>>
           from(fs) == \A k \in DOMAIN L(fs) : \E i \in DOMAIN fs : L(fs)[k] = P(fs[i])
           all(fs) == L(fs) = <<>> => \A i \in DOMAIN fs : silent(fs[i])
           T == {fs \in Seq(Conf!TrailerFields) : Distinct(fs) => Distinct(L(fs)) /\ from(fs) /\ all(fs)}
<1>1. ASSUME NEW fs \in Seq(Conf!TrailerFields), NEW f \in Conf!TrailerFields
      PROVE  /\ L(<< >>) = << >> /\ L(fs) \in Seq(Recorded(res, agents))
             /\ L(Append(fs, f)) = L(fs) \o LineOf(f, res, agents)
  BY LinesGrow
<1>2. ASSUME NEW f \in Conf!TrailerFields
      PROVE  /\ LineOf(f, res, agents) = IF silent(f) THEN <<>> ELSE <<P(f)>>
             /\ P(f) # Hook!Mark
             /\ \A g \in Conf!TrailerFields : P(f) = P(g) => f = g
  BY PieceIs
<1> HIDE DEF L, P, silent
<1>3. << >> \in T
  <2>1. "lines" \in Conf!TrailerFields /\ << >> \in Seq(Conf!TrailerFields)
    BY DEF Conf!TrailerFields
  <2>2. L(<< >>) = << >>
    BY <1>1, <2>1
  <2> QED
    BY <2>1, <2>2 DEF Distinct
<1>4. ASSUME NEW fs \in Seq(Conf!TrailerFields), NEW f \in Conf!TrailerFields, fs \in T
      PROVE  Append(fs, f) \in T
  <2>1. PICK gs, n, l, m : gs = Append(fs, f) /\ n = Len(fs) /\ l = L(fs) /\ m = Len(l)
    OBVIOUS
  <2>2. /\ n \in Nat /\ DOMAIN fs = 1..n /\ DOMAIN gs = 1..(n + 1) /\ gs \in Seq(Conf!TrailerFields)
        /\ gs[n + 1] = f /\ (\A i \in 1..n : gs[i] = fs[i])
        /\ \A i \in 1..n : fs[i] \in Conf!TrailerFields
    BY <2>1, AppendProperties, LenProperties, ElementOfSeq
  <2>3. l \in Seq(Recorded(res, agents)) /\ m \in Nat /\ DOMAIN l = 1..m
    BY <1>1, <2>1, LenProperties
  <2>4. SUFFICES ASSUME Distinct(gs) PROVE Distinct(L(gs)) /\ from(gs) /\ all(gs)
    BY <2>1, <2>2
  <2>5. Distinct(fs) /\ \A i \in 1..n : fs[i] # f
    <3>1. \A i \in 1..n : i \in 1..(n + 1) /\ n + 1 \in 1..(n + 1) /\ i # n + 1
      BY <2>2
    <3> QED
      BY <2>2, <2>4, <3>1 DEF Distinct
  <2>6. Distinct(l) /\ (\A k \in 1..m : \E i \in 1..n : l[k] = P(fs[i]))
        /\ (l = <<>> => \A i \in 1..n : silent(fs[i]))
    BY <1>4, <2>1, <2>2, <2>3, <2>5
  <2>7. CASE silent(f)
    <3>1. L(gs) = l
      <4>1. L(gs) = l \o << >>
        BY <1>1, <1>2, <2>1, <2>7
      <4> QED
        BY <2>3, <4>1, ConcatEmptySeq
    <3>2. from(gs)
      <4>1. \A i \in 1..n : i \in 1..(n + 1)
        BY <2>2
      <4> QED
        BY <2>2, <2>3, <2>6, <3>1, <4>1
    <3>3. all(gs)
      <4>1. \A i \in 1..(n + 1) : i = n + 1 \/ i \in 1..n
        BY <2>2
      <4> QED
        BY <2>2, <2>6, <2>7, <3>1, <4>1
    <3> QED
      BY <2>6, <3>1, <3>2, <3>3
  <2>8. CASE ~silent(f)
    <3>1. PICK h : h = L(gs)
      OBVIOUS
    <3>2. h = Append(l, P(f))
      <4>1. h = l \o <<P(f)>>
        BY <1>1, <1>2, <2>1, <2>8, <3>1
      <4> QED
        BY <2>3, <4>1
    <3>3. PICK B : B = Recorded(res, agents) \cup {P(f)}
      OBVIOUS
    <3>4. l \in Seq(B) /\ P(f) \in B
      BY <2>3, <3>3
    <3>5. /\ DOMAIN h = 1..(m + 1) /\ h[m + 1] = P(f) /\ h # << >>
          /\ \A k \in 1..m : h[k] = l[k]
      BY <2>1, <3>2, <3>4, AppendProperties, LenProperties
    <3>6. \A k \in 1..m : l[k] # P(f)
      BY <1>2, <2>2, <2>5, <2>6
    <3>7. \A k \in 1..(m + 1) : k = m + 1 \/ k \in 1..m
      BY <2>3
    <3>8. Distinct(h)
      BY <2>3, <2>6, <3>5, <3>6, <3>7 DEF Distinct
    <3>9. from(gs)
      <4>1. \A i \in 1..n : i \in 1..(n + 1) /\ n + 1 \in 1..(n + 1)
        BY <2>2
      <4>2. n + 1 \in 1..(n + 1)
        BY <2>2
      <4>3. ASSUME NEW k \in 1..(m + 1) PROVE \E i \in 1..(n + 1) : h[k] = P(gs[i])
        <5>1. CASE k = m + 1
          BY <2>2, <3>5, <4>2, <5>1
        <5>2. CASE k \in 1..m
          BY <2>2, <2>6, <3>5, <4>1, <5>2
        <5> QED
          BY <3>7, <5>1, <5>2
      <4> QED
        BY <2>2, <3>1, <3>5, <4>3
    <3> QED
      BY <3>1, <3>5, <3>8, <3>9
  <2> QED
    BY <2>7, <2>8
<1>5. fields \in T
  <2> HIDE DEF T
  <2> QED
    BY <1>3, <1>4, EverySequence
<1>6. Distinct(L(fields)) /\ from(fields) /\ all(fields)
  BY <1>5
<1>7. \A i \in DOMAIN fields : fields[i] \in Conf!TrailerFields
  BY LenProperties, ElementOfSeq
<1> QED
  BY <1>2, <1>6, <1>7 DEF L, silent

\* The trailer is one, wherever the mark stands.
LEMMA TrailerDistinct ==
  ASSUME NEW res, NEW agents, NEW settings, settings.trailer.fields \in Seq(Conf!TrailerFields),
         Conf!ValidateTrailerFields(settings.trailer.fields)
  PROVE  /\ Distinct(Hook!RenderTrailer(res, agents, settings))
         /\ Hook!RenderTrailer(res, agents, settings) = <<>> <=>
              \/ res.total = 0
              \/ res.sessions = <<>> /\ \A i \in DOMAIN settings.trailer.fields :
                                          settings.trailer.fields[i] = "provenance-id"
<1> DEFINE fields == settings.trailer.fields
           mute == res.sessions = <<>> /\ \A i \in DOMAIN fields : fields[i] = "provenance-id"
<1>1. PICK l, t : l = LinesOf(fields, res, agents) /\ t = Hook!RenderTrailer(res, agents, settings)
  OBVIOUS
<1>2. Distinct(fields) /\ fields \in Seq(Conf!TrailerFields)
  BY DEF Distinct, Conf!ValidateTrailerFields
<1>3. t = IF res.total = 0 \/ l = <<>> THEN <<>>
          ELSE IF settings.trailer.comments THEN <<Hook!Mark>> \o l ELSE l
  BY <1>1, TrailerIs
<1>4. fields # << >>
  BY DEF Conf!ValidateTrailerFields
<1> HIDE DEF fields
<1>5. /\ Distinct(l) /\ (\A k \in DOMAIN l : l[k] # Hook!Mark)
      /\ l = <<>> => \A i \in DOMAIN fields : fields[i] = "provenance-id" /\ res.sessions = <<>>
  BY <1>1, <1>2, LinesDistinct
<1>6. l \in Seq(Recorded(res, agents)) /\ (mute => l = <<>>)
  <2> DEFINE T == {fs \in Seq(Conf!TrailerFields) :
                     res.sessions = <<>> /\ (\A i \in DOMAIN fs : fs[i] = "provenance-id")
                       => LinesOf(fs, res, agents) = <<>>}
  <2>1. ASSUME NEW fs \in Seq(Conf!TrailerFields), NEW f \in Conf!TrailerFields
        PROVE  /\ LinesOf(<< >>, res, agents) = << >>
               /\ LinesOf(fs, res, agents) \in Seq(Recorded(res, agents))
               /\ LinesOf(Append(fs, f), res, agents) = LinesOf(fs, res, agents) \o LineOf(f, res, agents)
               /\ f = "provenance-id" /\ res.sessions = <<>> => LineOf(f, res, agents) = <<>>
    BY LinesGrow, PieceIs
  <2>2. "lines" \in Conf!TrailerFields /\ << >> \in Seq(Conf!TrailerFields)
    BY DEF Conf!TrailerFields
  <2>3. << >> \in T
    BY <2>1, <2>2
  <2>4. ASSUME NEW fs \in Seq(Conf!TrailerFields), NEW f \in Conf!TrailerFields, fs \in T
        PROVE  Append(fs, f) \in T
    <3>1. PICK gs, n : gs = Append(fs, f) /\ n = Len(fs)
      OBVIOUS
    <3>2. /\ gs \in Seq(Conf!TrailerFields) /\ n \in Nat /\ DOMAIN fs = 1..n /\ DOMAIN gs = 1..(n + 1)
          /\ gs[n + 1] = f /\ \A i \in 1..n : gs[i] = fs[i]
      BY <3>1, AppendProperties, LenProperties
    <3>3. ASSUME res.sessions = <<>>, \A i \in DOMAIN gs : gs[i] = "provenance-id"
          PROVE  LinesOf(gs, res, agents) = <<>>
      <4>1. (\A i \in 1..n : i \in 1..(n + 1)) /\ n + 1 \in 1..(n + 1)
        BY <3>2
      <4>2. f = "provenance-id" /\ \A i \in DOMAIN fs : fs[i] = "provenance-id"
        BY <3>2, <3>3, <4>1
      <4>3. LinesOf(fs, res, agents) = <<>>
        BY <2>4, <3>3, <4>2
      <4>4. LinesOf(gs, res, agents) = << >> \o << >>
        BY <2>1, <3>1, <3>3, <4>2, <4>3
      <4> QED
        BY <4>4
    <3> QED
      BY <3>1, <3>2, <3>3
  <2>5. fields \in T
    <3> HIDE DEF T
    <3> QED
      BY <1>2, <2>3, <2>4, EverySequence
  <2>6. mute => l = <<>>
    BY <1>1, <2>5
  <2>7. l \in Seq(Recorded(res, agents))
    BY <1>1, <1>2, <2>1, <2>2
  <2> QED
    BY <2>6, <2>7
<1>7. l = <<>> <=> mute
  <2>1. \E i : i \in DOMAIN fields
    <3>1. DOMAIN fields = 1..Len(fields) /\ Len(fields) \in Nat /\ Len(fields) # 0
      BY <1>2, <1>4, EmptySeq, LenProperties
    <3>2. 1 \in DOMAIN fields
      BY <3>1
    <3> QED
      BY <3>2
  <2> QED
    BY <1>5, <1>6, <2>1
<1>8. Distinct(<<Hook!Mark>> \o l) /\ <<Hook!Mark>> \o l # << >>
  <2>1. PICK m, R : m = Len(l) /\ R = Recorded(res, agents)
    OBVIOUS
  <2>2. PICK e, h : e = <<Hook!Mark>> /\ h = e \o l
    OBVIOUS
  <2>3. Hook!Mark \in R
    BY <2>1 DEF Recorded
  <2>4. m \in Nat /\ DOMAIN l = 1..m /\ l \in Seq(R) /\ e \in Seq(R) /\ Len(e) = 1 /\ e[1] = Hook!Mark
    BY <1>6, <2>1, <2>2, <2>3, LenProperties
  <2>5. /\ Len(e \o l) = Len(e) + Len(l) /\ e \o l \in Seq(R)
        /\ \A i \in 1..(Len(e) + Len(l)) : (e \o l)[i] = IF i <= Len(e) THEN e[i] ELSE l[i - Len(e)]
    BY <2>4, ConcatProperties
  <2>6. /\ DOMAIN h = 1..(m + 1) /\ h # << >> /\ h[1] = Hook!Mark
        /\ \A i \in 2..(m + 1) : h[i] = l[i - 1]
    <3>1. \A i \in 2..(m + 1) : i \in 1..(1 + m) /\ ~(i <= 1)
      BY <2>4
    <3>2. 1 \in 1..(1 + m) /\ 1 + m = m + 1
      BY <2>4
    <3>3. Len(h) = m + 1 /\ h \in Seq(R)
      BY <2>1, <2>2, <2>4, <2>5
    <3>4. DOMAIN h = 1..(m + 1)
      BY <3>3, LenProperties
    <3>5. h # << >>
      BY <2>4, <3>3, EmptySeq
    <3> QED
      BY <2>1, <2>2, <2>4, <2>5, <3>1, <3>2, <3>4, <3>5
  <2>7. ASSUME NEW i \in 1..(m + 1), NEW j \in 1..(m + 1), i # j PROVE h[i] # h[j]
    <3>1. CASE i = 1
      <4>1. j \in 2..(m + 1) /\ j - 1 \in 1..m
        BY <2>4, <2>7, <3>1
      <4> QED
        BY <1>5, <2>4, <2>6, <3>1, <4>1
    <3>2. CASE j = 1
      <4>1. i \in 2..(m + 1) /\ i - 1 \in 1..m
        BY <2>4, <2>7, <3>2
      <4> QED
        BY <1>5, <2>4, <2>6, <3>2, <4>1
    <3>3. CASE i # 1 /\ j # 1
      <4>1. /\ i \in 2..(m + 1) /\ i - 1 \in 1..m /\ j \in 2..(m + 1) /\ j - 1 \in 1..m
            /\ i - 1 # j - 1
        BY <2>4, <2>7, <3>3
      <4>2. l[i - 1] # l[j - 1]
        BY <1>5, <2>4, <4>1 DEF Distinct
      <4> QED
        BY <2>6, <4>1, <4>2
    <3> QED
      BY <3>1, <3>2, <3>3
  <2>8. Distinct(h)
    BY <2>6, <2>7 DEF Distinct
  <2> QED
    BY <2>2, <2>6, <2>8
<1>9. Distinct(<< >>)
  BY DEF Distinct
<1>10. Distinct(t) /\ (t = <<>> <=> res.total = 0 \/ mute)
  BY <1>3, <1>5, <1>7, <1>8, <1>9
<1> QED
  BY <1>1, <1>10 DEF fields

\* What is ai-prov's stands where the trailer does, and only a blank is behind.
LEMMA AroundPlaces ==
  ASSUME NEW N, NEW R, Hook!Blank \in N, \A x \in N : x.is = "text", \A x \in R : x.is # "text",
         NEW c \in Seq(N), NEW t \in Seq(R), Distinct(t), NEW out, out = Around(c, t)
  PROVE  LET ours == {i \in DOMAIN out : out[i].is # "text"}
         IN  /\ \A i, j \in ours : i # j => out[i] # out[j]
             /\ \A i \in ours, j \in DOMAIN out \ ours : j < i \/ out[j] = Hook!Blank
             /\ ours = {} <=> t = <<>>
<1> DEFINE ours == {i \in DOMAIN out : out[i].is # "text"}
<1>1. PICK a, b, d : a = Len(c) /\ b = Len(t) /\ d = Append(c, Hook!Blank)
  OBVIOUS
<1>2. /\ a \in Nat /\ b \in Nat /\ d \in Seq(N) /\ Len(d) = a + 1 /\ DOMAIN d = 1..(a + 1)
      /\ \A i \in 1..(a + 1) : d[i] \in N
  BY <1>1, AppendProperties, LenProperties, ElementOfSeq
<1>3. CASE t = <<>>
  <2>1. out = d
    BY <1>1, <1>3 DEF Around
  <2>2. ours = {}
    BY <1>2, <2>1
  <2> QED
    BY <1>3, <2>2
<1>4. CASE t # <<>>
  <2>1. PICK A, e, h : A = N \cup R /\ e = <<Hook!Blank>> /\ h = d \o t
    OBVIOUS
  <2>2. d \in Seq(A) /\ t \in Seq(A) /\ e \in Seq(A) /\ Len(e) = 1 /\ e[1] = Hook!Blank
    BY <1>2, <2>1
  <2>3. /\ Len(d \o t) = Len(d) + Len(t) /\ d \o t \in Seq(A)
        /\ \A i \in 1..(Len(d) + Len(t)) : (d \o t)[i] = IF i <= Len(d) THEN d[i] ELSE t[i - Len(d)]
    BY <2>2, ConcatProperties
  <2>4. PICK n : n = a + 1 + b
    OBVIOUS
  <2>5. n \in Nat /\ n = (a + 1) + b /\ b > 0
    BY <1>1, <1>2, <1>4, <2>4, EmptySeq
  <2>6. h \in Seq(A) /\ Len(h) = n /\ \A i \in 1..n : h[i] = IF i <= a + 1 THEN d[i] ELSE t[i - (a + 1)]
    BY <1>1, <1>2, <2>1, <2>3, <2>5
  <2>7. out = Append(h, Hook!Blank)
    <3>1. c \o e = d
      BY <1>1, <2>1
    <3>2. out = h \o e
      BY <1>4, <2>1, <3>1 DEF Around
    <3> QED
      BY <2>1, <2>6, <3>2
  <2>8. Hook!Blank \in A
    BY <2>1
  <2>9. /\ DOMAIN out = 1..(n + 1) /\ out[n + 1] = Hook!Blank
        /\ \A i \in 1..n : out[i] = h[i]
    BY <2>6, <2>7, <2>8, AppendProperties, LenProperties
  <2>10. \A k \in 1..b : t[k] \in R
    BY <1>1, ElementOfSeq
  <2>11. ASSUME NEW i \in 1..(n + 1)
         PROVE  i \in ours <=> i \in (a + 2)..n
    <3>1. CASE i = n + 1
      BY <1>2, <2>5, <2>9, <3>1
    <3>2. CASE i \in 1..(a + 1)
      <4>1. i \in 1..n /\ i <= a + 1
        BY <1>2, <2>5, <3>2
      <4>2. out[i] = d[i] /\ d[i].is = "text"
        BY <1>2, <2>6, <2>9, <3>2, <4>1
      <4>3. i \notin (a + 2)..n
        BY <1>2, <4>1
      <4> QED
        BY <4>2, <4>3
    <3>3. CASE i \in (a + 2)..n
      <4>1. i \in 1..n /\ ~(i <= a + 1) /\ i - (a + 1) \in 1..b
        BY <1>2, <2>5, <3>3
      <4>2. out[i] = t[i - (a + 1)]
        BY <2>6, <2>9, <4>1
      <4> QED
        BY <2>9, <2>10, <3>3, <4>1, <4>2
    <3>4. i = n + 1 \/ i \in 1..(a + 1) \/ i \in (a + 2)..n
      BY <1>2, <2>5
    <3> QED
      BY <3>1, <3>2, <3>3, <3>4
  <2>12. ours = (a + 2)..n
    <3>1. ours \subseteq 1..(n + 1) /\ (a + 2)..n \subseteq 1..(n + 1)
      BY <1>2, <2>5, <2>9
    <3> HIDE DEF ours
    <3> QED
      BY <2>11, <3>1
  <2> HIDE DEF ours
  <2>13. \A i \in ours : i \in 1..n /\ ~(i <= a + 1) /\ i - (a + 1) \in 1..b /\ out[i] = t[i - (a + 1)]
    <3>1. \A i \in (a + 2)..n : i \in 1..n /\ ~(i <= a + 1) /\ i - (a + 1) \in 1..b
      BY <1>2, <2>5
    <3> QED
      BY <2>6, <2>9, <2>12, <3>1
  <2>14. ASSUME NEW i \in ours, NEW j \in ours, i # j PROVE out[i] # out[j]
    <3>1. i - (a + 1) # j - (a + 1)
      BY <1>2, <2>13, <2>14
    <3>2. DOMAIN t = 1..b
      BY <1>1, LenProperties
    <3> QED
      BY <2>13, <3>1, <3>2 DEF Distinct
  <2>15. ASSUME NEW i \in ours, NEW j \in DOMAIN out \ ours PROVE j < i \/ out[j] = Hook!Blank
    <3>1. j \in 1..(n + 1) /\ j \notin (a + 2)..n /\ i \in (a + 2)..n
      BY <2>9, <2>12
    <3>2. j < i \/ j = n + 1
      BY <1>2, <2>5, <3>1
    <3> QED
      BY <2>9, <3>2
  <2>16. ours # {}
    <3>1. n \in (a + 2)..n
      BY <1>2, <2>5
    <3> QED
      BY <2>12, <3>1
  <2> QED
    BY <1>4, <2>14, <2>15, <2>16 DEF ours
<1> QED
  BY <1>3, <1>4

\* The hook replaces only what is ai-prov's, whatever the message, the settings
\* and what verify says: the rest stays, in its order, and the record is there
\* once, at the end, when a field has something to say.
THEOREM OursIsReplaced ==
  ASSUME NEW N, NEW S, NEW msg, NEW res, NEW settings, HookInput(N, S, msg, res, settings),
         NEW agentOf, Conf!ValidateTrailerFields(settings.trailer.fields),
         res.sessions # <<>> \/ \E i \in DOMAIN settings.trailer.fields :
                                   settings.trailer.fields[i] # "provenance-id"
  PROVE  Hook!OnlyOursIsReplaced(msg, res, agentOf, settings)
<1> DEFINE pieces == TextOf(Only(msg, N))
           x == Titled(pieces[1], res, settings.titleCoverage)
           t == Trailer(res, agentOf, settings)
           R == OursIn(res, agentOf)
           c == Clean(First(pieces, x))
           out == Hook!RunCommitMsgHook(msg, res, agentOf, settings).msg
           ours == {i \in DOMAIN out : out[i].is # "text"}
<1>1. pieces \in Seq(N) /\ pieces # << >> /\ x \in N /\ t \in Seq(R) /\ out = Around(c, t)
  BY HookWrites
<1>2. Hook!Blank \in N /\ (\A y \in N : y.is = "text") /\ \A y \in R : y.is # "text"
  BY PieceKinds DEF OursIn, HookInput
<1>3. Hook!Foreign(out) = Hook!Foreign(msg)
  BY ForeignStays
<1>4. settings.trailer.fields \in Seq(Conf!TrailerFields)
  <2>1. PICK fields : fields = settings.trailer.fields
    OBVIOUS
  <2>2. \A i \in DOMAIN fields : fields[i] \in Conf!TrailerFields
    BY <2>1 DEF Conf!ValidateTrailerFields
  <2>3. PICK F : fields \in Seq(F)
    BY <2>1 DEF HookInput
  <2>4. PICK n \in Nat : fields \in [1..n -> F] /\ n = Len(fields)
    BY <2>3
  <2>5. fields \in [1..n -> Conf!TrailerFields]
    BY <2>2, <2>4
  <2> QED
    BY <2>1, <2>4, <2>5
<1>5. Distinct(t) /\ (t = <<>> <=> ~settings.writeTrailer \/ res.total = 0)
  <2>1. PICK agents : agents = Hook!SessionAgents(res.sessions, agentOf)
    OBVIOUS
  <2>2. /\ Distinct(Hook!RenderTrailer(res, agents, settings))
        /\ Hook!RenderTrailer(res, agents, settings) = <<>> <=> res.total = 0
    BY <1>4, TrailerDistinct
  <2>3. Distinct(<< >>)
    BY DEF Distinct
  <2> QED
    BY <2>1, <2>2, <2>3 DEF Trailer
<1> HIDE DEF pieces, x, t, R
<1>6. c \in Seq(N)
  <2>1. First(pieces, x) \in Seq(N) /\ First(pieces, x) # << >>
    BY <1>1, FirstIs
  <2> QED
    BY <1>1, <2>1, CleanFirst
<1> HIDE DEF c, out
<1>7. /\ \A i, j \in ours : i # j => out[i] # out[j]
      /\ \A i \in ours, j \in DOMAIN out \ ours : j < i \/ out[j] = Hook!Blank
      /\ ours = {} <=> t = <<>>
  BY <1>1, <1>2, <1>5, <1>6, AroundPlaces
<1> HIDE DEF ours
<1>8. /\ \A i, j \in ours : i # j => out[i] # out[j]
      /\ \A i \in ours, j \in DOMAIN out \ ours : j < i \/ out[j] = Hook!Blank
      /\ ours = {} <=> (~settings.writeTrailer \/ res.total = 0)
  BY <1>5, <1>7
<1> QED
  BY <1>3, <1>8, Zenon DEF Hook!OnlyOursIsReplaced, out, ours

-----------------------------------------------------------------------------
\* The diff of git: what the parser makes of what is printed of some files.

\* What the parser has after some lines.
State(printed) ==
    LET after[n \in 0..Len(printed)] ==
          IF n = 0 THEN Diff!NoneYet ELSE Diff!ParseLine(after[n - 1], printed[n])
    IN  after[Len(printed)]

\* What is left when the output ends is put away.
LEMMA ParseIs ==
  ASSUME NEW printed
  PROVE  Diff!ParseDiff(printed) = Diff!Flush(State(printed)).out
BY DEF State, Diff!ParseDiff

\* It is what its recursion says.
LEMMA StateUnfolds ==
  ASSUME NEW s, NEW n \in Nat, Len(s) = n
  PROVE  \E f : /\ f[0] = Diff!NoneYet
                /\ \A i \in 1..n : f[i] = Diff!ParseLine(f[i - 1], s[i])
                /\ State(s) = f[n]
<1> DEFINE known(m) == \E f : f = [i \in 0..m |-> IF i = 0 THEN Diff!NoneYet ELSE Diff!ParseLine(f[i - 1], s[i])]
           T == {m \in Nat : known(m)}
<1>1. 0 \in T
  <2>1. PICK f : f = [i \in 0..0 |-> Diff!NoneYet]
    OBVIOUS
  <2>2. \A i \in 0..0 : i = 0
    OBVIOUS
  <2>3. f = [i \in 0..0 |-> IF i = 0 THEN Diff!NoneYet ELSE Diff!ParseLine(f[i - 1], s[i])]
    BY <2>1, <2>2
  <2>4. known(0)
    BY <2>3, Zenon
  <2> HIDE DEF known
  <2> QED
    BY <2>4
<1>2. ASSUME NEW m \in Nat, m \in T PROVE m + 1 \in T
  <2>1. PICK f : f = [i \in 0..m |-> IF i = 0 THEN Diff!NoneYet ELSE Diff!ParseLine(f[i - 1], s[i])]
    BY <1>2
  <2>2. PICK g : g = [i \in 0..(m + 1) |-> IF i = m + 1 THEN Diff!ParseLine(f[m], s[m + 1]) ELSE f[i]]
    OBVIOUS
  <2>3. ASSUME NEW i \in 0..(m + 1)
        PROVE  g[i] = IF i = 0 THEN Diff!NoneYet ELSE Diff!ParseLine(g[i - 1], s[i])
    <3>1. CASE i = m + 1
      <4>1. g[i] = Diff!ParseLine(f[m], s[m + 1])
        BY <2>2, <3>1
      <4>2. i - 1 = m /\ m \in 0..(m + 1) /\ m # m + 1 /\ i # 0
        BY <3>1
      <4>3. g[i - 1] = f[m]
        BY <2>2, <4>2
      <4> QED
        BY <3>1, <4>1, <4>2, <4>3
    <3>2. CASE i # m + 1
      <4>1. i \in 0..m /\ g[i] = f[i]
        BY <2>2, <3>2
      <4>2. i # 0 => i - 1 \in 0..(m + 1) /\ i - 1 # m + 1
        BY <4>1
      <4>3. i # 0 => g[i - 1] = f[i - 1]
        BY <2>2, <4>2
      <4> QED
        BY <2>1, <4>1, <4>3
    <3> QED
      BY <3>1, <3>2
  <2>4. g = [i \in 0..(m + 1) |-> IF i = 0 THEN Diff!NoneYet ELSE Diff!ParseLine(g[i - 1], s[i])]
    BY <2>2, <2>3
  <2>5. known(m + 1)
    BY <2>4, Zenon
  <2> HIDE DEF known
  <2> QED
    BY <2>5
<1>3. known(n)
  <2>1. \A m \in Nat : m \in T
    <3> HIDE DEF T
    <3> QED
      BY <1>1, <1>2, EveryNumber
  <2> QED
    BY <2>1
<1> DEFINE f == CHOOSE f : f = [i \in 0..n |-> IF i = 0 THEN Diff!NoneYet ELSE Diff!ParseLine(f[i - 1], s[i])]
<1>4. f = [i \in 0..n |-> IF i = 0 THEN Diff!NoneYet ELSE Diff!ParseLine(f[i - 1], s[i])]
  BY <1>3
<1>5. State(s) = f[n]
  BY DEF State
<1> HIDE DEF f
<1>6. f[0] = Diff!NoneYet /\ \A i \in 1..n : f[i] = Diff!ParseLine(f[i - 1], s[i])
  <2>1. 0 \in 0..n /\ \A i \in 1..n : i \in 0..n /\ i # 0
    OBVIOUS
  <2> QED
    BY <1>4, <2>1
<1> QED
  BY <1>5, <1>6

\* One line more is parsed on what the lines before have left.
LEMMA StateGrows ==
  ASSUME NEW A, NEW s \in Seq(A), NEW x \in A
  PROVE  /\ State(<< >>) = Diff!NoneYet
         /\ State(Append(s, x)) = Diff!ParseLine(State(s), x)
<1>1. PICK n \in Nat : n = Len(s)
  BY LenProperties
<1>2. PICK t : t = Append(s, x)
  OBVIOUS
<1>3. Len(t) = n + 1 /\ t[n + 1] = x /\ \A i \in 1..n : t[i] = s[i]
  BY <1>1, <1>2, AppendProperties
<1>4. PICK f : /\ f[0] = Diff!NoneYet
               /\ \A i \in 1..n : f[i] = Diff!ParseLine(f[i - 1], s[i])
               /\ State(s) = f[n]
  BY <1>1, StateUnfolds
<1>5. PICK g : /\ g[0] = Diff!NoneYet
               /\ \A i \in 1..(n + 1) : g[i] = Diff!ParseLine(g[i - 1], t[i])
               /\ State(t) = g[n + 1]
  <2>1. n + 1 \in Nat
    OBVIOUS
  <2> QED
    BY <1>3, <2>1, StateUnfolds
<1>6. f[n] = g[n]
  <2> DEFINE T == {m \in Nat : m <= n => f[m] = g[m]}
  <2>1. 0 \in T
    BY <1>4, <1>5
  <2>2. ASSUME NEW m \in Nat, m \in T PROVE m + 1 \in T
    <3> SUFFICES ASSUME m + 1 <= n PROVE f[m + 1] = g[m + 1]
      OBVIOUS
    <3>1. m + 1 \in 1..n /\ m + 1 \in 1..(n + 1) /\ (m + 1) - 1 = m
      OBVIOUS
    <3>2. f[m] = g[m]
      BY <2>2
    <3> QED
      BY <1>3, <1>4, <1>5, <3>1, <3>2
  <2>3. n \in T
    <3> HIDE DEF T
    <3> QED
      BY <2>1, <2>2, EveryNumber
  <2> QED
    BY <2>3
<1>7. n + 1 \in 1..(n + 1) /\ (n + 1) - 1 = n
  OBVIOUS
<1>8. State(<< >>) = Diff!NoneYet
  <2>1. 0 \in Nat /\ Len(<< >>) = 0
    OBVIOUS
  <2> QED
    BY <2>1, StateUnfolds
<1> QED
  BY <1>2, <1>3, <1>4, <1>5, <1>6, <1>7, <1>8

\* What git may say of files of paths P whose added lines are of C.
Changed(P, C) == [path : P, kind : {"modified", "deleted", "renamed"}, added : Seq(C)]

\* A printed line.
Said(w, p, c) == [says |-> w, path |-> p, content |-> c]

\* The lines git may print of such files.
PrintedLines(P, C) ==
    [says : {"diff", "file", "added", "removed"}, path : P \cup {"/dev/null"}, content : C \cup {"", "x"}]

\* The added lines of a file as they are printed.
Additions(path, added) == [i \in DOMAIN added |-> Said("added", path, added[i])]

\* One added line more, one printed line more.
LEMMA AdditionsGrow ==
  ASSUME NEW P, NEW C, NEW path \in P, NEW added \in Seq(C), NEW c \in C
  PROVE  /\ Additions(path, << >>) = << >>
         /\ Additions(path, added) \in Seq(PrintedLines(P, C))
         /\ Additions(path, Append(added, c)) = Append(Additions(path, added), Said("added", path, c))
<1>1. PICK A : A = PrintedLines(P, C)
  OBVIOUS
<1>2. \A x \in C : Said("added", path, x) \in A
  BY <1>1 DEF PrintedLines, Said
<1>3. PICK n \in Nat : n = Len(added)
  BY LenProperties
<1>4. PICK t : t = Append(added, c)
  OBVIOUS
<1>5. /\ DOMAIN added = 1..n /\ DOMAIN t = 1..(n + 1) /\ t[n + 1] = c
      /\ \A i \in 1..n : t[i] = added[i] /\ added[i] \in C
  BY <1>3, <1>4, AppendProperties, LenProperties, ElementOfSeq
<1>6. PICK f, g : f = Additions(path, added) /\ g = Additions(path, t)
  OBVIOUS
<1>7. f = [i \in 1..n |-> Said("added", path, added[i])]
  BY <1>5, <1>6 DEF Additions
<1>8. g = [i \in 1..(n + 1) |-> Said("added", path, t[i])]
  BY <1>5, <1>6 DEF Additions
<1> HIDE DEF Said
<1>9. f \in Seq(A) /\ Len(f) = n
  BY <1>2, <1>5, <1>7
<1>10. Append(f, Said("added", path, c)) = g
  <2>1. PICK y \in A : y = Said("added", path, c)
    BY <1>2
  <2>2. Append(f, y) \in Seq(A) /\ Len(Append(f, y)) = n + 1
        /\ Append(f, y)[n + 1] = y /\ \A i \in 1..n : Append(f, y)[i] = f[i]
    BY <1>9, AppendProperties
  <2>3. ASSUME NEW i \in 1..(n + 1) PROVE g[i] = IF i = n + 1 THEN y ELSE f[i]
    <3>1. CASE i = n + 1
      BY <1>5, <1>8, <2>1, <3>1
    <3>2. CASE i # n + 1
      <4>1. i \in 1..n
        BY <3>2
      <4> QED
        BY <1>5, <1>7, <1>8, <3>2, <4>1
    <3> QED
      BY <3>1, <3>2
  <2>4. \A i \in 1..(n + 1) : Append(f, y)[i] = g[i]
    BY <2>2, <2>3
  <2>5. g \in Seq(A) /\ Len(g) = n + 1
    <3>1. \A i \in 1..(n + 1) : t[i] \in C
      BY <1>5
    <3> QED
      BY <1>2, <1>8, <3>1
  <2> QED
    BY <2>1, <2>2, <2>4, <2>5, SeqEqual
<1>11. Additions(path, << >>) = << >>
  BY DEF Additions
<1> QED
  BY <1>1, <1>4, <1>6, <1>9, <1>10, <1>11

\* One line more is recorded when it is not blank.
LEMMA EffectiveGrows ==
  ASSUME NEW C, NEW added \in Seq(C), NEW c \in C
  PROVE  /\ Diff!Effective(<< >>) = << >>
         /\ Diff!Effective(added) \in Seq(C)
         /\ Diff!Effective(Append(added, c)) =
              IF Diff!BlankText(c) THEN Diff!Effective(added) ELSE Append(Diff!Effective(added), c)
<1> DEFINE F(p) == [i \in DOMAIN p |-> IF Diff!BlankText(p[i]) THEN << >> ELSE <<p[i]>>]
<1>1. \A p : Diff!Effective(p) = Flat(F(p))
  BY FlattenIsFlat DEF Diff!Effective
<1>2. PICK n \in Nat : n = Len(added)
  BY LenProperties
<1>3. PICK t : t = Append(added, c)
  OBVIOUS
<1>4. t \in Seq(C) /\ Len(t) = n + 1 /\ t[n + 1] = c /\ \A i \in 1..n : t[i] = added[i]
  BY <1>2, <1>3, AppendProperties
<1>5. DOMAIN added = 1..n /\ DOMAIN t = 1..(n + 1)
  BY <1>2, <1>4, LenProperties
<1>6. \A i \in 1..n : added[i] \in C
  BY <1>2, ElementOfSeq
<1>7. \A y \in C : <<y>> \in Seq(C) /\ << >> \in Seq(C)
  OBVIOUS
<1>8. F(added) \in [1..n -> Seq(C)]
  BY <1>5, <1>6, <1>7
<1>9. F(t) \in [1..(n + 1) -> Seq(C)]
  <2>1. \A i \in 1..(n + 1) : t[i] \in C
    BY <1>4, ElementOfSeq
  <2> QED
    BY <1>5, <1>7, <2>1
<1>10. \A i \in 1..n : F(t)[i] = F(added)[i]
  BY <1>4, <1>5
<1>11. F(t)[n + 1] = IF Diff!BlankText(c) THEN << >> ELSE <<c>>
  <2>1. n + 1 \in 1..(n + 1)
    OBVIOUS
  <2> QED
    BY <1>4, <1>5, <2>1
<1>12. Flat(F(<< >>)) = << >>
  <2>1. F(<< >>) = << >>
    OBVIOUS
  <2>2. Flat(<< >>) = << >>
    BY DEF Flat
  <2> QED
    BY <2>1, <2>2
<1> HIDE DEF F
<1>13. Flat(F(added)) \in Seq(C) /\ Flat(F(t)) = Flat(F(added)) \o F(t)[n + 1]
  BY <1>8, <1>9, <1>10, FlatNext
<1>14. PICK r : r = Flat(F(added))
  OBVIOUS
<1>15. r \o << >> = r /\ r \o <<c>> = Append(r, c)
  <2>1. r \in Seq(C)
    BY <1>13, <1>14
  <2> QED
    BY <2>1, ConcatEmptySeq
<1> QED
  BY <1>1, <1>3, <1>11, <1>12, <1>13, <1>14, <1>15

\* The records of a file.
RecordOf(f) == [path |-> f.path, lines |-> Diff!Effective(f.added)]
RecordsOf(f) == IF f.kind = "modified" /\ RecordOf(f).lines # <<>> THEN <<RecordOf(f)>> ELSE <<>>

\* What a file is recorded as.
Records(P, C) == [path : P, lines : Seq(C)]

\* What is promised of one file more.
LEMMA PromiseGrows ==
  ASSUME NEW P, NEW C, NEW fs \in Seq(Changed(P, C)), NEW f \in Changed(P, C)
  PROVE  /\ Diff!AddedPerFile(<< >>) = << >>
         /\ Diff!AddedPerFile(fs) \in Seq(Records(P, C))
         /\ RecordsOf(f) \in Seq(Records(P, C))
         /\ Diff!AddedPerFile(Append(fs, f)) = Diff!AddedPerFile(fs) \o RecordsOf(f)
<1> DEFINE F(p) == [i \in DOMAIN p |-> RecordsOf(p[i])]
           A == [path : P, lines : Seq(C)]
<1>1. \A p : Diff!AddedPerFile(p) = Flat(F(p))
  <2> SUFFICES ASSUME NEW p PROVE Diff!AddedPerFile(p) = Flat(F(p))
    OBVIOUS
  <2> DEFINE of(g) == [path |-> g.path, lines |-> Diff!Effective(g.added)]
             read == [i \in DOMAIN p |-> of(p[i])]
             has(i) == p[i].kind = "modified" /\ read[i].lines # <<>>
             G == [i \in DOMAIN p |-> IF has(i) THEN <<read[i]>> ELSE <<>>]
  <2>1. Diff!AddedPerFile(p) = Flat(G)
    <3>1. Diff!AddedPerFile(p) = Diff!FlattenSeq(G)
      BY DEF Diff!AddedPerFile
    <3> HIDE DEF G
    <3> QED
      BY <3>1, FlattenIsFlat
  <2>2. \A i \in DOMAIN p : read[i] = RecordOf(p[i])
    BY DEF RecordOf
  <2>3. G = F(p)
    BY <2>2 DEF RecordsOf
  <2> HIDE DEF G, F
  <2> QED
    BY <2>1, <2>3
<1>2. PICK n \in Nat : n = Len(fs)
  BY LenProperties
<1>3. PICK t : t = Append(fs, f)
  OBVIOUS
<1>4. t \in Seq(Changed(P, C)) /\ Len(t) = n + 1 /\ t[n + 1] = f /\ \A i \in 1..n : t[i] = fs[i]
  BY <1>2, <1>3, AppendProperties
<1>5. DOMAIN fs = 1..n /\ DOMAIN t = 1..(n + 1)
  BY <1>2, <1>4, LenProperties
<1>6. \A i \in 1..n : fs[i] \in Changed(P, C)
  BY <1>2, ElementOfSeq
<1>7. \A g \in Changed(P, C) : RecordsOf(g) \in Seq(A)
  <2> SUFFICES ASSUME NEW g \in Changed(P, C) PROVE RecordsOf(g) \in Seq(A)
    OBVIOUS
  <2>1. g.path \in P /\ g.added \in Seq(C)
    BY DEF Changed
  <2>2. Diff!Effective(g.added) \in Seq(C)
    <3>1. CASE g.added = << >>
      <4>1. Diff!Effective(g.added) = << >>
        <5>1. Diff!Effective(<< >>) = Flat(<< >>)
          BY FlattenIsFlat DEF Diff!Effective
        <5> QED
          BY <3>1, <5>1 DEF Flat
      <4> QED
        BY <4>1
    <3>2. CASE g.added # << >>
      <4>1. g.added[1] \in C
        BY <2>1, <3>2, EmptySeq, ElementOfSeq
      <4> QED
        BY <2>1, <4>1, EffectiveGrows
    <3> QED
      BY <3>1, <3>2
  <2>3. RecordOf(g) \in A
    BY <2>1, <2>2 DEF RecordOf
  <2>4. PICK r : r = RecordOf(g) /\ r \in A
    BY <2>3
  <2>5. <<r>> \in Seq(A) /\ <<>> \in Seq(A)
    BY <2>4
  <2> QED
    BY <2>4, <2>5 DEF RecordsOf
<1>8. F(fs) \in [1..n -> Seq(A)]
  <2> HIDE DEF A
  <2> QED
    BY <1>5, <1>6, <1>7
<1>9. F(t) \in [1..(n + 1) -> Seq(A)]
  <2> HIDE DEF A
  <2>1. \A i \in 1..(n + 1) : t[i] \in Changed(P, C)
    BY <1>4, ElementOfSeq
  <2> QED
    BY <1>5, <1>7, <2>1
<1>10. \A i \in 1..n : F(t)[i] = F(fs)[i]
  BY <1>4, <1>5
<1>11. F(t)[n + 1] = RecordsOf(f)
  <2>1. n + 1 \in 1..(n + 1)
    OBVIOUS
  <2> QED
    BY <1>4, <1>5, <2>1
<1>12. Flat(F(<< >>)) = << >>
  <2>1. F(<< >>) = << >>
    OBVIOUS
  <2>2. Flat(<< >>) = << >>
    BY DEF Flat
  <2> QED
    BY <2>1, <2>2
<1> HIDE DEF F, A
<1>13. Flat(F(fs)) \in Seq(A) /\ Flat(F(t)) = Flat(F(fs)) \o F(t)[n + 1]
  BY <1>8, <1>9, <1>10, FlatNext
<1>14. RecordsOf(f) \in Seq(A)
  BY <1>7
<1> QED
  BY <1>1, <1>3, <1>11, <1>12, <1>13, <1>14 DEF A, Records

\* What git prints of some files.
Printing(files) == Flat([i \in DOMAIN files |-> Diff!GitPrints(files[i])])

\* What it prints of one.
LEMMA GitPrintsIs ==
  ASSUME NEW P, NEW C, NEW f \in Changed(P, C)
  PROVE  LET header == <<Said("diff", f.path, "")>>
         IN  /\ f.kind = "renamed" => Diff!GitPrints(f) = header
             /\ f.kind = "deleted" =>
                  Diff!GitPrints(f) = Append(Append(header, Said("file", "/dev/null", "")),
                                             Said("removed", f.path, "x"))
             /\ f.kind = "modified" =>
                  Diff!GitPrints(f) = Append(header, Said("file", f.path, "")) \o Additions(f.path, f.added)
<1>1. PICK d, e, g, h : /\ d = Said("diff", f.path, "") /\ e = Said("file", "/dev/null", "")
                        /\ g = Said("removed", f.path, "x") /\ h = Said("file", f.path, "")
  OBVIOUS
<1>2. f.kind = "renamed" => Diff!GitPrints(f) = <<d>>
  BY <1>1 DEF Diff!GitPrints, Said
<1>3. f.kind = "deleted" => Diff!GitPrints(f) = <<d>> \o <<e, g>>
  BY <1>1 DEF Diff!GitPrints, Said
<1>4. f.kind = "modified" => Diff!GitPrints(f) = <<d>> \o <<h>> \o Additions(f.path, f.added)
  BY <1>1 DEF Diff!GitPrints, Said, Additions
<1>5. <<d>> \o <<e, g>> = Append(Append(<<d>>, e), g) /\ <<d>> \o <<h>> = Append(<<d>>, h)
  OBVIOUS
<1> QED
  BY <1>1, <1>2, <1>3, <1>4, <1>5

\* The files that git says more of: a line more is printed behind the rest.
LEMMA PrintingGrows ==
  ASSUME NEW P, NEW C, NEW fs \in Seq(Changed(P, C)), NEW f \in Changed(P, C)
  PROVE  /\ Printing(<< >>) = << >>
         /\ Printing(fs) \in Seq(PrintedLines(P, C))
         /\ Diff!GitPrints(f) \in Seq(PrintedLines(P, C))
         /\ Printing(Append(fs, f)) = Printing(fs) \o Diff!GitPrints(f)
<1> DEFINE F(p) == [i \in DOMAIN p |-> Diff!GitPrints(p[i])]
<1>1. PICK A : A = PrintedLines(P, C)
  OBVIOUS
<1>2. PICK n \in Nat : n = Len(fs)
  BY LenProperties
<1>3. PICK t : t = Append(fs, f)
  OBVIOUS
<1>4. t \in Seq(Changed(P, C)) /\ Len(t) = n + 1 /\ t[n + 1] = f /\ \A i \in 1..n : t[i] = fs[i]
  BY <1>2, <1>3, AppendProperties
<1>5. DOMAIN fs = 1..n /\ DOMAIN t = 1..(n + 1)
  BY <1>2, <1>4, LenProperties
<1>6. \A i \in 1..n : fs[i] \in Changed(P, C)
  BY <1>2, ElementOfSeq
<1>7. ASSUME NEW g \in Changed(P, C) PROVE Diff!GitPrints(g) \in Seq(A)
  <2>1. PICK d, e, r, h : /\ d = Said("diff", g.path, "") /\ e = Said("file", "/dev/null", "")
                          /\ r = Said("removed", g.path, "x") /\ h = Said("file", g.path, "")
    OBVIOUS
  <2>2. d \in A /\ e \in A /\ r \in A /\ h \in A
    BY <1>1, <2>1 DEF Changed, PrintedLines, Said
  <2>3. <<d>> \in Seq(A) /\ Append(Append(<<d>>, e), r) \in Seq(A) /\ Append(<<d>>, h) \in Seq(A)
    BY <2>2
  <2>4. Additions(g.path, g.added) \in Seq(A)
    <3>1. g.path \in P /\ g.added \in Seq(C)
      BY DEF Changed
    <3>2. CASE g.added = << >>
      <4>1. Additions(g.path, g.added) = << >>
        BY <3>2 DEF Additions
      <4> QED
        BY <4>1
    <3>3. CASE g.added # << >>
      <4>1. g.added[1] \in C
        BY <3>1, <3>3, EmptySeq, ElementOfSeq
      <4> QED
        BY <1>1, <3>1, <4>1, AdditionsGrow
    <3> QED
      BY <3>2, <3>3
  <2>5. Append(<<d>>, h) \o Additions(g.path, g.added) \in Seq(A)
    BY <2>3, <2>4, ConcatProperties
  <2>6. g.kind \in {"modified", "deleted", "renamed"}
    BY DEF Changed
  <2> QED
    BY <2>1, <2>3, <2>5, <2>6, GitPrintsIs
<1>8. F(fs) \in [1..n -> Seq(A)]
  BY <1>5, <1>6, <1>7
<1>9. F(t) \in [1..(n + 1) -> Seq(A)]
  <2>1. \A i \in 1..(n + 1) : t[i] \in Changed(P, C)
    BY <1>4, ElementOfSeq
  <2> QED
    BY <1>5, <1>7, <2>1
<1>10. \A i \in 1..n : F(t)[i] = F(fs)[i]
  BY <1>4, <1>5
<1>11. F(t)[n + 1] = Diff!GitPrints(f)
  <2>1. n + 1 \in 1..(n + 1)
    OBVIOUS
  <2> QED
    BY <1>4, <1>5, <2>1
<1>12. Flat(F(<< >>)) = << >>
  <2>1. F(<< >>) = << >>
    OBVIOUS
  <2>2. Flat(<< >>) = << >>
    BY DEF Flat
  <2> QED
    BY <2>1, <2>2
<1>13. \A p : Printing(p) = Flat(F(p))
  BY DEF Printing
<1>14. Diff!GitPrints(f) \in Seq(A)
  BY <1>7
<1> HIDE DEF F
<1>15. Flat(F(fs)) \in Seq(A) /\ Flat(F(t)) = Flat(F(fs)) \o F(t)[n + 1]
  BY <1>8, <1>9, <1>10, FlatNext
<1> QED
  BY <1>1, <1>3, <1>11, <1>12, <1>13, <1>14, <1>15

\* No name is one git prints otherwise, no added line looks like a header.
PlainNames(P, C) ==
    "/dev/null" \notin P /\ P \cap DOMAIN Diff!Printed = {} /\ C \cap Diff!PlusPlus = {}

\* What has been put away, and the file that is read.
Reading(out, path, lines) == [out |-> out, cur |-> <<[path |-> path, lines |-> lines]>>]

\* What a line does: one that starts a file's diff, a header, an added line.
LEMMA ParseLineIs ==
  ASSUME NEW acc, NEW out, NEW path, NEW lines, NEW c, c \notin Diff!PlusPlus
  PROVE  /\ Diff!ParseLine(acc, Said("diff", path, "")) = Diff!Flush(acc)
         /\ Diff!ParseLine([out |-> out, cur |-> <<>>], Said("removed", path, "x")) = [out |-> out, cur |-> <<>>]
         /\ Diff!ParseLine([out |-> out, cur |-> <<>>], Said("file", "/dev/null", "")) = [out |-> out, cur |-> <<>>]
         /\ path # "/dev/null" /\ path \notin DOMAIN Diff!Printed =>
              Diff!ParseLine([out |-> out, cur |-> <<>>], Said("file", path, "")) = Reading(out, path, <<>>)
         /\ Diff!ParseLine(Reading(out, path, lines), Said("added", path, c))
              = Reading(out, path, IF Diff!BlankText(c) THEN lines ELSE Append(lines, c))
<1>1. Diff!ParseLine(acc, Said("diff", path, "")) = Diff!Flush(acc)
  <2>1. PICK l : l = Said("diff", path, "")
    OBVIOUS
  <2>2. l.says = "diff"
    BY <2>1 DEF Said
  <2>3. ~Diff!IsHeader(l) /\ l.says # "added"
    BY <2>2 DEF Diff!IsHeader
  <2> QED
    BY <2>1, <2>2, <2>3 DEF Diff!ParseLine
<1>2. PICK none : none = [out |-> out, cur |-> <<>>]
  OBVIOUS
<1>3. ASSUME NEW v PROVE [none EXCEPT !.cur = v] = [out |-> out, cur |-> v]
  BY <1>2
<1>4. Diff!ParseLine(none, Said("removed", path, "x")) = none
  <2>1. PICK l : l = Said("removed", path, "x")
    OBVIOUS
  <2>2. l.says = "removed"
    BY <2>1 DEF Said
  <2>3. ~Diff!IsHeader(l) /\ l.says # "diff" /\ l.says # "added"
    BY <2>2 DEF Diff!IsHeader
  <2> QED
    BY <2>1, <2>3 DEF Diff!ParseLine
<1>5. ASSUME NEW p
      PROVE  Diff!ParseLine(none, Said("file", p, "")) =
               [none EXCEPT !.cur = IF p = "/dev/null" THEN <<>>
                                    ELSE <<[path |-> Diff!ParseDiffPath(Said("file", p, "")), lines |-> <<>>]>>]
  <2>1. PICK l : l = Said("file", p, "")
    OBVIOUS
  <2>2. l.says = "file" /\ l.path = p
    BY <2>1 DEF Said
  <2>3. Diff!IsHeader(l) /\ l.says # "diff"
    BY <2>2 DEF Diff!IsHeader
  <2>4. Diff!ParseLine(none, l) =
          [none EXCEPT !.cur = IF l.path = "/dev/null" /\ l.says = "file" THEN <<>>
                               ELSE <<[path |-> Diff!ParseDiffPath(l), lines |-> <<>>]>>]
    BY <2>3 DEF Diff!ParseLine
  <2> QED
    BY <2>1, <2>2, <2>4
<1>6. Diff!ParseLine(none, Said("file", "/dev/null", "")) = none
  <2>1. Diff!ParseLine(none, Said("file", "/dev/null", "")) = [none EXCEPT !.cur = <<>>]
    BY <1>5
  <2> QED
    BY <1>2, <1>3, <2>1
<1>7. ASSUME path # "/dev/null", path \notin DOMAIN Diff!Printed
      PROVE  Diff!ParseLine(none, Said("file", path, "")) = Reading(out, path, <<>>)
  <2>1. Diff!ParseDiffPath(Said("file", path, "")) = path
    BY <1>7 DEF Diff!ParseDiffPath, Said
  <2>2. Diff!ParseLine(none, Said("file", path, "")) = [none EXCEPT !.cur = <<[path |-> path, lines |-> <<>>]>>]
    BY <1>5, <1>7, <2>1
  <2> QED
    BY <1>3, <2>2 DEF Reading
<1>8. Diff!ParseLine(Reading(out, path, lines), Said("added", path, c))
        = Reading(out, path, IF Diff!BlankText(c) THEN lines ELSE Append(lines, c))
  <2>1. PICK l, r : l = Said("added", path, c) /\ r = Reading(out, path, lines)
    OBVIOUS
  <2>2. l.says = "added" /\ l.content = c
    BY <2>1 DEF Said
  <2>3. ~Diff!IsHeader(l) /\ l.says # "diff"
    BY <2>2 DEF Diff!IsHeader, Diff!PlusPlus
  <2>4. r.cur # <<>> /\ r.out = out /\ r.cur[1].lines = lines /\ r.cur[1].path = path
    BY <2>1 DEF Reading
  <2>5. CASE Diff!BlankText(c)
    <3>1. Diff!ParseLine(r, l) = r
      BY <2>2, <2>3, <2>5 DEF Diff!ParseLine
    <3> QED
      BY <2>1, <2>5, <3>1
  <2>6. CASE ~Diff!BlankText(c)
    <3>1. Diff!ParseLine(r, l) = [r EXCEPT !.cur[1].lines = Append(@, l.content)]
      BY <2>2, <2>3, <2>4, <2>6 DEF Diff!ParseLine
    <3>2. [r EXCEPT !.cur[1].lines = Append(@, l.content)] = Reading(out, path, Append(lines, c))
      <4>1. PICK more : more = Append(lines, c)
        OBVIOUS
      <4>2. PICK x : x = [path |-> path, lines |-> lines]
        OBVIOUS
      <4>3. [x EXCEPT !.lines = more] = [path |-> path, lines |-> more] /\ x.lines = lines
        BY <4>2
      <4>4. r = [out |-> out, cur |-> <<x>>]
        BY <2>1, <4>2 DEF Reading
      <4>5. [r EXCEPT !.cur[1].lines = more] = [out |-> out, cur |-> [<<x>> EXCEPT ![1].lines = more]]
        BY <4>4
      <4>6. [<<x>> EXCEPT ![1].lines = more] = [<<x>> EXCEPT ![1] = [x EXCEPT !.lines = more]]
        OBVIOUS
      <4>7. ASSUME NEW z PROVE [<<x>> EXCEPT ![1] = z] = <<z>>
        OBVIOUS
      <4>8. Append(r.cur[1].lines, l.content) = more
        BY <2>2, <2>4, <4>1
      <4>9. [r EXCEPT !.cur[1].lines = more] = Reading(out, path, more)
        BY <4>3, <4>5, <4>6, <4>7 DEF Reading
      <4> QED
        BY <4>1, <4>8, <4>9
    <3> QED
      BY <2>1, <2>6, <3>1, <3>2
  <2> QED
    BY <2>5, <2>6
<1> QED
  BY <1>1, <1>2, <1>4, <1>6, <1>7, <1>8

\* Of a file's added lines those are recorded that are not blank.
LEMMA AdditionsAreRead ==
  ASSUME NEW P, NEW C, PlainNames(P, C), NEW path \in P, NEW out,
         NEW base \in Seq(PrintedLines(P, C)), State(base) = Reading(out, path, <<>>),
         NEW added \in Seq(C)
  PROVE  State(base \o Additions(path, added)) = Reading(out, path, Diff!Effective(added))
<1> DEFINE T == {a \in Seq(C) : State(base \o Additions(path, a)) = Reading(out, path, Diff!Effective(a))}
<1>1. << >> \in T
  <2>1. Additions(path, << >>) = << >>
    BY DEF Additions
  <2>2. Diff!Effective(<< >>) = << >>
    <3>1. Diff!Effective(<< >>) = Flat(<< >>)
      BY FlattenIsFlat DEF Diff!Effective
    <3> QED
      BY <3>1 DEF Flat
  <2>3. base \o << >> = base /\ << >> \in Seq(C)
    BY ConcatEmptySeq
  <2> QED
    BY <2>1, <2>2, <2>3
<1>2. ASSUME NEW a \in Seq(C), NEW c \in C, a \in T PROVE Append(a, c) \in T
  <2>1. PICK A, y, t, u : /\ A = PrintedLines(P, C) /\ y = Said("added", path, c)
                          /\ t = Additions(path, a) /\ u = base \o t
    OBVIOUS
  <2>2. t \in Seq(A) /\ Additions(path, Append(a, c)) = Append(t, y)
    BY <2>1, AdditionsGrow
  <2>3. y \in A
    BY <2>1 DEF PrintedLines, Said
  <2>4. u \in Seq(A) /\ base \o Append(t, y) = Append(u, y)
    BY <2>1, <2>2, <2>3
  <2>5. State(Append(u, y)) = Diff!ParseLine(State(u), y)
    BY <2>3, <2>4, StateGrows
  <2>6. State(u) = Reading(out, path, Diff!Effective(a))
    BY <1>2, <2>1
  <2>7. c \notin Diff!PlusPlus
    BY DEF PlainNames
  <2>8. PICK e : e = Diff!Effective(a)
    OBVIOUS
  <2>9. Diff!ParseLine(Reading(out, path, e), y)
          = Reading(out, path, IF Diff!BlankText(c) THEN e ELSE Append(e, c))
    BY <2>1, <2>7, ParseLineIs
  <2>10. Diff!Effective(Append(a, c)) = IF Diff!BlankText(c) THEN e ELSE Append(e, c)
    BY <2>8, EffectiveGrows
  <2>11. Append(a, c) \in Seq(C)
    BY AppendProperties
  <2> QED
    BY <2>2, <2>4, <2>5, <2>6, <2>8, <2>9, <2>10, <2>11
<1> QED
  <2> HIDE DEF T
  <2>1. added \in T
    BY <1>1, <1>2, EverySequence
  <2> QED
    BY <2>1 DEF T

\* A line behind two outputs is behind the second.
LEMMA AppendBehind ==
  ASSUME NEW A, NEW s \in Seq(A), NEW t \in Seq(A), NEW x \in A
  PROVE  s \o Append(t, x) = Append(s \o t, x)
OBVIOUS

\* One file more is read as git means it.
LEMMA FileIsRead ==
  ASSUME NEW P, NEW C, PlainNames(P, C), NEW f \in Changed(P, C),
         NEW before \in Seq(PrintedLines(P, C)), Diff!Flush(State(before)).out \in Seq(Records(P, C))
  PROVE  Diff!Flush(State(before \o Diff!GitPrints(f))).out = Diff!Flush(State(before)).out \o RecordsOf(f)
<1>1. PICK out \in Seq(Records(P, C)) : Diff!Flush(State(before)).out = out
  OBVIOUS
<1>2. PICK A, d, e, r, h : /\ A = PrintedLines(P, C)
                           /\ d = Said("diff", f.path, "") /\ e = Said("file", "/dev/null", "")
                           /\ r = Said("removed", f.path, "x") /\ h = Said("file", f.path, "")
  OBVIOUS
<1>3. d \in A /\ e \in A /\ r \in A /\ h \in A
  BY <1>2 DEF Changed, PrintedLines, Said
<1>4. PICK b : b = Append(before, d)
  OBVIOUS
<1>5. before \in Seq(A)
  BY <1>2
<1>6. <<d>> \in Seq(A)
  BY <1>3
<1>7. b \in Seq(A) /\ before \o <<d>> = b
  <2>1. b = before \o <<d>> /\ b \in Seq(A)
    BY <1>3, <1>4, <1>5, AppendIsConcat, AppendProperties
  <2> QED
    BY <2>1
<1>8. f.path \in P /\ f.path # "/dev/null" /\ f.path \notin DOMAIN Diff!Printed /\ f.added \in Seq(C)
      /\ f.kind \in {"modified", "deleted", "renamed"}
  BY DEF Changed, PlainNames
<1>9. PICK c : c \notin Diff!PlusPlus
  <2>1. "x" \notin Diff!PlusPlus
    BY DEF Diff!PlusPlus, Diff!AfterPlusPlusBlank
  <2> QED
    BY <2>1
<1>10. State(b) = [out |-> out, cur |-> <<>>]
  <2>1. State(b) = Diff!ParseLine(State(before), d)
    BY <1>2, <1>3, <1>4, StateGrows
  <2>2. Diff!ParseLine(State(before), d) = Diff!Flush(State(before))
    BY <1>2, <1>9, ParseLineIs
  <2>3. \A acc : Diff!Flush(acc).cur = <<>> /\ Diff!Flush(acc) = [out |-> Diff!Flush(acc).out, cur |-> Diff!Flush(acc).cur]
    BY DEF Diff!Flush
  <2> QED
    BY <1>1, <2>1, <2>2, <2>3
<1>11. PICK none : none = [out |-> out, cur |-> <<>>]
  OBVIOUS
<1>12. Diff!Flush(none).out = out
  BY <1>11 DEF Diff!Flush
<1>13. out \o <<>> = out
  BY ConcatEmptySeq
<1>14. CASE f.kind = "renamed"
  <2>1. Diff!GitPrints(f) = <<d>>
    BY <1>2, <1>14, GitPrintsIs
  <2>2. RecordsOf(f) = <<>>
    BY <1>14 DEF RecordsOf
  <2> QED
    BY <1>1, <1>7, <1>10, <1>11, <1>12, <1>13, <2>1, <2>2
<1>15. CASE f.kind = "deleted"
  <2>1. Diff!GitPrints(f) = Append(Append(<<d>>, e), r)
    BY <1>2, <1>15, GitPrintsIs
  <2>2. before \o Append(Append(<<d>>, e), r) = Append(Append(b, e), r)
    <3>1. PICK v : v = Append(<<d>>, e)
      OBVIOUS
    <3>2. v \in Seq(A)
      BY <1>3, <1>6, <3>1, AppendProperties
    <3>3. before \o v = Append(b, e)
      BY <1>3, <1>5, <1>6, <1>7, <3>1, AppendBehind
    <3>4. before \o Append(v, r) = Append(before \o v, r)
      BY <1>3, <1>5, <3>2, AppendBehind
    <3> QED
      BY <3>1, <3>3, <3>4
  <2>3. State(Append(b, e)) = none
    <3>1. State(Append(b, e)) = Diff!ParseLine(State(b), e)
      BY <1>3, <1>7, StateGrows
    <3> QED
      BY <1>2, <1>9, <1>10, <1>11, <3>1, ParseLineIs
  <2>4. Append(b, e) \in Seq(A)
    BY <1>3, <1>7
  <2>5. State(Append(Append(b, e), r)) = none
    <3>1. State(Append(Append(b, e), r)) = Diff!ParseLine(State(Append(b, e)), r)
      BY <1>3, <2>4, StateGrows
    <3> QED
      BY <1>2, <1>9, <1>11, <2>3, <3>1, ParseLineIs
  <2>6. RecordsOf(f) = <<>>
    BY <1>15 DEF RecordsOf
  <2> QED
    BY <1>1, <1>12, <1>13, <2>1, <2>2, <2>5, <2>6
<1>16. CASE f.kind = "modified"
  <2>1. PICK t, u, x : t = Additions(f.path, f.added) /\ u = Append(b, h) /\ x = RecordOf(f)
    OBVIOUS
  <2>2. Diff!GitPrints(f) = Append(<<d>>, h) \o t
    BY <1>2, <1>16, <2>1, GitPrintsIs
  <2>3. t \in Seq(A)
    <3>1. CASE f.added = << >>
      <4>1. t = << >>
        BY <2>1, <3>1 DEF Additions
      <4> QED
        BY <4>1
    <3>2. CASE f.added # << >>
      <4>1. f.added[1] \in C
        BY <1>8, <3>2, EmptySeq, ElementOfSeq
      <4> QED
        BY <1>2, <1>8, <2>1, <4>1, AdditionsGrow
    <3> QED
      BY <3>1, <3>2
  <2>4. u \in Seq(A) /\ before \o (Append(<<d>>, h) \o t) = u \o t
    <3>1. PICK v : v = Append(<<d>>, h)
      OBVIOUS
    <3>2. v \in Seq(A)
      BY <1>3, <1>6, <3>1, AppendProperties
    <3>3. u \in Seq(A)
      BY <1>3, <1>7, <2>1, AppendProperties
    <3>4. before \o v = u
      BY <1>3, <1>5, <1>6, <1>7, <2>1, <3>1, AppendBehind
    <3>5. before \o (v \o t) = (before \o v) \o t
      BY <1>5, <2>3, <3>2, ConcatAssociative
    <3> QED
      BY <3>1, <3>3, <3>4, <3>5
  <2>5. State(u) = Reading(out, f.path, <<>>)
    <3>1. State(u) = Diff!ParseLine(State(b), h)
      BY <1>3, <1>7, <2>1, StateGrows
    <3> QED
      BY <1>2, <1>8, <1>9, <1>10, <3>1, ParseLineIs
  <2>6. State(u \o t) = Reading(out, f.path, Diff!Effective(f.added))
    <3>1. u \in Seq(PrintedLines(P, C))
      BY <1>2, <2>4
    <3>2. State(u \o Additions(f.path, f.added)) = Reading(out, f.path, Diff!Effective(f.added))
      BY <1>8, <2>5, <3>1, AdditionsAreRead
    <3> QED
      BY <2>1, <3>2
  <2>7. Reading(out, f.path, Diff!Effective(f.added)) = [out |-> out, cur |-> <<x>>]
    BY <2>1 DEF Reading, RecordOf
  <2>8. Diff!Flush([out |-> out, cur |-> <<x>>]).out = IF x.lines # <<>> THEN out \o <<x>> ELSE out
    BY DEF Diff!Flush
  <2>9. RecordsOf(f) = IF x.lines # <<>> THEN <<x>> ELSE <<>>
    BY <1>16, <2>1 DEF RecordsOf
  <2> QED
    BY <1>1, <1>13, <2>2, <2>4, <2>6, <2>7, <2>8, <2>9
<1> QED
  BY <1>1, <1>8, <1>14, <1>15, <1>16

\* Files of any number with any added lines, none of which looks like a header.
THEOREM PlainDiffsAreRead ==
  ASSUME NEW P, "/dev/null" \notin P, NEW C, NEW files \in Seq(Changed(P, C)), Diff!Plain(files)
  PROVE  Diff!ReadDiff(files) = Diff!AddedPerFile(files)
<1>1. PICK Q, D : Q = P \ DOMAIN Diff!Printed /\ D = C \ Diff!PlusPlus
  OBVIOUS
<1>2. files \in Seq(Changed(Q, D))
  <2>1. ASSUME NEW i \in 1..Len(files) PROVE files[i] \in Changed(Q, D)
    <3>1. PICK f : f = files[i]
      OBVIOUS
    <3>2. f \in Changed(P, C)
      BY <3>1, ElementOfSeq
    <3>3. f.path \notin DOMAIN Diff!Printed /\ Diff!Range(f.added) \cap Diff!PlusPlus = {}
      <4>1. i \in DOMAIN files
        OBVIOUS
      <4> QED
        BY <3>1, <4>1 DEF Diff!Plain
    <3>4. f.added \in Seq(D)
      <4>1. PICK a, n : a = f.added /\ n \in Nat /\ n = Len(a) /\ a \in [1..n -> C]
        BY <3>2 DEF Changed
      <4>2. \A j \in 1..n : a[j] \notin Diff!PlusPlus
        BY <3>3, <4>1 DEF Diff!Range
      <4>3. a \in [1..n -> D]
        BY <1>1, <4>1, <4>2
      <4> QED
        BY <4>1, <4>3
    <3> QED
      BY <1>1, <3>1, <3>2, <3>3, <3>4 DEF Changed
  <2>2. PICK n \in Nat : n = Len(files) /\ files \in [1..n -> Changed(P, C)]
    OBVIOUS
  <2>3. files \in [1..n -> Changed(Q, D)]
    BY <2>1, <2>2
  <2> QED
    BY <2>3
<1>3. PlainNames(Q, D)
  BY <1>1 DEF PlainNames
<1> DEFINE T == {fs \in Seq(Changed(Q, D)) : Diff!Flush(State(Printing(fs))).out = Diff!AddedPerFile(fs)}
<1>4. << >> \in T
  <2>1. Printing(<< >>) = << >>
    <3>1. Printing(<< >>) = Flat(<< >>)
      BY DEF Printing
    <3> QED
      BY <3>1 DEF Flat
  <2>2. Diff!AddedPerFile(<< >>) = << >>
    <3>1. Diff!AddedPerFile(<< >>) = Diff!FlattenSeq(<< >>)
      BY DEF Diff!AddedPerFile
    <3>2. Diff!FlattenSeq(<< >>) = Flat(<< >>)
      BY FlattenIsFlat
    <3> QED
      BY <3>1, <3>2 DEF Flat
  <2>3. State(<< >>) = Diff!NoneYet
    <3>1. << >> \in Seq({0}) /\ 0 \in {0}
      OBVIOUS
    <3> QED
      BY <3>1, StateGrows
  <2>4. Diff!Flush(Diff!NoneYet).out = << >>
    BY DEF Diff!Flush, Diff!NoneYet
  <2>5. << >> \in Seq(Changed(Q, D))
    OBVIOUS
  <2> QED
    BY <2>1, <2>2, <2>3, <2>4, <2>5
<1>5. ASSUME NEW fs \in Seq(Changed(Q, D)), NEW f \in Changed(Q, D), fs \in T
      PROVE  Append(fs, f) \in T
  <2>1. PICK out, before : out = Diff!AddedPerFile(fs) /\ before = Printing(fs)
    OBVIOUS
  <2>2. out \in Seq(Records(Q, D))
    BY <2>1, PromiseGrows
  <2>3. fs \in Seq(Changed(Q, D)) /\ f \in Changed(Q, D)
    OBVIOUS
  <2>4. Diff!AddedPerFile(Append(fs, f)) = out \o RecordsOf(f)
    <3> HIDE DEF T
    <3>1. Diff!AddedPerFile(Append(fs, f)) = Diff!AddedPerFile(fs) \o RecordsOf(f)
      BY PromiseGrows
    <3> QED
      BY <2>1, <3>1
  <2>5. before \in Seq(PrintedLines(Q, D)) /\ Printing(Append(fs, f)) = before \o Diff!GitPrints(f)
    <3> HIDE DEF T
    <3>1. Printing(fs) \in Seq(PrintedLines(Q, D))
          /\ Printing(Append(fs, f)) = Printing(fs) \o Diff!GitPrints(f)
      BY PrintingGrows
    <3> QED
      BY <2>1, <3>1
  <2>6. Diff!Flush(State(before)).out = out
    BY <1>5, <2>1
  <2>7. Diff!Flush(State(before)).out \in Seq(Records(Q, D))
    BY <2>2, <2>6
  <2>8. Diff!Flush(State(before \o Diff!GitPrints(f))).out = out \o RecordsOf(f)
    <3> HIDE DEF T
    <3>1. Diff!Flush(State(before \o Diff!GitPrints(f))).out = Diff!Flush(State(before)).out \o RecordsOf(f)
      BY <1>3, <2>5, <2>7, FileIsRead
    <3> QED
      BY <2>6, <3>1
  <2>9. Append(fs, f) \in Seq(Changed(Q, D))
    BY AppendProperties
  <2> QED
    BY <2>4, <2>5, <2>8, <2>9
<1>6. files \in T
  <2> HIDE DEF T
  <2> QED
    BY <1>2, <1>4, <1>5, EverySequence
<1>7. Diff!ReadDiff(files) = Diff!Flush(State(Printing(files))).out
  <2>1. PICK p : p = [i \in DOMAIN files |-> Diff!GitPrints(files[i])]
    OBVIOUS
  <2>2. Diff!FlattenSeq(p) = Flat(p)
    BY FlattenIsFlat
  <2> QED
    BY <2>1, <2>2, ParseIs DEF Diff!ReadDiff, Printing
<1> QED
  BY <1>6, <1>7

-----------------------------------------------------------------------------
\* The inputs that are chosen are of the kinds the theorems are about.

\* Bounded sequences are sequences.
LEMMA UpToTyped ==
  ASSUME NEW S, NEW n \in Nat
  PROVE  UpTo(S, n) \subseteq Seq(S)
<1> SUFFICES ASSUME NEW f \in UpTo(S, n) PROVE f \in Seq(S)
  OBVIOUS
<1>1. PICK k \in 0..n : f \in [1..k -> S]
  BY DEF UpTo
<1> QED
  BY <1>1

\* At most one value is a key's.
LEMMA MaybeTyped ==
  ASSUME NEW S, NEW f \in Maybe(S)
  PROVE  f \in Key(S)
<1>1. f \in UpTo(S, 1)
  BY DEF Maybe
<1>2. PICK k \in 0..1 : f \in [1..k -> S]
  BY <1>1 DEF UpTo
<1>3. f \in Seq(S) /\ Len(f) = k
  BY <1>2
<1>4. CASE k = 0
  <2>1. f = << >>
    BY <1>3, <1>4
  <2> QED
    BY <2>1 DEF Key
<1>5. CASE k = 1
  <2>1. PICK v \in S : v = f[1]
    BY <1>2, <1>5
  <2>2. f = <<v>>
    BY <1>3, <1>5, <2>1
  <2> QED
    BY <2>2 DEF Key
<1> QED
  BY <1>4, <1>5

\* The lines of a text are lines.
LEMMA LinesTyped ==
  ASSUME NEW S, NEW text \in Seq(S)
  PROVE  Lines(text) \in Seq(S)
<1>1. Lines(text) \in {<< >>, text, SubSeq(text, 1, Len(text) - 1)}
  BY Zenon DEF Lines
<1>2. << >> \in Seq(S)
  OBVIOUS
<1>3. SubSeq(text, 1, Len(text) - 1) \in Seq(S)
  <2>1. PICK n : n = Len(text) - 1
    OBVIOUS
  <2>2. n \in Int /\ 1 \in Int /\ \A i \in 1..n : text[i] \in S
    BY <2>1, ElementOfSeq
  <2>3. SubSeq(text, 1, n) \in Seq(S)
    BY <2>2, SubSeqProperties
  <2> QED
    BY <2>1, <2>3
<1> QED
  BY <1>1, <1>2, <1>3

TextInputs(S) == [kind : {"texts"}, before : Seq(S), after : Seq(S), budget : Nat]

Segments == {"a", "b", "*", "**"}

RuleInputs == [kind : {"rules"}, rules : Seq(RulesOf(Segments)), path : Seq(Segments)]

FieldNames == {"lines", "agent", "coverage", "other"}

ConfigInputs == [kind : {"config"}, file : FilesOf(Seq(FieldNames))]

TextLines == {"", "x", "y"}

\* What GitInput chooses from.
FileInputs == [kind : {"files"}, files : Seq(Changed(GitPaths, GitLines))]

\* What MessageInput chooses from.
MessageInputs ==
    [kind : {"message"}, msg : Seq(Pieces), settings : Settings, first : Results, second : Results]

\* What was chosen has the type its kind says.
InputTyped ==
    /\ input.kind = "texts" => input \in TextInputs(TextLines)
    /\ input.kind = "rules" => input \in RuleInputs
    /\ input.kind = "config" => input \in ConfigInputs
    /\ input.kind = "files" => input \in FileInputs
    /\ input.kind = "message" => input \in MessageInputs

\* DiffInput chooses texts.
LEMMA TextsTyped ==
  ASSUME DiffInput
  PROVE  input'.kind = "texts" /\ input' \in TextInputs(TextLines)
<1>1. PICK S : S = TextLines
  OBVIOUS
<1>2. \E before, after \in UpTo(S, MaxPieces), budget \in Budgets :
        input' = [kind |-> "texts", before |-> before, after |-> after, budget |-> budget]
  BY <1>1, Zenon DEF DiffInput, Texts, TextLines
<1>3. UpTo(S, MaxPieces) \subseteq Seq(S)
  BY UpToTyped DEF MaxPieces
<1>4. Budgets \subseteq Nat
  BY DEF Budgets
<1>5. input'.kind = "texts" /\ input' \in TextInputs(S)
  BY <1>2, <1>3, <1>4 DEF TextInputs
<1> QED
  BY <1>1, <1>5

\* Short sequences, spelled out.
LEMMA Spelled ==
  ASSUME NEW S, NEW x \in S, NEW y \in S, NEW z \in S
  PROVE  /\ << >> \in Seq(S) /\ <<x>> \in Seq(S) /\ <<x, y>> \in Seq(S) /\ <<x, y, z>> \in Seq(S)
         /\ <<x>> # << >> /\ <<x, y>> # << >> /\ <<x, y, z>> # << >>
OBVIOUS

\* IgnoreInput chooses rules and a path.
LEMMA RulesTyped ==
  ASSUME IgnoreInput
  PROVE  input'.kind = "rules" /\ input' \in RuleInputs
<1>1. PICK rules \in UpTo(Rules, 2), path \in Paths : input' = [kind |-> "rules", rules |-> rules, path |-> path]
  BY DEF IgnoreInput
<1>2. Patterns \subseteq Seq(Segments) \ {<< >>}
  <2>1. PICK N : N = Segments
    OBVIOUS
  <2>2. "a" \in N /\ "b" \in N /\ "*" \in N /\ "**" \in N
    BY <2>1, Zenon DEF Segments
  <2>3. \A x, y, z \in N : <<x>> \in Seq(N) \ {<< >>} /\ <<x, y>> \in Seq(N) \ {<< >>}
                            /\ <<x, y, z>> \in Seq(N) \ {<< >>}
    BY Spelled
  <2>4. Patterns \subseteq Seq(N) \ {<< >>}
    BY <2>2, <2>3, Zenon DEF Patterns
  <2> QED
    BY <2>1, <2>4
<1>3. Rules \subseteq RulesOf(Segments)
  <2> HIDE DEF Patterns
  <2> QED
    BY <1>2 DEF Rules, RulesOf
<1>4. rules \in Seq(RulesOf(Segments))
  <2>1. rules \in Seq(Rules)
    BY UpToTyped
  <2> QED
    BY <1>3, <2>1
<1>5. path \in Seq(Segments)
  <2>1. path \in UpTo({"a", "b"}, 3)
    BY DEF Paths
  <2>2. PICK N : N = {"a", "b"} /\ N \subseteq Segments
    BY Zenon DEF Segments
  <2>3. path \in Seq(N)
    BY <2>1, <2>2, UpToTyped
  <2> QED
    BY <2>2, <2>3
<1> QED
  BY <1>1, <1>4, <1>5 DEF RuleInputs

\* ConfigInput chooses a file of the configuration.
LEMMA ConfigsTyped ==
  ASSUME ConfigInput
  PROVE  input'.kind = "config" /\ input' \in ConfigInputs
<1>1. PICK file \in ConfigFiles : input' = [kind |-> "config", file |-> file]
  BY DEF ConfigInput
<1> DEFINE F == Seq(FieldNames)
           G == [fields : {<< >>, <<"agent">>}, comments : Maybe({TRUE})]
<1>2. \A S, U : S \subseteq U => Key(S) \subseteq Key(U)
  BY DEF Key
<1>3. \A S : Maybe(S) \subseteq Key(S)
  BY MaybeTyped
<1>4. G \subseteq TrailersOf(F)
  <2>1. Maybe({TRUE}) \subseteq Key(BOOLEAN)
    <3>1. {TRUE} \subseteq BOOLEAN
      OBVIOUS
    <3> QED
      BY <1>2, <1>3, <3>1
  <2>2. {<< >>, <<"agent">>} \subseteq F
    <3>1. << >> \in Seq(FieldNames) /\ <<"agent">> \in Seq(FieldNames)
      <4>1. PICK N, x : N = FieldNames /\ x = "agent" /\ x \in N
        BY Zenon DEF FieldNames
      <4>2. << >> \in Seq(N) /\ <<x>> \in Seq(N)
        BY <4>1, Spelled
      <4> QED
        BY <4>1, <4>2
    <3> QED
      BY <3>1
  <2> QED
    BY <2>1, <2>2 DEF TrailersOf
<1>5. HookSections \subseteq [strict : Key(BOOLEAN), writeTrailer : Key(BOOLEAN),
                              titleCoverage : Key(BOOLEAN), trailer : Key(TrailersOf(F))]
  <2>1. Maybe(G) \subseteq Key(TrailersOf(F))
    <3> HIDE DEF G, F
    <3> QED
      BY <1>2, <1>3, <1>4
  <2>2. HookSections = [strict : Maybe(BOOLEAN), writeTrailer : Maybe(BOOLEAN),
                        titleCoverage : Maybe(BOOLEAN), trailer : Maybe(G)]
    BY DEF HookSections
  <2> HIDE DEF G, F
  <2> QED
    BY <1>3, <2>1, <2>2
<1>6. file \in FilesOf(F)
  <2> DEFINE H == [strict : Key(BOOLEAN), writeTrailer : Key(BOOLEAN),
                   titleCoverage : Key(BOOLEAN), trailer : Key(TrailersOf(F))]
  <2>1. Maybe(HookSections) \subseteq Key(H)
    <3> HIDE DEF H, F
    <3>1. HookSections \subseteq H
      BY <1>5 DEF H
    <3> QED
      BY <1>2, <1>3, <3>1
  <2>2. /\ Maybe({1, 2}) \subseteq Key(Int) /\ Maybe({0, 7}) \subseteq Key(Int)
        /\ Maybe({-1, 0, 7}) \subseteq Key(Int) /\ Maybe(BOOLEAN) \subseteq Key(BOOLEAN)
    <3>1. {1, 2} \subseteq Int /\ {0, 7} \subseteq Int /\ {-1, 0, 7} \subseteq Int
      OBVIOUS
    <3>2. \A S : S \subseteq Int => Maybe(S) \subseteq Key(Int)
      BY <1>2, <1>3
    <3> QED
      BY <1>3, <3>1, <3>2
  <2>3. /\ file.schema \in Maybe({1, 2}) /\ file.maxFileBytes \in Maybe({0, 7})
        /\ file.strictVerify \in Maybe(BOOLEAN) /\ file.limits \in [Limits -> Maybe({-1, 0, 7})]
        /\ file.hook \in Maybe(HookSections)
        /\ file = [schema |-> file.schema, maxFileBytes |-> file.maxFileBytes,
                   strictVerify |-> file.strictVerify, limits |-> file.limits, hook |-> file.hook]
    BY DEF ConfigFiles
  <2>4. file.limits \in [Limits -> Key(Int)]
    BY <2>2, <2>3
  <2>5. FilesOf(F) = [schema : Key(Int), maxFileBytes : Key(Int), strictVerify : Key(BOOLEAN),
                      limits : [Limits -> Key(Int)], hook : Key(H)]
    BY DEF FilesOf
  <2> HIDE DEF H, F
  <2> QED
    BY <2>1, <2>2, <2>3, <2>4, <2>5
<1> QED
  BY <1>1, <1>6 DEF ConfigInputs

\* GitInput chooses files.
LEMMA FilesTyped ==
  ASSUME GitInput
  PROVE  input'.kind = "files" /\ input' \in FileInputs
<1>1. PICK files \in UpTo(GitChanges, 2) : input' = [kind |-> "files", files |-> files]
  BY DEF GitInput
<1>2. PICK P, C : P = GitPaths /\ C = GitLines
  OBVIOUS
<1>3. ASSUME NEW g \in GitChanges PROVE g \in Changed(P, C)
  <2>1. \/ \E p \in GitPaths, a \in UpTo(GitLines, 2) : g = [path |-> p, kind |-> "modified", added |-> a]
        \/ \E k \in {"deleted", "renamed"} : g = [path |-> "a", kind |-> k, added |-> <<>>]
    BY DEF GitChanges
  <2>2. \/ \E p \in P, a \in UpTo(C, 2) : g = [path |-> p, kind |-> "modified", added |-> a]
        \/ \E k \in {"deleted", "renamed"} : g = [path |-> "a", kind |-> k, added |-> <<>>]
    BY <1>2, <2>1
  <2>3. "a" \in P
    BY <1>2, Zenon DEF GitPaths
  <2>4. UpTo(C, 2) \subseteq Seq(C) /\ << >> \in Seq(C)
    BY UpToTyped
  <2>5. ASSUME NEW p \in P, NEW a \in Seq(C), NEW k \in {"modified", "deleted", "renamed"}
        PROVE  [path |-> p, kind |-> k, added |-> a] \in Changed(P, C)
    BY DEF Changed
  <2> QED
    BY <2>2, <2>3, <2>4, <2>5
<1>4. files \in Seq(Changed(P, C))
  <2>1. files \in Seq(GitChanges)
    BY UpToTyped
  <2> QED
    BY <1>3, <2>1
<1> QED
  BY <1>1, <1>2, <1>4 DEF FileInputs

\* MessageInput chooses a message, settings and two results.
LEMMA MessagesTyped ==
  ASSUME MessageInput
  PROVE  input'.kind = "message" /\ input' \in MessageInputs
<1>1. PICK msg \in UpTo(Pieces, 4) \ {<<>>}, settings \in Settings, first, second \in Results :
        input' = [kind |-> "message", msg |-> msg, settings |-> settings,
                  first |-> first, second |-> second]
  BY DEF MessageInput
<1>2. UpTo(Pieces, 4) \subseteq Seq(Pieces)
  BY UpToTyped
<1> HIDE DEF Pieces, Settings, Results
<1> QED
  BY <1>1, <1>2 DEF MessageInputs

\* The suffixes and the texts of the messages that are chosen.
Suffixes == {7} \cup {Hook!Percent(res) : res \in Results}
ChosenTexts == TextPieces({"t"}, Suffixes)

\* They are messages, results and settings the theorems are about.
LEMMA ChosenMessage ==
  ASSUME NEW msg \in Seq(Pieces), NEW res \in Results, NEW settings \in Settings
  PROVE  /\ HookInput(ChosenTexts, Suffixes, msg, res, settings)
         /\ Len(TextOf(Only(msg, ChosenTexts))[1].ai) <= 1
         /\ Conf!ValidateTrailerFields(settings.trailer.fields)
         /\ res.sessions # <<>>
<1>1. PICK S, N, O, P : S = Suffixes /\ N = ChosenTexts /\ P = Pieces
                        /\ O = {Hook!Ours("AI-Lines", 7), Hook!Mark}
  OBVIOUS
<1>2. 7 \in S /\ Hook!Percent(res) \in S
  BY <1>1 DEF Suffixes
<1>3. N = TextPieces({"t"}, S)
  BY <1>1 DEF ChosenTexts
<1>4. /\ Hook!Blank \in N /\ Hook!Words("t", <<>>) \in N /\ Hook!Words("t", <<7>>) \in N
      /\ \A x \in O : Hook!IsOurs(x) /\ x \notin N
  <2>1. << >> \in Seq(S) /\ <<7>> \in Seq(S)
    BY <1>2
  <2>2. \A x \in O : x.is \in {"ours", "mark"}
    BY <1>1 DEF Hook!Ours, Hook!Mark
  <2>3. \A x \in N : x.is = "text"
    BY <1>3 DEF TextPieces
  <2>4. Hook!Blank \in N /\ Hook!Words("t", <<>>) \in N /\ Hook!Words("t", <<7>>) \in N
    BY <1>3, <2>1 DEF TextPieces, Hook!Blank, Hook!Words
  <2>5. \A x \in O : Hook!IsOurs(x) /\ x \notin N
    BY <2>2, <2>3 DEF Hook!IsOurs
  <2> QED
    BY <2>4, <2>5
<1>5. P = {Hook!Blank, Hook!Words("t", <<>>), Hook!Words("t", <<7>>)} \cup O
  BY <1>1, Zenon DEF Pieces
<1>6. msg \in Seq(N \cup O)
  <2>1. P \subseteq N \cup O
    BY <1>4, <1>5
  <2> QED
    BY <1>1, <2>1
<1>7. settings.trailer.fields \in {<<"lines", "agent">>, <<"coverage", "provenance-id">>}
  BY DEF Settings
<1>8. /\ \E F : settings.trailer.fields \in Seq(F)
      /\ Conf!ValidateTrailerFields(settings.trailer.fields)
  <2>1. PICK fields, x, y : fields = <<x, y>> /\ fields = settings.trailer.fields
                           /\ x \in Conf!TrailerFields /\ y \in Conf!TrailerFields /\ x # y
    BY <1>7 DEF Conf!TrailerFields
  <2>2. fields \in Seq(Conf!TrailerFields) /\ fields # <<>> /\ DOMAIN fields = {1, 2} /\ fields[1] = x /\ fields[2] = y
    BY <2>1
  <2>3. Conf!ValidateTrailerFields(fields)
    BY <2>1, <2>2 DEF Conf!ValidateTrailerFields
  <2> QED
    BY <2>1, <2>2, <2>3
<1>9. res.sessions # <<>>
  <2>1. PICK t \in {<<0, 0>>, <<1, 2>>, <<2, 2>>}, s \in {<<1>>} :
          res = [total |-> t[2], ai |-> t[1], untracked |-> t[2] - t[1], sessions |-> s,
                 status |-> IF t[1] = t[2] THEN "ok" ELSE "warning"]
    BY DEF Results
  <2>2. <<1>> # <<>> /\ s = <<1>>
    <3>1. 1 \in {1}
      OBVIOUS
    <3>2. <<1>> # <<>>
      BY <3>1, Spelled
    <3> QED
      BY <3>2
  <2> QED
    BY <2>1, <2>2
<1>10. HookInput(N, S, msg, res, settings)
  <2>1. \A x \in O : Hook!IsOurs(x)
    BY <1>4
  <2> QED
    BY <1>2, <1>3, <1>6, <1>8, <2>1 DEF HookInput
<1>11. \A x \in P \cap N : Len(x.ai) <= 1
  <2>1. P \cap N \subseteq {Hook!Blank, Hook!Words("t", <<>>), Hook!Words("t", <<7>>)}
    BY <1>4, <1>5
  <2>2. Hook!Blank.ai = <<>> /\ Hook!Words("t", <<>>).ai = <<>> /\ Hook!Words("t", <<7>>).ai = <<7>>
    BY DEF Hook!Blank, Hook!Words
  <2>3. PICK none, one : none = <<>> /\ one = <<7>>
    OBVIOUS
  <2>4. Len(none) <= 1 /\ Len(one) <= 1
    BY <2>3
  <2>5. Len(Hook!Blank.ai) <= 1 /\ Len(Hook!Words("t", <<>>).ai) <= 1 /\ Len(Hook!Words("t", <<7>>).ai) <= 1
    BY <2>2, <2>3, <2>4, Zenon
  <2>6. \A x \in {Hook!Blank, Hook!Words("t", <<>>), Hook!Words("t", <<7>>)} : Len(x.ai) <= 1
    BY <2>5, Zenon
  <2> QED
    BY <2>1, <2>6
<1>12. Len(TextOf(Only(msg, N))[1].ai) <= 1
  <2>1. PICK kept : kept = Only(msg, N)
    OBVIOUS
  <2>2. kept \in Seq(P \cap N)
    BY <1>1, <2>1, OnlyOf
  <2>3. CASE kept = <<>>
    <3>1. Len(Hook!Blank.ai) <= 1
      BY DEF Hook!Blank, Hook!Words
    <3>2. TextOf(kept)[1] = Hook!Blank
      BY <2>3 DEF TextOf
    <3> QED
      BY <2>1, <3>1, <3>2
  <2>4. CASE kept # <<>>
    <3>1. TextOf(kept)[1] = kept[1]
      BY <2>4 DEF TextOf
    <3>2. kept[1] \in P \cap N
      BY <2>2, <2>4, EmptySeq, ElementOfSeq
    <3> QED
      BY <1>11, <2>1, <3>1, <3>2
  <2> QED
    BY <2>3, <2>4
<1> QED
  BY <1>1, <1>8, <1>9, <1>10, <1>12

\* Every input chosen is one of these, for any keys of the configuration.
THEOREM InputsAreTyped == Spec => []InputTyped
<1>1. Init => InputTyped
  <2>1. Init => input.kind = "none"
    BY DEF Init, Wanted
  <2> QED
    BY <2>1 DEF InputTyped
<1>2. InputTyped /\ [Next]_input => InputTyped'
  <2> SUFFICES ASSUME InputTyped, [Next]_input PROVE InputTyped'
    OBVIOUS
  <2>1. CASE DiffInput
    BY <2>1, TextsTyped DEF InputTyped
  <2>2. CASE IgnoreInput
    BY <2>2, RulesTyped DEF InputTyped
  <2>3. CASE ConfigInput
    BY <2>3, ConfigsTyped DEF InputTyped
  <2>4. CASE GitInput
    BY <2>4, FilesTyped DEF InputTyped
  <2>5. CASE MessageInput
    BY <2>5, MessagesTyped DEF InputTyped
  <2>6. CASE VerifyInput
    <3>1. input'.kind = "verify"
      BY <2>6 DEF VerifyInput
    <3> QED
      BY <3>1 DEF InputTyped
  <2>7. CASE UNCHANGED input
    BY <2>7 DEF InputTyped
  <2> QED
    BY <2>1, <2>2, <2>3, <2>4, <2>5, <2>6, <2>7 DEF Next
<1> QED
  BY <1>1, <1>2, PTL DEF Spec

\* The diff of two texts fails only when they differ in more lines than are
\* allowed; otherwise it rebuilds both and changes no line it need not.
THEOREM ScriptIsShortestHolds == Spec => []ScriptIsShortest
<1>1. InputTyped => ScriptIsShortest
  <2> SUFFICES ASSUME InputTyped, input.kind = "texts"
               PROVE  LET a == Lines(input.before)
                          b == Lines(input.after)
                          shortest == ShortestLength(a, b)
                          diff == DiffWithLimit(input.before, input.after, input.budget)
                      IN  IF shortest > input.budget THEN diff.failed
                          ELSE /\ ~diff.failed
                               /\ Rebuilds(diff.edits, a, b)
                               /\ Cardinality({i \in DOMAIN diff.edits : diff.edits[i].op # "equal"}) = shortest
    BY DEF ScriptIsShortest
  <2>1. PICK S : input \in TextInputs(S)
    BY DEF InputTyped
  <2>2. input.before \in Seq(S) /\ input.after \in Seq(S) /\ input.budget \in Nat
    BY <2>1 DEF TextInputs
  <2>3. PICK a, b, m : a = Lines(input.before) /\ b = Lines(input.after) /\ m = input.budget
    OBVIOUS
  <2>4. a \in Seq(S) /\ b \in Seq(S) /\ m \in Nat
    BY <2>2, <2>3, LinesTyped
  <2> DEFINE diff == Myers(a, b, m)
  <2>5. DiffWithLimit(input.before, input.after, input.budget) = diff
    BY <2>3 DEF DiffWithLimit
  <2>6. /\ ShortestLength(a, b) \in Nat
        /\ IF ShortestLength(a, b) > m THEN diff.failed
           ELSE /\ ~diff.failed /\ Rebuilds(diff.edits, a, b)
                /\ Changes(diff.edits) = ShortestLength(a, b)
    BY <2>4, MyersIsShortest
  <2>7. ~diff.failed => Cardinality({i \in DOMAIN diff.edits : diff.edits[i].op # "equal"}) = Changes(diff.edits)
    <3> SUFFICES ASSUME ~diff.failed
                 PROVE  Cardinality({i \in DOMAIN diff.edits : diff.edits[i].op # "equal"}) = Changes(diff.edits)
      OBVIOUS
    <3>1. diff.edits \in Scripts(S)
      BY <2>4, MyersLeads
    <3> HIDE DEF diff
    <3>2. DOMAIN diff.edits = 1..Len(diff.edits)
      BY <3>1, LenProperties DEF Scripts
    <3> QED
      BY <3>2 DEF Changes, Taken
  <2> HIDE DEF diff
  <2> QED
    BY <2>3, <2>5, <2>6, <2>7
<1> QED
  BY <1>1, InputsAreTyped, PTL

\* A blank line among the lines of a text changes no line's identity.
THEOREM BlankLinesKeepIdentityHolds == Spec => []BlankLinesKeepIdentity
<1>1. InputTyped => BlankLinesKeepIdentity
  <2> SUFFICES ASSUME InputTyped, input.kind = "texts",
                      NEW at \in 0..Len(input.before), NEW i \in DOMAIN input.before,
                      ~IsBlank(input.before[i])
               PROVE  Identities(BlankPut(input.before, at))[Shifted(at, i)] = Identities(input.before)[i]
    BY DEF BlankLinesKeepIdentity
  <2>1. PICK S : S = TextLines
    OBVIOUS
  <2>2. input \in TextInputs(S)
    BY <2>1 DEF InputTyped
  <2>3. input.before \in Seq(S)
    BY <2>2 DEF TextInputs
  <2>4. BlankLine \in S
    BY <2>1, Zenon DEF TextLines, BlankLine
  <2> QED
    BY <2>3, <2>4, BlankLineKeeps
<1> QED
  BY <1>1, InputsAreTyped, PTL

\* No directory above a file that a "!" rule takes back is skipped, but for a
\* rule after it.
THEOREM NegationIsReachedHolds == Spec => []NegationIsReached
<1>1. InputTyped => NegationIsReached
  <2> SUFFICES ASSUME InputTyped, input.kind = "rules"
               PROVE  Tree!NegationIsReached(input.rules, input.path)
    BY DEF NegationIsReached
  <2>1. input.rules \in Seq(RulesOf(Segments)) /\ input.path \in Seq(Segments)
    BY DEF InputTyped, RuleInputs
  <2> QED
    BY <2>1, NegatedIsWalked
<1> QED
  BY <1>1, InputsAreTyped, PTL

\* Edits of the hook section keep the rest, and can be loaded again.
THEOREM EditsKeepTheRestHolds == Spec => []EditsKeepTheRest
<1>1. InputTyped => EditsKeepTheRest
  <2> SUFFICES ASSUME InputTyped, input.kind = "config", NEW fields \in FieldChoices
               PROVE  Conf!EditsKeepTheRest(input.file, fields)
    BY DEF EditsKeepTheRest
  <2>1. PICK F : F = Seq(FieldNames)
    OBVIOUS
  <2>2. input.file \in FilesOf(F)
    BY <2>1 DEF InputTyped, ConfigInputs
  <2>3. PICK N : N = FieldNames
    OBVIOUS
  <2>4. "lines" \in N /\ "agent" \in N /\ "coverage" \in N /\ "other" \in N
    BY <2>3, Zenon DEF FieldNames
  <2>5. \A x, y, z \in N : << >> \in F /\ <<x>> \in F /\ <<x, y>> \in F /\ <<x, y, z>> \in F
    BY <2>1, <2>3, Spelled
  <2>6. fields \in F
    BY <2>4, <2>5, Zenon DEF FieldChoices
  <2>7. <<"lines", "agent">> \in F /\ <<"coverage", "lines", "agent">> \in F
    BY <2>4, <2>5, Zenon
  <2> QED
    BY <2>2, <2>6, <2>7, EditsAreLocal
<1> QED
  BY <1>1, InputsAreTyped, PTL

\* Plain diffs are read as git means them.
THEOREM PlainDiffIsReadHolds == Spec => []PlainDiffIsRead
<1>1. InputTyped => PlainDiffIsRead
  <2> SUFFICES ASSUME InputTyped, input.kind = "files", Diff!Plain(input.files)
               PROVE  Diff!ReadDiff(input.files) = Diff!AddedPerFile(input.files)
    BY DEF PlainDiffIsRead
  <2>1. PICK P : P = GitPaths
    OBVIOUS
  <2>2. input.files \in Seq(Changed(P, GitLines))
    BY <2>1 DEF InputTyped, FileInputs
  <2>3. "/dev/null" \notin P
    BY <2>1 DEF GitPaths
  <2> QED
    BY <2>2, <2>3, PlainDiffsAreRead
<1> QED
  BY <1>1, InputsAreTyped, PTL

\* The hook over its own result writes what it writes over the original.
THEOREM AmendNeverStacksHolds == Spec => []AmendNeverStacks
<1>1. InputTyped => AmendNeverStacks
  <2> SUFFICES ASSUME InputTyped, input.kind = "message"
               PROVE  Hook!AmendNeverStacks(input.msg, input.first, input.second, Agents, input.settings)
    BY DEF AmendNeverStacks
  <2>1. PICK N, S : N = ChosenTexts /\ S = Suffixes
    OBVIOUS
  <2>2. /\ input.msg \in Seq(Pieces) /\ input.settings \in Settings
        /\ input.first \in Results /\ input.second \in Results
    BY DEF InputTyped, MessageInputs
  <2>3. /\ HookInput(N, S, input.msg, input.first, input.settings)
        /\ HookInput(N, S, input.msg, input.second, input.settings)
        /\ Len(TextOf(Only(input.msg, N))[1].ai) <= 1
    BY <2>1, <2>2, ChosenMessage
  <2> QED
    BY <2>3, AmendsNeverStack
<1> QED
  BY <1>1, InputsAreTyped, PTL

\* The hook keeps what is not ai-prov's, and records once, at the end.
THEOREM OnlyOursIsReplacedHolds == Spec => []OnlyOursIsReplaced
<1>1. InputTyped => OnlyOursIsReplaced
  <2> SUFFICES ASSUME InputTyped, input.kind = "message"
               PROVE  Hook!OnlyOursIsReplaced(input.msg, input.first, Agents, input.settings)
    BY DEF OnlyOursIsReplaced
  <2>1. PICK N, S : N = ChosenTexts /\ S = Suffixes
    OBVIOUS
  <2>2. input.msg \in Seq(Pieces) /\ input.settings \in Settings /\ input.first \in Results
    BY DEF InputTyped, MessageInputs
  <2>3. /\ HookInput(N, S, input.msg, input.first, input.settings)
        /\ Conf!ValidateTrailerFields(input.settings.trailer.fields)
        /\ input.first.sessions # <<>>
    BY <2>1, <2>2, ChosenMessage
  <2> QED
    BY <2>3, OursIsReplaced
<1> QED
  BY <1>1, InputsAreTyped, PTL
=============================================================================
