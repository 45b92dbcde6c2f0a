------------------------- MODULE AttributionProofs --------------------------
(***************************************************************************)
(* Theorems about Attribution, for any sessions, contents, lengths and     *)
(* budgets: what the rows of a file say of who inserted its lines, and what*)
(* Verify makes of them.  A finish's script leads from its snapshot to the *)
(* file (LineDiffProofs), so each of its rows is that of one line; what the*)
(* commits keep of the rows and the plans is CommitInv, the inductive      *)
(* invariant, and Verify's queues pair a content's rows with its lines.    *)
(***************************************************************************)
EXTENDS Attribution, LineDiffProofs

-----------------------------------------------------------------------------
\* What a finish makes of its script.

\* A line is told from every other of its file.
LEMMA IdentitiesApart ==
  ASSUME NEW S, NEW f \in Seq(S)
  PROVE  /\ DOMAIN Identities(f) = 1..Len(f)
         /\ \A i \in 1..Len(f) : Identities(f)[i].content = f[i]
         /\ \A i, j \in 1..Len(f) : Identities(f)[i] = Identities(f)[j] => i = j
<1>1. Len(f) \in Nat /\ DOMAIN f = 1..Len(f)
  BY LenProperties
<1>2. /\ DOMAIN Identities(f) = 1..Len(f)
      /\ \A i \in 1..Len(f) :
           /\ Identities(f)[i].content = f[i]
           /\ Identities(f)[i].occurrence = Cardinality({j \in 1..i : f[j] = f[i]})
  BY <1>1 DEF Identities
<1>3. ASSUME NEW i \in 1..Len(f), NEW j \in 1..Len(f), i < j, f[i] = f[j]
      PROVE  Identities(f)[i].occurrence # Identities(f)[j].occurrence
  <2> DEFINE U == {k \in 1..i : f[k] = f[i]}
             V == {k \in 1..j : f[k] = f[j]}
  <2>1. IsFiniteSet(V)
    <3>1. IsFiniteSet(1..j)
      BY FS_Interval
    <3>2. V \in SUBSET (1..j)
      OBVIOUS
    <3> QED
      BY <3>1, <3>2, FS_Subset
  <2>2. U \in SUBSET V /\ j \in V /\ j \notin U
    BY <1>3
  <2>3. Cardinality(U) # Cardinality(V)
    BY <2>1, <2>2, FS_Subset
  <2> QED
    BY <1>2, <2>3
<1>4. ASSUME NEW i \in 1..Len(f), NEW j \in 1..Len(f), Identities(f)[i] = Identities(f)[j]
      PROVE  i = j
  <2>1. f[i] = f[j] /\ Identities(f)[i].occurrence = Identities(f)[j].occurrence
    BY <1>2, <1>4
  <2>2. ~(i < j)
    BY <1>3, <2>1
  <2>3. ~(j < i)
    BY <1>3, <2>1
  <2> QED
    BY <1>1, <2>2, <2>3
<1> QED
  BY <1>2, <1>4

\* A row of the file: an agent's line, recognised by its content.
IsRow(r) ==
    /\ r.path = Path /\ r.source = AI /\ r.origin \in SessionIds
    /\ r.content \in Contents /\ r.identity.content = r.content
    /\ r.id \in SessionIds \X {1, 2} \X Nat

\* The row a finish of session s makes for edit e of its script.
Row(s, script, after, e, carried, origin, source) ==
    [path |-> Path, id |-> RowId(s, carried, e),
     identity |-> Identities(after)[Taken(script, e, "delete")],
     content |-> script[e].line, source |-> source, origin |-> origin]

\* Row l is that of a line inserted by edit e.
Inserted(l, s, script, after, e) ==
    script[e].op = "insert" /\ l = Row(s, script, after, e, FALSE, s, AI)

\* Row l is that of an equal line whose line of the snapshot has row r.
CarriedOn(l, r, s, before, script, after, e) ==
    /\ script[e].op = "equal"
    /\ r \in rows /\ r.identity = Identities(before)[Taken(script, e, "insert")]
    /\ l = Row(s, script, after, e, TRUE, r.origin, r.source)

\* Two rows differ in both their keys.
Unique(R) == \A r, q \in R : (r.identity = q.identity \/ r.id = q.id) => r = q

\* The rows are those of the lines, each with its own.
Covers(R, lines) == {r.identity : r \in R} = {Identities(lines)[i] : i \in DOMAIN lines}

\* The rows of session t and content c.
Of(R, t, c) == {r \in R : r.origin = t /\ r.content = c}

\* The edits that insert content c.
InsertsOf(script, c) == {e \in DOMAIN script : script[e] = Edit("insert", c)}

\* The rows a finish makes: one for an insertion, and one for an equal line
\* whose line of the snapshot has a row.
LEMMA LinesOf ==
  ASSUME NEW s, NEW before, NEW after, NEW script, NEW l
  PROVE  l \in ProvenanceForEdits(s, before, after, script) <=>
           \E e \in DOMAIN script :
             \/ Inserted(l, s, script, after, e)
             \/ \E r \in rows : CarriedOn(l, r, s, before, script, after, e)
<1> DEFINE E == {k \in DOMAIN script : script[k].op = "equal"}
           I == {k \in DOMAIN script : script[k].op = "insert"}
           C(e) == {Row(s, script, after, e, TRUE, r.origin, r.source) : r \in Carried(before, after, script, e)}
           N == {Row(s, script, after, e, FALSE, s, AI) : e \in I}
<1>1. ProvenanceForEdits(s, before, after, script) = (UNION {C(e) : e \in E}) \cup N
  BY DEF ProvenanceForEdits, Row, AfterIdentity
<1>2. l \in N <=> \E e \in DOMAIN script : Inserted(l, s, script, after, e)
  BY DEF Inserted
<1>3. ASSUME NEW e \in DOMAIN script
      PROVE  (e \in E /\ l \in C(e)) <=> \E r \in rows : CarriedOn(l, r, s, before, script, after, e)
  BY DEF Carried, CarriedOn
<1>4. l \in UNION {C(e) : e \in E} <=> \E e \in DOMAIN script : e \in E /\ l \in C(e)
  OBVIOUS
<1> HIDE DEF C, N, E, I
<1> QED
  BY <1>1, <1>2, <1>3, <1>4

\* What a finish makes of a script: the rows of its file.
LEMMA LinesAreRows ==
  ASSUME NEW s \in SessionIds, NEW before \in Seq(Contents), NEW after \in Seq(Contents),
         NEW script \in Scripts(Contents),
         Leads(script, before, after, 0, 0, Len(before), Len(after)),
         \A r \in rows : IsRow(r), Unique(rows),
         NEW L, L = ProvenanceForEdits(s, before, after, script)
  PROVE  /\ \A l \in L :
              /\ IsRow(l) /\ l.id[1] = s /\ l.id[3] \in 1..Len(script)
              /\ \E i \in DOMAIN after : l.identity = Identities(after)[i]
              /\ \/ /\ l.id[2] = 2 /\ l.origin = s
                    /\ l.id[3] \in InsertsOf(script, l.content)
                 \/ /\ l.id[2] = 1
                    /\ \E r \in rows : /\ r.origin = l.origin /\ r.content = l.content
                                       /\ r.identity = Identities(before)[Taken(script, l.id[3], "insert")]
                    /\ Taken(script, l.id[3], "insert") \in 1..Len(before)
                    /\ script[l.id[3]].op # "insert"
         /\ \A l, m \in L : l.id[3] = m.id[3] => l = m
         /\ Unique(L)
<1>1. /\ DOMAIN script = 1..Len(script) /\ Len(script) \in Nat /\ Len(before) \in Nat /\ Len(after) \in Nat
      /\ \A e \in 1..Len(script) :
           /\ script[e] \in [op : Ops, line : Contents]
           /\ script[e].op # "insert" => /\ Taken(script, e, "insert") \in 1..Len(before)
                                    /\ script[e].line = before[Taken(script, e, "insert")]
           /\ script[e].op # "delete" => /\ Taken(script, e, "delete") \in 1..Len(after)
                                    /\ script[e].line = after[Taken(script, e, "delete")]
  BY ScriptSides
<1>2. /\ DOMAIN Identities(after) = 1..Len(after)
      /\ \A i \in 1..Len(after) : Identities(after)[i].content = after[i]
      /\ \A i, j \in 1..Len(after) : Identities(after)[i] = Identities(after)[j] => i = j
  BY IdentitiesApart
<1>3. \A i \in 1..Len(before) : Identities(before)[i].content = before[i]
  BY IdentitiesApart
<1>4. DOMAIN after = 1..Len(after)
  BY LenProperties
<1>5. ASSUME NEW l, NEW e \in 1..Len(script), Inserted(l, s, script, after, e)
      PROVE  /\ IsRow(l) /\ l.id = <<s, 2, e>> /\ l.origin = s
             /\ l.identity = Identities(after)[Taken(script, e, "delete")]
             /\ script[e].op # "delete" /\ e \in InsertsOf(script, l.content)
  <2>1. script[e].op = "insert" /\ script[e].line \in Contents
    BY <1>1, <1>5 DEF Inserted
  <2>2. script[e] = Edit("insert", script[e].line)
    BY <1>1, <2>1 DEF Edit
  <2>3. /\ l.path = Path /\ l.id = <<s, 2, e>> /\ l.content = script[e].line
        /\ l.identity = Identities(after)[Taken(script, e, "delete")]
        /\ l.source = AI /\ l.origin = s
    BY <1>5 DEF Inserted, Row, RowId
  <2>4. l.identity.content = l.content
    BY <1>1, <1>2, <2>1, <2>3
  <2>5. IsRow(l)
    BY <1>1, <2>1, <2>3, <2>4 DEF IsRow
  <2> QED
    BY <1>1, <2>1, <2>2, <2>3, <2>5 DEF InsertsOf
<1>6. ASSUME NEW l, NEW e \in 1..Len(script), NEW r \in rows,
             CarriedOn(l, r, s, before, script, after, e)
      PROVE  /\ IsRow(l) /\ l.id = <<s, 1, e>> /\ r.origin = l.origin /\ r.content = l.content
             /\ l.identity = Identities(after)[Taken(script, e, "delete")]
             /\ r.identity = Identities(before)[Taken(script, e, "insert")]
             /\ script[e].op # "delete" /\ script[e].op # "insert"
             /\ Taken(script, e, "insert") \in 1..Len(before)
  <2>1. /\ script[e].op # "delete" /\ script[e].op # "insert" /\ script[e].line \in Contents
        /\ r.identity = Identities(before)[Taken(script, e, "insert")]
    BY <1>1, <1>6 DEF CarriedOn
  <2>2. /\ l.path = Path /\ l.id = <<s, 1, e>> /\ l.content = script[e].line
        /\ l.identity = Identities(after)[Taken(script, e, "delete")]
        /\ l.source = r.source /\ l.origin = r.origin
    BY <1>6 DEF CarriedOn, Row, RowId
  <2>3. l.identity.content = l.content
    BY <1>1, <1>2, <2>1, <2>2
  <2>4. r.content = l.content
    BY <1>1, <1>3, <2>1, <2>2 DEF IsRow
  <2>5. IsRow(l)
    BY <1>1, <2>1, <2>2, <2>3 DEF IsRow
  <2> QED
    BY <1>1, <2>1, <2>2, <2>4, <2>5
<1>7. ASSUME NEW l \in L
      PROVE  \E e \in 1..Len(script) :
               \/ Inserted(l, s, script, after, e)
               \/ \E r \in rows : CarriedOn(l, r, s, before, script, after, e)
  BY <1>1, LinesOf
<1>8. ASSUME NEW l \in L
      PROVE  /\ IsRow(l) /\ l.id[1] = s /\ l.id[3] \in 1..Len(script)
             /\ script[l.id[3]].op # "delete"
             /\ l.identity = Identities(after)[Taken(script, l.id[3], "delete")]
             /\ \/ /\ l.id[2] = 2 /\ l.origin = s
                   /\ l.id[3] \in InsertsOf(script, l.content)
                \/ /\ l.id[2] = 1
                   /\ \E r \in rows : /\ r.origin = l.origin /\ r.content = l.content
                                      /\ r.identity = Identities(before)[Taken(script, l.id[3], "insert")]
                   /\ Taken(script, l.id[3], "insert") \in 1..Len(before)
                   /\ script[l.id[3]].op # "insert"
  <2>1. PICK e \in 1..Len(script) :
               \/ Inserted(l, s, script, after, e)
               \/ \E r \in rows : CarriedOn(l, r, s, before, script, after, e)
    BY <1>7
  <2>2. CASE Inserted(l, s, script, after, e)
    <3>1. /\ IsRow(l) /\ l.id = <<s, 2, e>> /\ l.origin = s
          /\ l.identity = Identities(after)[Taken(script, e, "delete")]
          /\ script[e].op # "delete" /\ e \in InsertsOf(script, l.content)
      BY <1>5, <2>2
    <3>2. l.id[1] = s /\ l.id[2] = 2 /\ l.id[3] = e
      BY <3>1
    <3> QED
      BY <3>1, <3>2
  <2>3. CASE \E r \in rows : CarriedOn(l, r, s, before, script, after, e)
    <3>1. PICK r \in rows : CarriedOn(l, r, s, before, script, after, e)
      BY <2>3
    <3>2. /\ IsRow(l) /\ l.id = <<s, 1, e>> /\ r.origin = l.origin /\ r.content = l.content
          /\ l.identity = Identities(after)[Taken(script, e, "delete")]
          /\ r.identity = Identities(before)[Taken(script, e, "insert")]
          /\ script[e].op # "delete" /\ script[e].op # "insert"
          /\ Taken(script, e, "insert") \in 1..Len(before)
      BY <1>6, <3>1
    <3>3. l.id[1] = s /\ l.id[2] = 1 /\ l.id[3] = e
      BY <3>2
    <3> QED
      BY <3>2, <3>3
  <2> QED
    BY <2>1, <2>2, <2>3
<1>9. ASSUME NEW l \in L, NEW m \in L, l.id[3] = m.id[3]
      PROVE  l = m
  <2>1. PICK e \in 1..Len(script) :
               \/ Inserted(l, s, script, after, e)
               \/ \E r \in rows : CarriedOn(l, r, s, before, script, after, e)
    BY <1>7
  <2>2. PICK d \in 1..Len(script) :
               \/ Inserted(m, s, script, after, d)
               \/ \E r \in rows : CarriedOn(m, r, s, before, script, after, d)
    BY <1>7
  <2>3. l.id = <<s, 1, e>> \/ l.id = <<s, 2, e>>
    BY <1>5, <1>6, <2>1
  <2>4. m.id = <<s, 1, d>> \/ m.id = <<s, 2, d>>
    BY <1>5, <1>6, <2>2
  <2>5. d = e
    BY <1>9, <2>3, <2>4
  <2>6. CASE script[e].op = "insert"
    BY <2>1, <2>2, <2>5, <2>6 DEF Inserted, CarriedOn
  <2>7. CASE script[e].op # "insert"
    <3>1. PICK r \in rows : CarriedOn(l, r, s, before, script, after, e)
      BY <2>1, <2>7 DEF Inserted
    <3>2. PICK q \in rows : CarriedOn(m, q, s, before, script, after, e)
      BY <2>2, <2>5, <2>7 DEF Inserted
    <3>3. r = q
      BY <3>1, <3>2 DEF CarriedOn, Unique
    <3> QED
      BY <3>1, <3>2, <3>3 DEF CarriedOn
  <2> QED
    BY <2>6, <2>7
<1>10. ASSUME NEW l \in L, NEW m \in L, l.identity = m.identity
      PROVE  l = m
  <2>1. PICK d, e : d = l.id[3] /\ e = m.id[3]
    OBVIOUS
  <2>2. d \in 1..Len(script) /\ script[d].op # "delete" /\ l.identity = Identities(after)[Taken(script, d, "delete")]
    BY <1>8, <2>1
  <2>3. e \in 1..Len(script) /\ script[e].op # "delete" /\ m.identity = Identities(after)[Taken(script, e, "delete")]
    BY <1>8, <2>1
  <2>4. Taken(script, d, "delete") = Taken(script, e, "delete")
    BY <1>1, <1>2, <1>10, <2>2, <2>3
  <2>5. d \in Nat /\ e \in Nat
    BY <1>1, <2>2, <2>3
  <2>6. d = e
    BY <2>2, <2>3, <2>4, <2>5, TakenApart
  <2> QED
    BY <1>9, <2>1, <2>6
<1>11. Unique(L)
  BY <1>9, <1>10 DEF Unique
<1>12. \A l \in L : \E i \in DOMAIN after : l.identity = Identities(after)[i]
  BY <1>1, <1>4, <1>8
<1> QED
  BY <1>8, <1>9, <1>11, <1>12

\* What a finish makes of its script and the rows: each session's lines of a
\* content are no more than it inserted now or has had.
LEMMA LinesCounted ==
  ASSUME NEW s \in SessionIds, NEW before \in Seq(Contents), NEW after \in Seq(Contents),
         NEW script \in Scripts(Contents),
         Leads(script, before, after, 0, 0, Len(before), Len(after)),
         \A r \in rows : IsRow(r) /\ r.origin # s, Unique(rows), IsFiniteSet(rows),
         NEW L, L = ProvenanceForEdits(s, before, after, script)
  PROVE  /\ IsFiniteSet(L)
         /\ \A c : Cardinality(Of(L, s, c)) <= Cardinality(InsertsOf(script, c))
         /\ \A t, c : t # s => Cardinality(Of(L, t, c)) <= Cardinality(Of(rows, t, c))
<1> DEFINE place(l) == Identities(before)[Taken(script, l.id[3], "insert")]
<1>1. /\ \A l \in L :
           /\ IsRow(l) /\ l.id[1] = s /\ l.id[3] \in 1..Len(script)
           /\ \/ /\ l.id[2] = 2 /\ l.origin = s
                 /\ l.id[3] \in InsertsOf(script, l.content)
              \/ /\ l.id[2] = 1
                 /\ \E r \in rows : r.origin = l.origin /\ r.content = l.content /\ r.identity = place(l)
                 /\ Taken(script, l.id[3], "insert") \in 1..Len(before)
                 /\ script[l.id[3]].op # "insert"
      /\ \A l, m \in L : l.id[3] = m.id[3] => l = m
  BY LinesAreRows
<1>2. Len(script) \in Nat /\ DOMAIN script = 1..Len(script)
  BY LenProperties DEF Scripts
<1>3. IsFiniteSet(1..Len(script))
  BY <1>2, FS_Interval
<1>4. IsFiniteSet(L)
  <2>1. PICK f, T : f = [l \in L |-> l.id[3]] /\ T = 1..Len(script)
    OBVIOUS
  <2>2. f \in [L -> T] /\ IsFiniteSet(T)
    BY <1>1, <1>3, <2>1
  <2>3. \A l, m \in L : f[l] = f[m] => l = m
    BY <1>1, <2>1
  <2> HIDE DEF place
  <2> QED
    BY <2>2, <2>3, OneToOne
<1>5. ASSUME NEW c PROVE Cardinality(Of(L, s, c)) <= Cardinality(InsertsOf(script, c))
  <2>1. PICK f : f = [l \in Of(L, s, c) |-> l.id[3]]
    OBVIOUS
  <2>2. f \in [Of(L, s, c) -> InsertsOf(script, c)]
    BY <1>1, <2>1 DEF Of
  <2>3. \A l, m \in Of(L, s, c) : f[l] = f[m] => l = m
    BY <1>1, <2>1 DEF Of
  <2>4. IsFiniteSet(InsertsOf(script, c))
    <3>1. InsertsOf(script, c) \in SUBSET (1..Len(script))
      BY <1>2 DEF InsertsOf
    <3> QED
      BY <1>3, <3>1, FS_Subset
  <2> QED
    BY <2>2, <2>3, <2>4, OneToOne
<1>6. ASSUME NEW t, NEW c, t # s PROVE Cardinality(Of(L, t, c)) <= Cardinality(Of(rows, t, c))
  <2> DEFINE from(l, r) == r \in Of(rows, t, c) /\ r.identity = place(l)
  <2>1. PICK f : f = [l \in Of(L, t, c) |-> CHOOSE r : from(l, r)]
    OBVIOUS
  <2>2. ASSUME NEW l \in Of(L, t, c) 
        PROVE  /\ from(l, f[l]) /\ l \in L
               /\ Taken(script, l.id[3], "insert") \in 1..Len(before)
               /\ script[l.id[3]].op # "insert" /\ l.id[3] \in Nat
    <3>1. l \in L /\ l.origin = t /\ l.content = c
      BY DEF Of
    <3>2. /\ \E r \in rows : r.origin = l.origin /\ r.content = l.content /\ r.identity = place(l)
          /\ Taken(script, l.id[3], "insert") \in 1..Len(before)
          /\ script[l.id[3]].op # "insert" /\ l.id[3] \in 1..Len(script)
      BY <1>1, <1>6, <3>1
    <3>3. \E r : from(l, r)
      BY <3>1, <3>2 DEF Of
    <3>4. f[l] = CHOOSE r : from(l, r)
      BY <2>1
    <3> HIDE DEF from
    <3>5. from(l, f[l])
      BY <3>3, <3>4
    <3> QED
      BY <1>2, <3>1, <3>2, <3>5
  <2>3. f \in [Of(L, t, c) -> Of(rows, t, c)]
    BY <2>1, <2>2
  <2>4. ASSUME NEW l \in Of(L, t, c), NEW m \in Of(L, t, c), f[l] = f[m] PROVE l = m
    <3>1. PICK d, e : d = l.id[3] /\ e = m.id[3]
      OBVIOUS
    <3>2. /\ d \in Nat /\ e \in Nat /\ script[d].op # "insert" /\ script[e].op # "insert"
          /\ Taken(script, d, "insert") \in 1..Len(before) /\ Taken(script, e, "insert") \in 1..Len(before)
          /\ Identities(before)[Taken(script, d, "insert")] = Identities(before)[Taken(script, e, "insert")]
      BY <2>2, <2>4, <3>1
    <3>3. Taken(script, d, "insert") = Taken(script, e, "insert")
      BY <3>2, IdentitiesApart
    <3>4. d = e
      BY <3>2, <3>3, TakenApart
    <3> QED
      BY <1>1, <2>2, <3>1, <3>4
  <2>5. IsFiniteSet(Of(rows, t, c))
    <3>1. Of(rows, t, c) \in SUBSET rows
      BY DEF Of
    <3> QED
      BY <3>1, FS_Subset
  <2> HIDE DEF from
  <2> QED
    BY <2>3, <2>4, <2>5, OneToOne
<1> QED
  BY <1>4, <1>5, <1>6

\* If every line of the snapshot has its row, every line of the file gets one.
LEMMA LinesCover ==
  ASSUME NEW s \in SessionIds, NEW before \in Seq(Contents), NEW after \in Seq(Contents),
         NEW script \in Scripts(Contents),
         Leads(script, before, after, 0, 0, Len(before), Len(after)),
         \A r \in rows : IsRow(r), Unique(rows), Covers(rows, before),
         NEW L, L = ProvenanceForEdits(s, before, after, script)
  PROVE  Covers(L, after)
<1>1. /\ DOMAIN script = 1..Len(script) /\ Len(script) \in Nat /\ Len(before) \in Nat /\ Len(after) \in Nat
      /\ \A e \in 1..Len(script) :
           /\ script[e] \in [op : Ops, line : Contents]
           /\ script[e].op # "insert" => Taken(script, e, "insert") \in 1..Len(before)
      /\ Taken(script, Len(script), "delete") = Len(after)
  BY ScriptSides
<1>2. DOMAIN before = 1..Len(before) /\ DOMAIN after = 1..Len(after)
  BY LenProperties
<1>3. \A l \in L : \E i \in DOMAIN after : l.identity = Identities(after)[i]
  BY LinesAreRows
<1>4. ASSUME NEW i \in 1..Len(after) PROVE \E l \in L : l.identity = Identities(after)[i]
  <2>1. PICK e \in 1..Len(script) : script[e].op # "delete" /\ Taken(script, e, "delete") = i
    <3>1. i \in 1..Taken(script, Len(script), "delete")
      BY <1>1
    <3> QED
      BY <1>1, <3>1, TakenAll
  <2>2. CASE script[e].op = "insert"
    <3>1. PICK l : l = Row(s, script, after, e, FALSE, s, AI)
      OBVIOUS
    <3>2. Inserted(l, s, script, after, e)
      BY <2>2, <3>1 DEF Inserted
    <3>3. l \in L
      BY <1>1, <3>2, LinesOf
    <3>4. l.identity = Identities(after)[i]
      BY <2>1, <3>1 DEF Row
    <3> QED
      BY <3>3, <3>4
  <2>3. CASE script[e].op # "insert"
    <3>1. script[e].op = "equal"
      BY <1>1, <2>1, <2>3 DEF Ops
    <3>2. PICK r \in rows : r.identity = Identities(before)[Taken(script, e, "insert")]
      BY <1>1, <1>2, <2>3 DEF Covers
    <3>3. PICK l : l = Row(s, script, after, e, TRUE, r.origin, r.source)
      OBVIOUS
    <3>4. CarriedOn(l, r, s, before, script, after, e)
      BY <3>1, <3>2, <3>3 DEF CarriedOn
    <3>5. l \in L
      BY <1>1, <3>4, LinesOf
    <3>6. l.identity = Identities(after)[i]
      BY <2>1, <3>3 DEF Row
    <3> QED
      BY <3>5, <3>6
  <2> QED
    BY <2>2, <2>3
<1> QED
  BY <1>2, <1>3, <1>4 DEF Covers

-----------------------------------------------------------------------------
\* The rows and the plans: well typed, and owned by the sessions whose lines they
\* are.

\* A session that is over and has committed what it will.
Spent(s) == session[s].state \in {"finished", "failed"} /\ ~plan[s].prepared

PlanTyped(p) ==
    /\ p.prepared \in BOOLEAN /\ p.edits \in Scripts(Contents)
    /\ \A l \in p.lines : IsRow(l)
    /\ IsFiniteSet(p.lines)

TypeInv ==
    /\ file \in Seq(Contents)
    /\ session \in [SessionIds -> [state : States, base : Seq(Contents), stale : BOOLEAN]]
    /\ \A r \in rows : IsRow(r)
    /\ IsFiniteSet(rows)
    /\ DOMAIN plan = SessionIds
    /\ \A s \in SessionIds : PlanTyped(plan[s])
    /\ earned \in [SessionIds -> [Contents -> Nat]]
    /\ serial \in BOOLEAN /\ raced \in BOOLEAN /\ clashed \in BOOLEAN

\* A plan has only lines of its session, which are inserted by its script or
\* carried on from a session that is spent.
PlanOwned(s, p) ==
    /\ ~HasChanges(p.edits) => p.lines = {} /\ p.removed = {}
    /\ \A l \in p.lines :
         /\ l.id[1] = s
         /\ IF l.origin = s THEN InsertsOf(p.edits, l.content) # {}
            ELSE Spent(l.origin) /\ earned[l.origin][l.content] > 0

PlansOwned ==
    \A s \in SessionIds :
        /\ PlanOwned(s, plan[s])
        /\ ~plan[s].prepared => plan[s] = NoPlan
        /\ plan[s].prepared => session[s].state \in {"active", "failed"}

\* A row is made by a session that is spent, and its origin inserted its line.
RowsOwned ==
    \A r \in rows : Spent(r.origin) /\ Spent(r.id[1]) /\ earned[r.origin][r.content] > 0

\* No two rows, and no two lines of a plan, share a key.
RowsUnique == Unique(rows) /\ \A s \in SessionIds : Unique(plan[s].lines)

RowsInv == TypeInv /\ PlansOwned /\ RowsOwned /\ RowsUnique

\* What Prepare leaves for its commit.
PlanOf(s, p) ==
    /\ p.prepared = TRUE
    /\ p.edits \in Scripts(Contents)
    /\ Leads(p.edits, session[s].base, file, 0, 0, Len(session[s].base), Len(file))
    /\ HasChanges(p.edits) =>
         /\ session[s].base # file
         /\ p.lines = ProvenanceForEdits(s, session[s].base, file, p.edits)
         /\ p.removed = {r.id : r \in rows}
    /\ ~HasChanges(p.edits) => session[s].base = file /\ p.lines = {} /\ p.removed = {}

\* What Prepare does: it fails the session, or leaves a plan for its commit.
LEMMA PrepareGives ==
  ASSUME TypeInv, NEW s \in SessionIds, Prepare(s)
  PROVE  /\ session[s].state = "active" /\ ~plan[s].prepared
         /\ UNCHANGED <<file, rows, edits, earned, raced, clashed>>
         /\ \/ /\ session' = [session EXCEPT ![s] = Ended("failed")]
               /\ serial' = FALSE /\ plan' = plan
            \/ /\ session' = session /\ serial' = serial
               /\ \E p : plan' = [plan EXCEPT ![s] = p] /\ PlanOf(s, p)
<1> DEFINE base == session[s].base
           diff == Myers(base, file, MaxDiffEdits)
           changes == ~diff.failed /\ HasChanges(diff.edits)
           lines == ProvenanceForEdits(s, base, file, diff.edits)
<1>1. base \in Seq(Contents) /\ file \in Seq(Contents) /\ MaxDiffEdits \in Nat
  BY BoundsAssumption DEF TypeInv
<1>2. /\ session[s].state = "active" /\ ~plan[s].prepared
      /\ UNCHANGED <<file, rows, edits, earned, raced, clashed>>
      /\ \/ /\ session' = [session EXCEPT ![s] = Ended("failed")]
            /\ serial' = FALSE /\ plan' = plan
         \/ /\ ~diff.failed /\ session' = session /\ serial' = serial
            /\ plan' = [plan EXCEPT ![s] =
                   [prepared |-> TRUE, edits |-> diff.edits,
                    lines |-> IF changes THEN lines ELSE {},
                    removed |-> IF changes THEN Removed(lines) ELSE {}]]
  BY DEF Prepare
<1>3. PICK p : p = [prepared |-> TRUE, edits |-> diff.edits,
                    lines |-> IF changes THEN lines ELSE {},
                    removed |-> IF changes THEN Removed(lines) ELSE {}]
  OBVIOUS
<1>4. ASSUME ~diff.failed PROVE PlanOf(s, p)
  <2>1. PICK es : es = diff.edits
    OBVIOUS
  <2>2. es \in Scripts(Contents) /\ Leads(es, base, file, 0, 0, Len(base), Len(file))
    BY <1>1, <1>4, <2>1, MyersLeads
  <2>3. base = file => ~HasChanges(es)
    BY <1>1, <2>1, MyersSame
  <2>4. ~HasChanges(es) => base = file
    BY <1>1, <2>2, SameBySide
  <2>5. /\ p.prepared = TRUE /\ p.edits = es
        /\ p.lines = IF HasChanges(es) THEN ProvenanceForEdits(s, base, file, es) ELSE {}
        /\ p.removed = IF HasChanges(es) THEN {r.id : r \in rows} ELSE {}
    BY <1>3, <1>4, <2>1 DEF Removed
  <2> QED
    BY <2>2, <2>3, <2>4, <2>5 DEF PlanOf
<1> QED
  BY <1>2, <1>3, <1>4

\* What a plan made now has, when it is an active session's.
LEMMA PlanFacts ==
  ASSUME RowsInv, NEW s \in SessionIds, session[s].state = "active",
         NEW p, PlanOf(s, p)
  PROVE  /\ PlanTyped(p) /\ PlanOwned(s, p) /\ Unique(p.lines)
         /\ \A c : Cardinality(Of(p.lines, s, c)) <= Cardinality(InsertsOf(p.edits, c))
         /\ \A t, c : t # s => Cardinality(Of(p.lines, t, c)) <= Cardinality(Of(rows, t, c))
         /\ HasChanges(p.edits) /\ Covers(rows, session[s].base) => Covers(p.lines, file)
<1>1. PICK base, es, L : base = session[s].base /\ es = p.edits /\ L = p.lines
  OBVIOUS
<1>2. /\ base \in Seq(Contents) /\ file \in Seq(Contents) /\ es \in Scripts(Contents)
      /\ Leads(es, base, file, 0, 0, Len(base), Len(file))
  BY <1>1 DEF PlanOf, RowsInv, TypeInv
<1>3. /\ \A r \in rows : IsRow(r)
      /\ \A r \in rows : r.origin # s /\ Spent(r.origin) /\ earned[r.origin][r.content] > 0
      /\ Unique(rows) /\ IsFiniteSet(rows)
  BY DEF RowsInv, TypeInv, RowsOwned, RowsUnique, Spent
<1>4. CASE ~HasChanges(es)
  <2>1. L = {} /\ p.removed = {} /\ p.prepared = TRUE
    BY <1>1, <1>4 DEF PlanOf
  <2>2. IsFiniteSet(L) /\ Cardinality({}) = 0
    BY <2>1, FS_EmptySet
  <2>3. PlanTyped(p) /\ PlanOwned(s, p) /\ Unique(L)
    BY <1>1, <1>2, <1>4, <2>1, <2>2 DEF PlanTyped, PlanOwned, Unique
  <2>4. \A t, c : Of(L, t, c) = {}
    BY <2>1 DEF Of
  <2>5. \A t, c : IsFiniteSet(InsertsOf(es, c)) /\ IsFiniteSet(Of(rows, t, c))
    <3>1. Len(es) \in Nat /\ DOMAIN es = 1..Len(es)
      BY <1>2, LenProperties DEF Scripts
    <3>2. \A t, c : InsertsOf(es, c) \in SUBSET (1..Len(es)) /\ Of(rows, t, c) \in SUBSET rows
      BY <3>1 DEF InsertsOf, Of
    <3>3. IsFiniteSet(1..Len(es))
      BY <3>1, FS_Interval
    <3> QED
      BY <1>3, <3>2, <3>3, FS_Subset
  <2>6. \A t, c : Cardinality(InsertsOf(es, c)) >= 0 /\ Cardinality(Of(rows, t, c)) >= 0
    BY <2>5, FS_CardinalityType
  <2> QED
    BY <1>1, <1>4, <2>2, <2>3, <2>4, <2>6
<1>5. CASE HasChanges(es)
  <2>1. L = ProvenanceForEdits(s, base, file, es) /\ p.prepared = TRUE
    BY <1>1, <1>5 DEF PlanOf
  <2>2. /\ IsFiniteSet(L)
        /\ \A c : Cardinality(Of(L, s, c)) <= Cardinality(InsertsOf(es, c))
        /\ \A t, c : t # s => Cardinality(Of(L, t, c)) <= Cardinality(Of(rows, t, c))
    BY <1>2, <1>3, <2>1, LinesCounted
  <2>3. /\ \A l \in L :
             /\ IsRow(l) /\ l.id[1] = s
             /\ \/ l.origin = s /\ l.id[3] \in InsertsOf(es, l.content)
                \/ \E r \in rows : r.origin = l.origin /\ r.content = l.content
        /\ Unique(L)
    BY <1>2, <1>3, <2>1, LinesAreRows
  <2>4. Covers(rows, base) => Covers(L, file)
    BY <1>2, <1>3, <2>1, LinesCover
  <2>5. PlanTyped(p)
    BY <1>1, <1>2, <2>1, <2>2, <2>3 DEF PlanTyped
  <2>6. PlanOwned(s, p)
    BY <1>1, <1>3, <1>5, <2>3 DEF PlanOwned
  <2> QED
    BY <1>1, <2>2, <2>3, <2>4, <2>5, <2>6
<1> QED
  BY <1>4, <1>5

\* A line typed or deleted leaves a file.
LEMMA EditedFile ==
  ASSUME file \in Seq(Contents), EditFile
  PROVE  file' \in Seq(Contents)
<1>1. Len(file) \in Nat
  BY LenProperties
<1>2. PICK i \in 1..(Len(file) + 1) :
         \/ \E c \in Contents : file' = InsertAt(file, i, c)
         \/ i <= Len(file) /\ file' = RemoveAt(file, i)
  BY DEF EditFile
<1>3. SubSeq(file, 1, i - 1) \in Seq(Contents)
  <2>1. i - 1 <= Len(file) /\ i - 1 \in Int
    BY <1>1
  <2> QED
    BY <1>1, <2>1, SubSeqProperties
<1>4. SubSeq(file, i, Len(file)) \in Seq(Contents)
  BY <1>1, SubSeqProperties
<1>5. CASE \E c \in Contents : file' = InsertAt(file, i, c)
  <2>1. PICK c \in Contents : file' = SubSeq(file, 1, i - 1) \o <<c>> \o SubSeq(file, i, Len(file))
    BY <1>5 DEF InsertAt
  <2>2. PICK x, y, z : x = SubSeq(file, 1, i - 1) /\ y = <<c>> /\ z = SubSeq(file, i, Len(file))
    OBVIOUS
  <2>3. y \in Seq(Contents)
    BY <2>2
  <2>4. x \o y \in Seq(Contents)
    BY <1>3, <2>2, <2>3, ConcatProperties
  <2>5. (x \o y) \o z \in Seq(Contents)
    BY <1>4, <2>2, <2>4, ConcatProperties
  <2> QED
    BY <2>1, <2>2, <2>5
<1>6. CASE i <= Len(file) /\ file' = RemoveAt(file, i)
  <2>1. i + 1 \in Nat /\ SubSeq(file, i + 1, Len(file)) \in Seq(Contents)
    <3>1. i + 1 \in 1..(Len(file) + 1)
      BY <1>1, <1>6
    <3> QED
      BY <1>1, <3>1, SubSeqProperties
  <2>2. file' = SubSeq(file, 1, i - 1) \o SubSeq(file, i + 1, Len(file))
    BY <1>6 DEF RemoveAt
  <2> QED
    BY <1>3, <2>1, <2>2, ConcatProperties
<1> QED
  BY <1>2, <1>5, <1>6

\* How a commit leaves its session and its plan.
LEMMA CommitGives ==
  ASSUME RowsInv, NEW s \in SessionIds, CommitFinish(s)
  PROVE  /\ plan[s].prepared /\ ~Clash(s)
         /\ session[s].state \in {"active", "failed"}
         /\ rows' = Kept(s) \cup plan[s].lines
         /\ session' \in [SessionIds -> [state : States, base : Seq(Contents), stale : BOOLEAN]]
         /\ session'[s].state = IF session[s].state = "active" THEN "finished" ELSE session[s].state
         /\ \A t \in SessionIds \ {s} :
              session'[t].state = session[t].state /\ session'[t].base = session[t].base
         /\ plan' = [plan EXCEPT ![s] = NoPlan]
         /\ earned' \in [SessionIds -> [Contents -> Nat]]
         /\ \A t \in SessionIds, c \in Contents :
              earned'[t][c] = IF t = s THEN Cardinality(InsertsOf(plan[s].edits, c)) ELSE earned[t][c]
         /\ IsFiniteSet(rows')
         /\ UNCHANGED <<file, edits, serial, clashed>>
<1>1. /\ plan[s].prepared /\ ~Clash(s) /\ session[s].state \in {"active", "failed"}
      /\ rows' = Kept(s) \cup plan[s].lines /\ plan' = [plan EXCEPT ![s] = NoPlan]
      /\ UNCHANGED <<file, edits, serial, clashed>>
  BY DEF CommitFinish, RowsInv, PlansOwned
<1>2. session \in [SessionIds -> [state : States, base : Seq(Contents), stale : BOOLEAN]]
  BY DEF RowsInv, TypeInv
<1>3. session' = [t \in SessionIds |->
             IF t = s THEN IF session[s].state = "active" THEN Ended("finished") ELSE session[s]
             ELSE IF session[s].state = "active" /\ HasChanges(plan[s].edits) /\ session[t].state = "active"
                  THEN [session[t] EXCEPT !.stale = TRUE] ELSE session[t]]
  BY DEF CommitFinish
<1>4. Ended("finished") \in [state : States, base : Seq(Contents), stale : BOOLEAN]
  BY DEF Ended, States
<1>5. session' \in [SessionIds -> [state : States, base : Seq(Contents), stale : BOOLEAN]]
  <2>1. ASSUME NEW t \in SessionIds
        PROVE  [session[t] EXCEPT !.stale = TRUE] \in [state : States, base : Seq(Contents), stale : BOOLEAN]
    BY <1>2
  <2> QED
    BY <1>2, <1>3, <1>4, <2>1
<1>6. session'[s].state = IF session[s].state = "active" THEN "finished" ELSE session[s].state
  BY <1>3 DEF Ended
<1>7. ASSUME NEW t \in SessionIds \ {s}
      PROVE  session'[t].state = session[t].state /\ session'[t].base = session[t].base
  <2>1. PICK x : x = session[t]
    OBVIOUS
  <2>2. session'[t] = x \/ session'[t] = [x EXCEPT !.stale = TRUE]
    BY <1>3, <2>1
  <2>3. x \in [state : States, base : Seq(Contents), stale : BOOLEAN]
    BY <1>2, <2>1
  <2> QED
    BY <2>1, <2>2, <2>3
<1>8. \A c : IsFiniteSet(InsertsOf(plan[s].edits, c))
  <2>1. Len(plan[s].edits) \in Nat /\ DOMAIN plan[s].edits = 1..Len(plan[s].edits)
    BY LenProperties DEF RowsInv, TypeInv, PlanTyped, Scripts
  <2>2. \A c : InsertsOf(plan[s].edits, c) \in SUBSET (1..Len(plan[s].edits))
    BY <2>1 DEF InsertsOf
  <2>3. IsFiniteSet(1..Len(plan[s].edits))
    BY <2>1, FS_Interval
  <2> QED
    BY <2>2, <2>3, FS_Subset
<1>9. /\ earned' = [earned EXCEPT ![s] = [c \in Contents |-> Cardinality(InsertsOf(plan[s].edits, c))]]
      /\ earned \in [SessionIds -> [Contents -> Nat]]
  BY DEF CommitFinish, InsertsOf, RowsInv, TypeInv
<1>10. [c \in Contents |-> Cardinality(InsertsOf(plan[s].edits, c))] \in [Contents -> Nat]
  BY <1>8, FS_CardinalityType
<1>11. /\ earned' \in [SessionIds -> [Contents -> Nat]]
       /\ \A t \in SessionIds, c \in Contents :
              earned'[t][c] = IF t = s THEN Cardinality(InsertsOf(plan[s].edits, c)) ELSE earned[t][c]
  BY <1>9, <1>10
<1>12. IsFiniteSet(rows')
  <2>1. IsFiniteSet(rows) /\ Kept(s) \in SUBSET rows /\ IsFiniteSet(plan[s].lines)
    BY DEF Kept, RowsInv, TypeInv, PlanTyped
  <2>2. IsFiniteSet(Kept(s))
    BY <2>1, FS_Subset
  <2> QED
    BY <1>1, <2>1, <2>2, FS_Union
<1> QED
  BY <1>1, <1>5, <1>6, <1>7, <1>11, <1>12

\* A session that is spent stays so, with what it earned.
LEMMA SpentStays ==
  ASSUME RowsInv, [Next]_vars, NEW t \in SessionIds, Spent(t)
  PROVE  Spent(t)' /\ earned'[t] = earned[t]
<1>1. session \in [SessionIds -> [state : States, base : Seq(Contents), stale : BOOLEAN]] /\ DOMAIN plan = SessionIds
  BY DEF RowsInv, TypeInv
<1>2. CASE EditFile \/ UNCHANGED vars
  BY <1>2 DEF EditFile, vars, Spent
<1>3. ASSUME NEW s \in SessionIds, Start(s) \/ Fail(s) PROVE Spent(t)' /\ earned'[t] = earned[t]
  BY <1>1, <1>3 DEF Start, Fail, Spent
<1>4. ASSUME NEW s \in SessionIds, Prepare(s) PROVE Spent(t)' /\ earned'[t] = earned[t]
  <2>1. RowsInv => TypeInv
    BY DEF RowsInv
  <2>2. /\ session[s].state = "active" /\ earned' = earned
        /\ session' = session \/ \E e : session' = [session EXCEPT ![s] = e]
        /\ plan' = plan \/ \E p : plan' = [plan EXCEPT ![s] = p]
    BY <1>4, <2>1, PrepareGives
  <2>3. s # t
    BY <2>2 DEF Spent
  <2> QED
    BY <1>1, <2>2, <2>3 DEF Spent
<1>5. ASSUME NEW s \in SessionIds, CommitFinish(s) PROVE Spent(t)' /\ earned'[t] = earned[t]
  <2>1. /\ plan[s].prepared
        /\ \A u \in SessionIds \ {s} : session'[u].state = session[u].state
        /\ plan' = [plan EXCEPT ![s] = NoPlan]
    BY <1>5, CommitGives
  <2>2. t # s
    BY <2>1 DEF Spent
  <2>3. earned'[t] = earned[t]
    BY <1>5, <2>2 DEF CommitFinish, RowsInv, TypeInv
  <2> QED
    BY <1>1, <2>1, <2>2, <2>3 DEF Spent
<1>6. ASSUME NEW s \in SessionIds, CommitClashes(s) PROVE Spent(t)' /\ earned'[t] = earned[t]
  BY <1>1, <1>6 DEF CommitClashes, Spent
<1> QED
  BY <1>2, <1>3, <1>4, <1>5, <1>6 DEF Next

\* A plan stays its session's while nothing but the spent is spent.
LEMMA PlanOwnedStays ==
  ASSUME NEW s, NEW p, PlanOwned(s, p), PlanTyped(p),
         \A t \in SessionIds : Spent(t) => Spent(t)' /\ earned'[t] = earned[t]
  PROVE  PlanOwned(s, p)'
<1>1. ~HasChanges(p.edits) => p.lines = {} /\ p.removed = {}
  BY DEF PlanOwned
<1>2. ASSUME NEW l \in p.lines
      PROVE  /\ l.id[1] = s
             /\ IF l.origin = s THEN InsertsOf(p.edits, l.content) # {}
                ELSE Spent(l.origin)' /\ earned'[l.origin][l.content] > 0
  <2>1. l.origin \in SessionIds
    BY DEF PlanTyped, IsRow
  <2> QED
    BY <2>1 DEF PlanOwned
<1> QED
  BY <1>1, <1>2 DEF PlanOwned

\* An empty plan.
LEMMA NoPlanFacts ==
  ASSUME NEW s
  PROVE  PlanTyped(NoPlan) /\ PlanOwned(s, NoPlan) /\ Unique(NoPlan.lines) /\ ~NoPlan.prepared
         /\ ~HasChanges(NoPlan.edits)
<1>1. NoPlan.edits = <<>> /\ NoPlan.lines = {} /\ NoPlan.removed = {} /\ NoPlan.prepared = FALSE
  BY DEF NoPlan
<1>2. <<>> \in Scripts(Contents) /\ ~HasChanges(<<>>) /\ IsFiniteSet({})
  BY FS_EmptySet DEF Scripts, HasChanges
<1> QED
  BY <1>1, <1>2 DEF PlanTyped, PlanOwned, Unique

\* The part of RowsInv about plans, after a step that replaces one of them.
LEMMA PlansStep ==
  ASSUME RowsInv, NEW s \in SessionIds, NEW p, plan' = [plan EXCEPT ![s] = p],
         PlanTyped(p), PlanOwned(s, p)', Unique(p.lines), ~p.prepared => p = NoPlan,
         p.prepared => session'[s].state \in {"active", "failed"},
         \A t \in SessionIds \ {s} : plan[t].prepared /\ session[t].state \in {"active", "failed"} =>
            session'[t].state \in {"active", "failed"},
         \A t \in SessionIds : Spent(t) => Spent(t)' /\ earned'[t] = earned[t]
  PROVE  /\ DOMAIN plan' = SessionIds /\ \A t \in SessionIds : PlanTyped(plan'[t])
         /\ PlansOwned' /\ \A t \in SessionIds : Unique(plan'[t].lines)
<1>1. DOMAIN plan = SessionIds
  BY DEF RowsInv, TypeInv
<1>2. ASSUME NEW t \in SessionIds
      PROVE  /\ PlanTyped(plan'[t]) /\ PlanOwned(t, plan[t])'
             /\ ~plan'[t].prepared => plan'[t] = NoPlan
             /\ plan'[t].prepared => session'[t].state \in {"active", "failed"}
             /\ Unique(plan'[t].lines)
  <2>1. CASE t = s
    <3>1. plan'[t] = p
      BY <1>1, <2>1
    <3>2. PlanOwned(t, plan[t])'
      BY <2>1, <3>1 DEF PlanOwned
    <3> QED
      BY <2>1, <3>1, <3>2
  <2>2. CASE t # s
    <3>1. PICK q : q = plan[t]
      OBVIOUS
    <3>2. plan'[t] = q
      BY <1>1, <2>2, <3>1
    <3>3. /\ PlanTyped(q) /\ PlanOwned(t, q) /\ Unique(q.lines)
          /\ ~q.prepared => q = NoPlan
          /\ q.prepared => session[t].state \in {"active", "failed"}
      BY <3>1 DEF RowsInv, TypeInv, PlansOwned, RowsUnique
    <3>4. PlanOwned(t, q)'
      BY <3>3, PlanOwnedStays
    <3>5. PlanOwned(t, plan[t])'
      BY <3>2, <3>4 DEF PlanOwned
    <3> QED
      BY <2>2, <3>1, <3>2, <3>3, <3>5
  <2> QED
    BY <2>1, <2>2
<1> QED
  BY <1>1, <1>2 DEF PlansOwned

\* And after one that leaves the plans alone.
LEMMA PlansStay ==
  ASSUME RowsInv, plan' = plan,
         \A t \in SessionIds : plan[t].prepared /\ session[t].state \in {"active", "failed"} =>
            session'[t].state \in {"active", "failed"},
         \A t \in SessionIds : Spent(t) => Spent(t)' /\ earned'[t] = earned[t]
  PROVE  /\ DOMAIN plan' = SessionIds /\ \A t \in SessionIds : PlanTyped(plan'[t])
         /\ PlansOwned' /\ \A t \in SessionIds : Unique(plan'[t].lines)
<1>1. DOMAIN plan = SessionIds
  BY DEF RowsInv, TypeInv
<1>2. ASSUME NEW t \in SessionIds
      PROVE  /\ PlanTyped(plan'[t]) /\ PlanOwned(t, plan[t])'
             /\ ~plan'[t].prepared => plan'[t] = NoPlan
             /\ plan'[t].prepared => session'[t].state \in {"active", "failed"}
             /\ Unique(plan'[t].lines)
  <2>1. PICK q : q = plan[t] /\ plan'[t] = q
    OBVIOUS
  <2>2. /\ PlanTyped(q) /\ PlanOwned(t, q) /\ Unique(q.lines)
        /\ ~q.prepared => q = NoPlan
        /\ q.prepared => session[t].state \in {"active", "failed"}
    BY <2>1 DEF RowsInv, TypeInv, PlansOwned, RowsUnique
  <2>3. PlanOwned(t, q)'
    BY <2>2, PlanOwnedStays
  <2>4. PlanOwned(t, plan[t])'
    BY <2>1, <2>3 DEF PlanOwned
  <2> QED
    BY <2>1, <2>2, <2>4
<1> QED
  BY <1>1, <1>2 DEF PlansOwned

\* What holds of the rows stays while they do.
LEMMA RowsStay ==
  ASSUME RowsInv, rows' = rows,
         \A t \in SessionIds : Spent(t) => Spent(t)' /\ earned'[t] = earned[t]
  PROVE  RowsOwned' /\ Unique(rows')
<1>1. ASSUME NEW r \in rows
      PROVE  Spent(r.origin)' /\ Spent(r.id[1])' /\ earned'[r.origin][r.content] > 0
  <2>1. r.origin \in SessionIds /\ r.id[1] \in SessionIds
    BY DEF RowsInv, TypeInv, IsRow
  <2>2. Spent(r.origin) /\ Spent(r.id[1]) /\ earned[r.origin][r.content] > 0
    BY DEF RowsInv, RowsOwned
  <2> QED
    BY <2>1, <2>2
<1> QED
  BY <1>1 DEF RowsOwned, RowsInv, RowsUnique

\* There are no rows and no plans at first.
LEMMA RowsInvInit == Init => RowsInv
<1> SUFFICES ASSUME Init PROVE RowsInv
  OBVIOUS
<1>1. /\ file = <<>> /\ rows = {} /\ plan = [s \in SessionIds |-> NoPlan]
      /\ session = [s \in SessionIds |-> [state |-> "none", base |-> <<>>, stale |-> FALSE]]
      /\ earned = [s \in SessionIds |-> [c \in Contents |-> 0]]
      /\ serial = TRUE /\ raced = FALSE /\ clashed = FALSE
  BY DEF Init
<1>2. \A s \in SessionIds : /\ plan[s] = NoPlan /\ PlanTyped(plan[s]) /\ PlanOwned(s, plan[s])
                            /\ Unique(plan[s].lines) /\ ~plan[s].prepared
  BY <1>1, NoPlanFacts
<1>3. session \in [SessionIds -> [state : States, base : Seq(Contents), stale : BOOLEAN]]
  BY <1>1 DEF States
<1>4. earned \in [SessionIds -> [Contents -> Nat]] /\ file \in Seq(Contents) /\ DOMAIN plan = SessionIds
  BY <1>1
<1>5. TypeInv
  BY <1>1, <1>2, <1>3, <1>4, FS_EmptySet DEF TypeInv
<1> QED
  BY <1>1, <1>2, <1>5 DEF RowsInv, PlansOwned, RowsOwned, RowsUnique, Unique

\* Every step keeps the rows and the plans what they are.
LEMMA RowsInvStep ==
  ASSUME RowsInv, [Next]_vars
  PROVE  RowsInv'
<1>1. \A t \in SessionIds : Spent(t) => Spent(t)' /\ earned'[t] = earned[t]
  BY SpentStays
<1>2. TypeInv
  BY DEF RowsInv
<1>3. /\ file \in Seq(Contents)
      /\ session \in [SessionIds -> [state : States, base : Seq(Contents), stale : BOOLEAN]]
      /\ DOMAIN plan = SessionIds
  BY <1>2 DEF TypeInv
<1>4. \A e : Ended(e) = [state |-> e, base |-> <<>>, stale |-> FALSE]
  BY DEF Ended
<1>5. \A t \in SessionIds : /\ ~plan[t].prepared => plan[t] = NoPlan
                            /\ plan[t].prepared => session[t].state \in {"active", "failed"}
  BY DEF RowsInv, PlansOwned
<1>6. ASSUME rows' = rows, plan' = plan, file' \in Seq(Contents), earned' = earned,
             session' \in [SessionIds -> [state : States, base : Seq(Contents), stale : BOOLEAN]],
             serial' \in BOOLEAN, raced' \in BOOLEAN, clashed' \in BOOLEAN,
             \A t \in SessionIds : plan[t].prepared /\ session[t].state \in {"active", "failed"} =>
                session'[t].state \in {"active", "failed"}
      PROVE  RowsInv'
  <2>1. /\ DOMAIN plan' = SessionIds /\ \A t \in SessionIds : PlanTyped(plan'[t])
        /\ PlansOwned' /\ \A t \in SessionIds : Unique(plan'[t].lines)
    BY <1>1, <1>6, PlansStay
  <2>2. RowsOwned' /\ Unique(rows')
    BY <1>1, <1>6, RowsStay
  <2>3. TypeInv'
    BY <1>2, <1>6, <2>1 DEF TypeInv
  <2> QED
    BY <2>1, <2>2, <2>3 DEF RowsInv, RowsUnique
<1>7. CASE UNCHANGED vars
  BY <1>2, <1>3, <1>6, <1>7 DEF vars, TypeInv
<1>8. CASE EditFile
  <2>1. file' \in Seq(Contents)
    BY <1>3, <1>8, EditedFile
  <2>2. /\ rows' = rows /\ plan' = plan /\ earned' = earned /\ session' = session
        /\ serial' \in BOOLEAN /\ raced' \in BOOLEAN /\ clashed' \in BOOLEAN
    BY <1>2, <1>8 DEF EditFile, TypeInv
  <2> QED
    BY <1>3, <1>6, <2>1, <2>2
<1>9. ASSUME NEW s \in SessionIds, Start(s) PROVE RowsInv'
  <2>1. /\ rows' = rows /\ plan' = plan /\ earned' = earned /\ file' = file
        /\ serial' \in BOOLEAN /\ raced' \in BOOLEAN /\ clashed' \in BOOLEAN
        /\ session' = [session EXCEPT ![s] = [state |-> "active", base |-> file, stale |-> FALSE]]
        /\ session[s].state = "none"
    BY <1>2, <1>9 DEF Start, TypeInv
  <2>2. [state |-> "active", base |-> file, stale |-> FALSE] \in [state : States, base : Seq(Contents), stale : BOOLEAN]
    BY <1>3 DEF States
  <2>3. session' \in [SessionIds -> [state : States, base : Seq(Contents), stale : BOOLEAN]]
    BY <1>3, <2>1, <2>2
  <2>4. \A t \in SessionIds : plan[t].prepared /\ session[t].state \in {"active", "failed"} =>
                session'[t].state \in {"active", "failed"}
    BY <1>3, <2>1
  <2> QED
    BY <1>3, <1>6, <2>1, <2>3, <2>4
<1>10. ASSUME NEW s \in SessionIds, session' = [session EXCEPT ![s] = Ended("failed")]
       PROVE  /\ session' \in [SessionIds -> [state : States, base : Seq(Contents), stale : BOOLEAN]]
              /\ \A t \in SessionIds : plan[t].prepared /\ session[t].state \in {"active", "failed"} =>
                session'[t].state \in {"active", "failed"}
  <2>1. PICK x : x = Ended("failed")
    OBVIOUS
  <2>2. x \in [state : States, base : Seq(Contents), stale : BOOLEAN] /\ x.state = "failed"
    BY <2>1 DEF Ended, States
  <2> QED
    BY <1>3, <1>10, <2>1, <2>2
<1>11. ASSUME NEW s \in SessionIds, Fail(s) PROVE RowsInv'
  <2>1. /\ rows' = rows /\ plan' = plan /\ earned' = earned /\ file' = file
        /\ serial' \in BOOLEAN /\ raced' \in BOOLEAN /\ clashed' \in BOOLEAN
        /\ session' = [session EXCEPT ![s] = Ended("failed")]
    BY <1>2, <1>11 DEF Fail, TypeInv
  <2> QED
    BY <1>3, <1>6, <1>10, <2>1
<1>12. ASSUME NEW s \in SessionIds, Prepare(s) PROVE RowsInv'
  <2>1. /\ session[s].state = "active" /\ ~plan[s].prepared
        /\ UNCHANGED <<file, rows, edits, earned, raced, clashed>>
        /\ \/ /\ session' = [session EXCEPT ![s] = Ended("failed")]
              /\ serial' = FALSE /\ plan' = plan
           \/ /\ session' = session /\ serial' = serial
              /\ \E p : plan' = [plan EXCEPT ![s] = p] /\ PlanOf(s, p)
    BY <1>2, <1>12, PrepareGives
  <2>2. raced' \in BOOLEAN /\ clashed' \in BOOLEAN /\ serial \in BOOLEAN
    BY <1>2, <2>1 DEF TypeInv
  <2>3. CASE session' = [session EXCEPT ![s] = Ended("failed")] /\ serial' = FALSE /\ plan' = plan
    BY <1>3, <1>6, <1>10, <2>1, <2>2, <2>3
  <2>4. CASE /\ session' = session /\ serial' = serial
             /\ \E p : plan' = [plan EXCEPT ![s] = p] /\ PlanOf(s, p)
    <3>1. PICK p : plan' = [plan EXCEPT ![s] = p] /\ PlanOf(s, p)
      BY <2>4
    <3>2. PlanTyped(p) /\ PlanOwned(s, p) /\ Unique(p.lines) /\ p.prepared
      BY <2>1, <3>1, PlanFacts DEF PlanOf
    <3>3. PlanOwned(s, p)'
      BY <1>1, <3>2, PlanOwnedStays
    <3>4. session'[s].state \in {"active", "failed"}
      BY <2>1, <2>4
    <3>5. /\ DOMAIN plan' = SessionIds /\ \A t \in SessionIds : PlanTyped(plan'[t])
          /\ PlansOwned' /\ \A t \in SessionIds : Unique(plan'[t].lines)
      BY <1>1, <2>4, <3>1, <3>2, <3>3, <3>4, PlansStep
    <3>6. RowsOwned' /\ Unique(rows')
      BY <1>1, <2>1, RowsStay
    <3>7. TypeInv'
      BY <1>2, <2>1, <2>2, <2>4, <3>5 DEF TypeInv
    <3> QED
      BY <3>5, <3>6, <3>7 DEF RowsInv, RowsUnique
  <2> QED
    BY <2>1, <2>3, <2>4
<1>13. ASSUME NEW s \in SessionIds, CommitClashes(s) PROVE RowsInv'
  <2>1. /\ UNCHANGED <<file, session, rows, edits, earned, raced>>
        /\ plan' = [plan EXCEPT ![s] = NoPlan] /\ clashed' = TRUE /\ serial' = FALSE
    BY <1>13 DEF CommitClashes
  <2>2. PICK p : p = NoPlan
    OBVIOUS
  <2>3. PlanTyped(p) /\ PlanOwned(s, p) /\ Unique(p.lines) /\ ~p.prepared
    BY <2>2, NoPlanFacts
  <2>4. PlanOwned(s, p)'
    BY <1>1, <2>3, PlanOwnedStays
  <2>5. /\ DOMAIN plan' = SessionIds /\ \A t \in SessionIds : PlanTyped(plan'[t])
        /\ PlansOwned' /\ \A t \in SessionIds : Unique(plan'[t].lines)
    BY <1>1, <2>1, <2>2, <2>3, <2>4, PlansStep
  <2>6. RowsOwned' /\ Unique(rows')
    BY <1>1, <2>1, RowsStay
  <2>7. TypeInv'
    BY <1>2, <2>1, <2>5 DEF TypeInv
  <2> QED
    BY <2>5, <2>6, <2>7 DEF RowsInv, RowsUnique
<1>14. ASSUME NEW s \in SessionIds, CommitFinish(s) PROVE RowsInv'
  <2>1. /\ plan[s].prepared /\ ~Clash(s)
        /\ session[s].state \in {"active", "failed"}
        /\ rows' = Kept(s) \cup plan[s].lines
        /\ session' \in [SessionIds -> [state : States, base : Seq(Contents), stale : BOOLEAN]]
        /\ session'[s].state = IF session[s].state = "active" THEN "finished" ELSE session[s].state
        /\ \A t \in SessionIds \ {s} : session'[t].state = session[t].state
        /\ plan' = [plan EXCEPT ![s] = NoPlan]
        /\ earned' \in [SessionIds -> [Contents -> Nat]]
        /\ \A c \in Contents : earned'[s][c] = Cardinality(InsertsOf(plan[s].edits, c))
        /\ IsFiniteSet(rows')
        /\ UNCHANGED <<file, edits, serial, clashed>>
    BY <1>14, CommitGives
  <2>2. PICK p : p = NoPlan
    OBVIOUS
  <2>3. PlanTyped(p) /\ PlanOwned(s, p) /\ Unique(p.lines) /\ ~p.prepared
    BY <2>2, NoPlanFacts
  <2>4. PlanOwned(s, p)'
    BY <1>1, <2>3, PlanOwnedStays
  <2>5. /\ DOMAIN plan' = SessionIds /\ \A t \in SessionIds : PlanTyped(plan'[t])
        /\ PlansOwned' /\ \A t \in SessionIds : Unique(plan'[t].lines)
    BY <1>1, <2>1, <2>2, <2>3, <2>4, PlansStep
  <2>6. Spent(s)'
    <3>1. plan'[s] = p
      BY <1>3, <2>1, <2>2
    <3> QED
      BY <2>1, <2>3, <3>1 DEF Spent
  <2>7. PICK L : L = plan[s].lines
    OBVIOUS
  <2>8. PlanTyped(plan[s]) /\ PlanOwned(s, plan[s]) /\ Unique(L)
    BY <2>7 DEF RowsInv, TypeInv, PlansOwned, RowsUnique
  <2>9. \A l \in L : IsRow(l) /\ l.origin \in SessionIds /\ l.content \in Contents /\ l.id[1] = s
    BY <2>7, <2>8 DEF PlanTyped, PlanOwned, IsRow
  <2>10. ASSUME NEW l \in L PROVE Spent(l.origin)' /\ Spent(l.id[1])' /\ earned'[l.origin][l.content] > 0
    <3>1. IF l.origin = s THEN InsertsOf(plan[s].edits, l.content) # {}
          ELSE Spent(l.origin) /\ earned[l.origin][l.content] > 0
      BY <2>7, <2>8 DEF PlanOwned
    <3>2. CASE l.origin # s
      BY <1>1, <2>6, <2>9, <3>1, <3>2
    <3>3. CASE l.origin = s
      <4>1. PICK U : U = InsertsOf(plan[s].edits, l.content)
        OBVIOUS
      <4>2. IsFiniteSet(U)
        <5>1. Len(plan[s].edits) \in Nat /\ DOMAIN plan[s].edits = 1..Len(plan[s].edits)
          BY <2>8, LenProperties DEF PlanTyped, Scripts
        <5>2. U \in SUBSET (1..Len(plan[s].edits)) /\ IsFiniteSet(1..Len(plan[s].edits))
          BY <4>1, <5>1, FS_Interval DEF InsertsOf
        <5> QED
          BY <5>2, FS_Subset
      <4>3. Cardinality(U) \in Nat /\ Cardinality(U) # 0
        BY <3>1, <3>3, <4>1, <4>2, FS_CardinalityType, FS_EmptySet
      <4>4. earned'[s][l.content] = Cardinality(U)
        BY <2>1, <2>9, <4>1
      <4>5. earned'[s][l.content] > 0
        BY <4>3, <4>4
      <4> QED
        BY <2>6, <2>9, <3>3, <4>5
    <3> QED
      BY <3>2, <3>3
  <2>11. \A r \in rows : Spent(r.origin) /\ Spent(r.id[1]) /\ earned[r.origin][r.content] > 0 /\ IsRow(r)
    BY <1>2 DEF TypeInv, RowsInv, RowsOwned
  <2>12. ASSUME NEW r \in Kept(s)
         PROVE  /\ Spent(r.origin)' /\ Spent(r.id[1])' /\ earned'[r.origin][r.content] > 0
                /\ IsRow(r) /\ r.id[1] # s /\ r \in rows
    <3>1. r \in rows
      BY DEF Kept
    <3>2. r.origin \in SessionIds /\ r.id[1] \in SessionIds
      BY <2>11, <3>1 DEF IsRow
    <3>3. r.id[1] # s
      BY <2>1, <2>11, <3>1 DEF Spent
    <3> QED
      BY <1>1, <2>11, <3>1, <3>2, <3>3
  <2>13. RowsOwned'
    BY <2>1, <2>7, <2>10, <2>12 DEF RowsOwned
  <2>14. Unique(rows')
    <3>1. Unique(rows)
      BY DEF RowsInv, RowsUnique
    <3>2. \A l \in L, r \in Kept(s) : l.identity # r.identity
      BY <2>1, <2>7 DEF Clash
    <3>3. \A l \in L, r \in Kept(s) : l.id # r.id
      BY <2>9, <2>12
    <3> QED
      BY <2>1, <2>7, <2>8, <2>12, <3>1, <3>2, <3>3 DEF Unique
  <2>15. TypeInv'
    <3>1. \A r \in rows' : IsRow(r)
      BY <2>1, <2>7, <2>9, <2>12
    <3>2. raced' \in BOOLEAN
      BY <1>2, <1>14 DEF CommitFinish, TypeInv
    <3> QED
      BY <1>2, <2>1, <2>5, <3>1, <3>2 DEF TypeInv
  <2> QED
    BY <2>5, <2>13, <2>14, <2>15 DEF RowsInv, RowsUnique
<1> QED
  BY <1>7, <1>8, <1>9, <1>11, <1>12, <1>13, <1>14 DEF Next

-----------------------------------------------------------------------------
\* What commits keep of the rows.

\* A plan with changes is about to remove all the rows there are.
PlansCurrent ==
    \A s \in SessionIds : HasChanges(plan[s].edits) /\ (~raced \/ serial) =>
        plan[s].removed = {r.id : r \in rows}

\* A plan has no more lines of its session than it inserted, and no more of
\* another than that has now.
PlanCounted(s, p) ==
    \A c \in Contents :
        /\ Cardinality(Of(p.lines, s, c)) <= Cardinality(InsertsOf(p.edits, c))
        /\ ~raced => \A t \in SessionIds \ {s} :
              Cardinality(Of(p.lines, t, c)) <= Cardinality(Of(rows, t, c))

PlansCounted == \A s \in SessionIds : PlanCounted(s, plan[s])

\* While sessions follow one another, the rows are those of the snapshot's
\* lines, and after the commit those of the file's.
SerialInv ==
    serial =>
        /\ \A s, t \in Active : s = t
        /\ Active = {} => Covers(rows, file)
        /\ \A s \in SessionIds : HasChanges(plan[s].edits) => s \in Active
        /\ \A s \in Active :
              /\ Covers(rows, session[s].base)
              /\ plan[s].prepared =>
                   IF HasChanges(plan[s].edits)
                   THEN session[s].base # file /\ Covers(plan[s].lines, file)
                   ELSE session[s].base = file

\* Of finitely many rows, those of a session and a content are as many or
\* fewer.
LEMMA OfFinite ==
  ASSUME NEW R, IsFiniteSet(R), NEW t, NEW c
  PROVE  IsFiniteSet(Of(R, t, c)) /\ Cardinality(Of(R, t, c)) \in Nat
<1>1. Of(R, t, c) \in SUBSET R
  BY DEF Of
<1> QED
  BY <1>1, FS_Subset, FS_CardinalityType

\* How many lines a script inserts is a number.
LEMMA InsertsFinite ==
  ASSUME NEW script \in Scripts(Contents), NEW c
  PROVE  Cardinality(InsertsOf(script, c)) \in Nat
<1>1. Len(script) \in Nat /\ DOMAIN script = 1..Len(script)
  BY LenProperties DEF Scripts
<1>2. InsertsOf(script, c) \in SUBSET (1..Len(script)) /\ IsFiniteSet(1..Len(script))
  BY <1>1, FS_Interval DEF InsertsOf
<1> QED
  BY <1>2, FS_Subset, FS_CardinalityType

\* What the commit leaves of the rows.
LEMMA CommitReplaces ==
  ASSUME RowsInv, PlansCurrent, NEW s \in SessionIds
  PROVE  /\ HasChanges(plan[s].edits) /\ (~raced \/ serial) => Kept(s) = {}
         /\ ~HasChanges(plan[s].edits) => Kept(s) = rows /\ plan[s].lines = {}
<1>1. ASSUME HasChanges(plan[s].edits), ~raced \/ serial PROVE Kept(s) = {}
  <2>1. plan[s].removed = {r.id : r \in rows}
    BY <1>1 DEF PlansCurrent
  <2> QED
    BY <2>1 DEF Kept
<1>2. ASSUME ~HasChanges(plan[s].edits) PROVE Kept(s) = rows /\ plan[s].lines = {}
  <2>1. plan[s].lines = {} /\ plan[s].removed = {}
    BY <1>2 DEF RowsInv, PlansOwned, PlanOwned
  <2> QED
    BY <2>1 DEF Kept
<1> QED
  BY <1>1, <1>2

\* The steps that touch neither rows nor plans.
LEMMA QuietSteps ==
  ASSUME RowsInv,
         \/ UNCHANGED vars \/ EditFile
         \/ \E s \in SessionIds : \/ Start(s) \/ Fail(s)
                                  \/ Prepare(s) /\ plan' = plan
  PROVE  /\ UNCHANGED <<rows, plan, earned, raced, clashed>>
         /\ serial' => serial
<1>1. ASSUME NEW s \in SessionIds, Prepare(s) PROVE rows' = rows /\ earned' = earned /\ raced' = raced /\ clashed' = clashed /\ (serial' => serial)
  <2>1. TypeInv
    BY DEF RowsInv
  <2> QED
    BY <1>1, <2>1, PrepareGives
<1>2. ASSUME NEW s \in SessionIds, Start(s) \/ Fail(s)
      PROVE  UNCHANGED <<rows, plan, earned, raced, clashed>> /\ (serial' => serial)
  BY <1>2 DEF Start, Fail
<1>3. CASE UNCHANGED vars
  BY <1>3 DEF vars
<1>4. CASE EditFile
  BY <1>4 DEF EditFile
<1> QED
  BY <1>1, <1>2, <1>3, <1>4

\* No plan counts nothing.
LEMMA NoPlanCounts ==
  ASSUME NEW R, IsFiniteSet(R), NEW t, NEW c
  PROVE  /\ Cardinality(Of(NoPlan.lines, t, c)) = 0
         /\ 0 <= Cardinality(InsertsOf(NoPlan.edits, c))
         /\ 0 <= Cardinality(Of(R, t, c))
<1>1. Of(NoPlan.lines, t, c) = {}
  BY DEF Of, NoPlan
<1>2. Cardinality(Of(R, t, c)) \in Nat
  BY OfFinite
<1>3. NoPlan.edits \in Scripts(Contents)
  BY NoPlanFacts DEF PlanTyped
<1>4. Cardinality(InsertsOf(NoPlan.edits, c)) \in Nat
  BY <1>3, InsertsFinite
<1>5. Cardinality({}) = 0
  BY FS_EmptySet
<1> QED
  BY <1>1, <1>2, <1>4, <1>5

\* Every step keeps the plans about to remove what there is.
LEMMA PlansCurrentStep ==
  ASSUME RowsInv, PlansCurrent, SerialInv, [Next]_vars
  PROVE  PlansCurrent'
<1>0. DOMAIN plan = SessionIds /\ TypeInv
  BY DEF RowsInv, TypeInv
<1>1. CASE \/ UNCHANGED vars \/ EditFile
           \/ \E s \in SessionIds : \/ Start(s) \/ Fail(s)
                                    \/ Prepare(s) /\ plan' = plan
  <2>1. rows' = rows /\ plan' = plan /\ raced' = raced /\ (serial' => serial)
    BY <1>1, QuietSteps
  <2> QED
    BY <2>1 DEF PlansCurrent
<1>2. ASSUME NEW s \in SessionIds, Prepare(s), plan' # plan PROVE PlansCurrent'
  <2>1. PICK p : plan' = [plan EXCEPT ![s] = p] /\ PlanOf(s, p)
    BY <1>0, <1>2, PrepareGives
  <2>2. rows' = rows /\ raced' = raced /\ serial' = serial
    BY <1>0, <1>2, PrepareGives
  <2>3. \A t \in SessionIds : plan'[t] = IF t = s THEN p ELSE plan[t]
    BY <1>0, <2>1
  <2> QED
    BY <2>1, <2>2, <2>3 DEF PlansCurrent, PlanOf
<1>3. ASSUME NEW s \in SessionIds, CommitClashes(s) PROVE PlansCurrent'
  <2>1. rows' = rows /\ raced' = raced /\ serial' = FALSE /\ plan' = [plan EXCEPT ![s] = NoPlan]
    BY <1>3 DEF CommitClashes
  <2>2. \A t \in SessionIds : plan'[t] = IF t = s THEN NoPlan ELSE plan[t]
    BY <1>0, <2>1
  <2> QED
    BY <2>1, <2>2, NoPlanFacts DEF PlansCurrent
<1>4. ASSUME NEW s \in SessionIds, CommitFinish(s) PROVE PlansCurrent'
  <2>1. /\ rows' = Kept(s) \cup plan[s].lines /\ serial' = serial
        /\ plan' = [plan EXCEPT ![s] = NoPlan]
    BY <1>4, CommitGives
  <2>2. raced' = (raced \/ (HasChanges(plan[s].edits) /\ \E t \in SessionIds \ {s} : plan[t].prepared))
    BY <1>4 DEF CommitFinish
  <2>3. \A t \in SessionIds : plan'[t] = IF t = s THEN NoPlan ELSE plan[t]
    BY <1>0, <2>1
  <2>4. ASSUME NEW t \in SessionIds, HasChanges(plan'[t].edits), ~raced' \/ serial'
        PROVE  plan'[t].removed = {r.id : r \in rows'}
    <3>1. t # s /\ plan'[t] = plan[t]
      BY <2>3, <2>4, NoPlanFacts
    <3>2. plan[t].prepared
      BY <2>4, <3>1, NoPlanFacts DEF RowsInv, PlansOwned
    <3>3. CASE HasChanges(plan[s].edits)
      <4>1. raced' /\ serial
        BY <2>1, <2>2, <2>4, <3>1, <3>2, <3>3
      <4>2. s \in Active /\ t \in Active
        BY <2>4, <3>1, <3>3, <4>1 DEF SerialInv
      <4> QED
        BY <3>1, <4>1, <4>2 DEF SerialInv
    <3>4. CASE ~HasChanges(plan[s].edits)
      <4>1. rows' = rows /\ (~raced \/ serial)
        BY <2>1, <2>2, <2>4, <3>4, CommitReplaces
      <4> QED
        BY <2>4, <3>1, <4>1 DEF PlansCurrent
    <3> QED
      BY <3>3, <3>4
  <2> QED
    BY <2>4 DEF PlansCurrent
<1> QED
  BY <1>1, <1>2, <1>3, <1>4 DEF Next

\* Every step keeps the plans' counts: only a commit changes the rows, and it
\* makes the race a fact if another plan with changes is there.
LEMMA PlansCountedStep ==
  ASSUME RowsInv, RowsInv', PlansCurrent, PlansCounted, [Next]_vars
  PROVE  PlansCounted'
<1>0. DOMAIN plan = SessionIds /\ TypeInv
  BY DEF RowsInv, TypeInv
<1>1. ASSUME NEW s, NEW p, PlanCounted(s, p), rows' = rows, ~raced' => ~raced
      PROVE  PlanCounted(s, p)'
  BY <1>1 DEF PlanCounted
<1>2. CASE \/ UNCHANGED vars \/ EditFile
           \/ \E s \in SessionIds : \/ Start(s) \/ Fail(s)
                                    \/ Prepare(s) /\ plan' = plan
  <2>1. rows' = rows /\ plan' = plan /\ raced' = raced
    BY <1>2, QuietSteps
  <2> QED
    BY <2>1 DEF PlansCounted, PlanCounted
<1>3. \A u : PlanCounted(u, NoPlan)'
  <2>1. PICK R : R = rows'
    OBVIOUS
  <2>2. IsFiniteSet(R)
    BY <2>1 DEF RowsInv, TypeInv
  <2>3. \A t, c : /\ Cardinality(Of(NoPlan.lines, t, c)) = 0
                  /\ 0 <= Cardinality(InsertsOf(NoPlan.edits, c))
                  /\ 0 <= Cardinality(Of(R, t, c))
    BY <2>2, NoPlanCounts
  <2> QED
    BY <2>1, <2>3 DEF PlanCounted
<1>4. ASSUME NEW s \in SessionIds, NEW p, PlanCounted(s, p)', plan' = [plan EXCEPT ![s] = p],
             \A t \in SessionIds \ {s} : \/ rows' = rows /\ (~raced' => ~raced)
                                         \/ raced'
                                         \/ plan[t] = NoPlan
      PROVE  PlansCounted'
  <2>1. ASSUME NEW t \in SessionIds PROVE PlanCounted(t, plan[t])'
    <3>1. PICK q : q = plan'[t]
      OBVIOUS
    <3>2. CASE t = s
      <4>1. q = p
        BY <1>0, <1>4, <3>1, <3>2
      <4> QED
        BY <1>4, <3>1, <3>2, <4>1 DEF PlanCounted
    <3>3. CASE t # s
      <4>1. q = plan[t]
        BY <1>0, <1>4, <3>1, <3>3
      <4>2. PlanCounted(t, q)
        BY <4>1 DEF PlansCounted
      <4>3. CASE rows' = rows /\ (~raced' => ~raced)
        <5>1. PlanCounted(t, q)'
          BY <1>1, <4>2, <4>3
        <5> QED
          BY <3>1, <5>1 DEF PlanCounted
      <4>4. CASE raced'
        BY <3>1, <4>2, <4>4 DEF PlanCounted
      <4>5. CASE q = NoPlan
        BY <1>3, <3>1, <4>5 DEF PlanCounted
      <4> QED
        BY <1>4, <3>3, <4>1, <4>3, <4>4, <4>5
    <3> QED
      BY <3>2, <3>3
  <2> QED
    BY <2>1 DEF PlansCounted
<1>5. ASSUME NEW s \in SessionIds, Prepare(s), plan' # plan PROVE PlansCounted'
  <2>1. PICK p : plan' = [plan EXCEPT ![s] = p] /\ PlanOf(s, p)
    BY <1>0, <1>5, PrepareGives
  <2>2. rows' = rows /\ raced' = raced /\ session[s].state = "active"
    BY <1>0, <1>5, PrepareGives
  <2>3. PlanCounted(s, p)
    BY <2>1, <2>2, PlanFacts DEF PlanCounted
  <2>4. PlanCounted(s, p)'
    BY <1>1, <2>2, <2>3
  <2> QED
    BY <1>4, <2>1, <2>2, <2>4
<1>6. ASSUME NEW s \in SessionIds, CommitClashes(s) PROVE PlansCounted'
  <2>1. rows' = rows /\ raced' = raced /\ plan' = [plan EXCEPT ![s] = NoPlan]
    BY <1>6 DEF CommitClashes
  <2> QED
    BY <1>3, <1>4, <2>1
<1>7. ASSUME NEW s \in SessionIds, CommitFinish(s) PROVE PlansCounted'
  <2>1. /\ rows' = Kept(s) \cup plan[s].lines
        /\ plan' = [plan EXCEPT ![s] = NoPlan]
    BY <1>7, CommitGives
  <2>2. raced' = (raced \/ (HasChanges(plan[s].edits) /\ \E t \in SessionIds \ {s} : plan[t].prepared))
    BY <1>7 DEF CommitFinish
  <2>3. ~HasChanges(plan[s].edits) => rows' = rows
    BY <2>1, CommitReplaces
  <2>4. ASSUME NEW t \in SessionIds \ {s}
        PROVE  \/ rows' = rows /\ (~raced' => ~raced)
               \/ raced'
               \/ plan[t] = NoPlan
    BY <2>2, <2>3 DEF RowsInv, PlansOwned
  <2> QED
    BY <1>3, <1>4, <2>1, <2>4
<1> QED
  BY <1>2, <1>5, <1>6, <1>7 DEF Next

\* Every step keeps the rows those of the snapshot's lines, and then of the
\* file's, while sessions follow one another.
LEMMA SerialStep ==
  ASSUME RowsInv, PlansCurrent, SerialInv, [Next]_vars
  PROVE  SerialInv'
<1> SUFFICES ASSUME serial'
             PROVE  /\ \A s, t \in Active' : s = t
                    /\ Active' = {} => Covers(rows', file')
                    /\ \A s \in SessionIds : HasChanges(plan'[s].edits) => s \in Active'
                    /\ \A s \in Active' :
                          /\ Covers(rows', session'[s].base)
                          /\ plan'[s].prepared =>
                               IF HasChanges(plan'[s].edits)
                               THEN session'[s].base # file' /\ Covers(plan'[s].lines, file')
                               ELSE session'[s].base = file'
  BY DEF SerialInv
<1>0. /\ DOMAIN plan = SessionIds /\ TypeInv
      /\ session \in [SessionIds -> [state : States, base : Seq(Contents), stale : BOOLEAN]]
  BY DEF RowsInv, TypeInv
<1>1. /\ serial
      => /\ \A s, t \in Active : s = t
         /\ Active = {} => Covers(rows, file)
         /\ \A s \in SessionIds : HasChanges(plan[s].edits) => s \in Active
         /\ \A s \in Active :
               /\ Covers(rows, session[s].base)
               /\ plan[s].prepared =>
                    IF HasChanges(plan[s].edits)
                    THEN session[s].base # file /\ Covers(plan[s].lines, file)
                    ELSE session[s].base = file
  BY DEF SerialInv
<1>2. \A s \in SessionIds : /\ ~plan[s].prepared => plan[s] = NoPlan /\ ~HasChanges(plan[s].edits)
                            /\ plan[s].prepared => session[s].state \in {"active", "failed"}
  BY NoPlanFacts DEF RowsInv, PlansOwned
<1>3. Active = {s \in SessionIds : session[s].state = "active"}
      /\ Active' = {s \in SessionIds : session'[s].state = "active"}
  BY DEF Active
<1>4. CASE UNCHANGED vars
  <2>1. UNCHANGED <<file, session, rows, plan, serial>>
    BY <1>4 DEF vars
  <2> QED
    BY <1>1, <1>3, <2>1
<1>5. CASE EditFile
  <2>1. serial /\ Open # {} /\ UNCHANGED <<session, rows, plan>>
    BY <1>5 DEF EditFile
  <2>2. PICK t \in Active : ~plan[t].prepared
    BY <2>1 DEF Open
  <2>3. \A s \in Active : s = t
    BY <1>1, <2>1, <2>2
  <2> QED
    BY <1>1, <1>3, <2>1, <2>2, <2>3
<1>6. ASSUME NEW s \in SessionIds, Start(s) PROVE SerialInv'
  <2>1. /\ serial /\ Active = {} /\ session[s].state = "none" /\ UNCHANGED <<file, rows, plan>>
        /\ session' = [session EXCEPT ![s] = [state |-> "active", base |-> file, stale |-> FALSE]]
    BY <1>6 DEF Start
  <2>2. /\ session'[s].state = "active" /\ session'[s].base = file
        /\ \A t \in SessionIds \ {s} : session'[t] = session[t]
    BY <1>0, <2>1
  <2>3. Active' = {s}
    BY <1>3, <2>1, <2>2
  <2>4. ~plan[s].prepared
    BY <1>2, <2>1
  <2>5. \A t \in SessionIds : ~HasChanges(plan[t].edits)
    BY <1>1, <2>1
  <2>6. Covers(rows, file)
    BY <1>1, <2>1
  <2> QED
    BY <2>1, <2>2, <2>3, <2>4, <2>5, <2>6 DEF SerialInv
<1>7. ASSUME NEW s \in SessionIds, Fail(s) PROVE SerialInv'
  <2>1. /\ serial /\ session[s].state = "active" /\ session[s].base = file /\ UNCHANGED <<file, rows, plan>>
        /\ session' = [session EXCEPT ![s] = Ended("failed")]
    BY <1>7 DEF Fail
  <2>2. session'[s].state = "failed" /\ \A t \in SessionIds \ {s} : session'[t] = session[t]
    BY <1>0, <2>1 DEF Ended
  <2>3. s \in Active /\ Active' = {}
    BY <1>1, <1>3, <2>1, <2>2
  <2>4. Covers(rows, file)
    BY <1>1, <2>1, <2>3
  <2>5. ASSUME NEW t \in SessionIds, HasChanges(plan[t].edits) PROVE FALSE
    <3>1. t = s /\ plan[s].prepared
      BY <1>1, <1>2, <2>1, <2>3, <2>5
    <3> QED
      BY <1>1, <2>1, <2>3, <2>5, <3>1
  <2> QED
    BY <2>1, <2>3, <2>4, <2>5 DEF SerialInv
<1>8. ASSUME NEW s \in SessionIds, Prepare(s) PROVE SerialInv'
  <2>1. /\ session[s].state = "active" /\ ~plan[s].prepared
        /\ UNCHANGED <<file, rows, session, serial>>
        /\ \E p : plan' = [plan EXCEPT ![s] = p] /\ PlanOf(s, p)
    BY <1>0, <1>8, PrepareGives
  <2>2. PICK p : plan' = [plan EXCEPT ![s] = p] /\ PlanOf(s, p)
    BY <2>1
  <2>3. \A t \in SessionIds : plan'[t] = IF t = s THEN p ELSE plan[t]
    BY <1>0, <2>2
  <2>4. s \in Active /\ Active' = Active /\ \A t \in Active : t = s
    BY <1>1, <1>3, <2>1
  <2>5. Covers(rows, session[s].base)
    BY <1>1, <2>1, <2>4
  <2>6. HasChanges(p.edits) => Covers(p.lines, file)
    BY <2>1, <2>2, <2>5, PlanFacts
  <2>7. IF HasChanges(p.edits) THEN session[s].base # file ELSE session[s].base = file
    BY <2>2 DEF PlanOf
  <2> QED
    BY <1>1, <2>1, <2>3, <2>4, <2>5, <2>6, <2>7 DEF SerialInv
<1>9. ASSUME NEW s \in SessionIds, CommitClashes(s) PROVE SerialInv'
  BY <1>9 DEF CommitClashes
<1>10. ASSUME NEW s \in SessionIds, CommitFinish(s) PROVE SerialInv'
  <2>1. /\ plan[s].prepared /\ serial
        /\ rows' = Kept(s) \cup plan[s].lines
        /\ session'[s].state = IF session[s].state = "active" THEN "finished" ELSE session[s].state
        /\ \A t \in SessionIds \ {s} :
             session'[t].state = session[t].state /\ session'[t].base = session[t].base
        /\ plan' = [plan EXCEPT ![s] = NoPlan]
        /\ file' = file
    BY <1>10, CommitGives
  <2>2. /\ \A t \in SessionIds : plan'[t] = IF t = s THEN NoPlan ELSE plan[t]
        /\ ~HasChanges(NoPlan.edits) /\ ~NoPlan.prepared
    BY <1>0, <2>1, NoPlanFacts
  <2>3. /\ HasChanges(plan[s].edits) => rows' = plan[s].lines
        /\ ~HasChanges(plan[s].edits) => rows' = rows
    <3>1. /\ HasChanges(plan[s].edits) => Kept(s) = {}
          /\ ~HasChanges(plan[s].edits) => Kept(s) = rows /\ plan[s].lines = {}
      BY <2>1, CommitReplaces
    <3> QED
      BY <2>1, <3>1
  <2>4. CASE s \in Active
    <3>1. Active' = {}
      BY <1>1, <1>3, <2>1, <2>4
    <3>2. Covers(rows', file)
      BY <1>1, <2>1, <2>3, <2>4
    <3>3. \A t \in SessionIds : ~HasChanges(plan'[t].edits)
      BY <1>1, <2>1, <2>2, <2>4
    <3> QED
      BY <2>1, <3>1, <3>2, <3>3 DEF SerialInv
  <2>5. CASE s \notin Active
    <3>1. ~HasChanges(plan[s].edits) /\ rows' = rows
      BY <1>1, <2>1, <2>3, <2>5
    <3>2. Active' = Active /\ \A t \in Active : t # s /\ session'[t].base = session[t].base /\ plan'[t] = plan[t]
      BY <1>3, <2>1, <2>2, <2>5
    <3>3. \A t \in SessionIds : HasChanges(plan'[t].edits) => t \in Active
      BY <1>1, <2>1, <2>2
    <3> QED
      BY <1>1, <2>1, <3>1, <3>2, <3>3 DEF SerialInv
  <2> QED
    BY <2>4, <2>5
<1> QED
  BY <1>4, <1>5, <1>6, <1>7, <1>8, <1>9, <1>10 DEF Next, SerialInv

\* Every step keeps the rows those of one finish.
LEMMA ReplacedStep ==
  ASSUME RowsInv, PlansCurrent, ReplacedAsOne, [Next]_vars
  PROVE  ReplacedAsOne'
<1> SUFFICES ASSUME ~raced' PROVE ~clashed' /\ \A r, q \in rows' : r.id[1] = q.id[1]
  BY DEF ReplacedAsOne
<1>1. TypeInv
  BY DEF RowsInv
<1>2. ~raced => ~clashed /\ \A r, q \in rows : r.id[1] = q.id[1]
  BY DEF ReplacedAsOne
<1>3. CASE \/ UNCHANGED vars \/ EditFile
           \/ \E s \in SessionIds : \/ Start(s) \/ Fail(s)
                                    \/ Prepare(s) /\ plan' = plan
  BY <1>2, <1>3, QuietSteps
<1>4. ASSUME NEW s \in SessionIds, Prepare(s) PROVE ~clashed' /\ \A r, q \in rows' : r.id[1] = q.id[1]
  BY <1>1, <1>2, <1>4, PrepareGives
<1>5. ASSUME NEW s \in SessionIds, CommitClashes(s) PROVE FALSE
  <2>1. ~raced /\ Clash(s)
    BY <1>5 DEF CommitClashes
  <2>2. plan[s].lines = {} \/ Kept(s) = {}
    BY <2>1, CommitReplaces
  <2>3. Unique(plan[s].lines)
    BY DEF RowsInv, RowsUnique
  <2> QED
    BY <2>1, <2>2, <2>3 DEF Clash, Unique
<1>6. ASSUME NEW s \in SessionIds, CommitFinish(s) PROVE ~clashed' /\ \A r, q \in rows' : r.id[1] = q.id[1]
  <2>1. rows' = Kept(s) \cup plan[s].lines /\ clashed' = clashed
    BY <1>6, CommitGives
  <2>2. ~raced
    BY <1>6 DEF CommitFinish
  <2>3. \A l \in plan[s].lines : l.id[1] = s
    BY DEF RowsInv, PlansOwned, PlanOwned
  <2>4. CASE HasChanges(plan[s].edits)
    BY <1>2, <2>1, <2>2, <2>3, <2>4, CommitReplaces
  <2>5. CASE ~HasChanges(plan[s].edits)
    BY <1>2, <2>1, <2>2, <2>5, CommitReplaces
  <2> QED
    BY <2>4, <2>5
<1> QED
  BY <1>3, <1>4, <1>5, <1>6 DEF Next

\* No session has more rows of a content than it inserted lines of it.
Credited(R) == \A s \in SessionIds, c \in Contents : Cardinality(Of(R, s, c)) <= earned[s][c]

\* Every step keeps a session's rows no more than what it inserted.
LEMMA CreditedStep ==
  ASSUME RowsInv, PlansCurrent, PlansCounted, raced \/ Credited(rows), [Next]_vars
  PROVE  raced' \/ Credited(rows)'
<1> SUFFICES ASSUME ~raced' PROVE Credited(rows)'
  OBVIOUS
<1>1. TypeInv
  BY DEF RowsInv
<1>2. CASE \/ UNCHANGED vars \/ EditFile
           \/ \E s \in SessionIds : \/ Start(s) \/ Fail(s)
                                    \/ Prepare(s) /\ plan' = plan
  <2>1. rows' = rows /\ earned' = earned /\ raced' = raced
    BY <1>2, QuietSteps
  <2> QED
    BY <2>1 DEF Credited
<1>3. ASSUME NEW s \in SessionIds, Prepare(s) PROVE Credited(rows)'
  <2>1. rows' = rows /\ earned' = earned /\ raced' = raced
    BY <1>1, <1>3, PrepareGives
  <2> QED
    BY <2>1 DEF Credited
<1>4. ASSUME NEW s \in SessionIds, CommitClashes(s) PROVE Credited(rows)'
  <2>1. rows' = rows /\ earned' = earned /\ raced' = raced
    BY <1>4 DEF CommitClashes
  <2> QED
    BY <2>1 DEF Credited
<1>5. ASSUME NEW s \in SessionIds, CommitFinish(s) PROVE Credited(rows)'
  <2>1. /\ rows' = Kept(s) \cup plan[s].lines /\ plan[s].prepared
        /\ \A t \in SessionIds, c \in Contents :
              earned'[t][c] = IF t = s THEN Cardinality(InsertsOf(plan[s].edits, c)) ELSE earned[t][c]
    BY <1>5, CommitGives
  <2>2. ~raced /\ Credited(rows)
    BY <1>5 DEF CommitFinish
  <2>3. PICK L : L = plan[s].lines
    OBVIOUS
  <2>4. IsFiniteSet(rows) /\ IsFiniteSet(L) /\ plan[s].edits \in Scripts(Contents)
    BY <1>1, <2>3 DEF TypeInv, PlanTyped
  <2>5. \A t, c : Cardinality(Of(rows, t, c)) \in Nat /\ Cardinality(Of(L, t, c)) \in Nat
    BY <2>4, OfFinite
  <2>6. \A c : Cardinality(InsertsOf(plan[s].edits, c)) \in Nat
    BY <2>4, InsertsFinite
  <2>7. earned \in [SessionIds -> [Contents -> Nat]]
    BY <1>1 DEF TypeInv
  <2>8. CASE HasChanges(plan[s].edits)
    <3>1. rows' = L
      BY <2>1, <2>2, <2>3, <2>8, CommitReplaces
    <3>2. ASSUME NEW t \in SessionIds, NEW c \in Contents PROVE Cardinality(Of(L, t, c)) <= earned'[t][c]
      <4>1. CASE t = s
        <5>1. Cardinality(Of(L, t, c)) <= Cardinality(InsertsOf(plan[s].edits, c))
          BY <2>3, <4>1 DEF PlansCounted, PlanCounted
        <5> QED
          BY <2>1, <4>1, <5>1
      <4>2. CASE t # s
        <5>1. Cardinality(Of(L, t, c)) <= Cardinality(Of(rows, t, c))
          BY <2>2, <2>3, <4>2 DEF PlansCounted, PlanCounted
        <5>2. Cardinality(Of(rows, t, c)) <= earned[t][c]
          BY <2>2 DEF Credited
        <5>3. earned[t][c] \in Nat /\ earned'[t][c] = earned[t][c]
          BY <2>1, <2>7, <4>2
        <5> QED
          BY <2>5, <5>1, <5>2, <5>3
      <4> QED
        BY <4>1, <4>2
    <3> QED
      BY <3>1, <3>2 DEF Credited
  <2>9. CASE ~HasChanges(plan[s].edits)
    <3>1. rows' = rows
      BY <2>1, <2>9, CommitReplaces
    <3>2. ASSUME NEW t \in SessionIds, NEW c \in Contents PROVE Cardinality(Of(rows, t, c)) <= earned'[t][c]
      <4>1. CASE t = s
        <5>1. Of(rows, t, c) = {}
          BY <2>1, <4>1 DEF RowsInv, RowsOwned, Spent, Of
        <5>2. Cardinality({}) = 0
          BY FS_EmptySet
        <5>3. Cardinality(InsertsOf(plan[s].edits, c)) >= 0
          BY <2>6
        <5> QED
          BY <2>1, <4>1, <5>1, <5>2, <5>3
      <4>2. CASE t # s
        BY <2>1, <2>2, <4>2 DEF Credited
      <4> QED
        BY <4>1, <4>2
    <3> QED
      BY <3>1, <3>2 DEF Credited
  <2> QED
    BY <2>8, <2>9
<1> QED
  BY <1>2, <1>3, <1>4, <1>5 DEF Next

\* The inductive invariant.
CommitInv ==
    /\ RowsInv /\ PlansCurrent /\ PlansCounted /\ SerialInv
    /\ ReplacedAsOne
    /\ raced \/ Credited(rows)

\* The inductive invariant holds at first.
LEMMA CommitInvInit == Init => CommitInv
<1> SUFFICES ASSUME Init PROVE CommitInv
  OBVIOUS
<1>1. RowsInv
  BY RowsInvInit
<1>2. /\ file = <<>> /\ rows = {} /\ \A s \in SessionIds : plan[s] = NoPlan
      /\ \A s \in SessionIds : session[s].state = "none"
      /\ earned = [s \in SessionIds |-> [c \in Contents |-> 0]] /\ clashed = FALSE
  BY DEF Init
<1>3. PlansCurrent
  BY <1>2, NoPlanFacts DEF PlansCurrent
<1>4. PlansCounted
  <2>1. IsFiniteSet(rows)
    BY <1>2, FS_EmptySet
  <2>2. \A t, c : /\ Cardinality(Of(NoPlan.lines, t, c)) = 0
                  /\ 0 <= Cardinality(InsertsOf(NoPlan.edits, c))
                  /\ 0 <= Cardinality(Of(rows, t, c))
    BY <2>1, NoPlanCounts
  <2> QED
    BY <1>2, <2>2 DEF PlansCounted, PlanCounted
<1>5. SerialInv
  <2>1. Active = {}
    BY <1>2 DEF Active
  <2>2. Covers(rows, file)
    BY <1>2 DEF Covers
  <2> QED
    BY <1>2, <2>1, <2>2, NoPlanFacts DEF SerialInv
<1>6. ReplacedAsOne
  BY <1>2 DEF ReplacedAsOne
<1>7. Credited(rows)
  <2>1. \A s, c : Of(rows, s, c) = {}
    BY <1>2 DEF Of
  <2>2. Cardinality({}) = 0
    BY FS_EmptySet
  <2>3. \A s \in SessionIds, c \in Contents : earned[s][c] = 0
    BY <1>2
  <2> QED
    BY <2>1, <2>2, <2>3 DEF Credited
<1> QED
  BY <1>1, <1>3, <1>4, <1>5, <1>6, <1>7 DEF CommitInv

\* The inductive invariant always holds: a commit removes the rows its plan
\* read and adds those of its script, and a session that is over keeps what it
\* earned.
THEOREM CommitInvHolds == Spec => []CommitInv
<1>1. Init => CommitInv
  BY CommitInvInit
<1>2. CommitInv /\ [Next]_vars => CommitInv'
  <2> SUFFICES ASSUME CommitInv, [Next]_vars PROVE CommitInv'
    OBVIOUS
  <2>1. RowsInv /\ PlansCurrent /\ PlansCounted /\ SerialInv /\ ReplacedAsOne /\ (raced \/ Credited(rows))
    BY DEF CommitInv
  <2>2. RowsInv'
    BY <2>1, RowsInvStep
  <2>3. PlansCurrent'
    BY <2>1, PlansCurrentStep
  <2>4. PlansCounted'
    BY <2>1, <2>2, PlansCountedStep
  <2>5. SerialInv'
    BY <2>1, SerialStep
  <2>6. ReplacedAsOne'
    BY <2>1, ReplacedStep
  <2>7. (raced \/ Credited(rows))'
    BY <2>1, CreditedStep
  <2> QED
    BY <2>2, <2>3, <2>4, <2>5, <2>6, <2>7 DEF CommitInv
<1> QED
  BY <1>1, <1>2, PTL DEF Spec

\* For any sessions, contents, lengths and budgets: the index on current
\* identities never refuses a finish and the rows are those of one finish,
\* unless two finishes raced (storage.CommitFinish).
THEOREM ReplacedAsOneHolds == Spec => []ReplacedAsOne
<1>1. CommitInv => ReplacedAsOne
  BY DEF CommitInv
<1> QED
  BY <1>1, CommitInvHolds, PTL

\* For any sessions, contents, lengths and budgets: no session has more rows of
\* a content than it inserted lines of it, unless two finishes raced
\* (Service.provenanceForEdits and storage.CommitFinish).
THEOREM NeverOverCreditedHolds == Spec => []NeverOverCredited
<1>1. CommitInv => NeverOverCredited
  BY DEF CommitInv, Credited, NeverOverCredited, Of
<1> QED
  BY <1>1, CommitInvHolds, PTL

-----------------------------------------------------------------------------
\* Verify: the queues of a content, and the report of a file.

\* Keys of n numbers.
Keys(K, m) ==
    /\ \A p \in K : DOMAIN p = 1..m /\ \A k \in 1..m : p[k] \in Nat
    /\ \A p, q \in K : (\A k \in 1..m : p[k] = q[k]) => p = q

\* Keys are ordered by the first number in which they differ.
LEMMA BeforeOrders ==
  ASSUME NEW K, NEW m \in Nat, Keys(K, m)
  PROVE  /\ \A p \in K : ~Before(p, p)
         /\ \A p, q, r \in K : Before(p, q) /\ Before(q, r) => Before(p, r)
         /\ \A p, q \in K : p # q => Before(p, q) \/ Before(q, p)
<1>1. \A p \in K : ~Before(p, p)
  BY DEF Before, Keys
<1>2. ASSUME NEW p \in K, NEW q \in K, NEW r \in K, Before(p, q), Before(q, r)
      PROVE  Before(p, r)
  <2>1. /\ DOMAIN p = 1..m /\ DOMAIN q = 1..m /\ DOMAIN r = 1..m
        /\ \A k \in 1..m : p[k] \in Nat /\ q[k] \in Nat /\ r[k] \in Nat
    BY DEF Keys
  <2>2. PICK i \in 1..m : p[i] < q[i] /\ \A k \in 1..(i - 1) : p[k] = q[k]
    BY <1>2, <2>1 DEF Before
  <2>3. PICK j \in 1..m : q[j] < r[j] /\ \A k \in 1..(j - 1) : q[k] = r[k]
    BY <1>2, <2>1 DEF Before
  <2>4. CASE i < j
    <3>1. i \in 1..(j - 1) /\ \A k \in 1..(i - 1) : k \in 1..(j - 1)
      BY <2>4
    <3>2. p[i] < r[i] /\ \A k \in 1..(i - 1) : p[k] = r[k]
      BY <2>2, <2>3, <3>1
    <3> QED
      BY <2>1, <3>2 DEF Before
  <2>5. CASE j < i
    <3>1. j \in 1..(i - 1) /\ \A k \in 1..(j - 1) : k \in 1..(i - 1)
      BY <2>5
    <3>2. p[j] < r[j] /\ \A k \in 1..(j - 1) : p[k] = r[k]
      BY <2>2, <2>3, <3>1
    <3> QED
      BY <2>1, <3>2 DEF Before
  <2>6. CASE i = j
    <3>1. p[i] < r[i]
      BY <2>1, <2>2, <2>3, <2>6
    <3>2. \A k \in 1..(i - 1) : p[k] = r[k]
      BY <2>2, <2>3, <2>6
    <3> QED
      BY <2>1, <3>1, <3>2 DEF Before
  <2> QED
    BY <2>4, <2>5, <2>6
<1>3. ASSUME NEW p \in K, NEW q \in K, p # q PROVE Before(p, q) \/ Before(q, p)
  <2>1. /\ DOMAIN p = 1..m /\ DOMAIN q = 1..m
        /\ \A k \in 1..m : p[k] \in Nat /\ q[k] \in Nat
    BY DEF Keys
  <2> DEFINE D == {k \in 1..m : p[k] # q[k]}
  <2>2. D \subseteq Nat /\ D # {}
    BY <1>3 DEF Keys
  <2> HIDE DEF D
  <2>3. PICK n \in D : \A k \in D : n <= k
    BY <2>2, LeastNumber
  <2>4. n \in 1..m /\ p[n] # q[n]
    BY <2>3 DEF D
  <2>5. \A k \in 1..(n - 1) : k \in 1..m /\ ~(n <= k)
    BY <2>4
  <2>6. \A k \in 1..(n - 1) : p[k] = q[k] /\ q[k] = p[k]
    BY <2>3, <2>5 DEF D
  <2>7. p[n] < q[n] \/ q[n] < p[n]
    BY <2>1, <2>4
  <2> QED
    BY <2>1, <2>4, <2>6, <2>7 DEF Before
<1> QED
  BY <1>1, <1>2, <1>3

\* The keys in order are the keys, each once.
LEMMA RankedLists ==
  ASSUME NEW K, IsFiniteSet(K), NEW m \in Nat, Keys(K, m)
  PROVE  /\ Cardinality(K) \in Nat
         /\ DOMAIN Ranked(K) = 1..Cardinality(K)
         /\ \A n \in 1..Cardinality(K) : Ranked(K)[n] \in K
         /\ \A n, k \in 1..Cardinality(K) : Ranked(K)[n] = Ranked(K)[k] => n = k
         /\ \A p \in K : \E n \in 1..Cardinality(K) : Ranked(K)[n] = p
<1> DEFINE below(p) == {q \in K : Before(q, p)}
           rank(p) == Cardinality(below(p))
<1>1. PICK N : N = Cardinality(K) /\ N \in Nat
  BY FS_CardinalityType
<1>2. ASSUME NEW p \in K
      PROVE  IsFiniteSet(below(p)) /\ rank(p) \in 0..(N - 1)
  <2>1. below(p) \in SUBSET K /\ p \notin below(p)
    BY BeforeOrders
  <2>2. IsFiniteSet(below(p)) /\ rank(p) <= N /\ (rank(p) = N => below(p) = K)
    BY <1>1, <2>1, FS_Subset
  <2>3. rank(p) # N
    BY <2>1, <2>2
  <2>4. rank(p) \in Nat
    BY <2>2, FS_CardinalityType
  <2> HIDE DEF rank
  <2>5. rank(p) \in 0..(N - 1)
    BY <1>1, <2>2, <2>3, <2>4
  <2> QED
    BY <2>2, <2>5
<1>3. ASSUME NEW p \in K, NEW q \in K, Before(p, q) PROVE rank(p) # rank(q)
  <2>1. below(p) \in SUBSET below(q) /\ p \in below(q) /\ p \notin below(p)
    BY <1>3, BeforeOrders
  <2>2. IsFiniteSet(below(q))
    BY <1>2
  <2> HIDE DEF below
  <2> QED
    BY <2>1, <2>2, FS_Subset
<1>4. \A p, q \in K : rank(p) = rank(q) => p = q
  BY <1>3, BeforeOrders
<1>5. \A n \in 0..(N - 1) : \E p \in K : rank(p) = n
  <2>1. PICK f, T : f = [p \in K |-> rank(p)] /\ T = 0..(N - 1)
    OBVIOUS
  <2>2. f \in [K -> T] /\ \A p, q \in K : f[p] = f[q] => p = q
    BY <1>2, <1>4, <2>1
  <2>3. IsFiniteSet(T) /\ Cardinality(T) = N
    BY <1>1, <2>1, FS_Interval
  <2>4. \A y \in T : \E x \in K : f[x] = y
    BY <1>1, <2>2, <2>3, OneToOne
  <2> QED
    BY <2>1, <2>4
<1> HIDE DEF rank
<1>6. Ranked(K) = [n \in 1..N |-> CHOOSE p \in K : rank(p) = n - 1]
  BY <1>1 DEF Ranked, rank
<1>7. ASSUME NEW n \in 1..N PROVE Ranked(K)[n] \in K /\ rank(Ranked(K)[n]) = n - 1
  <2>1. n - 1 \in 0..(N - 1)
    BY <1>1
  <2>2. \E p \in K : rank(p) = n - 1
    BY <1>5, <2>1
  <2> QED
    BY <1>6, <2>2
<1>8. \A n, k \in 1..N : Ranked(K)[n] = Ranked(K)[k] => n = k
  <2>1. ASSUME NEW n \in 1..N, NEW k \in 1..N, Ranked(K)[n] = Ranked(K)[k] PROVE n = k
    <3>1. n - 1 = k - 1
      BY <1>7, <2>1
    <3> QED
      BY <1>1, <3>1
  <2> QED
    BY <2>1
<1>9. ASSUME NEW p \in K PROVE \E n \in 1..N : Ranked(K)[n] = p
  <2>1. PICK n : n = rank(p) + 1
    OBVIOUS
  <2>2. rank(p) \in 0..(N - 1)
    BY <1>2
  <2>3. n \in 1..N /\ n - 1 = rank(p)
    BY <1>1, <2>1, <2>2
  <2> QED
    BY <1>4, <1>7, <2>3
<1> QED
  BY <1>1, <1>6, <1>7, <1>8, <1>9

\* Where a content is in a file.
At(lines, c) == {i \in DOMAIN lines : lines[i] = c}

\* A one-to-one function onto a finite set.
LEMMA SameSize ==
  ASSUME NEW S, NEW T, IsFiniteSet(T), NEW f \in [S -> T],
         \A x, y \in S : f[x] = f[y] => x = y,
         \A y \in T : \E x \in S : f[x] = y
  PROVE  IsFiniteSet(S) /\ Cardinality(S) = Cardinality(T) /\ Cardinality(S) \in Nat
<1>1. IsFiniteSet(S) /\ Cardinality(S) \in Nat /\ Cardinality(T) \in Nat
      /\ Cardinality(S) <= Cardinality(T)
  BY OneToOne
<1>2. PICK g : g = [y \in T |-> CHOOSE x \in S : f[x] = y]
  OBVIOUS
<1>3. \A y \in T : g[y] \in S /\ f[g[y]] = y
  BY <1>2
<1>4. g \in [T -> S] /\ \A x, y \in T : g[x] = g[y] => x = y
  BY <1>2, <1>3
<1>5. Cardinality(T) <= Cardinality(S)
  BY <1>1, <1>4, OneToOne
<1> QED
  BY <1>1, <1>5

\* The lines of one content are numbered one after another.
LEMMA NthCounts ==
  ASSUME NEW S, NEW lines \in Seq(S), NEW c
  PROVE  /\ IsFiniteSet(At(lines, c)) /\ Cardinality(At(lines, c)) \in Nat
         /\ \A i \in At(lines, c) : Nth(lines, i) \in 1..Cardinality(At(lines, c))
         /\ \A i, j \in At(lines, c) : Nth(lines, i) = Nth(lines, j) => i = j
         /\ \A n \in 1..Cardinality(At(lines, c)) : \E i \in At(lines, c) : Nth(lines, i) = n
<1> DEFINE upTo(i) == {j \in 1..i : lines[j] = lines[i]}
<1>1. Len(lines) \in Nat /\ DOMAIN lines = 1..Len(lines)
  BY LenProperties
<1>2. PICK P, N : P = At(lines, c) /\ N = Cardinality(P)
  OBVIOUS
<1>3. IsFiniteSet(P) /\ N \in Nat
  <2>1. P \in SUBSET (1..Len(lines)) /\ IsFiniteSet(1..Len(lines))
    BY <1>1, <1>2, FS_Interval DEF At
  <2> QED
    BY <1>2, <2>1, FS_Subset, FS_CardinalityType
<1>4. \A i \in P : i \in 1..Len(lines) /\ lines[i] = c
  BY <1>1, <1>2 DEF At
<1>5. ASSUME NEW i \in P
      PROVE  upTo(i) \in SUBSET P /\ i \in upTo(i) /\ IsFiniteSet(upTo(i)) /\ Nth(lines, i) \in 1..N
  <2>1. upTo(i) \in SUBSET P /\ i \in upTo(i)
    BY <1>1, <1>2, <1>4 DEF At
  <2>2. IsFiniteSet(upTo(i)) /\ Cardinality(upTo(i)) <= N
    BY <1>2, <1>3, <2>1, FS_Subset
  <2>3. Cardinality(upTo(i)) \in Nat /\ Cardinality(upTo(i)) # 0
    BY <2>1, <2>2, FS_CardinalityType, FS_EmptySet
  <2>4. Nth(lines, i) = Cardinality(upTo(i))
    BY DEF Nth
  <2> HIDE DEF upTo
  <2>5. Nth(lines, i) \in 1..N
    BY <1>3, <2>2, <2>3, <2>4
  <2> QED
    BY <2>1, <2>2, <2>5
<1>6. ASSUME NEW i \in P, NEW j \in P, i < j PROVE Nth(lines, i) # Nth(lines, j)
  <2>1. upTo(i) \in SUBSET upTo(j) /\ j \in upTo(j) /\ j \notin upTo(i)
    BY <1>4, <1>6
  <2>2. IsFiniteSet(upTo(j))
    BY <1>5
  <2>3. Nth(lines, i) = Cardinality(upTo(i)) /\ Nth(lines, j) = Cardinality(upTo(j))
    BY DEF Nth
  <2> HIDE DEF upTo
  <2> QED
    BY <2>1, <2>2, <2>3, FS_Subset
<1>7. ASSUME NEW i \in P, NEW j \in P, Nth(lines, i) = Nth(lines, j) PROVE i = j
  <2>1. ~(i < j) /\ ~(j < i)
    BY <1>6, <1>7
  <2>2. i \in Int /\ j \in Int
    BY <1>4
  <2> QED
    BY <2>1, <2>2
<1>8. ASSUME NEW n \in 1..N PROVE \E i \in P : Nth(lines, i) = n
  <2>1. PICK f, T : f = [i \in P |-> Nth(lines, i)] /\ T = 1..N
    OBVIOUS
  <2>2. f \in [P -> T] /\ \A i, j \in P : f[i] = f[j] => i = j
    BY <1>5, <1>7, <2>1
  <2>3. IsFiniteSet(T) /\ Cardinality(T) = N
    BY <1>3, <2>1, FS_Interval
  <2>4. \A y \in T : \E x \in P : f[x] = y
    BY <1>2, <2>2, <2>3, OneToOne
  <2> QED
    BY <2>1, <2>4
<1> QED
  BY <1>2, <1>3, <1>5, <1>7, <1>8

\* The file as git's diff adds it.
Fd(lines) == [path |-> Path, lines |-> lines]

\* The rows of a content.
Having(c) == {r \in rows : r.content = c}

\* How many lines of a content have a row.
Matched(lines, c) == Least(Cardinality(At(lines, c)), Cardinality(Having(c)))

\* A content's queue: as many of its rows as it has lines.
LEMMA QueueIs ==
  ASSUME \A r \in rows : IsRow(r), Unique(rows), IsFiniteSet(rows),
         NEW S, NEW lines \in Seq(S), NEW c
  PROVE  /\ Cardinality(Having(c)) \in Nat /\ Matched(lines, c) \in Nat
         /\ DOMAIN Queue(Fd(lines), rows, c) = 1..Matched(lines, c)
         /\ \A n \in 1..Matched(lines, c) : Queue(Fd(lines), rows, c)[n] \in Having(c)
<1>1. PICK H, K : H = Having(c) /\ K = {r.id : r \in H}
  OBVIOUS
<1>2. IsFiniteSet(H) /\ \A r \in H : r \in rows /\ IsRow(r)
  <2>1. H \in SUBSET rows
    BY <1>1 DEF Having
  <2> QED
    BY <2>1, FS_Subset
<1>3. H = {r \in CurrentAIByFile(rows, Fd(lines).path) : r.content = c}
  BY <1>1 DEF Having, CurrentAIByFile, Fd, IsRow, AI
<1>4. IsFiniteSet(K) /\ Cardinality(H) = Cardinality(K) /\ Cardinality(K) \in Nat
  <2>1. PICK f : f = [k \in K |-> CHOOSE r \in H : r.id = k]
    OBVIOUS
  <2>2. \A k \in K : f[k] \in H /\ f[k].id = k
    BY <1>1, <2>1
  <2>3. f \in [K -> H] /\ \A x, y \in K : f[x] = f[y] => x = y
    BY <2>1, <2>2
  <2>4. \A r \in H : \E k \in K : f[k] = r
    <3>1. ASSUME NEW r \in H PROVE f[r.id] = r /\ r.id \in K
      BY <1>1, <1>2, <2>2 DEF Unique
    <3> QED
      BY <3>1
  <2>5. IsFiniteSet(H)
    BY <1>2
  <2> QED
    BY <2>3, <2>4, <2>5, SameSize
<1>5. Keys(K, 3)
  <2>1. \A k \in K : k \in SessionIds \X {1, 2} \X Nat
    BY <1>1, <1>2 DEF IsRow
  <2>2. ASSUME NEW k \in K PROVE DOMAIN k = 1..3 /\ \A i \in 1..3 : k[i] \in Nat
    <3>1. PICK x \in SessionIds, y \in {1, 2}, z \in Nat : k = <<x, y, z>>
      BY <2>1
    <3>2. x \in Nat /\ y \in Nat
      BY IdsAssumption
    <3> QED
      BY <3>1, <3>2
  <2>3. ASSUME NEW k \in K, NEW j \in K, \A i \in 1..3 : k[i] = j[i] PROVE k = j
    <3>1. k[1] = j[1] /\ k[2] = j[2] /\ k[3] = j[3]
      BY <2>3
    <3> QED
      BY <2>1, <3>1
  <2> QED
    BY <2>2, <2>3 DEF Keys
<1>6. /\ DOMAIN Ranked(K) = 1..Cardinality(H)
      /\ \A n \in 1..Cardinality(H) : Ranked(K)[n] \in K
  BY <1>4, <1>5, RankedLists
<1>7. Cardinality(At(lines, c)) \in Nat
  BY NthCounts
<1>8. PICK n, m : n = Cardinality(At(lines, c)) /\ m = Cardinality(H)
  OBVIOUS
<1>9. n \in Nat /\ m \in Nat /\ Matched(lines, c) = IF n < m THEN n ELSE m
  BY <1>1, <1>4, <1>7, <1>8 DEF Matched, Least
<1>10. {k \in 1..m : k <= n} = 1..Matched(lines, c)
  BY <1>9
<1>11. Queue(Fd(lines), rows, c)
         = [k \in {j \in DOMAIN Ranked(K) : j <= n} |-> CHOOSE r \in H : r.id = Ranked(K)[k]]
  BY <1>1, <1>3, <1>8 DEF Queue, At, Fd
<1>12. Queue(Fd(lines), rows, c)
         = [k \in 1..Matched(lines, c) |-> CHOOSE r \in H : r.id = Ranked(K)[k]]
  BY <1>6, <1>8, <1>10, <1>11
<1>13. ASSUME NEW k \in 1..Matched(lines, c) PROVE Queue(Fd(lines), rows, c)[k] \in H
  <2>1. k \in 1..m
    BY <1>9
  <2>2. Ranked(K)[k] \in K
    BY <1>6, <1>8, <2>1
  <2>3. \E r \in H : r.id = Ranked(K)[k]
    BY <1>1, <2>2
  <2> QED
    BY <1>12, <2>3
<1> QED
  BY <1>1, <1>4, <1>8, <1>9, <1>12, <1>13

\* The positions that are reported as an agent's.
Covered(lines) == {i \in 1..Len(lines) : Nth(lines, i) <= Matched(lines, lines[i])}

\* What Report says of a line: the agent's if its content has a row for it.
LEMMA ReportIs ==
  ASSUME \A r \in rows : IsRow(r), Unique(rows), IsFiniteSet(rows),
         NEW S, NEW lines \in Seq(S)
  PROVE  /\ Len(lines) \in Nat /\ DOMAIN lines = 1..Len(lines)
         /\ DOMAIN Report(Fd(lines), rows) = 1..Len(lines)
         /\ \A i \in Covered(lines) :
              /\ Report(Fd(lines), rows)[i].source = "AI"
              /\ Report(Fd(lines), rows)[i].session
                   = Queue(Fd(lines), rows, lines[i])[Nth(lines, i)].origin
              /\ Nth(lines, i) \in 1..Matched(lines, lines[i])
              /\ Queue(Fd(lines), rows, lines[i])[Nth(lines, i)] \in Having(lines[i])
         /\ \A i \in 1..Len(lines) : i \notin Covered(lines) =>
              Report(Fd(lines), rows)[i].source = "unknown"
<1>1. Len(lines) \in Nat /\ DOMAIN lines = 1..Len(lines) /\ Fd(lines).lines = lines
  BY LenProperties DEF Fd
<1>2. PICK F : F = Fd(lines)
  OBVIOUS
<1>3. Report(F, rows) = [i \in 1..Len(lines) |->
           IF Nth(lines, i) \in DOMAIN Queue(F, rows, lines[i])
           THEN [source |-> "AI", session |-> Queue(F, rows, lines[i])[Nth(lines, i)].origin]
           ELSE [source |-> "unknown"]]
  BY <1>1, <1>2 DEF Report
<1>4. ASSUME NEW i \in 1..Len(lines)
      PROVE  /\ Nth(lines, i) \in DOMAIN Queue(F, rows, lines[i]) <=> i \in Covered(lines)
             /\ i \in Covered(lines) =>
                  /\ Nth(lines, i) \in 1..Matched(lines, lines[i])
                  /\ Queue(F, rows, lines[i])[Nth(lines, i)] \in Having(lines[i])
  <2>1. PICK c : c = lines[i]
    OBVIOUS
  <2>2. i \in At(lines, c)
    BY <1>1, <2>1 DEF At
  <2>3. Nth(lines, i) \in Nat /\ Nth(lines, i) >= 1
    <3>1. Nth(lines, i) \in 1..Cardinality(At(lines, c))
      BY <2>2, NthCounts
    <3> QED
      BY <3>1
  <2>4. /\ Matched(lines, c) \in Nat
        /\ DOMAIN Queue(F, rows, c) = 1..Matched(lines, c)
        /\ \A n \in 1..Matched(lines, c) : Queue(F, rows, c)[n] \in Having(c)
    BY <1>2, QueueIs
  <2>5. Nth(lines, i) \in 1..Matched(lines, c) <=> i \in Covered(lines)
    BY <2>1, <2>3, <2>4 DEF Covered
  <2> QED
    BY <2>1, <2>4, <2>5
<1>5. \A i \in Covered(lines) : i \in 1..Len(lines)
  BY DEF Covered
<1> QED
  BY <1>1, <1>2, <1>3, <1>4, <1>5

\* What verification says of one file's added lines.
LEMMA VerifiedIs ==
  ASSUME \A r \in rows : IsRow(r), Unique(rows), IsFiniteSet(rows),
         NEW S, NEW lines \in Seq(S), lines # <<>>, NEW v, v = Verified(lines)
  PROVE  /\ v.reports = <<Report(Fd(lines), rows)>>
         /\ v.total = Len(lines)
         /\ v.ai = Cardinality(Covered(lines))
         /\ v.untracked = Cardinality((1..Len(lines)) \ Covered(lines))
         /\ v.status = IF (1..Len(lines)) \subseteq Covered(lines) THEN "ok" ELSE "warning"
         /\ v.sessions = LET listed == Ranked(Contributors(Fd(lines), rows) \X {1})
                         IN  [n \in DOMAIN listed |-> listed[n][1]]
<1>1. PICK F, R, N : F = Fd(lines) /\ R = Report(F, rows) /\ N = Len(lines)
  OBVIOUS
<1>2. /\ N \in Nat /\ DOMAIN lines = 1..N /\ Covered(lines) \subseteq 1..N
      /\ \A i \in 1..N : /\ i \in Covered(lines) => R[i].source = "AI"
                         /\ i \notin Covered(lines) => R[i].source = "unknown"
  BY <1>1, ReportIs DEF Covered
<1>3. PICK diffs : diffs = <<F>>
  OBVIOUS
<1>4. DOMAIN diffs = {1} /\ diffs[1] = F /\ F.lines = lines
  BY <1>1, <1>3 DEF Fd
<1>5. v = Verify(diffs, rows, FALSE)
  BY <1>1, <1>3 DEF Verified, Fd
<1> DEFINE reports == [i \in DOMAIN diffs |-> Report(diffs[i], rows)]
           added == UNION {{i} \X DOMAIN diffs[i].lines : i \in DOMAIN diffs}
           as(source) == {p \in added : reports[p[1]][p[2]].source = source}
           listed == Ranked(UNION {Contributors(diffs[i], rows) \X {i} : i \in DOMAIN diffs})
<1>6. /\ v.reports = reports /\ v.total = Cardinality(added)
      /\ v.ai = Cardinality(as("AI")) /\ v.untracked = Cardinality(as("unknown"))
      /\ v.status = IF as("unknown") = {} THEN "ok" ELSE "warning"
      /\ v.sessions = [n \in DOMAIN listed |-> listed[n][1]]
  BY <1>5 DEF Verify
<1>7. reports = <<R>>
  BY <1>1, <1>4
<1>8. added = {1} \X (1..N)
  BY <1>2, <1>4
<1>9. as("AI") = {1} \X Covered(lines) /\ as("unknown") = {1} \X ((1..N) \ Covered(lines))
  <2>1. \A p \in {1} \X (1..N) : reports[p[1]][p[2]] = R[p[2]]
    BY <1>7
  <2> HIDE DEF reports
  <2>2. \A p \in added : /\ p[2] \in 1..N
                         /\ reports[p[1]][p[2]].source = "AI" <=> p[2] \in Covered(lines)
                         /\ reports[p[1]][p[2]].source = "unknown" <=> p[2] \notin Covered(lines)
    BY <1>2, <1>8, <2>1
  <2>3. as("AI") = {p \in {1} \X (1..N) : p[2] \in Covered(lines)}
    BY <1>8, <2>2
  <2>4. as("unknown") = {p \in {1} \X (1..N) : p[2] \notin Covered(lines)}
    BY <1>8, <2>2
  <2> QED
    BY <1>2, <2>3, <2>4
<1>10. UNION {Contributors(diffs[i], rows) \X {i} : i \in DOMAIN diffs} = Contributors(F, rows) \X {1}
  BY <1>4
<1>11. ASSUME NEW T, T \subseteq 1..N PROVE Cardinality({1} \X T) = Cardinality(T)
  <2>1. IsFiniteSet(T)
    <3>1. IsFiniteSet(1..N) /\ T \in SUBSET (1..N)
      BY <1>2, <1>11, FS_Interval
    <3> QED
      BY <3>1, FS_Subset
  <2>2. PICK f, P : f = [p \in P |-> p[2]] /\ P = {1} \X T
    OBVIOUS
  <2>3. f \in [P -> T] /\ \A x, y \in P : f[x] = f[y] => x = y
    BY <2>2
  <2>4. \A y \in T : \E x \in P : f[x] = y
    <3>1. ASSUME NEW y \in T PROVE <<1, y>> \in P /\ f[<<1, y>>] = y
      BY <2>2
    <3> QED
      BY <3>1
  <2>5. Cardinality(P) = Cardinality(T)
    BY <2>1, <2>3, <2>4, SameSize
  <2> QED
    BY <2>2, <2>5
<1>12. Cardinality(1..N) = N
  BY <1>2, FS_Interval
<1> HIDE DEF reports, added, as, listed
<1>13. v.total = N /\ v.ai = Cardinality(Covered(lines)) /\ v.untracked = Cardinality((1..N) \ Covered(lines))
  BY <1>2, <1>6, <1>8, <1>9, <1>11, <1>12
<1>14. as("unknown") = {} <=> (1..N) \subseteq Covered(lines)
  <2>1. PICK U : U = (1..N) \ Covered(lines)
    OBVIOUS
  <2>2. {1} \X U = {} <=> U = {}
    <3>1. \A i \in U : <<1, i>> \in {1} \X U
      OBVIOUS
    <3> QED
      BY <3>1
  <2> QED
    BY <1>9, <2>1, <2>2
<1> QED
  BY <1>1, <1>6, <1>7, <1>10, <1>13, <1>14 DEF listed

\* Without files nothing is verified.
LEMMA VerifiedNone ==
  ASSUME NEW v, v = Verified(<<>>)
  PROVE  /\ v.reports = <<>> /\ v.total = 0 /\ v.ai = 0 /\ v.untracked = 0 /\ v.status = "ok"
<1>1. v = Verify(<<>>, rows, FALSE)
  BY DEF Verified
<1> DEFINE diffs == <<>>
           reports == [i \in DOMAIN diffs |-> Report(diffs[i], rows)]
           added == UNION {{i} \X DOMAIN diffs[i].lines : i \in DOMAIN diffs}
           as(source) == {p \in added : reports[p[1]][p[2]].source = source}
<1>2. /\ v.reports = reports /\ v.total = Cardinality(added)
      /\ v.ai = Cardinality(as("AI")) /\ v.untracked = Cardinality(as("unknown"))
      /\ v.status = IF as("unknown") = {} THEN "ok" ELSE "warning"
  BY <1>1 DEF Verify
<1>3. added = {} /\ reports = <<>>
  OBVIOUS
<1>4. as("AI") = {} /\ as("unknown") = {}
  BY <1>3
<1> HIDE DEF as, added, reports
<1> QED
  BY <1>2, <1>3, <1>4, FS_EmptySet

-----------------------------------------------------------------------------
\* What Verify reports.

\* What git adds are lines of the file, each at a place of its own.
LEMMA AddedIs ==
  ASSUME file \in Seq(Contents), NEW added \in GitAdded
  PROVE  /\ added \in Seq(Contents)
         /\ \E at \in [1..Len(added) -> DOMAIN file] :
              /\ \A i \in 1..Len(added) : added[i] = file[at[i]]
              /\ \A i, j \in 1..Len(added) : at[i] = at[j] => i = j
<1> DEFINE shown == {i \in DOMAIN file : ~IsBlank(file[i])}
           choices(n) == {at \in [1..n -> shown] : \A i, j \in 1..n : i < j => at[i] < at[j]}
<1>1. Len(file) \in Nat /\ DOMAIN file = 1..Len(file) /\ \A i \in 1..Len(file) : file[i] \in Contents
  BY LenProperties, ElementOfSeq
<1>2. PICK n \in 0..Len(file) : \E at \in choices(n) : added = [i \in DOMAIN at |-> file[at[i]]]
  BY DEF GitAdded
<1>3. PICK at \in choices(n) : added = [i \in DOMAIN at |-> file[at[i]]]
  BY <1>2
<1>4. n \in Nat /\ at \in [1..n -> DOMAIN file] /\ \A i, j \in 1..n : i < j => at[i] < at[j]
  BY <1>1, <1>3
<1>5. added = [i \in 1..n |-> file[at[i]]] /\ \A i \in 1..n : file[at[i]] \in Contents
  BY <1>1, <1>4, <1>3
<1>6. added \in Seq(Contents) /\ Len(added) = n
  <2>1. added \in [1..n -> Contents]
    BY <1>5
  <2> QED
    BY <1>4, <2>1
<1>7. ASSUME NEW i \in 1..n, NEW j \in 1..n, at[i] = at[j] PROVE i = j
  <2>1. at[i] \in Int /\ at[j] \in Int
    BY <1>1, <1>4
  <2>2. ~(i < j) /\ ~(j < i)
    BY <1>4, <1>7, <2>1
  <2> QED
    BY <2>2
<1> QED
  BY <1>4, <1>5, <1>6, <1>7

\* What the inductive invariant says of the rows.
LEMMA RowFacts ==
  ASSUME CommitInv
  PROVE  /\ \A r \in rows : IsRow(r) /\ earned[r.origin][r.content] > 0
         /\ Unique(rows) /\ IsFiniteSet(rows) /\ file \in Seq(Contents)
BY DEF CommitInv, RowsInv, TypeInv, RowsOwned, RowsUnique

\* For any sessions, contents, lengths and budgets, whatever git shows as added
\* and however finishes race: a line that Verify reports as an agent's was
\* inserted by the session it names (coverage.Verify).
THEOREM OnlyInsertedIsAIHolds == Spec => []OnlyInsertedIsAI
<1>1. CommitInv => OnlyInsertedIsAI
  <2> SUFFICES ASSUME CommitInv, NEW added \in GitAdded,
                      NEW n \in DOMAIN Verified(added).reports, NEW i \in DOMAIN added,
                      Verified(added).reports[n][i].source = "AI"
               PROVE  earned[Verified(added).reports[n][i].session][added[i]] > 0
    BY DEF OnlyInsertedIsAI
  <2>1. /\ \A r \in rows : IsRow(r) /\ earned[r.origin][r.content] > 0
        /\ Unique(rows) /\ IsFiniteSet(rows) /\ file \in Seq(Contents)
    BY RowFacts
  <2>2. added \in Seq(Contents)
    BY <2>1, AddedIs
  <2>3. PICK v : v = Verified(added)
    OBVIOUS
  <2>4. added # <<>>
    OBVIOUS
  <2>5. v.reports = <<Report(Fd(added), rows)>>
    BY <2>1, <2>2, <2>3, <2>4, VerifiedIs
  <2>6. n = 1 /\ v.reports[n] = Report(Fd(added), rows)
    BY <2>3, <2>5
  <2>7. i \in 1..Len(added) /\ Report(Fd(added), rows)[i].source = "AI"
    BY <2>2, <2>3, <2>6, LenProperties
  <2>8. i \in Covered(added)
    BY <2>1, <2>2, <2>7, ReportIs
  <2>9. PICK r : r = Queue(Fd(added), rows, added[i])[Nth(added, i)]
    OBVIOUS
  <2>10. Report(Fd(added), rows)[i].session = r.origin /\ r \in Having(added[i])
    BY <2>1, <2>2, <2>8, <2>9, ReportIs
  <2>11. r \in rows /\ r.content = added[i]
    BY <2>10 DEF Having
  <2>12. earned[r.origin][added[i]] > 0
    BY <2>1, <2>11
  <2> QED
    BY <2>3, <2>6, <2>10, <2>12
<1> QED
  BY <1>1, CommitInvHolds, PTL

\* For any sessions, contents, lengths and budgets: when sessions follow one
\* another and every edit is made in one, Verify reports every line git may
\* show as added as an agent's (coverage.Verify).
THEOREM SerialIsCoveredHolds == Spec => []SerialIsCovered
<1>1. CommitInv => SerialIsCovered
  <2> SUFFICES ASSUME CommitInv, serial, Active = {}, NEW added \in GitAdded
               PROVE  Verified(added).status = "ok"
    BY DEF SerialIsCovered
  <2>1. /\ \A r \in rows : IsRow(r)
        /\ Unique(rows) /\ IsFiniteSet(rows) /\ file \in Seq(Contents)
    BY RowFacts
  <2>2. Covers(rows, file)
    BY DEF CommitInv, SerialInv
  <2>3. added \in Seq(Contents)
    BY <2>1, AddedIs
  <2>4. PICK at \in [1..Len(added) -> DOMAIN file] :
              /\ \A i \in 1..Len(added) : added[i] = file[at[i]]
              /\ \A i, j \in 1..Len(added) : at[i] = at[j] => i = j
    BY <2>1, AddedIs
  <2>5. /\ Len(added) \in Nat /\ DOMAIN added = 1..Len(added)
        /\ Len(file) \in Nat /\ DOMAIN file = 1..Len(file)
    BY <2>1, <2>3, LenProperties
  <2>6. ASSUME NEW c PROVE Cardinality(At(added, c)) <= Cardinality(Having(c)) /\ IsFiniteSet(Having(c))
    <3>1. IsFiniteSet(Having(c))
      <4>1. Having(c) \in SUBSET rows
        BY DEF Having
      <4> QED
        BY <2>1, <4>1, FS_Subset
    <3> DEFINE of(i, r) == r \in rows /\ r.identity = Identities(file)[at[i]]
    <3>2. PICK f, A : A = At(added, c) /\ f = [i \in A |-> CHOOSE r : of(i, r)]
      OBVIOUS
    <3>3. ASSUME NEW i \in A PROVE f[i] \in Having(c) /\ f[i].identity = Identities(file)[at[i]]
                                   /\ i \in 1..Len(added) /\ at[i] \in 1..Len(file)
      <4>1. i \in 1..Len(added) /\ added[i] = c /\ at[i] \in 1..Len(file) /\ file[at[i]] = c
        BY <2>4, <2>5, <3>2 DEF At
      <4>2. \E r : of(i, r)
        BY <2>2, <2>5, <4>1 DEF Covers
      <4>3. f[i] = CHOOSE r : of(i, r)
        BY <3>2
      <4> HIDE DEF of
      <4>4. of(i, f[i])
        BY <4>2, <4>3
      <4>5. f[i] \in rows /\ f[i].identity = Identities(file)[at[i]]
        BY <4>4 DEF of
      <4>6. Identities(file)[at[i]].content = file[at[i]]
        BY <2>1, <4>1, IdentitiesApart
      <4>7. f[i].content = c
        BY <2>1, <4>1, <4>5, <4>6 DEF IsRow
      <4> QED
        BY <4>1, <4>5, <4>7 DEF Having
    <3>4. f \in [A -> Having(c)]
      BY <3>2, <3>3
    <3>5. ASSUME NEW i \in A, NEW j \in A, f[i] = f[j] PROVE i = j
      <4>1. Identities(file)[at[i]] = Identities(file)[at[j]]
        BY <3>3, <3>5
      <4>2. at[i] = at[j]
        BY <2>1, <3>3, <4>1, IdentitiesApart
      <4> QED
        BY <2>4, <3>3, <4>2
    <3> HIDE DEF of
    <3>6. Cardinality(A) <= Cardinality(Having(c))
      BY <3>1, <3>4, <3>5, OneToOne
    <3> QED
      BY <3>1, <3>2, <3>6
  <2>7. ASSUME NEW i \in 1..Len(added) PROVE i \in Covered(added)
    <3>1. PICK c : c = added[i]
      OBVIOUS
    <3>2. PICK n, h : n = Cardinality(At(added, c)) /\ h = Cardinality(Having(c))
      OBVIOUS
    <3>3. i \in At(added, c)
      BY <2>5, <3>1 DEF At
    <3>4. n \in Nat /\ Nth(added, i) \in 1..n
      BY <2>3, <3>2, <3>3, NthCounts
    <3>5. h \in Nat /\ n <= h
      BY <2>6, <3>2, FS_CardinalityType
    <3>6. Matched(added, c) = IF n < h THEN n ELSE h
      BY <3>2 DEF Matched, Least
    <3>7. Nth(added, i) <= Matched(added, c)
      BY <3>4, <3>5, <3>6
    <3> QED
      BY <3>1, <3>7 DEF Covered
  <2>8. CASE added = <<>>
    BY <2>8, VerifiedNone
  <2>9. CASE added # <<>>
    <3>1. (1..Len(added)) \subseteq Covered(added)
      BY <2>7
    <3> QED
      BY <2>1, <2>3, <2>9, <3>1, VerifiedIs
  <2> QED
    BY <2>8, <2>9
<1> QED
  BY <1>1, CommitInvHolds, PTL

\* As many lines of a content are covered as have a row.
LEMMA CoveredCount ==
  ASSUME \A r \in rows : IsRow(r), Unique(rows), IsFiniteSet(rows),
         NEW S, NEW lines \in Seq(S), NEW c
  PROVE  Cardinality({i \in At(lines, c) : i \in Covered(lines)}) = Matched(lines, c)
<1>1. PICK P, n, m : /\ P = {i \in At(lines, c) : i \in Covered(lines)}
                     /\ n = Cardinality(At(lines, c)) /\ m = Matched(lines, c)
  OBVIOUS
<1>2. n \in Nat /\ m \in Nat
  BY <1>1, NthCounts, QueueIs
<1>3. m <= n
  <2>1. Cardinality(Having(c)) \in Nat
    BY QueueIs
  <2> QED
    BY <1>1, <1>2, <2>1 DEF Matched, Least
<1>4. \A i \in At(lines, c) : i \in 1..Len(lines) /\ lines[i] = c
  BY LenProperties DEF At
<1>5. ASSUME NEW i \in At(lines, c)
      PROVE  Nth(lines, i) \in 1..n /\ (i \in P <=> Nth(lines, i) <= m)
  <2>1. Nth(lines, i) \in 1..n
    BY <1>1, NthCounts
  <2>2. i \in Covered(lines) <=> Nth(lines, i) <= m
    BY <1>1, <1>4 DEF Covered
  <2> QED
    BY <1>1, <2>1, <2>2
<1>6. PICK f, T : f = [i \in P |-> Nth(lines, i)] /\ T = 1..m
  OBVIOUS
<1>7. \A i \in P : i \in At(lines, c)
  BY <1>1
<1>8. ASSUME NEW i \in P PROVE Nth(lines, i) \in T
  <2>1. Nth(lines, i) \in 1..n /\ Nth(lines, i) <= m
    BY <1>5, <1>7
  <2> QED
    BY <1>2, <1>6, <2>1
<1>9. f \in [P -> T]
  BY <1>6, <1>8
<1>10. \A i, j \in P : f[i] = f[j] => i = j
  BY <1>6, <1>7, NthCounts
<1>11. ASSUME NEW y \in T PROVE \E i \in P : f[i] = y
  <2>1. y \in 1..n /\ y <= m
    BY <1>2, <1>3, <1>6
  <2>2. PICK i \in At(lines, c) : Nth(lines, i) = y
    BY <1>1, <2>1, NthCounts
  <2>3. i \in P
    BY <1>5, <2>1, <2>2
  <2> QED
    BY <1>6, <2>2, <2>3
<1>12. IsFiniteSet(T) /\ Cardinality(T) = m
  BY <1>2, <1>6, FS_Interval
<1>13. Cardinality(P) = m
  BY <1>9, <1>10, <1>11, <1>12, SameSize
<1> QED
  BY <1>1, <1>13

\* The sessions listed are the origins of the rows that cover a line.
LEMMA SessionsListed ==
  ASSUME \A r \in rows : IsRow(r), Unique(rows), IsFiniteSet(rows),
         NEW S, NEW lines \in Seq(S), lines # <<>>, NEW v, v = Verified(lines)
  PROVE  Range(v.sessions) = {Report(Fd(lines), rows)[i].session : i \in Covered(lines)}
<1>1. PICK F, C : F = Fd(lines) /\ C = Contributors(F, rows)
  OBVIOUS
<1>2. DOMAIN lines = 1..Len(lines) /\ F.lines = lines
  BY <1>1, LenProperties DEF Fd
<1>3. C = {Report(F, rows)[i].session : i \in Covered(lines)}
  <2>1. ASSUME NEW s \in C PROVE \E i \in Covered(lines) : Report(F, rows)[i].session = s
    <3>1. PICK c : c \in Range(lines) /\ \E n \in DOMAIN Queue(F, rows, c) : s = Queue(F, rows, c)[n].origin
      BY <1>1, <1>2 DEF Contributors
    <3>2. PICK n \in 1..Matched(lines, c) : s = Queue(F, rows, c)[n].origin
      BY <1>1, <3>1, QueueIs
    <3>3. n \in 1..Cardinality(At(lines, c))
      <4>1. PICK k, h, m : k = Cardinality(At(lines, c)) /\ h = Cardinality(Having(c)) /\ m = Matched(lines, c)
        OBVIOUS
      <4>2. k \in Nat /\ h \in Nat
        BY <4>1, NthCounts, QueueIs
      <4>3. m = IF k < h THEN k ELSE h
        BY <4>1 DEF Matched, Least
      <4>4. n \in 1..m
        BY <4>1
      <4>5. n \in 1..k
        BY <4>2, <4>3, <4>4
      <4> QED
        BY <4>1, <4>5
    <3>4. PICK i \in At(lines, c) : Nth(lines, i) = n
      BY <3>3, NthCounts
    <3>5. i \in 1..Len(lines) /\ lines[i] = c
      BY <1>2 DEF At
    <3>6. n <= Matched(lines, c)
      OBVIOUS
    <3>7. i \in Covered(lines)
      BY <3>4, <3>5, <3>6 DEF Covered
    <3>8. Report(F, rows)[i].session = s
      BY <1>1, <3>2, <3>4, <3>5, <3>7, ReportIs
    <3> QED
      BY <3>7, <3>8
  <2>2. ASSUME NEW i \in Covered(lines) PROVE Report(F, rows)[i].session \in C
    <3>1. PICK c, n : c = lines[i] /\ n = Nth(lines, i)
      OBVIOUS
    <3>2. /\ i \in 1..Len(lines)
          /\ Report(F, rows)[i].session = Queue(F, rows, c)[n].origin
          /\ n \in 1..Matched(lines, c)
      BY <1>1, <3>1, ReportIs DEF Covered
    <3>3. n \in DOMAIN Queue(F, rows, c)
      BY <1>1, <3>2, QueueIs
    <3>4. c \in Range(lines)
      BY <1>2, <3>1, <3>2 DEF Range
    <3> QED
      BY <1>1, <1>2, <3>2, <3>3, <3>4 DEF Contributors
  <2> QED
    BY <2>1, <2>2
<1>4. IsFiniteSet(C) /\ C \subseteq Nat
  <2>1. ASSUME NEW s \in C PROVE s \in SessionIds /\ \E r \in rows : r.origin = s
    <3>1. PICK i \in Covered(lines) : Report(F, rows)[i].session = s
      BY <1>3
    <3>2. PICK r : r = Queue(F, rows, lines[i])[Nth(lines, i)]
      OBVIOUS
    <3>3. r \in Having(lines[i]) /\ r.origin = s
      BY <1>1, <3>1, <3>2, ReportIs
    <3> QED
      BY <3>3 DEF Having, IsRow
  <2>2. PICK O : O = {r.origin : r \in rows}
    OBVIOUS
  <2>3. IsFiniteSet(O)
    <3>1. PICK f : f = [x \in O |-> CHOOSE r \in rows : r.origin = x]
      OBVIOUS
    <3>2. \A x \in O : f[x] \in rows /\ f[x].origin = x
      BY <2>2, <3>1
    <3>3. f \in [O -> rows] /\ \A x, y \in O : f[x] = f[y] => x = y
      BY <3>1, <3>2
    <3> QED
      BY <3>3, OneToOne
  <2>4. C \in SUBSET O
    BY <2>1, <2>2
  <2>5. IsFiniteSet(C)
    BY <2>3, <2>4, FS_Subset
  <2> QED
    BY <2>1, <2>5, IdsAssumption
<1>5. PICK K : K = C \X {1}
  OBVIOUS
<1>6. IsFiniteSet(K)
  <2>1. IsFiniteSet({1})
    BY FS_Singleton
  <2> QED
    BY <1>4, <1>5, <2>1, FS_Product
<1>7. Keys(K, 2)
  <2>1. ASSUME NEW k \in K PROVE DOMAIN k = 1..2 /\ \A i \in 1..2 : k[i] \in Nat
    <3>1. PICK x \in C : k = <<x, 1>>
      BY <1>5
    <3>2. x \in Nat
      BY <1>4
    <3> QED
      BY <3>1, <3>2
  <2>2. ASSUME NEW k \in K, NEW j \in K, \A i \in 1..2 : k[i] = j[i] PROVE k = j
    <3>1. k[1] = j[1] /\ k[2] = j[2]
      BY <2>2
    <3> QED
      BY <1>5, <3>1
  <2> QED
    BY <2>1, <2>2 DEF Keys
<1>8. PICK L, n : L = Ranked(K) /\ n = Cardinality(K)
  OBVIOUS
<1>9. /\ DOMAIN L = 1..n /\ \A i \in 1..n : L[i] \in K
      /\ \A p \in K : \E i \in 1..n : L[i] = p
  BY <1>6, <1>7, <1>8, RankedLists
<1>10. v.sessions = [i \in 1..n |-> L[i][1]]
  <2>1. v.sessions = LET listed == Ranked(Contributors(Fd(lines), rows) \X {1})
                     IN  [i \in DOMAIN listed |-> listed[i][1]]
    BY VerifiedIs
  <2> QED
    BY <1>1, <1>5, <1>8, <1>9, <2>1
<1>11. Range(v.sessions) = {L[i][1] : i \in 1..n}
  BY <1>10 DEF Range
<1>12. \A i \in 1..n : L[i][1] \in C
  BY <1>5, <1>9
<1>13. ASSUME NEW s \in C PROVE \E i \in 1..n : L[i][1] = s
  <2>1. PICK p \in K : p = <<s, 1>>
    BY <1>5
  <2>2. PICK i \in 1..n : L[i] = p
    BY <1>9
  <2> QED
    BY <2>1, <2>2
<1>14. Range(v.sessions) = C
  BY <1>11, <1>12, <1>13
<1> QED
  BY <1>1, <1>3, <1>14

\* For any sessions, contents, lengths and budgets: the covered and the other
\* lines add up, a content is covered as far as it has rows, and the sessions
\* listed are those the lines name (coverage.Verify).
THEOREM VerifyAddsUpHolds == Spec => []VerifyAddsUp
<1>1. CommitInv => VerifyAddsUp
  <2> SUFFICES ASSUME CommitInv, NEW added \in GitAdded, NEW v, v = Verified(added)
               PROVE  /\ v.ai + v.untracked = Len(added) /\ v.total = Len(added)
                      /\ (v.status = "ok") = (v.ai = v.total)
                      /\ added # <<>> =>
                           /\ \A c \in Contents :
                                Cardinality({i \in DOMAIN added :
                                               added[i] = c /\ v.reports[1][i].source = "AI"})
                                  = Least(Cardinality({i \in DOMAIN added : added[i] = c}),
                                          Cardinality({r \in rows : r.content = c}))
                           /\ Range(v.sessions) = {v.reports[1][i].session : i \in
                                {j \in DOMAIN added : v.reports[1][j].source = "AI"}}
    BY DEF VerifyAddsUp
  <2>1. /\ \A r \in rows : IsRow(r)
        /\ Unique(rows) /\ IsFiniteSet(rows) /\ file \in Seq(Contents)
    BY RowFacts
  <2>2. added \in Seq(Contents)
    BY <2>1, AddedIs
  <2>3. CASE added = <<>>
    BY <2>3, VerifiedNone
  <2>4. CASE added # <<>>
    <3>1. PICK R, N, A : R = Report(Fd(added), rows) /\ N = Len(added) /\ A = Covered(added)
      OBVIOUS
    <3>2. /\ v.reports = <<R>> /\ v.total = N
          /\ v.ai = Cardinality(A) /\ v.untracked = Cardinality((1..N) \ A)
          /\ v.status = IF (1..N) \subseteq A THEN "ok" ELSE "warning"
      BY <2>1, <2>2, <2>4, <3>1, VerifiedIs
    <3>3. /\ N \in Nat /\ DOMAIN added = 1..N
          /\ \A i \in 1..N : R[i].source = "AI" <=> i \in A
      BY <2>1, <2>2, <3>1, ReportIs
    <3>4. A \in SUBSET (1..N)
      BY <3>1 DEF Covered
    <3>5. IsFiniteSet(1..N) /\ Cardinality(1..N) = N
      BY <3>3, FS_Interval
    <3>6. IsFiniteSet(A) /\ Cardinality(A) \in Nat /\ (Cardinality(A) = N => A = 1..N)
      BY <3>4, <3>5, FS_Subset, FS_CardinalityType
    <3>7. Cardinality(A) + Cardinality((1..N) \ A) = N
      <4>1. PICK B, I : B = (1..N) \ A /\ I = 1..N
        OBVIOUS
      <4>2. IsFiniteSet(B)
        BY <3>5, <4>1, FS_Difference
      <4>3. A \cup B = I /\ A \cap B = {}
        BY <3>4, <4>1
      <4>4. Cardinality(A \cup B) = Cardinality(A) + Cardinality(B) - Cardinality(A \cap B)
        BY <3>6, <4>2, FS_Union
      <4>5. Cardinality(A) + Cardinality(B) - 0 = N
        BY <3>5, <4>1, <4>3, <4>4, FS_EmptySet
      <4>6. Cardinality(B) \in Nat
        BY <4>2, FS_CardinalityType
      <4> QED
        BY <3>6, <4>1, <4>5, <4>6
    <3>8. (v.status = "ok") = (v.ai = v.total)
      <4>1. (1..N) \subseteq A <=> A = 1..N
        BY <3>4
      <4>2. A = 1..N <=> Cardinality(A) = N
        BY <3>5, <3>6
      <4> QED
        BY <3>2, <4>1, <4>2
    <3>9. ASSUME NEW c \in Contents
          PROVE  Cardinality({i \in DOMAIN added : added[i] = c /\ v.reports[1][i].source = "AI"})
                   = Least(Cardinality({i \in DOMAIN added : added[i] = c}),
                           Cardinality({r \in rows : r.content = c}))
      <4>1. {i \in DOMAIN added : added[i] = c /\ v.reports[1][i].source = "AI"}
              = {i \in At(added, c) : i \in Covered(added)}
        BY <3>1, <3>2, <3>3 DEF At
      <4>2. Cardinality({i \in At(added, c) : i \in Covered(added)}) = Matched(added, c)
        BY <2>1, <2>2, CoveredCount
      <4> QED
        BY <4>1, <4>2 DEF Matched, At, Having
    <3>10. Range(v.sessions) = {v.reports[1][i].session : i \in
                                {j \in DOMAIN added : v.reports[1][j].source = "AI"}}
      <4>1. v.reports[1] = R
        BY <3>2
      <4>2. {j \in DOMAIN added : v.reports[1][j].source = "AI"} = A
        BY <3>3, <3>4, <4>1
      <4>3. Range(v.sessions) = {Report(Fd(added), rows)[i].session : i \in Covered(added)}
        BY <2>1, <2>2, <2>4, SessionsListed
      <4>4. Range(v.sessions) = {R[i].session : i \in A}
        BY <3>1, <4>3
      <4> QED
        BY <4>1, <4>2, <4>4
    <3> QED
      BY <3>1, <3>2, <3>7, <3>8, <3>9, <3>10
  <2> QED
    BY <2>3, <2>4
<1> QED
  BY <1>1, CommitInvHolds, PTL
=============================================================================
