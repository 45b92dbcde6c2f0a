------------------------- MODULE UserInstallProofs -------------------------
(***************************************************************************)
(* What install and uninstall may never do, for any directories, releases, *)
(* shells and any number of commands and of acts of the user.  The proof   *)
(* follows a command's own variables from step to step, and the marks of   *)
(* the PATH block through every text it writes; then the user's own lines, *)
(* and what an install has put on disk while the user let it.              *)
(***************************************************************************)
EXTENDS UserInstall, SequenceTheorems, FiniteSetTheorems, FunctionTheorems, TLAPS

\* The positions of a mark.
At(text, mark) == {i \in DOMAIN text : text[i] = mark}

Without(text, mark) == At(text, mark) = {}

AtMostOne(text, mark) == \A i, j \in At(text, mark) : i = j

Tidy(text) == AtMostOne(text, Begin) /\ AtMostOne(text, End)

Second == <<"ai-prov-mcp">>

\* What a command has left to do at each of its steps.
QueueOK ==
    /\ pc \in {"copy", "place"} => command = "install" /\ todo \in {Targets, Second}
    /\ pc \in {"remove", "unlink"} => todo \in {Targets, Second}
    /\ (pc \in {"profile", "emptyProfile", "fillProfile"} /\ command = "uninstall") =>
          todo = Targets

\* No profile has two blocks, and what an uninstall is about to write has none.
BlocksOK ==
    /\ \A s \in Shells : Tidy(profile[s])
    /\ pc \in {"emptyProfile", "fillProfile"} =>
          Tidy(updated) /\ (command = "uninstall" => Without(updated, Begin))

\* What an uninstall has done is still done.
GoneOK ==
    \A r \in receipt :
       /\ (pc \in {"remove", "unlink"} /\ todo = Second) =>
             bin[r.root]["ai-prov"] # r.hash["ai-prov"]
       /\ pc = "dropReceipt" => \A n \in Names : bin[r.root][n] # r.hash[n]
       /\ (pc \in {"remove", "unlink", "dropReceipt"} /\ r.method = "shell" /\ opts.path) =>
             Without(profile[opts.shell], Begin)

\* What a command has seen is still there, or the user was quicker.
SeenOK ==
    /\ (pc = "place" /\ ~unseen) => opts.force \/ bin[opts.dir][Head(todo)] # Other
    /\ (pc = "unlink" /\ ~unseen) => \A r \in receipt : bin[r.root][Head(todo)] # Other

IInv == TypeOK /\ QueueOK /\ BlocksOK /\ GoneOK /\ SeenOK

-----------------------------------------------------------------------------
\* Texts.

\* What it is to be a position of a mark.
LEMMA PositionOf ==
    ASSUME NEW text \in Seq(Line)
    PROVE  \A mark, i : i \in At(text, mark) <=> i \in 1..Len(text) /\ text[i] = mark
BY LenProperties DEF At

\* A text whose marks have one place each is tidy.
LEMMA TidyIfPlaced ==
    ASSUME NEW text \in Seq(Line), NEW n, NEW m,
           \A i \in 1..Len(text) : (text[i] = Begin => i = n) /\ (text[i] = End => i = m)
    PROVE  Tidy(text)
BY PositionOf DEF Tidy, AtMostOne

\* The index of a mark that occurs once is its position.
LEMMA IndexOfMark ==
    ASSUME NEW text \in Seq(Line), NEW mark, AtMostOne(text, mark)
    PROVE  /\ IndexOf(text, mark) \in 0..Len(text)
           /\ IndexOf(text, mark) = 0 => Without(text, mark)
           /\ IndexOf(text, mark) # 0 => IndexOf(text, mark) \in At(text, mark)
<1>1. CASE At(text, mark) = {}
  BY <1>1, LenProperties DEF IndexOf, At, Without
<1>2. ASSUME NEW p \in At(text, mark) PROVE IndexOf(text, mark) = p /\ p \in 1..Len(text)
  <2>1. At(text, mark) = {p} /\ p \in 1..Len(text)
    BY <1>2, LenProperties DEF AtMostOne, At
  <2> DEFINE First(i) == \A j \in At(text, mark) : i <= j
  <2>2. (CHOOSE i \in At(text, mark) : First(i)) = p
    BY <2>1
  <2> QED
    BY <2>1, <2>2 DEF IndexOf, At
<1> QED
  BY <1>1, <1>2, LenProperties

\* What a text with a stretch cut out has at each place.
LEMMA CutAt ==
    ASSUME NEW text \in Seq(Line), NEW a \in 0..Len(text), NEW b \in 1..(Len(text) + 1), a < b
    PROVE  LET cut == SubSeq(text, 1, a) \o SubSeq(text, b, Len(text))
           IN  /\ cut \in Seq(Line)
               /\ Len(cut) = Len(text) - (b - a - 1)
               /\ \A i \in 1..Len(cut) : cut[i] = IF i <= a THEN text[i] ELSE text[i - a + b - 1]
<1> DEFINE l == SubSeq(text, 1, a)
           r == SubSeq(text, b, Len(text))
           n == Len(text) - b + 1
<1>1. /\ Len(text) \in Nat /\ a \in Int /\ b \in Int /\ n \in Nat
      /\ \A i \in 1..Len(text) : text[i] \in Line
  BY LenProperties, ElementOfSeq
<1>2. l \in Seq(Line) /\ Len(l) = a /\ \A i \in 1..a : l[i] = text[i]
  BY <1>1, SubSeqProperties
<1>3. r \in Seq(Line) /\ Len(r) = n /\ \A i \in 1..n : r[i] = text[b + i - 1]
  BY <1>1, SubSeqProperties
<1> HIDE DEF l, r, n
<1>4. l \o r \in Seq(Line) /\ Len(l \o r) = Len(l) + Len(r)
  BY <1>2, <1>3, ConcatProperties
<1>5. ASSUME NEW i \in 1..(a + n)
      PROVE  (l \o r)[i] = IF i <= a THEN text[i] ELSE text[i - a + b - 1]
  <2>1. (l \o r)[i] = IF i <= a THEN l[i] ELSE r[i - a]
    BY <1>2, <1>3, ConcatProperties
  <2>2. CASE i <= a
    <3>1. i \in 1..a
      BY <2>2, <1>1
    <3> QED
      BY <2>1, <2>2, <3>1, <1>2
  <2>3. CASE ~(i <= a)
    <3>1. i - a \in 1..n /\ b + (i - a) - 1 = i - a + b - 1
      BY <2>3, <1>1
    <3> QED
      BY <2>1, <2>3, <3>1, <1>3
  <2> QED
    BY <2>2, <2>3
<1>6. Len(text) - (b - a - 1) = a + n
  BY <1>1 DEF n
<1> QED
  BY <1>2, <1>3, <1>4, <1>5, <1>6 DEF l, r

\* A text with a stretch cut out has no mark that it had not, and none that
\* was in the stretch only.
LEMMA CutMarks ==
    ASSUME NEW text \in Seq(Line), NEW a \in 0..Len(text), NEW b \in 1..(Len(text) + 1), a < b,
           NEW cut \in Seq(Line), Len(cut) = Len(text) - (b - a - 1),
           \A i \in 1..Len(cut) : cut[i] = IF i <= a THEN text[i] ELSE text[i - a + b - 1],
           NEW mark
    PROVE  /\ AtMostOne(text, mark) => AtMostOne(cut, mark)
           /\ Without(text, mark) => Without(cut, mark)
           /\ AtMostOne(text, mark) /\ (\E p \in At(text, mark) : a < p /\ p < b)
                 => Without(cut, mark)
<1> DEFINE from(i) == IF i <= a THEN i ELSE i - a + b - 1
<1>1. Len(text) \in Nat /\ Len(cut) \in Nat
  BY LenProperties
<1>2. ASSUME NEW i \in At(cut, mark)
      PROVE  /\ i \in 1..Len(cut) /\ from(i) \in At(text, mark)
             /\ from(i) <= a \/ from(i) >= b
  <2>1. i \in 1..Len(cut) /\ cut[i] = mark
    BY PositionOf
  <2>2. from(i) \in 1..Len(text) /\ text[from(i)] = mark /\ (from(i) <= a \/ from(i) >= b)
    BY <2>1, <1>1
  <2> QED
    BY <2>1, <2>2, PositionOf
<1>3. \A i, j \in 1..Len(cut) : from(i) = from(j) => i = j
  BY <1>1
<1> HIDE DEF from
<1>4. AtMostOne(text, mark) => AtMostOne(cut, mark)
  BY <1>2, <1>3 DEF AtMostOne
<1>5. Without(text, mark) => Without(cut, mark)
  BY <1>2 DEF Without
<1>6. ASSUME AtMostOne(text, mark), NEW p \in At(text, mark), a < p, p < b
      PROVE  Without(cut, mark)
  <2>1. SUFFICES ASSUME NEW i \in At(cut, mark) PROVE FALSE
    BY DEF Without
  <2>2. from(i) = p /\ (from(i) <= a \/ from(i) >= b)
    BY <1>2, <1>6 DEF AtMostOne
  <2>3. p \in Nat
    BY <1>1, PositionOf
  <2> QED
    BY <2>2, <2>3, <1>6
<1> QED
  BY <1>4, <1>5, <1>6

\* What a text with another behind it has at each place.
LEMMA Joined ==
    ASSUME NEW a \in Seq(Line), NEW c \in Seq(Line)
    PROVE  /\ Len(a) \in Nat /\ Len(c) \in Nat
           /\ a \o c \in Seq(Line) /\ Len(a \o c) = Len(a) + Len(c)
           /\ \A i \in 1..Len(a) : (a \o c)[i] = a[i]
           /\ \A i \in 1..Len(a \o c) : i > Len(a) =>
                 (a \o c)[i] = c[i - Len(a)] /\ i - Len(a) \in 1..Len(c)
BY LenProperties, ConcatProperties

\* A block behind a text without marks has the only ones.
LEMMA BlockBehind ==
    ASSUME NEW a \in Seq(Line), NEW entry \in Dirs, Without(a, Begin), Without(a, End)
    PROVE  LET ab == a \o <<Begin, entry, End>>
           IN  /\ ab \in Seq(Line)
               /\ \A i \in 1..Len(ab) : /\ ab[i] = Begin => i = Len(a) + 1
                                        /\ ab[i] = End => i = Len(a) + 3
<1>1. <<Begin, entry, End>> \in Seq(Line) /\ Len(<<Begin, entry, End>>) = 3
  BY DEF Line
<1>2. PICK block \in Seq(Line) :
         /\ block = <<Begin, entry, End>> /\ Len(block) = 3
         /\ block[1] = Begin /\ block[2] = entry /\ block[3] = End
  BY <1>1
<1>3. Begin # End /\ entry # Begin /\ entry # End
  BY DirsAssumption DEF Begin, End
<1>4. \A i \in 1..Len(a) : a[i] # Begin /\ a[i] # End
  BY PositionOf DEF Without
<1>5. PICK ab \in Seq(Line) :
         /\ ab = a \o block /\ Len(ab) = Len(a) + 3 /\ Len(a) \in Nat
         /\ \A i \in 1..Len(a) : ab[i] = a[i]
         /\ \A i \in 1..Len(ab) : i > Len(a) => ab[i] = block[i - Len(a)] /\ i - Len(a) \in 1..3
  BY <1>2, Joined
<1>6. ASSUME NEW i \in 1..Len(ab)
      PROVE  (ab[i] = Begin => i = Len(a) + 1) /\ (ab[i] = End => i = Len(a) + 3)
  <2>1. CASE i <= Len(a)
    BY <2>1, <1>4, <1>5
  <2>2. CASE i > Len(a)
    <3>1. ab[i] = block[i - Len(a)] /\ i - Len(a) \in {1, 2, 3}
      BY <2>2, <1>5
    <3> QED
      BY <3>1, <1>2, <1>3, <1>5
  <2> QED
    BY <2>1, <2>2, <1>5
<1> QED
  BY <1>2, <1>5, <1>6

\* Two texts without a mark, put around a block, are a tidy text.
LEMMA Around ==
    ASSUME NEW a \in Seq(Line), NEW c \in Seq(Line), NEW entry \in Dirs,
           Without(a, Begin), Without(a, End), Without(c, Begin), Without(c, End)
    PROVE  LET ab == a \o <<Begin, entry, End>>
           IN  /\ ab \in Seq(Line) /\ Tidy(ab)
               /\ ab \o c \in Seq(Line) /\ Tidy(ab \o c)
<1>1. PICK ab \in Seq(Line) :
         /\ ab = a \o <<Begin, entry, End>>
         /\ \A i \in 1..Len(ab) : (ab[i] = Begin => i = Len(a) + 1) /\ (ab[i] = End => i = Len(a) + 3)
  BY BlockBehind
<1>2. \A i \in 1..Len(c) : c[i] # Begin /\ c[i] # End
  BY PositionOf DEF Without
<1>3. PICK abc \in Seq(Line) :
         /\ abc = ab \o c /\ Len(abc) = Len(ab) + Len(c) /\ Len(ab) \in Nat /\ Len(c) \in Nat
         /\ \A i \in 1..Len(ab) : abc[i] = ab[i]
         /\ \A i \in 1..Len(abc) : i > Len(ab) => abc[i] = c[i - Len(ab)] /\ i - Len(ab) \in 1..Len(c)
  BY Joined
<1>4. ASSUME NEW i \in 1..Len(abc)
      PROVE  (abc[i] = Begin => i = Len(a) + 1) /\ (abc[i] = End => i = Len(a) + 3)
  <2>1. CASE i <= Len(ab)
    <3>1. i \in 1..Len(ab)
      BY <2>1, <1>3
    <3> QED
      BY <3>1, <1>1, <1>3
  <2>2. CASE i > Len(ab)
    BY <2>2, <1>2, <1>3
  <2> QED
    BY <2>1, <2>2, <1>3
<1>5. Tidy(ab) /\ Tidy(abc)
  BY <1>1, <1>4, TidyIfPlaced
<1> QED
  BY <1>1, <1>3, <1>5

-----------------------------------------------------------------------------
\* What commands write into a profile.

\* A profile with a block has both marks, in their order; one without has none.
LEMMA WellFormed ==
    ASSUME NEW text \in Seq(Line), Tidy(text), ~Malformed(text)
    PROVE  LET start == IndexOf(text, Begin) end == IndexOf(text, End)
           IN  /\ start \in 0..Len(text) /\ end \in 0..Len(text) /\ Len(text) \in Nat
               /\ start = 0 => Without(text, Begin) /\ Without(text, End)
               /\ start # 0 => start < end /\ start \in At(text, Begin) /\ end \in At(text, End)
<1>1. Begin # End
  BY DEF Begin, End
<1>2. PICK start \in 0..Len(text) :
         /\ start = IndexOf(text, Begin)
         /\ start = 0 => Without(text, Begin)
         /\ start # 0 => start \in At(text, Begin)
  BY IndexOfMark DEF Tidy
<1>3. PICK end \in 0..Len(text) :
         /\ end = IndexOf(text, End)
         /\ end = 0 => Without(text, End)
         /\ end # 0 => end \in At(text, End)
  BY IndexOfMark DEF Tidy
<1>4. (start = 0) = (end = 0) /\ ~(end < start)
  BY <1>2, <1>3 DEF Malformed
<1>5. start # 0 => start # end
  BY <1>1, <1>2, <1>3, <1>4, PositionOf
<1>6. Len(text) \in Nat
  BY LenProperties
<1> QED
  BY <1>2, <1>3, <1>4, <1>5, <1>6

\* An install writes a text with one block.
LEMMA InstallText ==
    ASSUME NEW text \in Seq(Line), Tidy(text), ~Malformed(text), NEW entry \in Dirs
    PROVE  ShellFragment(text, entry) \in Seq(Line) /\ Tidy(ShellFragment(text, entry))
<1>1. PICK start, end \in 0..Len(text) :
         /\ start = IndexOf(text, Begin) /\ end = IndexOf(text, End) /\ Len(text) \in Nat
         /\ start = 0 => Without(text, Begin) /\ Without(text, End)
         /\ start # 0 => start < end /\ start \in At(text, Begin) /\ end \in At(text, End)
  BY WellFormed
<1>2. CASE start = 0
  <2>1. ShellFragment(text, entry) = text \o <<Begin, entry, End>>
    BY <1>1, <1>2 DEF ShellFragment
  <2> QED
    BY <2>1, <1>1, <1>2, Around
<1>3. CASE start # 0
  <2>1. \A i \in 1..Len(text) : text[i] \in Line
    BY ElementOfSeq
  <2>2. PICK a : a = SubSeq(text, 1, start - 1)
    OBVIOUS
  <2>3. PICK c : c = SubSeq(text, end + 1, Len(text))
    OBVIOUS
  <2>4. a \in Seq(Line) /\ Len(a) = start - 1 /\ \A i \in 1..(start - 1) : a[i] = text[i]
    BY <2>1, <2>2, <1>1, <1>3, SubSeqProperties
  <2>5. /\ c \in Seq(Line) /\ Len(c) = Len(text) - end
        /\ \A i \in 1..(Len(text) - end) : c[i] = text[end + i]
    <3>1. \A i \in (end + 1)..Len(text) : text[i] \in Line
      BY <2>1, <1>1
    <3>2. /\ c \in Seq(Line)
          /\ Len(c) = IF end + 1 <= Len(text) THEN Len(text) - (end + 1) + 1 ELSE 0
          /\ \A i \in 1..(Len(text) - (end + 1) + 1) : c[i] = text[(end + 1) + i - 1]
      BY <3>1, <2>3, <1>1, SubSeqProperties
    <3> QED
      BY <3>2, <1>1
  <2>6. \A i \in 1..Len(text) : (text[i] = Begin => i = start) /\ (text[i] = End => i = end)
    BY <1>1, <1>3, PositionOf DEF Tidy, AtMostOne
  <2>7. Without(a, Begin) /\ Without(a, End) /\ Without(c, Begin) /\ Without(c, End)
    <3>1. \A i \in 1..Len(a) : a[i] # Begin /\ a[i] # End
      BY <2>4, <2>6, <1>1, <1>3
    <3>2. ASSUME NEW i \in 1..Len(c) PROVE c[i] # Begin /\ c[i] # End
      <4>1. /\ end + i \in 1..Len(text) /\ end + i # start /\ end + i # end
            /\ c[i] = text[end + i]
        BY <2>5, <1>1, <1>3
      <4> QED
        BY <4>1, <2>6
    <3> QED
      BY <3>1, <3>2, <2>4, <2>5, PositionOf DEF Without
  <2>8. ShellFragment(text, entry) = a \o <<Begin, entry, End>> \o c
    BY <2>2, <2>3, <1>1, <1>3 DEF ShellFragment
  <2> QED
    BY <2>4, <2>5, <2>7, <2>8, Around
<1> QED
  BY <1>2, <1>3

\* An uninstall writes a text without a block, and nothing when there is none.
LEMMA UninstallText ==
    ASSUME NEW text \in Seq(Line), Tidy(text), ~Malformed(text)
    PROVE  LET new == RemoveShellFragment(text)
           IN  new \in Seq(Line) /\ Tidy(new) /\ Without(new, Begin)
<1>1. PICK start, end \in 0..Len(text) :
         /\ start = IndexOf(text, Begin) /\ end = IndexOf(text, End) /\ Len(text) \in Nat
         /\ start = 0 => Without(text, Begin)
         /\ start # 0 => start < end /\ start \in At(text, Begin) /\ end \in At(text, End)
  BY WellFormed
<1>2. CASE start = 0
  BY <1>1, <1>2 DEF RemoveShellFragment
<1>3. CASE start # 0
  <2>1. /\ start - 1 \in 0..Len(text) /\ end + 1 \in 1..(Len(text) + 1)
        /\ start - 1 < end + 1 /\ start - 1 < start /\ start < end + 1
    BY <1>1, <1>3
  <2>2. PICK new : new = SubSeq(text, 1, start - 1) \o SubSeq(text, end + 1, Len(text))
    OBVIOUS
  <2>3. /\ new \in Seq(Line) /\ Len(new) = Len(text) - ((end + 1) - (start - 1) - 1)
        /\ \A i \in 1..Len(new) : new[i] = IF i <= start - 1 THEN text[i]
                                           ELSE text[i - (start - 1) + (end + 1) - 1]
    BY <2>1, <2>2, CutAt
  <2>4. Tidy(new) /\ Without(new, Begin)
    BY <2>1, <2>3, <1>1, <1>3, CutMarks DEF Tidy
  <2>5. RemoveShellFragment(text) = new
    BY <2>2, <1>1, <1>3 DEF RemoveShellFragment
  <2> QED
    BY <2>3, <2>4, <2>5
<1> QED
  BY <1>2, <1>3

\* A user who adds a line or breaks a mark adds no block.
LEMMA UserText ==
    ASSUME NEW text \in Seq(Line), Tidy(text)
    PROVE  /\ Append(text, Text) \in Seq(Line) /\ Tidy(Append(text, Text))
           /\ Without(text, Begin) => Without(Append(text, Text), Begin)
           /\ \A i \in 1..Len(text) :
                LET cut == SubSeq(text, 1, i - 1) \o SubSeq(text, i + 1, Len(text))
                IN  /\ cut \in Seq(Line) /\ Tidy(cut)
                    /\ Without(text, Begin) => Without(cut, Begin)
<1>1. Len(text) \in Nat /\ Text \in Line
  BY LenProperties DEF Line
<1>2. PICK more : more = Append(text, Text)
  OBVIOUS
<1>3. more \in Seq(Line) /\ Len(more) = Len(text) + 1
  BY <1>1, <1>2
<1>4. \A i \in 1..Len(more) : more[i] = IF i <= Len(text) THEN text[i] ELSE Text
  BY <1>1, <1>2, <1>3
<1>5. Text # Begin /\ Text # End
  BY DEF Text, Begin, End
<1>6. \A mark \in {Begin, End} : \A i \in At(more, mark) : i \in At(text, mark)
  BY <1>1, <1>3, <1>4, <1>5, PositionOf
<1>7. Tidy(more) /\ (Without(text, Begin) => Without(more, Begin))
  BY <1>6 DEF Tidy, AtMostOne, Without
<1>8. ASSUME NEW i \in 1..Len(text), NEW cut,
             cut = SubSeq(text, 1, i - 1) \o SubSeq(text, i + 1, Len(text))
      PROVE  cut \in Seq(Line) /\ Tidy(cut) /\ (Without(text, Begin) => Without(cut, Begin))
  <2>1. i - 1 \in 0..Len(text) /\ i + 1 \in 1..(Len(text) + 1) /\ i - 1 < i + 1
    BY <1>1
  <2>2. /\ cut \in Seq(Line) /\ Len(cut) = Len(text) - ((i + 1) - (i - 1) - 1)
        /\ \A j \in 1..Len(cut) : cut[j] = IF j <= i - 1 THEN text[j]
                                           ELSE text[j - (i - 1) + (i + 1) - 1]
    BY <2>1, <1>8, CutAt
  <2> QED
    BY <2>1, <2>2, CutMarks DEF Tidy
<1> QED
  BY <1>2, <1>3, <1>7, <1>8

-----------------------------------------------------------------------------
\* The inductive invariant.

\* The two binaries, in the order they are dealt with.
LEMMA Queues ==
    /\ Targets \in Seq(Names) /\ Second \in Seq(Names) /\ Targets # Second
    /\ Head(Targets) = "ai-prov" /\ Tail(Targets) = Second /\ Len(Targets) = 2
    /\ Head(Second) = "ai-prov-mcp" /\ Tail(Second) = <<>> /\ Len(Second) = 1
    /\ <<>> \in Seq(Names)
    /\ Names = {"ai-prov", "ai-prov-mcp"}
BY DEF Targets, Second, Names

\* The marks of a short text.
LEMMA ShortTexts ==
    /\ <<>> \in Seq(Line) /\ Tidy(<<>>) /\ Without(<<>>, Begin)
    /\ <<Text>> \in Seq(Line) /\ Tidy(<<Text>>)
<1>1. <<>> \in Seq(Line) /\ <<Text>> \in Seq(Line) /\ Len(<<>>) = 0 /\ Len(<<Text>>) = 1
  BY DEF Line
<1>2. \A mark : At(<<>>, mark) = {}
  BY DEF At
<1>3. <<Text>>[1] # Begin /\ <<Text>>[1] # End
  BY DEF Text, Begin, End
<1>4. At(<<Text>>, Begin) = {} /\ At(<<Text>>, End) = {}
  <2>1. DOMAIN <<Text>> = {1}
    BY <1>1, LenProperties
  <2> QED
    BY <1>3, <2>1 DEF At
<1> QED
  BY <1>1, <1>2, <1>4 DEF Tidy, AtMostOne, Without

\* Every initial state satisfies the inductive invariant.
LEMMA InitIInv == Init => IInv
<1> SUFFICES ASSUME Init PROVE IInv
  OBVIOUS
<1>1. TypeOK
  <2>1. /\ bin \in [Dirs -> [Names -> Releases \cup {Absent, Other}]]
        /\ receipt \subseteq Receipts /\ \A r, s \in receipt : r = s
    BY DEF Init
  <2>2. profile \in [Shells -> Seq(Line)] /\ updated \in Seq(Line) /\ todo \in Seq(Names)
    BY ShortTexts, Queues DEF Init
  <2>3. /\ commands \in 0..MaxCommands /\ acts \in 0..MaxActs
        /\ lines \in [Shells -> Nat] /\ lost \subseteq Shells
    BY InstallBoundsAssumption DEF Init
  <2>4. pc \in Steps /\ result \in Results
    BY DEF Init, Steps, Results
  <2> QED
    BY <2>1, <2>2, <2>3, <2>4 DEF Init, TypeOK
<1>2. QueueOK /\ GoneOK /\ SeenOK
  BY DEF Init, QueueOK, GoneOK, SeenOK
<1>3. BlocksOK
  BY ShortTexts DEF Init, BlocksOK
<1> QED
  BY <1>1, <1>2, <1>3 DEF IInv

\* A command that begins.
LEMMA StartIInv ==
    ASSUME IInv,
           \/ \E options \in Options : StartInstall(options)
           \/ \E shell \in Shells, path \in BOOLEAN : StartUninstall(shell, path)
    PROVE  IInv'
<1> USE DEF Start, Goto, Return, disk
<1>1. ASSUME NEW options \in Options, StartInstall(options) PROVE IInv'
  <2>1. TypeOK'
    <3>1. commands' \in 0..MaxCommands
      BY <1>1, InstallBoundsAssumption DEF IInv, TypeOK, StartInstall
    <3>2. todo' \in Seq(Names) /\ pc' \in Steps /\ opts' \in Options
      BY <1>1, Queues DEF StartInstall, Steps
    <3> QED
      BY <1>1, <3>1, <3>2 DEF IInv, TypeOK, StartInstall
  <2>2. QueueOK' /\ BlocksOK' /\ GoneOK' /\ SeenOK'
    BY <1>1, Queues DEF IInv, QueueOK, BlocksOK, GoneOK, SeenOK, StartInstall
  <2> QED
    BY <2>1, <2>2 DEF IInv
<1>2. ASSUME NEW shell \in Shells, NEW path \in BOOLEAN, StartUninstall(shell, path) PROVE IInv'
  <2>1. opts' \in Options /\ opts'.path = path /\ opts'.shell = shell
    BY <1>2 DEF IInv, TypeOK, StartUninstall, Options
  <2>2. pc' \in {"idle", "profile", "remove"} /\ pc' \in Steps /\ result' \in Results
    BY <1>2 DEF IInv, TypeOK, StartUninstall, Steps, Results
  <2>3. TypeOK'
    <3>1. commands' \in 0..MaxCommands
      <4>1. commands \in 0..MaxCommands /\ commands < MaxCommands /\ commands' = commands + 1
        BY <1>2 DEF IInv, TypeOK, StartUninstall
      <4> QED
        BY <4>1, InstallBoundsAssumption
    <3>2. todo' \in Seq(Names)
      BY <1>2, Queues DEF StartUninstall
    <3> QED
      BY <1>2, <2>1, <2>2, <3>1, <3>2 DEF IInv, TypeOK, StartUninstall
  <2>4. QueueOK' /\ BlocksOK' /\ SeenOK'
    BY <1>2, <2>2, Queues DEF IInv, QueueOK, BlocksOK, SeenOK, StartUninstall
  <2>5. pc' = "remove" => \A r \in receipt : ~(path /\ r.method = "shell")
    BY <1>2 DEF IInv, TypeOK, StartUninstall
  <2>6. GoneOK'
    BY <1>2, <2>1, <2>2, <2>5, Queues DEF GoneOK, StartUninstall
  <2> QED
    BY <2>3, <2>4, <2>6 DEF IInv
<1> QED
  BY <1>1, <1>2

\* An install's steps on the binaries and the receipt.
LEMMA InstallIInv == ASSUME IInv, CheckTarget \/ PlaceBinary \/ WriteReceipt PROVE IInv'
<1> USE DEF During, Goto, Return
<1>1. ASSUME CheckTarget \/ PlaceBinary PROVE IInv'
  <2>1. /\ command = "install" /\ todo \in {Targets, Second} /\ opts \in Options
        /\ Head(todo) \in Names /\ Tail(todo) \in {Second, <<>>}
        /\ Len(todo) > 1 => todo = Targets
    BY <1>1, Queues DEF IInv, TypeOK, QueueOK, CheckTarget, PlaceBinary
  <2>2. bin' \in [Dirs -> [Names -> Releases \cup {Absent, Other}]]
    <3>1. opts.dir \in Dirs /\ opts.release \in Releases
      BY <2>1 DEF Options
    <3>2. PICK n \in Names : bin' = bin \/ bin' = [bin EXCEPT ![opts.dir][n] = opts.release]
      BY <1>1, <2>1 DEF CheckTarget, PlaceBinary, disk
    <3>3. bin \in [Dirs -> [Names -> Releases \cup {Absent, Other}]]
      BY DEF IInv, TypeOK
    <3> QED
      BY <3>1, <3>2, <3>3
  <2>3. /\ pc' \in {"copy", "place", "profile", "receipt", "idle"} /\ result' \in Results
        /\ todo' \in {todo, Tail(todo)} /\ unseen' \in BOOLEAN
        /\ pc' = "place" => todo' = todo
        /\ pc' = "copy" => Len(todo) > 1 /\ todo' = Tail(todo)
    BY <1>1 DEF IInv, TypeOK, CheckTarget, PlaceBinary, AfterCopy, Results
  <2>4. UNCHANGED <<receipt, profile, updated, command, opts, commands, acts, lines, lost, touched>>
    BY <1>1 DEF CheckTarget, PlaceBinary, disk
  <2>5. TypeOK'
    BY <2>1, <2>2, <2>3, <2>4, Queues DEF IInv, TypeOK, Steps
  <2>6. QueueOK' /\ BlocksOK' /\ GoneOK'
    BY <2>1, <2>3, <2>4, Queues DEF IInv, QueueOK, BlocksOK, GoneOK
  <2>7. SeenOK'
    <3>1. CASE pc' # "place"
      BY <2>3, <3>1 DEF SeenOK
    <3>2. CASE pc' = "place"
      <4>1. bin' = bin /\ todo' = todo /\ opts' = opts
            /\ (bin[opts.dir][Head(todo)] = Absent \/ opts.force)
        BY <1>1, <3>2 DEF CheckTarget, PlaceBinary, AfterCopy, disk
      <4> QED
        BY <4>1, <3>2 DEF SeenOK, Absent, Other
    <3> QED
      BY <3>1, <3>2
  <2> QED
    BY <2>5, <2>6, <2>7 DEF IInv
<1>2. CASE WriteReceipt
  <2>1. receipt' \subseteq Receipts /\ \A r, s \in receipt' : r = s
    BY <1>2 DEF IInv, TypeOK, WriteReceipt, Replaced, Receipts, Options
  <2>2. TypeOK'
    BY <1>2, <2>1 DEF IInv, TypeOK, WriteReceipt, Steps, Results
  <2>3. QueueOK' /\ BlocksOK' /\ GoneOK' /\ SeenOK'
    BY <1>2 DEF IInv, QueueOK, BlocksOK, GoneOK, SeenOK, WriteReceipt
  <2> QED
    BY <2>2, <2>3 DEF IInv
<1> QED
  BY <1>1, <1>2

\* The steps on a profile.
LEMMA ProfileIInv == ASSUME IInv, ReadProfile \/ EmptyProfile \/ FillProfile PROVE IInv'
<1> USE DEF During, Goto, Return, disk
<1>1. opts.shell \in Shells /\ opts.dir \in Dirs /\ profile[opts.shell] \in Seq(Line)
  BY DEF IInv, TypeOK, Options
<1>2. CASE ReadProfile
  <2>1. PICK text \in Seq(Line) : text = profile[opts.shell] /\ Tidy(text)
    BY <1>1 DEF IInv, BlocksOK
  <2>2. PICK new : new = IF command = "install" THEN ShellFragment(text, opts.dir)
                         ELSE RemoveShellFragment(text)
    OBVIOUS
  <2>3. \/ Malformed(text) /\ pc' = "idle" /\ result' = "malformed" /\ updated' = updated
        \/ /\ ~Malformed(text) /\ command = "uninstall" /\ new = text
           /\ pc' = "remove" /\ result' = result /\ updated' = updated
        \/ /\ ~Malformed(text) /\ pc' = "emptyProfile" /\ updated' = new /\ result' = result
    BY <1>2, <2>1, <2>2 DEF ReadProfile
  <2>4. ~Malformed(text) => /\ new \in Seq(Line) /\ Tidy(new)
                            /\ command = "uninstall" => Without(new, Begin)
    <3>1. CASE command = "install"
      BY <3>1, <1>1, <2>1, <2>2, InstallText
    <3>2. CASE command # "install"
      BY <3>2, <2>1, <2>2, UninstallText
    <3> QED
      BY <3>1, <3>2
  <2>5. TypeOK'
    BY <1>2, <2>3, <2>4 DEF IInv, TypeOK, ReadProfile, Steps, Results
  <2>6. QueueOK'
    BY <1>2, <2>3 DEF IInv, QueueOK, ReadProfile
  <2>7. BlocksOK'
    BY <1>2, <2>3, <2>4 DEF IInv, BlocksOK, ReadProfile
  <2>8. pc' = "remove" => Without(profile[opts.shell], Begin) /\ todo = Targets
    BY <1>2, <2>1, <2>3, <2>4 DEF IInv, QueueOK, ReadProfile
  <2>9. GoneOK' /\ SeenOK'
    BY <1>2, <2>3, <2>8, Queues DEF GoneOK, SeenOK, ReadProfile
  <2> QED
    BY <2>5, <2>6, <2>7, <2>9 DEF IInv
<1>3. CASE EmptyProfile
  <2>1. profile' \in [Shells -> Seq(Line)] /\ \A s \in Shells : Tidy(profile'[s])
    BY <1>1, <1>3, ShortTexts DEF IInv, TypeOK, BlocksOK, EmptyProfile
  <2>2. TypeOK'
    BY <1>3, <2>1 DEF IInv, TypeOK, EmptyProfile, Steps
  <2>3. QueueOK' /\ BlocksOK' /\ GoneOK' /\ SeenOK'
    BY <1>3, <2>1 DEF IInv, QueueOK, BlocksOK, GoneOK, SeenOK, EmptyProfile
  <2> QED
    BY <2>2, <2>3 DEF IInv
<1>4. CASE FillProfile
  <2>1. /\ profile' \in [Shells -> Seq(Line)] /\ \A s \in Shells : Tidy(profile'[s])
        /\ profile'[opts.shell] = updated
    BY <1>1, <1>4 DEF IInv, TypeOK, BlocksOK, FillProfile
  <2>2. /\ pc' \in {"receipt", "remove"}
        /\ pc' = "remove" => command = "uninstall" /\ todo = Targets /\ Without(updated, Begin)
    BY <1>4 DEF IInv, TypeOK, QueueOK, BlocksOK, FillProfile
  <2>3. TypeOK'
    BY <1>4, <2>1, <2>2, ShortTexts DEF IInv, TypeOK, FillProfile, Steps
  <2>4. QueueOK' /\ BlocksOK'
    BY <1>4, <2>1, <2>2 DEF IInv, QueueOK, BlocksOK, FillProfile
  <2>5. GoneOK' /\ SeenOK'
    BY <1>4, <2>1, <2>2, Queues DEF GoneOK, SeenOK, FillProfile
  <2> QED
    BY <2>3, <2>4, <2>5 DEF IInv
<1> QED
  BY <1>2, <1>3, <1>4

\* An uninstall's steps on the binaries and the receipt.
LEMMA UninstallIInv == ASSUME IInv, CheckBinary \/ UnlinkBinary \/ DropReceipt PROVE IInv'
<1> USE DEF During, Goto, Return
<1>1. ASSUME CheckBinary \/ UnlinkBinary PROVE IInv'
  <2>1. PICK r \in receipt :
          \/ Owned(r, Head(todo)) /\ bin' = bin /\ pc' = "unlink" /\ todo' = todo
          \/ /\ \/ ~Owned(r, Head(todo)) /\ bin' = bin
                \/ bin' = [bin EXCEPT ![r.root][Head(todo)] = Absent]
             /\ pc' = AfterRemove /\ todo' = Tail(todo)
    BY <1>1 DEF CheckBinary, UnlinkBinary, disk
  <2>2. /\ r \in Receipts /\ \A q \in receipt : q = r
        /\ r.root \in Dirs /\ \A n \in Names : r.hash[n] \in Releases
        /\ \A n \in Names : r.hash[n] # Absent /\ r.hash[n] # Other
    BY <2>1, ReleasesAssumption DEF IInv, TypeOK, Receipts
  <2>3. /\ UNCHANGED <<receipt, profile, updated, command, opts, commands, acts, lines, lost,
                        touched, result>>
        /\ pc \in {"remove", "unlink"} /\ unseen' \in BOOLEAN
    BY <1>1 DEF IInv, TypeOK, CheckBinary, UnlinkBinary, disk
  <2>4. /\ todo \in {Targets, Second} /\ Head(todo) \in Names
        /\ \/ pc' = "unlink" /\ todo' = todo
           \/ todo = Targets /\ todo' = Second /\ pc' = "remove" /\ Head(todo) = "ai-prov"
           \/ todo = Second /\ todo' = <<>> /\ pc' = "dropReceipt" /\ Head(todo) = "ai-prov-mcp"
    BY <2>1, <2>3, Queues DEF IInv, QueueOK, AfterRemove, Last
  <2>5. /\ bin' \in [Dirs -> [Names -> Releases \cup {Absent, Other}]]
        /\ pc' # "unlink" => bin'[r.root][Head(todo)] # r.hash[Head(todo)]
        /\ pc' = "unlink" => bin' = bin
        /\ \A n \in Names : n # Head(todo) => bin'[r.root][n] = bin[r.root][n]
    <3>1. bin \in [Dirs -> [Names -> Releases \cup {Absent, Other}]]
      BY DEF IInv, TypeOK
    <3>2. CASE bin' = [bin EXCEPT ![r.root][Head(todo)] = Absent]
      <4>1. pc' # "unlink"
        BY <2>1, <2>2, <2>4, <3>1, <3>2, Queues DEF AfterRemove, Owned
      <4> QED
        BY <2>2, <2>4, <3>1, <3>2, <4>1
    <3>3. CASE bin' # [bin EXCEPT ![r.root][Head(todo)] = Absent]
      BY <2>1, <2>4, <3>1, <3>3 DEF Owned
    <3> QED
      BY <3>2, <3>3
  <2>6. TypeOK'
    BY <2>3, <2>4, <2>5, Queues DEF IInv, TypeOK, Steps
  <2>7. QueueOK' /\ BlocksOK'
    BY <2>3, <2>4, Queues DEF IInv, QueueOK, BlocksOK
  <2>8. GoneOK'
    <3>1. (pc' \in {"remove", "unlink"} /\ todo' = Second) =>
             bin'[r.root]["ai-prov"] # r.hash["ai-prov"]
      BY <2>1, <2>3, <2>4, <2>5, Queues DEF IInv, GoneOK
    <3>2. pc' = "dropReceipt" => \A n \in Names : bin'[r.root][n] # r.hash[n]
      BY <2>1, <2>3, <2>4, <2>5, Queues DEF IInv, GoneOK
    <3>3. (r.method = "shell" /\ opts.path) => Without(profile[opts.shell], Begin)
      BY <2>1, <2>3 DEF IInv, GoneOK
    <3> QED
      BY <2>2, <2>3, <3>1, <3>2, <3>3 DEF GoneOK
  <2>9. SeenOK'
    <3>1. CASE pc' # "unlink"
      BY <2>4, <3>1 DEF SeenOK
    <3>2. CASE pc' = "unlink"
      <4>1. bin' = bin /\ todo' = todo /\ bin[r.root][Head(todo)] = r.hash[Head(todo)]
        BY <2>1, <2>4, <2>5, <3>2, Queues DEF Owned, AfterRemove
      <4> QED
        BY <2>2, <2>3, <2>4, <3>2, <4>1 DEF SeenOK
    <3> QED
      BY <3>1, <3>2
  <2> QED
    BY <2>6, <2>7, <2>8, <2>9 DEF IInv
<1>2. CASE DropReceipt
  <2>1. TypeOK'
    BY <1>2 DEF IInv, TypeOK, DropReceipt, Steps, Results
  <2>2. QueueOK' /\ BlocksOK' /\ GoneOK' /\ SeenOK'
    BY <1>2 DEF IInv, QueueOK, BlocksOK, GoneOK, SeenOK, DropReceipt
  <2> QED
    BY <2>1, <2>2 DEF IInv
<1> QED
  BY <1>1, <1>2

\* A command that dies.
LEMMA StopIInv == ASSUME IInv, Stop PROVE IInv'
<1> USE DEF During, Return, disk
<1>1. TypeOK'
  BY ShortTexts, Queues DEF IInv, TypeOK, Stop, Steps, Results, Options
<1>2. QueueOK' /\ BlocksOK' /\ GoneOK' /\ SeenOK'
  BY DEF IInv, QueueOK, BlocksOK, GoneOK, SeenOK, Stop
<1> QED
  BY <1>1, <1>2 DEF IInv

\* The user gives no binary the bytes of a release, and no profile a mark.
LEMMA UserIInv ==
    ASSUME IInv,
           \/ \E d \in Dirs, n \in Names, content \in {Absent, Other} : UserChanges(d, n, content)
           \/ \E s \in Shells : UserAppends(s) \/ UserBreaks(s)
    PROVE  IInv'
<1> USE DEF Act, call
<1>1. ASSUME NEW d \in Dirs, NEW n \in Names, NEW content \in {Absent, Other},
             UserChanges(d, n, content)
      PROVE  IInv'
  <2>1. /\ bin' \in [Dirs -> [Names -> Releases \cup {Absent, Other}]]
        /\ \A e \in Dirs, m \in Names : bin'[e][m] \in {bin[e][m], Absent, Other}
    BY <1>1 DEF IInv, TypeOK, UserChanges
  <2>2. TypeOK'
    BY <1>1, <2>1, InstallBoundsAssumption DEF IInv, TypeOK, UserChanges, Threatened
  <2>3. QueueOK' /\ BlocksOK'
    BY <1>1 DEF IInv, QueueOK, BlocksOK, UserChanges
  <2>4. \A r \in receipt : r.root \in Dirs
           /\ \A m \in Names : r.hash[m] # Absent /\ r.hash[m] # Other
    BY ReleasesAssumption DEF IInv, TypeOK, Receipts
  <2>5. GoneOK'
    BY <1>1, <2>1, <2>4, Queues DEF IInv, GoneOK, UserChanges
  <2>6. SeenOK'
    <3>1. UNCHANGED <<pc, opts, todo, receipt>> /\ unseen' = (unseen \/ Threatened(d, n))
      BY <1>1 DEF UserChanges
    <3>2. \A e \in Dirs, m \in Names : <<e, m>> # <<d, n>> => bin'[e][m] = bin[e][m]
      BY <1>1 DEF IInv, TypeOK, UserChanges
    <3>3. pc \in {"place", "unlink"} => todo # <<>> /\ Head(todo) \in Names
      BY Queues DEF IInv, QueueOK
    <3>4. opts.dir \in Dirs
      BY DEF IInv, TypeOK, Options
    <3>5. ASSUME pc = "place", ~unseen'
          PROVE  opts.force \/ bin'[opts.dir][Head(todo)] # Other
      BY <3>1, <3>2, <3>3, <3>4, <3>5 DEF IInv, SeenOK, Threatened
    <3>6. ASSUME pc = "unlink", ~unseen', NEW r \in receipt
          PROVE  bin'[r.root][Head(todo)] # Other
      <4>1. bin[r.root][Head(todo)] # Other
        BY <3>1, <3>6 DEF IInv, SeenOK
      <4>2. <<r.root, Head(todo)>> # <<d, n>>
        BY <3>1, <3>3, <3>6 DEF Threatened
      <4> QED
        BY <2>4, <3>2, <3>3, <3>6, <4>1, <4>2
    <3> QED
      BY <3>1, <3>5, <3>6 DEF SeenOK
  <2> QED
    BY <2>2, <2>3, <2>5, <2>6 DEF IInv
<1>2. ASSUME NEW s \in Shells, NEW text \in Seq(Line), EditProfile(s, text), lines' \in [Shells -> Nat],
             Tidy(text), Without(profile[s], Begin) => Without(text, Begin)
      PROVE  IInv'
  <2>1. /\ profile' \in [Shells -> Seq(Line)]
        /\ \A t \in Shells : /\ Tidy(profile'[t])
                             /\ Without(profile[t], Begin) => Without(profile'[t], Begin)
    BY <1>2 DEF IInv, TypeOK, BlocksOK, EditProfile
  <2>2. TypeOK'
    BY <1>2, <2>1, InstallBoundsAssumption DEF IInv, TypeOK, EditProfile
  <2>3. QueueOK' /\ BlocksOK'
    BY <1>2, <2>1 DEF IInv, QueueOK, BlocksOK, EditProfile
  <2>4. opts.shell \in Shells
    BY DEF IInv, TypeOK, Options
  <2>5. GoneOK'
    BY <1>2, <2>1, <2>4 DEF IInv, GoneOK, EditProfile
  <2>6. SeenOK'
    BY <1>2 DEF IInv, SeenOK, EditProfile
  <2> QED
    BY <2>2, <2>3, <2>5, <2>6 DEF IInv
<1>3. \A s \in Shells : profile[s] \in Seq(Line) /\ Tidy(profile[s])
  BY DEF IInv, TypeOK, BlocksOK
<1>4. ASSUME NEW s \in Shells, UserAppends(s) PROVE IInv'
  <2>1. lines' \in [Shells -> Nat]
    BY <1>4 DEF IInv, TypeOK, UserAppends
  <2> QED
    BY <1>2, <1>3, <1>4, <2>1, UserText DEF UserAppends
<1>5. ASSUME NEW s \in Shells, UserBreaks(s) PROVE IInv'
  <2>1. PICK i \in 1..Len(profile[s]) :
          EditProfile(s, SubSeq(profile[s], 1, i - 1) \o SubSeq(profile[s], i + 1, Len(profile[s])))
    BY <1>3, <1>5, LenProperties DEF UserBreaks
  <2>2. lines' \in [Shells -> Nat]
    BY <1>5 DEF IInv, TypeOK, UserBreaks
  <2> QED
    BY <1>2, <1>3, <2>1, <2>2, UserText
<1> QED
  BY <1>1, <1>4, <1>5

\* A step of anyone, or none, keeps the inductive invariant.
LEMMA NextIInv == IInv /\ [Next]_vars => IInv'
<1> SUFFICES ASSUME IInv, [Next]_vars PROVE IInv'
  OBVIOUS
<1>1. CASE UNCHANGED vars
  BY <1>1 DEF IInv, TypeOK, QueueOK, BlocksOK, GoneOK, SeenOK, vars, disk, call
<1>2. CASE Next
  BY <1>2, StartIInv, InstallIInv, ProfileIInv, UninstallIInv, StopIInv, UserIInv DEF Next
<1> QED
  BY <1>1, <1>2

-----------------------------------------------------------------------------

\* The inductive invariant holds in every reachable state.
THEOREM InstallInvariant == Spec => []IInv
<1>1. Init => IInv
  BY InitIInv
<1>2. IInv /\ [Next]_vars => IInv'
  BY NextIInv
<1> QED
  BY <1>1, <1>2, PTL DEF Spec

\* Every reachable state is well typed, with at most one receipt.
THEOREM InstallTypeCorrect == Spec => []TypeOK
<1>1. IInv => TypeOK
  BY DEF IInv
<1> QED
  BY <1>1, InstallInvariant, PTL

\* A file of the user's own that is there when a command looks is removed by no
\* command, and replaced only by an install with --force; of one the user puts
\* there between that look and the next step nothing is promised
\* (InstallRace.cfg).
THEOREM ForeignKept == Spec => ForeignIsKept
<1>1. ASSUME IInv, Next, NEW d \in Dirs, NEW n \in Names, bin[d][n] = Other, bin'[d][n] # Other
      PROVE  acts' # acts \/ unseen \/ (command = "install" /\ opts.force)
  <2>1. /\ acts \in Nat /\ Other # Absent
        /\ bin \in [Dirs -> [Names -> Releases \cup {Absent, Other}]]
    BY <1>1 DEF IInv, TypeOK, Other, Absent
  <2>2. ASSUME PlaceBinary PROVE unseen \/ (command = "install" /\ opts.force)
    <3>1. command = "install" /\ opts.dir \in Dirs /\ Head(todo) \in Names
      BY <1>1, <2>2, Queues DEF IInv, TypeOK, QueueOK, PlaceBinary, During, Options
    <3>2. bin' = [bin EXCEPT ![opts.dir][Head(todo)] = opts.release]
          /\ (unseen \/ opts.force \/ bin[opts.dir][Head(todo)] # Other)
      BY <1>1, <2>2 DEF IInv, SeenOK, PlaceBinary, During
    <3> QED
      BY <1>1, <2>1, <3>1, <3>2
  <2>3. ASSUME UnlinkBinary PROVE unseen
    <3>1. PICK r \in receipt : /\ unseen \/ bin[r.root][Head(todo)] # Other
                               /\ bin' = [bin EXCEPT ![r.root][Head(todo)] = Absent]
      BY <1>1, <2>3 DEF IInv, SeenOK, UnlinkBinary, During
    <3>2. Head(todo) \in Names /\ r.root \in Dirs
      BY <1>1, <2>3, <3>1, Queues DEF IInv, TypeOK, QueueOK, Receipts, UnlinkBinary, During
    <3> QED
      BY <1>1, <2>1, <3>1, <3>2
  <2>4. ASSUME Act PROVE acts' # acts
    BY <2>1, <2>4 DEF Act
  <2> QED
    BY <1>1, <2>2, <2>3, <2>4
    DEF Next, StartInstall, StartUninstall, Start, CheckTarget, CheckBinary, ReadProfile,
        EmptyProfile, FillProfile, WriteReceipt, DropReceipt, Stop, UserChanges, UserAppends,
        UserBreaks, EditProfile, disk
<1>2. IInv /\ [Next]_vars =>
         [\A d \in Dirs, n \in Names : (bin[d][n] = Other /\ bin'[d][n] # Other) =>
             acts' # acts \/ unseen \/ (command = "install" /\ opts.force)]_vars
  BY <1>1
<1> QED
  BY <1>2, InstallInvariant, PTL DEF Spec, ForeignIsKept

\* When the receipt goes, no binary it names is left and no block in the
\* profile the uninstall looked into.
THEOREM ReceiptLast == Spec => ReceiptGoesLast
<1>1. ASSUME IInv, Next, NEW r \in receipt \ receipt', receipt' = {}
      PROVE  /\ \A n \in Names : bin[r.root][n] # r.hash[n]
             /\ (r.method = "shell" /\ opts.path) => Count(profile[opts.shell], Begin) = 0
  <2>1. DropReceipt
    BY <1>1
    DEF Next, StartInstall, StartUninstall, Start, CheckTarget, PlaceBinary, ReadProfile,
        EmptyProfile, FillProfile, WriteReceipt, Replaced, CheckBinary, UnlinkBinary, Stop,
        UserChanges, UserAppends, UserBreaks, EditProfile, Act, disk
  <2>2. /\ \A n \in Names : bin[r.root][n] # r.hash[n]
        /\ (r.method = "shell" /\ opts.path) => At(profile[opts.shell], Begin) = {}
    BY <1>1, <2>1 DEF IInv, GoneOK, DropReceipt, During, Without
  <2> QED
    BY <2>2, FS_EmptySet DEF Count, At
<1>2. IInv /\ [Next]_vars =>
         [\A r \in receipt \ receipt' : receipt' = {} =>
            /\ \A n \in Names : bin[r.root][n] # r.hash[n]
            /\ (r.method = "shell" /\ opts.path) => Count(profile[opts.shell], Begin) = 0]_vars
  BY <1>1
<1> QED
  BY <1>2, InstallInvariant, PTL DEF Spec, ReceiptGoesLast

-----------------------------------------------------------------------------
\* What commands and the user do to the user's own lines.

\* The number of a mark's positions is what is counted.
LEMMA CountIsOfPositions ==
    ASSUME NEW text \in Seq(Line), NEW mark
    PROVE  /\ Count(text, mark) = Cardinality(At(text, mark))
           /\ IsFiniteSet(At(text, mark)) /\ Count(text, mark) \in Nat
<1>1. At(text, mark) \subseteq 1..Len(text) /\ Len(text) \in Nat
  BY LenProperties DEF At
<1>2. IsFiniteSet(1..Len(text))
  BY <1>1, FS_Interval
<1>3. IsFiniteSet(At(text, mark))
  BY <1>1, <1>2, FS_Subset
<1> QED
  BY <1>3, FS_CardinalityType DEF Count, At

\* A stretch that is cut out takes no line of the user's with it.
LEMMA CutCount ==
    ASSUME NEW text \in Seq(Line), NEW a \in 0..Len(text), NEW b \in 1..(Len(text) + 1), a < b,
           NEW cut \in Seq(Line), Len(cut) = Len(text) - (b - a - 1),
           \A i \in 1..Len(cut) : cut[i] = IF i <= a THEN text[i] ELSE text[i - a + b - 1],
           NEW mark, \A i \in At(text, mark) : i <= a \/ i >= b
    PROVE  Count(cut, mark) = Count(text, mark)
<1> DEFINE from(i) == IF i <= a THEN i ELSE i - a + b - 1
           onto(i) == IF i <= a THEN i ELSE i + a - b + 1
           f == [i \in At(cut, mark) |-> from(i)]
<1>1. Len(text) \in Nat /\ Len(cut) \in Nat
  BY LenProperties
<1>2. \A i \in 1..Len(cut) : from(i) \in 1..Len(text) /\ cut[i] = text[from(i)]
  BY <1>1
<1>3. \A i, j \in 1..Len(cut) : from(i) = from(j) => i = j
  BY <1>1
<1>4. ASSUME NEW i \in At(text, mark)
      PROVE  onto(i) \in At(cut, mark) /\ from(onto(i)) = i
  <2>1. i \in 1..Len(text) /\ text[i] = mark /\ (i <= a \/ i >= b)
    BY PositionOf
  <2>2. onto(i) \in 1..Len(cut) /\ from(onto(i)) = i
    BY <1>1, <2>1
  <2> HIDE DEF from, onto
  <2>3. cut[onto(i)] = mark
    BY <1>2, <2>1, <2>2
  <2> QED
    BY <2>2, <2>3, PositionOf
<1> HIDE DEF from, onto
<1>5. \A i \in At(cut, mark) : i \in 1..Len(cut) /\ from(i) \in At(text, mark)
  BY <1>2, PositionOf
<1>6. f \in Bijection(At(cut, mark), At(text, mark))
  <2>1. f \in [At(cut, mark) -> At(text, mark)]
    BY <1>5
  <2>2. \A i, j \in At(cut, mark) : f[i] = f[j] => i = j
    BY <1>3, <1>5
  <2>3. \A i \in At(text, mark) : \E j \in At(cut, mark) : f[j] = i
    BY <1>4
  <2> HIDE DEF f
  <2> QED
    BY <2>1, <2>2, <2>3, Fun_IsBij
<1>7. ExistsBijection(At(cut, mark), At(text, mark))
  BY <1>6 DEF ExistsBijection
<1> QED
  BY <1>7, CountIsOfPositions, FS_Bijection

\* The marks of a block enclose a directory and nothing else.
Closed(text) ==
    \A i \in At(text, Begin), j \in At(text, End) : j = i + 2 /\ text[i + 1] \in Dirs

\* The one block of a text, and its directory.
HasBlock(text, entry) ==
    \E p \in 1..Len(text) :
        At(text, Begin) = {p} /\ At(text, End) = {p + 2} /\ text[p + 1] = entry

\* A text of one block has nothing else between marks.
LEMMA BlockIsClosed ==
    ASSUME NEW text, NEW entry \in Dirs, HasBlock(text, entry)
    PROVE  Closed(text)
BY DEF HasBlock, Closed

\* What stands between the marks is the block.
LEMMA BlockIsRead ==
    ASSUME NEW text \in Seq(Line), NEW entry \in Dirs, HasBlock(text, entry)
    PROVE  SubSeq(text, IndexOf(text, Begin), IndexOf(text, End)) = <<Begin, entry, End>>
<1>1. PICK p \in 1..Len(text) :
         At(text, Begin) = {p} /\ At(text, End) = {p + 2} /\ text[p + 1] = entry
  BY DEF HasBlock
<1>2. p \in At(text, Begin) /\ p + 2 \in At(text, End) /\ Len(text) \in Nat
  BY <1>1, LenProperties
<1>3. text[p] = Begin /\ text[p + 2] = End /\ p + 2 \in 1..Len(text)
  BY <1>2, PositionOf
<1>4. IndexOf(text, Begin) = p /\ IndexOf(text, End) = p + 2
  BY <1>1, IndexOfMark DEF AtMostOne, Without
<1>5. PICK block : block = SubSeq(text, p, p + 2)
  OBVIOUS
<1>6. block \in Seq(Line) /\ Len(block) = 3 /\ \A i \in 1..3 : block[i] = text[p + i - 1]
  <2>1. \A i \in p..(p + 2) : text[i] \in Line
    <3>1. \A i \in 1..Len(text) : text[i] \in Line
      BY ElementOfSeq
    <3>2. \A i \in p..(p + 2) : i \in 1..Len(text)
      BY <1>2, <1>3
    <3> QED
      BY <3>1, <3>2
  <2>2. PICK q : q = p + 2
    OBVIOUS
  <2>3. p \in Int /\ q \in Int /\ q - p + 1 = 3 /\ p <= q
    BY <1>2, <2>2
  <2>4. /\ block \in Seq(Line) /\ Len(block) = IF p <= q THEN q - p + 1 ELSE 0
        /\ \A i \in 1..(q - p + 1) : block[i] = text[p + i - 1]
    BY <1>5, <2>1, <2>2, <2>3, SubSeqProperties
  <2> QED
    BY <2>3, <2>4
<1>7. block[1] = Begin /\ block[2] = entry /\ block[3] = End
  BY <1>1, <1>2, <1>3, <1>6
<1>8. <<Begin, entry, End>> \in Seq(Line) /\ Len(<<Begin, entry, End>>) = 3
  BY DEF Line
<1>9. \A i \in 1..3 : block[i] = <<Begin, entry, End>>[i]
  BY <1>7
<1>10. block = <<Begin, entry, End>>
  BY <1>6, <1>8, <1>9, SeqEqual
<1> QED
  BY <1>4, <1>5, <1>10

\* A text that differs in what stands between the marks only.
LEMMA OtherEntry ==
    ASSUME NEW text \in Seq(Line), NEW new \in Seq(Line), Len(new) = Len(text),
           NEW p \in 1..Len(text), NEW entry \in Dirs,
           At(text, Begin) = {p}, At(text, End) = {p + 2}, text[p + 1] \in Dirs,
           \A i \in 1..Len(text) : new[i] = IF i = p + 1 THEN entry ELSE text[i]
    PROVE  HasBlock(new, entry) /\ At(new, Text) = At(text, Text)
<1>1. /\ Begin \notin Dirs /\ End \notin Dirs /\ Text \notin Dirs
      /\ Begin # End /\ Begin # Text /\ End # Text
  BY DirsAssumption DEF Begin, End, Text
<1>2. Len(text) \in Nat /\ p \in Nat /\ p + 2 \in 1..Len(text)
  <2>1. p + 2 \in At(text, End)
    OBVIOUS
  <2>2. p + 2 \in 1..Len(text)
    BY <2>1, PositionOf
  <2> QED
    BY <2>2, LenProperties
<1>3. \A mark : \A i : i \in At(new, mark) <=> i \in 1..Len(text) /\ new[i] = mark
  BY PositionOf
<1>4. \A mark : \A i : i \in At(text, mark) <=> i \in 1..Len(text) /\ text[i] = mark
  BY PositionOf
<1>5. \A mark \in {Begin, End, Text} : At(new, mark) = At(text, mark)
  <2> TAKE mark \in {Begin, End, Text}
  <2>1. mark # entry /\ mark # text[p + 1]
    BY <1>1
  <2>2. \A i : i \in At(new, mark) <=> i \in At(text, mark)
    BY <1>3, <1>4, <2>1
  <2> QED
    BY <2>2
<1>6. new[p + 1] = entry
  BY <1>2
<1> QED
  BY <1>2, <1>5, <1>6 DEF HasBlock

\* A text behind which a block is put.
LEMMA NewBlock ==
    ASSUME NEW text \in Seq(Line), NEW entry \in Dirs, Without(text, Begin), Without(text, End)
    PROVE  LET new == text \o <<Begin, entry, End>>
           IN  HasBlock(new, entry) /\ At(new, Text) = At(text, Text)
<1>1. /\ Begin \notin Dirs /\ End \notin Dirs /\ Text \notin Dirs
      /\ Begin # End /\ Begin # Text /\ End # Text
  BY DirsAssumption DEF Begin, End, Text
<1>2. PICK block \in Seq(Line) :
         /\ block = <<Begin, entry, End>> /\ Len(block) = 3
         /\ block[1] = Begin /\ block[2] = entry /\ block[3] = End
  <2>1. <<Begin, entry, End>> \in Seq(Line) /\ Len(<<Begin, entry, End>>) = 3
    BY DEF Line
  <2> QED
    BY <2>1
<1>3. PICK new \in Seq(Line) :
         /\ new = text \o block /\ Len(new) = Len(text) + 3 /\ Len(text) \in Nat
         /\ \A i \in 1..Len(text) : new[i] = text[i]
         /\ \A i \in 1..Len(new) : i > Len(text) => new[i] = block[i - Len(text)]
                                                    /\ i - Len(text) \in 1..3
  BY <1>2, Joined
<1>4. new[Len(text) + 1] = Begin /\ new[Len(text) + 2] = entry /\ new[Len(text) + 3] = End
  <2>1. \A n \in 1..3 : new[Len(text) + n] = block[n]
    <3> TAKE n \in 1..3
    <3>1. Len(text) + n \in 1..Len(new) /\ Len(text) + n > Len(text) /\ Len(text) + n - Len(text) = n
      BY <1>3
    <3> QED
      BY <1>3, <3>1
  <2> QED
    BY <1>2, <2>1
<1>5. PICK n \in Nat : n = Len(text)
  BY <1>3
<1>6. \A i : i \in 1..Len(new) <=> i \in 1..n \/ i \in {n + 1, n + 2, n + 3}
  BY <1>3, <1>5
<1>7. ASSUME NEW i
      PROVE  /\ i \in At(new, Begin) <=> i = n + 1
             /\ i \in At(new, End) <=> i = n + 3
             /\ i \in At(new, Text) <=> i \in At(text, Text)
  <2>1. \A mark : i \in At(new, mark) <=> i \in 1..Len(new) /\ new[i] = mark
    BY PositionOf
  <2>2. \A mark : i \in At(text, mark) <=> i \in 1..n /\ text[i] = mark
    BY <1>5, PositionOf
  <2>3. /\ n + 1 \notin 1..n /\ n + 2 \notin 1..n /\ n + 3 \notin 1..n
        /\ n + 1 # n + 2 /\ n + 1 # n + 3 /\ n + 2 # n + 3
    BY <1>5
  <2>4. CASE i \in 1..n
    <3>1. new[i] = text[i] /\ i \in 1..Len(new)
      BY <1>3, <1>5, <1>6, <2>4
    <3>2. text[i] # Begin /\ text[i] # End
      BY <2>2, <2>4 DEF Without
    <3> QED
      BY <2>1, <2>2, <2>3, <2>4, <3>1, <3>2
  <2>5. CASE i = n + 1
    BY <1>1, <1>4, <1>5, <1>6, <2>1, <2>2, <2>3, <2>5
  <2>6. CASE i = n + 2
    <3>1. new[i] = entry
      BY <1>4, <1>5, <2>6
    <3> QED
      BY <1>1, <2>1, <2>2, <2>3, <2>6, <3>1
  <2>7. CASE i = n + 3
    BY <1>1, <1>4, <1>5, <1>6, <2>1, <2>2, <2>3, <2>7
  <2>8. CASE i \notin 1..n /\ i \notin {n + 1, n + 2, n + 3}
    BY <1>6, <2>1, <2>2, <2>8
  <2> QED
    BY <2>4, <2>5, <2>6, <2>7, <2>8
<1>8. At(new, Begin) = {Len(text) + 1} /\ At(new, End) = {Len(text) + 3}
  BY <1>5, <1>7
<1>9. At(new, Text) = At(text, Text)
  BY <1>7
<1>10. Len(text) + 1 \in 1..Len(new) /\ (Len(text) + 1) + 2 = Len(text) + 3 /\ (Len(text) + 1) + 1 = Len(text) + 2
  BY <1>3
<1>11. HasBlock(new, entry)
  BY <1>4, <1>8, <1>10 DEF HasBlock
<1> QED
  BY <1>2, <1>3, <1>9, <1>11

\* An install keeps the user's own lines and leaves its block.
LEMMA InstallKeeps ==
    ASSUME NEW text \in Seq(Line), Tidy(text), Closed(text), ~Malformed(text), NEW entry \in Dirs
    PROVE  LET new == ShellFragment(text, entry)
           IN  HasBlock(new, entry) /\ Count(new, Text) = Count(text, Text)
<1>1. PICK start, end \in 0..Len(text) :
         /\ start = IndexOf(text, Begin) /\ end = IndexOf(text, End) /\ Len(text) \in Nat
         /\ start = 0 => Without(text, Begin) /\ Without(text, End)
         /\ start # 0 => start < end /\ start \in At(text, Begin) /\ end \in At(text, End)
  BY WellFormed
<1>2. PICK new \in Seq(Line) : new = ShellFragment(text, entry)
  BY InstallText
<1>3. HasBlock(new, entry) /\ At(new, Text) = At(text, Text)
  <2>1. CASE start = 0
    <3>1. new = text \o <<Begin, entry, End>>
      BY <1>1, <1>2, <2>1 DEF ShellFragment
    <3> QED
      BY <3>1, <1>1, <2>1, NewBlock
  <2>2. CASE start # 0
    <3>1. /\ At(text, Begin) = {start} /\ At(text, End) = {end} /\ end = start + 2
          /\ text[start + 1] \in Dirs /\ start \in 1..Len(text) /\ start + 2 \in 1..Len(text)
      BY <1>1, <2>2 DEF Tidy, AtMostOne, Closed
    <3>2. text[start] = Begin /\ text[start + 2] = End
      BY <1>1, <2>2, <3>1, PositionOf
    <3>3. PICK a : a = SubSeq(text, 1, start - 1)
      OBVIOUS
    <3>4. PICK c : c = SubSeq(text, end + 1, Len(text))
      OBVIOUS
    <3>5. \A i \in 1..Len(text) : text[i] \in Line
      BY ElementOfSeq
    <3>6. a \in Seq(Line) /\ Len(a) = start - 1 /\ \A i \in 1..(start - 1) : a[i] = text[i]
      BY <3>1, <3>3, <3>5, <1>1, SubSeqProperties
    <3>7. /\ c \in Seq(Line) /\ Len(c) = Len(text) - end
          /\ \A i \in 1..(Len(text) - end) : c[i] = text[end + i]
      <4>1. \A i \in (end + 1)..Len(text) : text[i] \in Line
        BY <1>1, <3>1, <3>5
      <4>2. /\ c \in Seq(Line)
            /\ Len(c) = IF end + 1 <= Len(text) THEN Len(text) - (end + 1) + 1 ELSE 0
            /\ \A i \in 1..(Len(text) - (end + 1) + 1) : c[i] = text[(end + 1) + i - 1]
        BY <1>1, <3>1, <3>4, <4>1, SubSeqProperties
      <4> QED
        BY <1>1, <3>1, <4>2
    <3>8. PICK block \in Seq(Line) :
            /\ block = <<Begin, entry, End>> /\ Len(block) = 3
            /\ block[1] = Begin /\ block[2] = entry /\ block[3] = End
      <4>1. <<Begin, entry, End>> \in Seq(Line) /\ Len(<<Begin, entry, End>>) = 3
        BY DEF Line
      <4> QED
        BY <4>1
    <3>9. PICK ab : ab = a \o block
      OBVIOUS
    <3>10. /\ ab \in Seq(Line) /\ Len(ab) = Len(a) + 3 /\ Len(a) \in Nat
           /\ \A i \in 1..Len(a) : ab[i] = a[i]
           /\ \A i \in 1..Len(ab) : i > Len(a) => ab[i] = block[i - Len(a)]
      BY <3>6, <3>8, <3>9, Joined
    <3>11. new = ab \o c
      BY <1>1, <1>2, <2>2, <3>3, <3>4, <3>8, <3>9 DEF ShellFragment
    <3>12. /\ Len(new) = Len(ab) + Len(c)
           /\ \A i \in 1..Len(ab) : new[i] = ab[i]
           /\ \A i \in 1..Len(new) : i > Len(ab) => new[i] = c[i - Len(ab)]
      <4>1. /\ Len(ab \o c) = Len(ab) + Len(c)
            /\ \A i \in 1..Len(ab) : (ab \o c)[i] = ab[i]
            /\ \A i \in 1..Len(ab \o c) : i > Len(ab) => (ab \o c)[i] = c[i - Len(ab)]
        BY <3>7, <3>10, Joined
      <4> QED
        BY <3>11, <4>1
    <3>13. Len(ab) = end /\ Len(new) = Len(text)
      BY <1>1, <3>1, <3>6, <3>7, <3>10, <3>12
    <3>14. \A i \in 1..Len(text) : new[i] = IF i = start + 1 THEN entry ELSE text[i]
      <4> TAKE i \in 1..Len(text)
      <4>1. CASE i <= start - 1
        <5>1. i \in 1..Len(a) /\ i \in 1..Len(ab) /\ i \in 1..(start - 1) /\ i # start + 1
          BY <1>1, <3>1, <3>6, <3>13, <4>1
        <5> QED
          BY <3>6, <3>10, <3>12, <5>1
      <4>2. ASSUME NEW n \in 1..3, i = start - 1 + n PROVE new[i] = block[n]
        <5>1. start \in Nat /\ start >= 1 /\ Len(a) = start - 1 /\ Len(ab) = start + 2
          BY <1>1, <3>1, <3>6, <3>13
        <5>2. i \in 1..Len(ab) /\ i > Len(a) /\ i - Len(a) = n
          BY <4>2, <5>1
        <5> QED
          BY <3>10, <3>12, <5>2
      <4>3. i \in {start, start + 1, start + 2}
            => new[i] = IF i = start + 1 THEN entry ELSE text[i]
        BY <3>1, <3>2, <3>8, <4>2
      <4>4. CASE i > end
        <5>1. i \in 1..Len(new) /\ i > Len(ab) /\ i - end \in 1..(Len(text) - end) /\ end + (i - end) = i
          BY <1>1, <3>1, <3>13, <4>4
        <5>2. new[i] = c[i - end]
          BY <3>12, <3>13, <5>1
        <5>3. i # start + 1
          BY <1>1, <3>1, <4>4
        <5> QED
          BY <3>7, <5>1, <5>2, <5>3
      <4> QED
        BY <1>1, <3>1, <4>1, <4>3, <4>4
    <3> QED
      BY <3>1, <3>13, <3>14, OtherEntry
  <2> QED
    BY <2>1, <2>2
<1> QED
  BY <1>2, <1>3, CountIsOfPositions

\* An uninstall takes its block and nothing else.
LEMMA UninstallKeeps ==
    ASSUME NEW text \in Seq(Line), Tidy(text), Closed(text), ~Malformed(text)
    PROVE  LET new == RemoveShellFragment(text)
           IN  Closed(new) /\ Count(new, Text) = Count(text, Text)
<1>1. PICK start, end \in 0..Len(text) :
         /\ start = IndexOf(text, Begin) /\ end = IndexOf(text, End) /\ Len(text) \in Nat
         /\ start # 0 => start < end /\ start \in At(text, Begin) /\ end \in At(text, End)
  BY WellFormed
<1>2. Closed(RemoveShellFragment(text))
  BY UninstallText DEF Closed, Without
<1>3. CASE start = 0
  BY <1>1, <1>2, <1>3 DEF RemoveShellFragment
<1>4. CASE start # 0
  <2>1. /\ end = start + 2 /\ text[start + 1] \in Dirs /\ text[start] = Begin /\ text[start + 2] = End
        /\ start \in 1..Len(text)
    BY <1>1, <1>4, PositionOf DEF Closed
  <2>2. /\ start - 1 \in 0..Len(text) /\ end + 1 \in 1..(Len(text) + 1) /\ start - 1 < end + 1
    BY <1>1, <1>4
  <2>3. PICK new : new = SubSeq(text, 1, start - 1) \o SubSeq(text, end + 1, Len(text))
    OBVIOUS
  <2>4. /\ new \in Seq(Line) /\ Len(new) = Len(text) - ((end + 1) - (start - 1) - 1)
        /\ \A i \in 1..Len(new) : new[i] = IF i <= start - 1 THEN text[i]
                                           ELSE text[i - (start - 1) + (end + 1) - 1]
    BY <2>2, <2>3, CutAt
  <2>5. \A i \in At(text, Text) : i <= start - 1 \/ i >= end + 1
    <3>1. Text # Begin /\ Text # End /\ Text \notin Dirs
      BY DirsAssumption DEF Text, Begin, End
    <3>2. \A i \in At(text, Text) : i \in 1..Len(text) /\ i \notin {start, start + 1, start + 2}
      BY <2>1, <3>1, PositionOf
    <3> QED
      BY <1>1, <2>1, <3>2
  <2>6. Count(new, Text) = Count(text, Text)
    BY <2>2, <2>4, <2>5, CutCount
  <2>7. RemoveShellFragment(text) = new
    BY <2>3, <1>1, <1>4 DEF RemoveShellFragment
  <2> QED
    BY <1>2, <2>6, <2>7
<1> QED
  BY <1>3, <1>4

\* The user adds a line, or takes away a mark.
LEMMA UserKeeps ==
    ASSUME NEW text \in Seq(Line), Tidy(text), Closed(text)
    PROVE  /\ Closed(Append(text, Text)) /\ Count(Append(text, Text), Text) = Count(text, Text) + 1
           /\ \A i \in 1..Len(text) : text[i] \in {Begin, End} =>
                LET cut == SubSeq(text, 1, i - 1) \o SubSeq(text, i + 1, Len(text))
                IN  Closed(cut) /\ Count(cut, Text) = Count(text, Text)
<1>1. Len(text) \in Nat /\ Text \in Line
  BY LenProperties DEF Line
<1>2. Text # Begin /\ Text # End
  BY DEF Text, Begin, End
<1>3. PICK more : more = Append(text, Text)
  OBVIOUS
<1>4. more \in Seq(Line) /\ Len(more) = Len(text) + 1
  BY <1>1, <1>3
<1>5. \A i \in 1..Len(more) : more[i] = IF i <= Len(text) THEN text[i] ELSE Text
  BY <1>1, <1>3, <1>4
<1>6. \A mark, i : i \in At(more, mark) <=> i \in 1..Len(more) /\ more[i] = mark
  BY <1>4, PositionOf
<1>7. \A mark, i : i \in At(text, mark) <=> i \in 1..Len(text) /\ text[i] = mark
  BY PositionOf
<1>8. At(more, Begin) = At(text, Begin) /\ At(more, End) = At(text, End)
      /\ At(more, Text) = At(text, Text) \cup {Len(text) + 1}
  <2>1. \A i : i \in At(more, Begin) <=> i \in At(text, Begin)
    BY <1>1, <1>2, <1>4, <1>5, <1>6, <1>7
  <2>2. \A i : i \in At(more, End) <=> i \in At(text, End)
    BY <1>1, <1>2, <1>4, <1>5, <1>6, <1>7
  <2>3. \A i : i \in At(more, Text) <=> i \in At(text, Text) \cup {Len(text) + 1}
    BY <1>1, <1>4, <1>5, <1>6, <1>7
  <2> QED
    BY <2>1, <2>2, <2>3
<1>9. Closed(more)
  <2> SUFFICES ASSUME NEW i \in At(text, Begin), NEW j \in At(text, End)
               PROVE  j = i + 2 /\ more[i + 1] \in Dirs
    BY <1>8 DEF Closed
  <2>1. j = i + 2 /\ text[i + 1] \in Dirs /\ i \in 1..Len(text) /\ j \in 1..Len(text)
    BY <1>7 DEF Closed
  <2> QED
    BY <1>1, <1>4, <1>5, <2>1
<1>10. Count(more, Text) = Count(text, Text) + 1
  <2>1. Len(text) + 1 \notin At(text, Text)
    BY <1>1, <1>7
  <2>2. Cardinality(At(text, Text) \cup {Len(text) + 1}) = Cardinality(At(text, Text)) + 1
    BY <2>1, CountIsOfPositions, FS_AddElement
  <2> QED
    BY <1>4, <1>8, <2>2, CountIsOfPositions
<1>11. ASSUME NEW i \in 1..Len(text), text[i] \in {Begin, End}, NEW cut,
              cut = SubSeq(text, 1, i - 1) \o SubSeq(text, i + 1, Len(text))
       PROVE  Closed(cut) /\ Count(cut, Text) = Count(text, Text)
  <2>1. i - 1 \in 0..Len(text) /\ i + 1 \in 1..(Len(text) + 1) /\ i - 1 < i + 1 /\ i - 1 < i /\ i < i + 1
    BY <1>1
  <2>2. /\ cut \in Seq(Line) /\ Len(cut) = Len(text) - ((i + 1) - (i - 1) - 1)
        /\ \A j \in 1..Len(cut) : cut[j] = IF j <= i - 1 THEN text[j]
                                           ELSE text[j - (i - 1) + (i + 1) - 1]
    BY <2>1, <1>11, CutAt
  <2>3. PICK mark \in {Begin, End} : i \in At(text, mark)
    BY <1>7, <1>11
  <2>4. Without(cut, mark)
    BY <2>1, <2>2, <2>3, CutMarks DEF Tidy
  <2>5. Closed(cut)
    BY <2>4 DEF Closed, Without
  <2>6. \A j \in At(text, Text) : j <= i - 1 \/ j >= i + 1
    <3>1. \A j \in At(text, Text) : j \in 1..Len(text) /\ j # i
      BY <1>2, <1>7, <1>11
    <3> QED
      BY <1>1, <3>1
  <2> QED
    BY <2>1, <2>2, <2>5, <2>6, CutCount
<1> QED
  BY <1>3, <1>9, <1>10, <1>11

-----------------------------------------------------------------------------
\* The profiles hold the user's own lines and closed blocks; what a command is
\* about to write does so too.
LinesInv ==
    /\ \A s \in Shells : Closed(profile[s])
    /\ Closed(updated)
    /\ \A s \in Shells \ lost :
          (pc = "fillProfile" /\ opts.shell = s) \/ Count(profile[s], Text) = lines[s]
    /\ (pc \in {"emptyProfile", "fillProfile"} /\ opts.shell \notin lost) =>
          Count(updated, Text) = lines[opts.shell]

\* An emptied profile.
LEMMA EmptyIsClosed == Closed(<<>>)
BY DEF Closed, At

\* Every profile begins with one line of the user's.
LEMMA InitLines == Init => LinesInv
<1> SUFFICES ASSUME Init PROVE LinesInv
  OBVIOUS
<1>1. At(<<Text>>, Begin) = {} /\ At(<<Text>>, Text) = {1}
  <2>1. Len(<<Text>>) = 1 /\ <<Text>>[1] = Text /\ Text # Begin /\ <<Text>> \in Seq(Line)
    BY DEF Text, Begin, Line
  <2>2. PICK text \in Seq(Line) : text = <<Text>> /\ Len(text) = 1 /\ text[1] = Text
    BY <2>1
  <2>3. \A mark, i : i \in At(text, mark) <=> i = 1 /\ mark = Text
    <3>1. \A mark, i : i \in At(text, mark) <=> i \in 1..Len(text) /\ text[i] = mark
      BY PositionOf
    <3>2. \A i : i \in 1..Len(text) <=> i = 1
      BY <2>2
    <3> QED
      BY <2>2, <3>1, <3>2
  <2> QED
    BY <2>1, <2>2, <2>3
<1>2. Closed(<<Text>>)
  BY <1>1 DEF Closed
<1>3. Count(<<Text>>, Text) = 1
  BY <1>1, FS_Singleton DEF Count, At
<1>4. \A s \in Shells : profile[s] = <<Text>> /\ lines[s] = 1
  BY DEF Init
<1>5. updated = <<>> /\ pc = "idle"
  BY DEF Init
<1> QED
  BY <1>2, <1>3, <1>4, <1>5, EmptyIsClosed DEF LinesInv

\* A command's steps on anything but a profile.
LEMMA QuietLines ==
    ASSUME LinesInv, pc # "fillProfile", UNCHANGED <<profile, updated, lines, lost>>,
           \/ pc' \notin {"emptyProfile", "fillProfile"}
           \/ pc' = pc /\ opts' = opts
    PROVE  LinesInv'
BY DEF LinesInv

\* A command's steps on a profile.
LEMMA ProfileLines ==
    ASSUME IInv, LinesInv, ReadProfile \/ EmptyProfile \/ FillProfile
    PROVE  LinesInv'
<1> USE DEF During, Goto, Return, disk
<1>1. /\ opts.shell \in Shells /\ opts.dir \in Dirs /\ profile[opts.shell] \in Seq(Line)
      /\ profile \in [Shells -> Seq(Line)]
  BY DEF IInv, TypeOK, Options
<1>2. CASE ReadProfile
  <2>1. PICK text \in Seq(Line) : text = profile[opts.shell] /\ Tidy(text) /\ Closed(text)
    BY <1>1 DEF IInv, BlocksOK, LinesInv
  <2>2. PICK new : new = IF command = "install" THEN ShellFragment(text, opts.dir)
                         ELSE RemoveShellFragment(text)
    OBVIOUS
  <2>3. ~Malformed(text) => Closed(new) /\ Count(new, Text) = Count(text, Text)
    <3>1. ASSUME ~Malformed(text), command = "install"
          PROVE  Closed(new) /\ Count(new, Text) = Count(text, Text)
      BY <3>1, <1>1, <2>1, <2>2, InstallKeeps, BlockIsClosed
    <3>2. ASSUME ~Malformed(text), command # "install"
          PROVE  Closed(new) /\ Count(new, Text) = Count(text, Text)
      BY <3>2, <2>1, <2>2, UninstallKeeps
    <3> QED
      BY <3>1, <3>2
  <2>4. \/ pc' \in {"idle", "remove"} /\ updated' = updated
        \/ ~Malformed(text) /\ pc' = "emptyProfile" /\ updated' = new
    BY <1>2, <2>1, <2>2 DEF ReadProfile
  <2>5. pc = "profile" /\ UNCHANGED <<profile, opts, lines, lost>>
    BY <1>2 DEF ReadProfile
  <2>6. CASE pc' \in {"idle", "remove"} /\ updated' = updated
    BY <2>5, <2>6, QuietLines
  <2>7. CASE ~Malformed(text) /\ pc' = "emptyProfile" /\ updated' = new
    <3>1. opts.shell \notin lost => Count(text, Text) = lines[opts.shell]
      BY <1>1, <2>1, <2>5 DEF LinesInv
    <3> QED
      BY <2>3, <2>5, <2>7, <3>1 DEF LinesInv
  <2> QED
    BY <2>4, <2>6, <2>7
<1>3. CASE EmptyProfile
  <2>1. /\ profile'[opts.shell] = <<>>
        /\ \A s \in Shells : s # opts.shell => profile'[s] = profile[s]
        /\ pc = "emptyProfile" /\ pc' = "fillProfile" /\ UNCHANGED <<opts, updated, lines, lost>>
    BY <1>1, <1>3 DEF EmptyProfile
  <2> QED
    BY <2>1, EmptyIsClosed DEF LinesInv
<1>4. CASE FillProfile
  <2>1. /\ profile'[opts.shell] = updated
        /\ \A s \in Shells : s # opts.shell => profile'[s] = profile[s]
        /\ pc = "fillProfile" /\ pc' \in {"receipt", "remove"} /\ updated' = <<>>
        /\ UNCHANGED <<opts, lines, lost>>
    BY <1>1, <1>4 DEF FillProfile
  <2> QED
    BY <2>1, EmptyIsClosed DEF LinesInv
<1> QED
  BY <1>2, <1>3, <1>4

\* A command that dies.
LEMMA StopLines == ASSUME LinesInv, Stop PROVE LinesInv'
<1>1. UNCHANGED <<profile, lines>> /\ updated' = <<>> /\ pc' = "idle"
  BY DEF Stop, During, Return, disk
<1>2. lost \subseteq lost' /\ (pc = "fillProfile" => opts.shell \in lost')
  BY DEF Stop
<1> QED
  BY <1>1, <1>2, EmptyIsClosed DEF LinesInv

\* The user's edits of a profile.
LEMMA UserLines ==
    ASSUME IInv, LinesInv, NEW s \in Shells, UserAppends(s) \/ UserBreaks(s)
    PROVE  LinesInv'
<1>1. PICK text \in Seq(Line) : text = profile[s] /\ Tidy(text) /\ Closed(text)
  BY DEF IInv, TypeOK, BlocksOK, LinesInv
<1>2. PICK own : own = lines[s] /\ own \in Nat
  BY DEF IInv, TypeOK
<1>3. /\ Closed(Append(text, Text)) /\ Count(Append(text, Text), Text) = Count(text, Text) + 1
      /\ \A i \in 1..Len(text) : text[i] \in {Begin, End} =>
            LET cut == SubSeq(text, 1, i - 1) \o SubSeq(text, i + 1, Len(text))
            IN  Closed(cut) /\ Count(cut, Text) = Count(text, Text)
  BY <1>1, UserKeeps
<1>4. PICK new : EditProfile(s, new) /\ Closed(new)
                 /\ (Count(text, Text) = own => Count(new, Text) = lines'[s])
  <2>1. CASE UserAppends(s)
    <3>1. lines'[s] = own + 1
      BY <2>1, <1>2 DEF IInv, TypeOK, UserAppends
    <3>2. EditProfile(s, Append(text, Text))
      BY <1>1, <2>1 DEF UserAppends
    <3> QED
      BY <1>3, <3>1, <3>2
  <2>2. CASE UserBreaks(s)
    <3>1. lines'[s] = own
      BY <2>2, <1>2 DEF UserBreaks
    <3>2. PICK i \in 1..Len(text) :
            /\ text[i] \in {Begin, End}
            /\ EditProfile(s, SubSeq(text, 1, i - 1) \o SubSeq(text, i + 1, Len(text)))
      BY <2>2, <1>1, LenProperties DEF UserBreaks
    <3> QED
      BY <1>3, <3>1, <3>2
  <2> QED
    BY <2>1, <2>2
<1>5. \A t \in Shells : t # s => lines'[t] = lines[t]
  BY DEF IInv, TypeOK, UserAppends, UserBreaks
<1>6. /\ profile'[s] = new /\ \A t \in Shells : t # s => profile'[t] = profile[t]
      /\ UNCHANGED <<pc, opts, updated>>
      /\ lost' = IF pc \in {"emptyProfile", "fillProfile"} /\ opts.shell = s
                 THEN lost \cup {s} ELSE lost
  BY <1>4 DEF IInv, TypeOK, EditProfile, Act, call
<1>7. opts.shell \in Shells
  BY DEF IInv, TypeOK, Options
<1>8. s \notin lost /\ ~(pc = "fillProfile" /\ opts.shell = s) => Count(new, Text) = lines'[s]
  BY <1>1, <1>2, <1>4 DEF LinesInv
<1> QED
  BY <1>4, <1>5, <1>6, <1>7, <1>8 DEF LinesInv

\* A step of anyone, or none, keeps the user's lines where they belong.
LEMMA NextLines == IInv /\ LinesInv /\ [Next]_vars => LinesInv'
<1> SUFFICES ASSUME IInv, LinesInv, [Next]_vars PROVE LinesInv'
  OBVIOUS
<1> USE DEF During, Goto, Return, disk
<1>1. CASE UNCHANGED vars
  BY <1>1 DEF LinesInv, vars, call
<1>2. ASSUME NEW options \in Options, StartInstall(options) PROVE LinesInv'
  BY <1>2, QuietLines DEF StartInstall, Start
<1>3. ASSUME NEW shell \in Shells, NEW path \in BOOLEAN, StartUninstall(shell, path) PROVE LinesInv'
  BY <1>3, QuietLines DEF StartUninstall, Start
<1>4. CASE CheckTarget \/ PlaceBinary
  <2>1. pc \in {"copy", "place"} /\ pc' \in {"copy", "place", "profile", "receipt", "idle"}
        /\ UNCHANGED <<profile, updated, lines, lost>>
    BY <1>4 DEF CheckTarget, PlaceBinary, AfterCopy
  <2> QED
    BY <2>1, QuietLines
<1>5. CASE WriteReceipt
  BY <1>5, QuietLines DEF WriteReceipt
<1>6. CASE CheckBinary \/ UnlinkBinary
  <2>1. pc \in {"remove", "unlink"} /\ pc' \in {"remove", "unlink", "dropReceipt"}
        /\ UNCHANGED <<profile, updated, lines, lost>>
    BY <1>6 DEF CheckBinary, UnlinkBinary, AfterRemove
  <2> QED
    BY <2>1, QuietLines
<1>7. CASE DropReceipt
  BY <1>7, QuietLines DEF DropReceipt
<1>8. ASSUME NEW d \in Dirs, NEW n \in Names, NEW content \in {Absent, Other},
             UserChanges(d, n, content)
      PROVE  LinesInv'
  BY <1>8 DEF LinesInv, UserChanges, Act, call
<1> QED
  BY <1>1, <1>2, <1>3, <1>4, <1>5, <1>6, <1>7, <1>8, ProfileLines, StopLines, UserLines DEF Next

\* A profile that is tidy has no more than one block.
LEMMA TidyCount ==
    ASSUME NEW text \in Seq(Line), Tidy(text)
    PROVE  Count(text, Begin) <= 1
<1>1. Count(text, Begin) = Cardinality(At(text, Begin))
  BY CountIsOfPositions
<1>2. CASE At(text, Begin) = {}
  BY <1>1, <1>2, FS_EmptySet
<1>3. ASSUME NEW p \in At(text, Begin) PROVE Count(text, Begin) <= 1
  <2>1. At(text, Begin) = {p}
    BY <1>3 DEF Tidy, AtMostOne
  <2>2. Cardinality({p}) = 1
    BY FS_Singleton
  <2> QED
    BY <1>1, <2>1, <2>2
<1> QED
  BY <1>2, <1>3

\* In every reachable state the profiles hold the user's own lines.
THEOREM LinesInvHolds == Spec => [](IInv /\ LinesInv)
<1>1. Init => IInv /\ LinesInv
  BY InitIInv, InitLines
<1>2. IInv /\ LinesInv /\ [Next]_vars => (IInv /\ LinesInv)'
  BY NextIInv, NextLines
<1> QED
  BY <1>1, <1>2, PTL DEF Spec

\* A profile keeps all of the user's lines and has at most one block, whatever
\* installs, uninstalls, broken marks and interruptions there were, but for a
\* profile that is being written, one that a command emptied and died over, and
\* one that was written over an edit made since it was read.
THEOREM ProfileKept == Spec => []ProfileIsUsers
<1>1. IInv /\ LinesInv => ProfileIsUsers
  <2>1. ASSUME IInv, NEW s \in Shells PROVE Count(profile[s], Begin) <= 1
    BY <2>1, TidyCount DEF IInv, TypeOK, BlocksOK
  <2> QED
    BY <2>1 DEF LinesInv, ProfileIsUsers
<1> QED
  BY <1>1, LinesInvHolds, PTL

-----------------------------------------------------------------------------
\* What an install has put on disk, when the user was not at it since.

Copied(n) == bin[opts.dir][n] = opts.release

InProfile == {"profile", "emptyProfile", "fillProfile"}

\* An install that writes a receipt has everything the receipt will say.
RecordedInv ==
    /\ pc = "receipt" => command = "install"
    /\ command = "install" /\ pc \in InProfile => opts.path
    /\ command = "install" /\ pc \in {"emptyProfile", "fillProfile"} => HasBlock(updated, opts.dir)
    /\ pc = "idle" /\ result = "installed" /\ ~touched => command = "install"
    /\ command = "install" /\ ~touched =>
          /\ pc \in {"copy", "place"} /\ todo = Second => Copied("ai-prov")
          /\ pc \in InProfile \cup {"receipt"} => \A n \in Names : Copied(n)
          /\ pc = "receipt" /\ opts.path => HasBlock(profile[opts.shell], opts.dir)
          /\ pc = "idle" /\ result = "installed" =>
                \E r \in receipt :
                    /\ bin[r.root] = r.hash /\ r.root = opts.dir
                    /\ r.method = "shell" => HasBlock(profile[opts.shell], r.root)

\* Nothing was installed yet.
LEMMA InitRecorded == Init => RecordedInv
BY DEF Init, RecordedInv, InProfile

\* The install's own steps.
LEMMA InstallRecorded ==
    ASSUME IInv, RecordedInv, LinesInv,
           \/ CheckTarget \/ PlaceBinary
           \/ ReadProfile \/ EmptyProfile \/ FillProfile \/ WriteReceipt
    PROVE  RecordedInv'
<1> USE DEF During, Goto, Return, disk, InProfile
<1>1. /\ opts.dir \in Dirs /\ opts.shell \in Shells /\ opts.release \in Releases
      /\ profile \in [Shells -> Seq(Line)]
      /\ bin \in [Dirs -> [Names -> Releases \cup {Absent, Other}]]
  BY DEF IInv, TypeOK, Options
<1>2. ASSUME CheckTarget \/ PlaceBinary PROVE RecordedInv'
  <2>1. command = "install" /\ UNCHANGED <<command, opts, touched, updated, profile, receipt>>
        /\ pc \in {"copy", "place"} /\ todo \in {Targets, Second}
    BY <1>2 DEF IInv, QueueOK, CheckTarget, PlaceBinary
  <2>2. \/ pc' = "place" /\ todo' = todo /\ bin' = bin
        \/ pc' = "idle" /\ result' = "refused"
        \/ pc' = AfterCopy /\ todo' = Tail(todo)
           /\ \/ bin[opts.dir][Head(todo)] = opts.release /\ bin' = bin
              \/ bin' = [bin EXCEPT ![opts.dir][Head(todo)] = opts.release]
    BY <1>2 DEF CheckTarget, PlaceBinary, UpToDate
  <2>3. CASE pc' = "place" /\ todo' = todo /\ bin' = bin
    BY <2>1, <2>3 DEF RecordedInv, Copied
  <2>4. CASE pc' = "idle" /\ result' = "refused"
    BY <2>1, <2>4 DEF RecordedInv
  <2>5. ASSUME pc' = AfterCopy, todo' = Tail(todo),
               \/ bin[opts.dir][Head(todo)] = opts.release /\ bin' = bin
               \/ bin' = [bin EXCEPT ![opts.dir][Head(todo)] = opts.release]
        PROVE  RecordedInv'
    <3>1. /\ Head(todo) \in Names /\ bin'[opts.dir][Head(todo)] = opts.release
          /\ \A n \in Names : n # Head(todo) => bin'[opts.dir][n] = bin[opts.dir][n]
      BY <1>1, <2>1, <2>5, Queues
    <3>2. CASE todo = Targets
      <4>1. pc' = "copy" /\ todo' = Second /\ Head(todo) = "ai-prov"
        BY <2>5, <3>2, Queues DEF AfterCopy
      <4> QED
        BY <2>1, <3>1, <4>1 DEF RecordedInv, Copied
    <3>3. CASE todo = Second
      <4>1. pc' = (IF opts.path THEN "profile" ELSE "receipt") /\ Head(todo) = "ai-prov-mcp"
        BY <2>5, <3>3, Queues DEF AfterCopy
      <4>2. ~touched => bin[opts.dir]["ai-prov"] = opts.release
        BY <2>1, <3>3 DEF RecordedInv, Copied
      <4>3. ~touched => \A n \in Names : bin'[opts.dir][n] = opts.release
        BY <3>1, <4>1, <4>2, Queues
      <4> QED
        BY <2>1, <4>1, <4>3 DEF RecordedInv, Copied
    <3> QED
      BY <2>1, <3>2, <3>3
  <2> QED
    BY <2>2, <2>3, <2>4, <2>5
<1>3. CASE ReadProfile
  <2>1. PICK text \in Seq(Line) : text = profile[opts.shell] /\ Tidy(text) /\ Closed(text)
    BY <1>1 DEF IInv, BlocksOK, LinesInv
  <2>2. pc = "profile" /\ UNCHANGED <<command, opts, touched, bin, profile, receipt>>
    BY <1>3 DEF ReadProfile
  <2>3. \/ pc' = "idle" /\ result' = "malformed"
        \/ pc' = "remove"
        \/ /\ pc' = "emptyProfile"
           /\ command = "install" => ~Malformed(text) /\ updated' = ShellFragment(text, opts.dir)
    BY <1>3, <2>1 DEF ReadProfile
  <2>4. command = "install" /\ pc' = "emptyProfile" => HasBlock(updated', opts.dir)
    BY <1>1, <2>1, <2>3, InstallKeeps
  <2> QED
    BY <2>2, <2>3, <2>4 DEF RecordedInv, Copied
<1>4. CASE EmptyProfile
  BY <1>4 DEF RecordedInv, Copied, EmptyProfile
<1>5. CASE FillProfile
  <2>1. /\ profile'[opts.shell] = updated /\ pc = "fillProfile"
        /\ UNCHANGED <<command, opts, touched, bin, receipt>>
        /\ pc' = IF command = "install" THEN "receipt" ELSE "remove"
    BY <1>1, <1>5 DEF FillProfile
  <2> QED
    BY <2>1 DEF RecordedInv, Copied
<1>6. CASE WriteReceipt
  <2>1. /\ pc = "receipt" /\ pc' = "idle" /\ result' = "installed"
        /\ UNCHANGED <<command, opts, touched, bin, profile>>
    BY <1>6 DEF WriteReceipt
  <2>2. PICK r : receipt' = {r} /\ r = [root |-> opts.dir, hash |-> [n \in Names |-> opts.release],
                                        method |-> IF opts.path THEN "shell" ELSE "none"]
    BY <1>6 DEF WriteReceipt, Replaced
  <2>3. /\ r.root = opts.dir /\ r.hash = [n \in Names |-> opts.release]
        /\ r.method = "shell" => opts.path
    BY <2>2
  <2>4. ~touched => bin[opts.dir] = r.hash
    <3>1. ~touched => \A n \in Names : bin[opts.dir][n] = opts.release
      BY <2>1 DEF RecordedInv, Copied
    <3> QED
      BY <1>1, <2>3, <3>1
  <2>5. ~touched => (r.method = "shell" => HasBlock(profile[opts.shell], opts.dir))
    BY <2>1, <2>3 DEF RecordedInv
  <2> QED
    BY <2>1, <2>2, <2>3, <2>4, <2>5 DEF RecordedInv
<1> QED
  BY <1>2, <1>3, <1>4, <1>5, <1>6

\* A step of anyone, or none, keeps what an install has put on disk.
LEMMA NextRecorded == IInv /\ LinesInv /\ RecordedInv /\ [Next]_vars => RecordedInv'
<1> SUFFICES ASSUME IInv, LinesInv, RecordedInv, [Next]_vars PROVE RecordedInv'
  OBVIOUS
<1> USE DEF During, Goto, Return, InProfile
<1>1. CASE UNCHANGED vars
  BY <1>1 DEF RecordedInv, Copied, vars, disk, call
<1>2. ASSUME NEW options \in Options, StartInstall(options) PROVE RecordedInv'
  BY <1>2, Queues DEF RecordedInv, StartInstall, Start
<1>3. ASSUME NEW shell \in Shells, NEW path \in BOOLEAN, StartUninstall(shell, path)
      PROVE  RecordedInv'
  <2>1. command' = "uninstall" /\ pc' # "receipt" /\ (pc' = "idle" => result' = "nothing")
    BY <1>3 DEF StartUninstall, Start
  <2> QED
    BY <2>1 DEF RecordedInv
<1>4. CASE CheckBinary \/ UnlinkBinary
  <2>1. pc' \in {"remove", "unlink", "dropReceipt"}
    BY <1>4 DEF CheckBinary, UnlinkBinary, AfterRemove
  <2> QED
    BY <2>1 DEF RecordedInv
<1>5. CASE DropReceipt \/ Stop
  <2>1. pc' = "idle" /\ result' \in {"uninstalled", "stopped"}
    BY <1>5 DEF DropReceipt, Stop
  <2> QED
    BY <2>1 DEF RecordedInv
<1>6. CASE Act
  <2>1. touched' /\ UNCHANGED <<command, opts, pc, updated>>
    BY <1>6 DEF Act, call
  <2> QED
    BY <2>1 DEF RecordedInv
<1> QED
  BY <1>1, <1>2, <1>3, <1>4, <1>5, <1>6, InstallRecorded
  DEF Next, UserChanges, UserAppends, UserBreaks, EditProfile

\* In every reachable state a running install has on disk what it will record.
THEOREM RecordedInvHolds == Spec => [](IInv /\ RecordedInv)
<1>1. Init => IInv /\ LinesInv /\ RecordedInv
  BY InitIInv, InitLines, InitRecorded
<1>2. IInv /\ LinesInv /\ RecordedInv /\ [Next]_vars => (IInv /\ LinesInv /\ RecordedInv)'
  BY NextIInv, NextLines, NextRecorded
<1> QED
  BY <1>1, <1>2, PTL DEF Spec

\* An install that ends well leaves a receipt of what is on disk and its block
\* in the profile, whatever installs, refusals and interruptions came before.
THEOREM InstallIsRecorded == Spec => []InstalledIsRecorded
<1>1. ASSUME IInv, RecordedInv PROVE InstalledIsRecorded
  <2> SUFFICES ASSUME pc = "idle", result = "installed", ~touched
               PROVE  \E r \in receipt :
                        /\ bin[r.root] = r.hash
                        /\ r.root = opts.dir
                        /\ r.method = "shell" =>
                             SubSeq(profile[opts.shell], IndexOf(profile[opts.shell], Begin),
                                    IndexOf(profile[opts.shell], End)) = <<Begin, r.root, End>>
    BY DEF InstalledIsRecorded
  <2>1. PICK r \in receipt :
          /\ bin[r.root] = r.hash /\ r.root = opts.dir
          /\ r.method = "shell" => HasBlock(profile[opts.shell], r.root)
    BY <1>1 DEF RecordedInv
  <2>2. PICK text \in Seq(Line) : text = profile[opts.shell]
    BY <1>1 DEF IInv, TypeOK, Options
  <2>3. r.root \in Dirs
    BY <1>1 DEF IInv, TypeOK, Receipts
  <2>4. r.method = "shell" =>
          SubSeq(text, IndexOf(text, Begin), IndexOf(text, End)) = <<Begin, r.root, End>>
    BY <2>1, <2>2, <2>3, BlockIsRead
  <2> QED
    BY <2>1, <2>2, <2>4
<1>2. IInv /\ RecordedInv => InstalledIsRecorded
  BY <1>1
<1> QED
  BY <1>2, RecordedInvHolds, PTL
=============================================================================
