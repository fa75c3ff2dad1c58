---------------------------- MODULE FlightProofs ----------------------------
(***************************************************************************)
(* What Flight guarantees for every bound: however calls, messages and     *)
(* records are ordered and cut against each other,                         *)
(*   TypeCorrect      the variables keep their types, and a record number  *)
(*                    counts the records of a key enabled once;            *)
(*   NoncesFresh      only a key the writer has enabled twice repeats a    *)
(*                    record number;                                       *)
(*   PrefixOfEachKey  the reader reads a first part of every other key;    *)
(*   Intact           what it is handed is what was composed;              *)
(*   AtOnce           each message with the record that completes it.      *)
(* The invariant has three layers: the types, the record numbers on the    *)
(* two sides of the stream, and the data, which is one parse of one text   *)
(* at both ends.  What _extract_handshake_messages finds in a buffer of    *)
(* any length is settled first.                                            *)
(***************************************************************************)
EXTENDS Flight, FiniteSetTheorems, SequenceTheorems, WellFoundedInduction, TLAPS

USE BoundsAssumption

\* Two texts one behind the other; the units of a text from m + 1 to n.
Cat(s, t) == s \o t
Piece(s, m, n) == SubSeq(s, m + 1, n)

\* A message of b lies between from and to.
Spans(b, from, to) ==
    from + 2 <= Len(b) /\ to = from + 2 + b[from + 2] /\ to <= Len(b)

Start(x, i) == IF i = 1 THEN 0 ELSE x[i - 1]
EndOf(x) == IF x = <<>> THEN 0 ELSE x[Len(x)]

\* b is whole messages that end at x, up to the last of them.
Chain(b, x) == \A i \in 1..Len(x) : Spans(b, Start(x, i), x[i])

\* No whole message of b begins behind p.
Stuck(b, p) == p + 2 <= Len(b) => p + 2 + b[p + 2] > Len(b)

-----------------------------------------------------------------------------
(***************************************************************************)
(* The inductive invariant.                                                *)
(***************************************************************************)

Keys == [phase : 0..2, transcript : Seq(Nat), updates : Nat]

Records == [type : {"handshake", "data"}, content : Seq(Nat), upto : Nat,
            key : Keys, num : Nat]

\* Which keys each end has enabled, and which of them more than once.
History ==
    /\ enabled \in [Parties -> SUBSET Keys] /\ again \in [Parties -> SUBSET Keys]
    /\ \A e \in Parties :
         again[e] \subseteq enabled[e] /\ (key[e] # None => key[e] \in enabled[e])

Types ==
    /\ transcript \in [Parties -> Seq(Nat)] /\ ends \in [Parties -> Seq(Nat)]
    /\ Len(ends["writer"]) <= MaxMsgs
    /\ off \in 0..Len(transcript["writer"])
    /\ stream \in Seq(Records) /\ Len(stream) <= MaxRecords
    /\ pos \in 0..Len(stream) /\ hbuf \in Seq(Nat)
    /\ secret \in [Parties -> Keys] /\ key \in [Parties -> Keys]
    /\ \A e \in Parties : secret[e].phase # 1
    /\ num \in [Parties -> Nat]
    /\ read \union lost = 1..pos /\ read \intersect lost = {}
    /\ History

\* Keys the writer numbers records under from 0 only once.
Once(k) == k \notin {None} \union again["writer"]

\* What is written is written under a key that has been enabled, and within a key
\* that has been enabled once the numbers rise along the stream.
Numbered ==
    /\ \A i \in 1..Len(stream) : stream[i].key \in {None} \union enabled["writer"]
    /\ \A i \in 1..Len(stream) :
         stream[i].key = key["writer"] /\ Once(key["writer"]) => stream[i].num < num["writer"]
    /\ \A i, j \in 1..Len(stream) :
         i < j /\ stream[i].key = stream[j].key /\ Once(stream[i].key) =>
             stream[i].num < stream[j].num

\* The reader's number is 0 or one more than that of a record it has read under its
\* key; no record of that key it has not read has a smaller one.
Expected ==
    /\ \A i \in read : stream[i].key \in {None} \union enabled["reader"]
    /\ key["reader"] = None => \A j \in lost : stream[j].key # None
    /\ Once(key["reader"]) =>
         /\ \/ num["reader"] = 0
            \/ \E i \in read :
                 stream[i].key = key["reader"] /\ num["reader"] = stream[i].num + 1
         /\ \A i \in 1..Len(stream) :
              stream[i].key = key["reader"] /\ i \notin read =>
                  stream[i].num >= num["reader"]

\* A record number counts the records of the key in use, if that was enabled once.
Counted ==
    /\ key["writer"] \notin {None} \union again["writer"] =>
         num["writer"] = Cardinality(Under("writer"))
    /\ key["reader"] \notin {None} \union again["reader"] =>
         num["reader"] = Cardinality(Under("reader") \intersect read)

\* How much of the writer's transcript is in the first i records.
Upto(i) == IF i = 0 THEN 0 ELSE stream[i].upto

\* The records of the stream are the writer's transcript cut into pieces.
Pieces ==
    /\ Chain(transcript["writer"], ends["writer"])
    /\ EndOf(ends["writer"]) = Len(transcript["writer"])
    /\ off = Upto(Len(stream))
    /\ \A i \in 1..Len(stream) :
         /\ Upto(i - 1) <= Upto(i) /\ Upto(i) <= off
         /\ stream[i].content = Piece(transcript["writer"], Upto(i - 1), Upto(i))
         /\ stream[i].type = "data" => Upto(i) = Upto(i - 1)

\* What the reader has been handed is whole messages, and what it has in its
\* buffer is not one.
Handed ==
    /\ Chain(transcript["reader"], ends["reader"])
    /\ EndOf(ends["reader"]) = Len(transcript["reader"])
    /\ Stuck(hbuf, 0)

\* The two together are, with nothing lost or taken off, the first part of the
\* writer's transcript.
Text == Cat(transcript["reader"], hbuf)

Parsed ==
    lost = {} /\ cut = {} => Text = Piece(transcript["writer"], 0, Upto(pos))

Inv ==
    /\ Types /\ Numbered /\ Expected /\ Counted /\ PrefixPerKey
    /\ Pieces /\ Handed /\ Parsed

-----------------------------------------------------------------------------
(***************************************************************************)
(* Sequences of units: one behind the other, and pieces of them.  Cat and  *)
(* Piece are opened here only; elsewhere the facts below are enough.       *)
(***************************************************************************)

\* Two sequences one behind the other: its type and its length ...
LEMMA CatType ==
    ASSUME NEW s \in Seq(Nat), NEW t \in Seq(Nat)
    PROVE  Cat(s, t) \in Seq(Nat) /\ Len(Cat(s, t)) = Len(s) + Len(t)
  BY DEF Cat

\* ... and what is where in it: the first of the two begins it.
LEMMA CatLeft ==
    ASSUME NEW s \in Seq(Nat), NEW t \in Seq(Nat), NEW i \in 1..Len(s)
    PROVE  Cat(s, t)[i] = s[i]
  BY DEF Cat

\* The second of the two follows behind the first.
LEMMA CatRight ==
    ASSUME NEW s \in Seq(Nat), NEW t \in Seq(Nat), NEW i \in 1..Len(t)
    PROVE  Cat(s, t)[Len(s) + i] = t[i]
  BY DEF Cat

\* It does not matter which two of three are put together first.
LEMMA CatAssociates ==
    ASSUME NEW s \in Seq(Nat), NEW t \in Seq(Nat), NEW u \in Seq(Nat)
    PROVE  Cat(Cat(s, t), u) = Cat(s, Cat(t, u))
  BY ConcatAssociative, SMTT(40) DEF Cat

\* A piece of a sequence.
LEMMA PieceType ==
    ASSUME NEW s \in Seq(Nat), NEW m \in Nat, NEW n \in Nat, m <= n, n <= Len(s)
    PROVE  Piece(s, m, n) \in Seq(Nat) /\ Len(Piece(s, m, n)) = n - m
<1>1. \A i \in (m + 1)..n : s[i] \in Nat
  OBVIOUS
<1> DEFINE h == SubSeq(s, m + 1, n)
<1>2. h \in Seq(Nat) /\ Len(h) = IF m + 1 <= n THEN n - (m + 1) + 1 ELSE 0
  BY <1>1, SubSeqProperties
<1> HIDE DEF h
<1>3. Len(h) = n - m
  BY <1>2
<1> QED
  BY <1>2, <1>3 DEF h, Piece

\* What is where in a piece.
LEMMA PieceAt ==
    ASSUME NEW s \in Seq(Nat), NEW m \in Nat, NEW n \in Nat, m <= n, n <= Len(s),
           NEW i \in 1..(n - m)
    PROVE  Piece(s, m, n)[i] = s[m + i]
<1>1. \A j \in (m + 1)..n : s[j] \in Nat
  OBVIOUS
<1> DEFINE h == SubSeq(s, m + 1, n)
<1>2. \A j \in 1..(n - (m + 1) + 1) : h[j] = s[(m + 1) + j - 1]
  BY <1>1, SubSeqProperties
<1> HIDE DEF h
<1>3. i \in 1..(n - (m + 1) + 1) /\ (m + 1) + i - 1 = m + i
  OBVIOUS
<1>4. h[i] = s[m + i]
  BY <1>2, <1>3
<1> QED
  BY <1>4 DEF h, Piece

\* Adjacent pieces are one piece.
LEMMA PiecesJoin ==
    ASSUME NEW s \in Seq(Nat), NEW l \in Nat, NEW m \in Nat, NEW n \in Nat,
           l <= m, m <= n, n <= Len(s)
    PROVE  Cat(Piece(s, l, m), Piece(s, m, n)) = Piece(s, l, n)
<1>1. l + 1 \in 1..(Len(s) + 1) /\ m \in ((l + 1) - 1)..Len(s) /\ n \in m..Len(s)
  OBVIOUS
<1>2. SubSeq(s, l + 1, m) \o SubSeq(s, m + 1, n) = SubSeq(s, l + 1, n)
  BY <1>1, ConcatAdjacentSubSeq
<1> QED
  BY <1>2 DEF Cat, Piece

\* All of a sequence is the sequence.
LEMMA PieceAll ==
    ASSUME NEW s \in Seq(Nat)
    PROVE  Piece(s, 0, Len(s)) = s
  BY SubSeqFull DEF Piece

\* A piece of a sequence is a piece of a longer one.
LEMMA PieceExtends ==
    ASSUME NEW s \in Seq(Nat), NEW t \in Seq(Nat),
           NEW m \in Nat, NEW n \in Nat, m <= n, n <= Len(s)
    PROVE  Piece(Cat(s, t), m, n) = Piece(s, m, n)
<1>0. Len(s) \in Nat /\ Len(t) \in Nat
  OBVIOUS
<1>1. PICK c \in Seq(Nat) :
        c = Cat(s, t) /\ Len(c) = Len(s) + Len(t) /\ \A i \in 1..Len(s) : c[i] = s[i]
  BY CatType, CatLeft
<1>3. n <= Len(c)
  BY <1>0, <1>1
<1>4. /\ Piece(c, m, n) \in Seq(Nat) /\ Len(Piece(c, m, n)) = n - m
      /\ Piece(s, m, n) \in Seq(Nat) /\ Len(Piece(s, m, n)) = n - m
  BY <1>1, <1>3, PieceType
<1>5. ASSUME NEW i \in 1..(n - m)
      PROVE  Piece(c, m, n)[i] = Piece(s, m, n)[i]
  <2>1. Piece(c, m, n)[i] = c[m + i]
    BY ONLY c \in Seq(Nat), m \in Nat, n \in Nat, m <= n, <1>3, i \in 1..(n - m), PieceAt
  <2>2. Piece(s, m, n)[i] = s[m + i]
    BY ONLY s \in Seq(Nat), m \in Nat, n \in Nat, m <= n, n <= Len(s), i \in 1..(n - m), PieceAt
  <2>3. m + i \in 1..Len(s)
    BY <1>0
  <2> QED
    BY <1>1, <2>1, <2>2, <2>3
<1>6. Piece(c, m, n) = Piece(s, m, n)
  BY <1>4, <1>5, SeqEqual
<1> QED
  BY <1>1, <1>6

-----------------------------------------------------------------------------
(***************************************************************************)
(* Parsing: what Extracted finds, and that a text has one parse only.      *)
(***************************************************************************)

\* Induction over the naturals, for a set rather than for a predicate.
LEMMA Induction ==
    ASSUME NEW S, 0 \in S, \A n \in Nat : n \in S => n + 1 \in S
    PROVE  Nat \subseteq S
<1> SUFFICES ASSUME Nat \ S # {} PROVE FALSE
  OBVIOUS
<1>1. PICK x \in Nat \ S : \A y \in Nat \ S : ~ (<<y, x>> \in OpToRel(<, Nat))
  BY NatLessThanWellFounded, WFMin
<1>2. x \in Nat /\ x \notin S /\ x # 0
  BY <1>1
<1>3. PICK y \in Nat : x = y + 1
  BY <1>2
<1>4. y \in S
  <2>1. <<y, x>> \in OpToRel(<, Nat)
    BY <1>2, <1>3 DEF OpToRel
  <2> QED
    BY <1>1, <2>1
<1> QED
  BY <1>2, <1>3, <1>4

\* One step of Extracted.
More(b, s) ==
    IF EndOf(s) + 2 <= Len(b) /\ EndOf(s) + 2 + b[EndOf(s) + 2] <= Len(b)
      THEN Append(s, EndOf(s) + 2 + b[EndOf(s) + 2]) ELSE s

Extraction(b) ==
    CHOOSE g : g = [n \in 0..Len(b) |-> IF n = 0 THEN <<>> ELSE More(b, g[n - 1])]

\* A step takes sequences to sequences.
LEMMA MoreTyped ==
    ASSUME NEW b \in Seq(Nat), NEW s \in Seq(Nat)
    PROVE  /\ EndOf(s) \in Nat /\ More(b, s) \in Seq(Nat)
<1>1. EndOf(s) \in Nat
  BY DEF EndOf
<1>2. EndOf(s) + 2 <= Len(b) => b[EndOf(s) + 2] \in Nat
  BY <1>1
<1> QED
  BY <1>1, <1>2 DEF More

\* The recursive function that Extracted is written with exists, and is what its
\* definition says.
LEMMA Unfolds ==
    ASSUME NEW b \in Seq(Nat)
    PROVE  /\ Extracted(b) = Extraction(b)[Len(b)]
           /\ Extraction(b) \in [0..Len(b) -> Seq(Nat)]
           /\ Extraction(b)[0] = <<>>
           /\ \A n \in 1..Len(b) : Extraction(b)[n] = More(b, Extraction(b)[n - 1])
<1> DEFINE D(g, n) == IF n = 0 THEN <<>> ELSE More(b, g[n - 1])
           S == {k \in Nat : \E g \in [0..k -> Seq(Nat)] : \A n \in 0..k : g[n] = D(g, n)}
<1>1. Extracted(b) = Extraction(b)[Len(b)]
  BY DEF Extracted, Extraction, More, EndOf, Last
<1>2. 0 \in S
  <2> DEFINE h == [n \in 0..0 |-> <<>>]
  <2>1. h \in [0..0 -> Seq(Nat)]
    OBVIOUS
  <2>2. \A n \in 0..0 : h[n] = D(h, n)
    OBVIOUS
  <2> HIDE DEF h
  <2>3. \E f \in [0..0 -> Seq(Nat)] : \A n \in 0..0 : f[n] = D(f, n)
    BY <2>1, <2>2
  <2> QED
    BY <2>3
<1>3. ASSUME NEW k \in Nat, k \in S
      PROVE  k + 1 \in S
  <2>1. PICK g \in [0..k -> Seq(Nat)] : \A n \in 0..k : g[n] = D(g, n)
    BY <1>3
  <2> DEFINE h == [n \in 0..(k + 1) |-> IF n = k + 1 THEN More(b, g[k]) ELSE g[n]]
  <2>2. h \in [0..(k + 1) -> Seq(Nat)]
    BY MoreTyped
  <2>3. \A n \in 0..(k + 1) : h[n] = D(h, n)
    <3> SUFFICES ASSUME NEW n \in 0..(k + 1)
                 PROVE  h[n] = D(h, n)
      OBVIOUS
    <3>1. CASE n = k + 1
      BY <3>1
    <3>2. CASE n # k + 1
      <4>1. n \in 0..k /\ h[n] = g[n] /\ (n # 0 => h[n - 1] = g[n - 1])
        BY <3>2
      <4> QED
        BY <2>1, <4>1
    <3> QED
      BY <3>1, <3>2
  <2> HIDE DEF h
  <2>4. \E f \in [0..(k + 1) -> Seq(Nat)] : \A n \in 0..(k + 1) : f[n] = D(f, n)
    BY <2>2, <2>3
  <2>5. k + 1 \in Nat
    OBVIOUS
  <2> HIDE DEF D
  <2> QED
    BY <2>4, <2>5
<1>4. Len(b) \in S
  <2> HIDE DEF S
  <2> QED
    BY <1>2, <1>3, Induction
<1>5. PICK g \in [0..Len(b) -> Seq(Nat)] : \A n \in 0..Len(b) : g[n] = D(g, n)
  BY <1>4
<1>6. g = [n \in 0..Len(b) |-> D(g, n)]
  BY <1>5
<1> DEFINE P(f) == f = [n \in 0..Len(b) |-> D(f, n)]
<1>7. P(Extraction(b))
  <2>1. Extraction(b) = CHOOSE f : P(f)
    BY DEF Extraction
  <2>2. P(g)
    BY <1>6
  <2> HIDE DEF P
  <2> QED
    BY <2>1, <2>2
<1>8. Len(b) \in Nat
  OBVIOUS
<1>9. \A n \in 0..Len(b) : Extraction(b)[n] = D(Extraction(b), n)
  BY <1>7
<1>10. Extraction(b) = g
  <2> DEFINE T == {k \in Nat : k <= Len(b) => Extraction(b)[k] = g[k]}
  <2>1. 0 \in T
    BY <1>5, <1>8, <1>9
  <2>2. ASSUME NEW k \in Nat, k \in T
        PROVE  k + 1 \in T
    <3> SUFFICES ASSUME k + 1 <= Len(b)
                 PROVE  Extraction(b)[k + 1] = g[k + 1]
      OBVIOUS
    <3>1. k + 1 \in 0..Len(b) /\ k + 1 # 0 /\ (k + 1) - 1 = k /\ Extraction(b)[k] = g[k]
      BY <1>8, <2>2
    <3> QED
      BY <1>5, <1>9, <3>1
  <2>3. Nat \subseteq T
    <3> HIDE DEF T
    <3> QED
      BY <2>1, <2>2, Induction
  <2>4. \A k \in 0..Len(b) : Extraction(b)[k] = g[k]
    BY <1>8, <2>3
  <2>5. Extraction(b) = [n \in 0..Len(b) |-> D(Extraction(b), n)]
    BY <1>7
  <2> QED
    BY <1>6, <1>5, <1>9, <2>4, <2>5
<1> QED
  BY <1>1, <1>5, <1>8, <1>9, <1>10

\* A step adds one message, or there is none to add.
LEMMA MoreChains ==
    ASSUME NEW b \in Seq(Nat), NEW s \in Seq(Nat), Chain(b, s)
    PROVE  /\ Chain(b, More(b, s))
           /\ \/ More(b, s) = s /\ Stuck(b, EndOf(s))
              \/ Len(More(b, s)) = Len(s) + 1
<1> DEFINE e == EndOf(s)
           to == e + 2 + b[e + 2]
<1>1. e \in Nat /\ (e + 2 <= Len(b) => b[e + 2] \in Nat)
  BY MoreTyped
<1>2. CASE e + 2 <= Len(b) /\ to <= Len(b)
  <2>1. More(b, s) = Append(s, to) /\ to \in Nat
    BY <1>1, <1>2 DEF More
  <2>2. Start(Append(s, to), Len(s) + 1) = e
    BY DEF Start, EndOf
  <2>3. Spans(b, e, to)
    BY <1>2 DEF Spans
  <2>4. \A i \in 1..Len(s) : Start(Append(s, to), i) = Start(s, i) /\ Append(s, to)[i] = s[i]
    BY <2>1 DEF Start
  <2>5. Append(s, to)[Len(s) + 1] = to /\ Len(Append(s, to)) = Len(s) + 1
    BY <2>1
  <2> HIDE DEF to, e
  <2>6. \A i \in 1..(Len(s) + 1) : Spans(b, Start(Append(s, to), i), Append(s, to)[i])
    <3> SUFFICES ASSUME NEW i \in 1..(Len(s) + 1)
                 PROVE  Spans(b, Start(Append(s, to), i), Append(s, to)[i])
      OBVIOUS
    <3>1. i \in 1..Len(s) \/ i = Len(s) + 1
      OBVIOUS
    <3> QED
      BY <2>2, <2>3, <2>4, <2>5, <3>1 DEF Chain
  <2> QED
    BY <2>1, <2>5, <2>6 DEF Chain
<1>3. CASE ~ (e + 2 <= Len(b) /\ to <= Len(b))
  BY <1>1, <1>3 DEF More, Stuck
<1> QED
  BY <1>2, <1>3

\* A message takes at least two units.
LEMMA ChainBound ==
    ASSUME NEW b \in Seq(Nat), NEW x \in Seq(Nat), Chain(b, x)
    PROVE  /\ \A i \in 1..Len(x) : Start(x, i) \in Nat /\ Start(x, i) < x[i] /\ x[i] <= Len(b)
           /\ EndOf(x) \in 0..Len(b) /\ 2 * Len(x) <= EndOf(x)
<1>1. ASSUME NEW i \in 1..Len(x)
      PROVE  Start(x, i) \in Nat /\ Start(x, i) + 2 <= x[i] /\ x[i] <= Len(b)
  <2>1. Start(x, i) \in Nat /\ x[i] \in Nat
    BY DEF Start
  <2>2. Spans(b, Start(x, i), x[i])
    BY DEF Chain
  <2>3. PICK m \in Nat, n \in Nat, l \in Nat : m = Start(x, i) /\ n = x[i] /\ l = Len(b)
    BY <2>1
  <2>4. m + 2 <= l /\ n = m + 2 + b[m + 2] /\ n <= l
    BY <2>2, <2>3 DEF Spans
  <2>5. b[m + 2] \in Nat
    BY <2>3, <2>4
  <2> QED
    BY <2>3, <2>4, <2>5
<1>2. \A i \in 1..Len(x) : 2 * i <= x[i]
  <2> DEFINE S == {i \in Nat : i \in 1..Len(x) => 2 * i <= x[i]}
  <2>1. 0 \in S
    OBVIOUS
  <2>2. ASSUME NEW i \in Nat, i \in S
        PROVE  i + 1 \in S
    <3> SUFFICES ASSUME i + 1 \in 1..Len(x)
                 PROVE  2 * (i + 1) <= x[i + 1]
      OBVIOUS
    <3>1. CASE i = 0
      BY <1>1, <3>1 DEF Start
    <3>2. CASE i # 0
      <4>1. i \in 1..Len(x) /\ 2 * i <= x[i]
        BY <2>2, <3>2
      <4>2. Start(x, i + 1) = x[i]
        BY <3>2 DEF Start
      <4>3. x[i] \in Nat /\ x[i + 1] \in Nat
        BY <4>1
      <4>4. x[i] + 2 <= x[i + 1]
        BY <1>1, <4>2
      <4> QED
        BY <4>1, <4>3, <4>4
    <3> QED
      BY <3>1, <3>2
  <2>3. Nat \subseteq S
    <3> HIDE DEF S
    <3> QED
      BY <2>1, <2>2, Induction
  <2> QED
    BY <2>3
<1>3. EndOf(x) \in 0..Len(b) /\ 2 * Len(x) <= EndOf(x)
  <2>1. CASE x = <<>>
    BY <2>1 DEF EndOf
  <2>2. CASE x # <<>>
    <3>1. Len(x) \in 1..Len(x) /\ x[Len(x)] \in Nat
      BY <2>2
    <3> QED
      BY <1>1, <1>2, <2>2, <3>1 DEF EndOf
  <2> QED
    BY <2>1, <2>2
<1>4. ASSUME NEW i \in 1..Len(x)
      PROVE  Start(x, i) < x[i]
  <2>1. x[i] \in Nat /\ Start(x, i) \in Nat /\ Start(x, i) + 2 <= x[i]
    BY <1>1
  <2> QED
    BY <2>1
<1> QED
  BY <1>1, <1>3, <1>4

\* What Extracted finds in a buffer: the messages in it one behind the other, and
\* all of them.
LEMMA Extracts ==
    ASSUME NEW b \in Seq(Nat)
    PROVE  /\ Extracted(b) \in Seq(Nat)
           /\ Chain(b, Extracted(b))
           /\ Stuck(b, EndOf(Extracted(b)))
<1> DEFINE E == Extraction(b)
           S == {n \in Nat : n <= Len(b) =>
                    Chain(b, E[n]) /\ (Stuck(b, EndOf(E[n])) \/ Len(E[n]) = n)}
<1>1. 0 \in S
  BY Unfolds DEF Chain
<1>2. ASSUME NEW n \in Nat, n \in S
      PROVE  n + 1 \in S
  <2> SUFFICES ASSUME n + 1 <= Len(b)
               PROVE  /\ Chain(b, E[n + 1])
                      /\ Stuck(b, EndOf(E[n + 1])) \/ Len(E[n + 1]) = n + 1
    OBVIOUS
  <2>1. n + 1 \in 1..Len(b) /\ n \in 0..Len(b) /\ (n + 1) - 1 = n
    OBVIOUS
  <2>2. E[n + 1] = More(b, E[n]) /\ E[n] \in Seq(Nat)
    BY <2>1, Unfolds
  <2>3. Chain(b, E[n]) /\ (Stuck(b, EndOf(E[n])) \/ Len(E[n]) = n)
    <3>1. n <= Len(b)
      BY <2>1
    <3> HIDE DEF E
    <3> QED
      BY <1>2, <3>1
  <2>4. Stuck(b, EndOf(E[n])) => More(b, E[n]) = E[n]
    BY <2>2, MoreTyped DEF Stuck, More
  <2> HIDE DEF E
  <2> QED
    BY <2>2, <2>3, <2>4, MoreChains
<1>3. Len(b) \in S
  <2> HIDE DEF S
  <2> QED
    BY <1>1, <1>2, Induction
<1>4. Extracted(b) = E[Len(b)] /\ E[Len(b)] \in Seq(Nat)
  BY Unfolds
<1>5. Chain(b, Extracted(b)) /\ (Stuck(b, EndOf(Extracted(b))) \/ Len(Extracted(b)) = Len(b))
  <2>1. Len(b) <= Len(b)
    OBVIOUS
  <2> HIDE DEF E
  <2> QED
    BY <1>3, <1>4, <2>1
<1> HIDE DEF E, S
<1>6. Len(Extracted(b)) = Len(b) => Stuck(b, EndOf(Extracted(b)))
  BY <1>4, <1>5, ChainBound DEF Stuck
<1> QED
  BY <1>4, <1>5, <1>6

\* The i-th message of a text b of n units, with a body of v units.
Message(b, n, x, i, from, v, to) ==
    /\ Start(x, i) = from /\ x[i] = to /\ Len(b) = n
    /\ from + 2 \in 1..n /\ b[from + 2] = v
    /\ to = from + 2 + v /\ to <= n

\* Each message of a text, with where it begins and how long it is.
LEMMA ChainAt ==
    ASSUME NEW b \in Seq(Nat), NEW x \in Seq(Nat), Chain(b, x), NEW i \in 1..Len(x)
    PROVE  \E from, v, to, n \in Nat : Message(b, n, x, i, from, v, to)
<1>0. Start(x, i) \in Nat /\ x[i] \in Nat /\ Len(b) \in Nat
  BY DEF Start
<1>1. PICK from \in Nat, to \in Nat, n \in Nat : Start(x, i) = from /\ x[i] = to /\ Len(b) = n
  BY <1>0
<1>2. Spans(b, from, to)
  BY <1>1 DEF Chain
<1>3. from + 2 \in 1..n
  BY <1>1, <1>2 DEF Spans
<1>4. PICK v \in Nat : b[from + 2] = v
  BY <1>1, <1>3
<1> QED
  BY <1>1, <1>2, <1>3, <1>4 DEF Spans, Message

\* The ends of messages rise.
LEMMA ChainRises ==
    ASSUME NEW b \in Seq(Nat), NEW x \in Seq(Nat), Chain(b, x),
           NEW i \in 1..Len(x), NEW j \in 1..Len(x), i < j
    PROVE  x[i] < x[j]
<1> DEFINE S == {n \in Nat : n \in 1..Len(x) /\ i < n => x[i] < x[n]}
<1>1. 0 \in S
  OBVIOUS
<1>2. ASSUME NEW n \in Nat, n \in S
      PROVE  n + 1 \in S
  <2> SUFFICES ASSUME n + 1 \in 1..Len(x), i < n + 1
               PROVE  x[i] < x[n + 1]
    OBVIOUS
  <2>1. n \in 1..Len(x) /\ Start(x, n + 1) = x[n] /\ x[i] \in Nat /\ x[n] \in Nat /\ x[n + 1] \in Nat
    BY DEF Start
  <2>2. Start(x, n + 1) < x[n + 1]
    BY ChainBound
  <2>3. i = n \/ x[i] < x[n]
    BY <1>2, <2>1
  <2> QED
    BY <2>1, <2>2, <2>3
<1>3. Nat \subseteq S
  <2> HIDE DEF S
  <2> QED
    BY <1>1, <1>2, Induction
<1>4. j \in Nat
  OBVIOUS
<1> QED
  BY <1>3, <1>4

\* Messages of a text are messages of every text that begins with it.
LEMMA ChainExtends ==
    ASSUME NEW b \in Seq(Nat), NEW c \in Seq(Nat), NEW x \in Seq(Nat), Chain(b, x),
           Len(b) <= Len(c), \A i \in 1..Len(b) : c[i] = b[i]
    PROVE  Chain(c, x)
<1> SUFFICES ASSUME NEW i \in 1..Len(x)
             PROVE  Spans(c, Start(x, i), x[i])
  BY DEF Chain
<1>0. PICK from, v, to, n \in Nat : Message(b, n, x, i, from, v, to)
  BY ChainAt
<1>1. /\ Start(x, i) = from /\ x[i] = to /\ Len(b) = n
      /\ from + 2 \in 1..n /\ b[from + 2] = v
      /\ to = from + 2 + v /\ to <= n
  BY <1>0 DEF Message
<1>2. c[from + 2] = v
  BY <1>1
<1>3. PICK k \in Nat : Len(c) = k
  OBVIOUS
<1>4. Spans(c, from, to)
  BY <1>1, <1>2, <1>3 DEF Spans
<1> QED
  BY <1>1, <1>4

\* What lies behind the last message does not matter.
LEMMA ChainCut ==
    ASSUME NEW b \in Seq(Nat), NEW x \in Seq(Nat), Chain(b, x)
    PROVE  Chain(Piece(b, 0, EndOf(x)), x)
<1> DEFINE n == EndOf(x)
           c == Piece(b, 0, n)
<1>1. n \in 0..Len(b)
  BY ChainBound
<1>2. c \in Seq(Nat) /\ Len(c) = n /\ \A i \in 1..n : c[i] = b[i]
  <2>1. 0 \in Nat /\ n \in Nat /\ 0 <= n /\ n <= Len(b) /\ n - 0 = n
    BY <1>1
  <2> HIDE DEF n
  <2>2. \A i \in 1..n : 0 + i = i
    OBVIOUS
  <2>3. c \in Seq(Nat) /\ Len(c) = n
    BY <2>1, PieceType
  <2>4. ASSUME NEW i \in 1..n
        PROVE  c[i] = b[i]
    BY <2>1, <2>2, PieceAt
  <2> QED
    BY <2>3, <2>4
<1>3. ASSUME NEW i \in 1..Len(x)
      PROVE  Spans(c, Start(x, i), x[i])
  <2>0. PICK from, v, to, l \in Nat : Message(b, l, x, i, from, v, to)
    BY ChainAt
  <2>1. /\ Start(x, i) = from /\ x[i] = to /\ Len(b) = l
        /\ from + 2 \in 1..l /\ b[from + 2] = v
        /\ to = from + 2 + v /\ to <= l
    BY <2>0 DEF Message
  <2>2. PICK k \in Nat : k = n
    BY <1>1
  <2>3. to <= k
    <3>1. n = x[Len(x)] /\ Len(x) \in 1..Len(x) /\ (i = Len(x) \/ i < Len(x))
      BY DEF EndOf
    <3> HIDE DEF n
    <3>2. i < Len(x) => x[i] < x[Len(x)]
      BY <3>1, ChainRises
    <3> QED
      BY <2>1, <2>2, <3>1, <3>2
  <2> HIDE DEF n, c
  <2>4. from + 2 \in 1..k
    BY <2>1, <2>3
  <2>5. Len(c) = k /\ c[from + 2] = v
    BY <1>2, <2>1, <2>2, <2>4
  <2>6. Spans(c, from, to)
    BY <2>1, <2>3, <2>4, <2>5 DEF Spans
  <2> QED
    BY <2>1, <2>6
<1> QED
  BY <1>2, <1>3 DEF Chain

\* A text has one parse: two of them agree as far as both go.
LEMMA ChainsAgree ==
    ASSUME NEW b \in Seq(Nat), NEW x \in Seq(Nat), NEW y \in Seq(Nat),
           Chain(b, x), Chain(b, y)
    PROVE  \A i \in 1..Len(x) : i <= Len(y) => x[i] = y[i]
<1> DEFINE S == {n \in Nat : n \in 1..Len(x) /\ n <= Len(y) => x[n] = y[n]}
<1>1. 0 \in S
  OBVIOUS
<1>2. ASSUME NEW n \in Nat, n \in S
      PROVE  n + 1 \in S
  <2> SUFFICES ASSUME n + 1 \in 1..Len(x), n + 1 <= Len(y)
               PROVE  x[n + 1] = y[n + 1]
    OBVIOUS
  <2>1. Start(x, n + 1) = Start(y, n + 1)
    BY <1>2 DEF Start
  <2>2. Spans(b, Start(x, n + 1), x[n + 1]) /\ Spans(b, Start(y, n + 1), y[n + 1])
    BY DEF Chain
  <2> QED
    BY <2>1, <2>2 DEF Spans
<1>3. Nat \subseteq S
  <2> HIDE DEF S
  <2> QED
    BY <1>1, <1>2, Induction
<1> QED
  BY <1>3

\* z is the ends x and behind them the ends y, counted from l on.
Behind(z, x, y, l) ==
    /\ Len(z) = Len(x) + Len(y)
    /\ \A i \in 1..Len(x) : z[i] = x[i]
    /\ \A i \in 1..Len(y) : z[Len(x) + i] = l + y[i]

\* Behind whole messages, a second text is parsed as it is by itself.
LEMMA ChainJoin ==
    ASSUME NEW b \in Seq(Nat), NEW x \in Seq(Nat), Chain(b, x), EndOf(x) = Len(b),
           NEW c \in Seq(Nat), NEW y \in Seq(Nat), Chain(c, y),
           NEW z \in Seq(Nat), Behind(z, x, y, Len(b))
    PROVE  Chain(Cat(b, c), z) /\ EndOf(z) = Len(b) + EndOf(y)
<1>0. /\ Len(z) = Len(x) + Len(y)
      /\ \A i \in 1..Len(x) : z[i] = x[i]
      /\ \A i \in 1..Len(y) : z[Len(x) + i] = Len(b) + y[i]
  BY DEF Behind
<1> USE <1>0
<1> DEFINE d == Cat(b, c)
<1>1. /\ d \in Seq(Nat) /\ Len(d) = Len(b) + Len(c) /\ Len(b) <= Len(d)
      /\ \A i \in 1..Len(b) : d[i] = b[i]
      /\ \A i \in 1..Len(c) : d[Len(b) + i] = c[i]
  <2>1. d \in Seq(Nat) /\ Len(d) = Len(b) + Len(c)
    BY CatType
  <2>2. Len(b) <= Len(d)
    BY <2>1
  <2> QED
    BY <2>1, <2>2, CatLeft, CatRight
<1> HIDE DEF d
<1>2. ASSUME NEW i \in 1..Len(x)
      PROVE  Spans(d, Start(z, i), z[i])
  <2>1. Chain(d, x)
    BY <1>1, ChainExtends
  <2>2. z[i] = x[i] /\ (i # 1 => i - 1 \in 1..Len(x))
    OBVIOUS
  <2>3. Start(z, i) = Start(x, i)
    BY <2>2 DEF Start
  <2> QED
    BY <2>1, <2>2, <2>3 DEF Chain
<1>3. ASSUME NEW i \in 1..Len(y)
      PROVE  Spans(d, Start(z, Len(x) + i), z[Len(x) + i])
  <2>0. PICK from, v, to, n \in Nat : Message(c, n, y, i, from, v, to)
    BY ChainAt
  <2>1. /\ Start(y, i) = from /\ y[i] = to /\ Len(c) = n
        /\ from + 2 \in 1..n /\ c[from + 2] = v
        /\ to = from + 2 + v /\ to <= n
    BY <2>0 DEF Message
  <2>2. PICK l \in Nat, k \in Nat : Len(b) = l /\ Len(x) = k
    OBVIOUS
  <2>3. Start(z, Len(x) + i) = l + from
    <3>1. CASE i = 1
      <4>1. CASE x = <<>>
        BY <2>1, <2>2, <3>1, <4>1 DEF Start, EndOf
      <4>2. CASE x # <<>>
        <5>1. k \in 1..Len(x) /\ (k + i) - 1 = k /\ k + i # 1
          BY <2>2, <3>1, <4>2
        <5>2. z[k] = l
          BY <2>2, <4>2, <5>1 DEF EndOf
        <5> QED
          BY <2>1, <2>2, <3>1, <5>1, <5>2 DEF Start
      <4> QED
        BY <4>1, <4>2
    <3>2. CASE i # 1
      <4>1. i - 1 \in 1..Len(y) /\ (k + i) - 1 = k + (i - 1) /\ k + i # 1
        BY <3>2
      <4> QED
        BY <2>1, <2>2, <3>2, <4>1 DEF Start
    <3> QED
      BY <3>1, <3>2
  <2>4. (l + from) + 2 = l + (from + 2)
    OBVIOUS
  <2>5. d[(l + from) + 2] = v /\ Len(d) = l + n
    BY <1>1, <2>1, <2>2, <2>4
  <2>6. z[Len(x) + i] = l + to
    BY <2>1, <2>2
  <2>7. Spans(d, l + from, l + to)
    BY <2>1, <2>5 DEF Spans
  <2> QED
    BY <2>3, <2>6, <2>7
<1>4. Chain(d, z)
  <2> SUFFICES ASSUME NEW k \in 1..Len(z)
               PROVE  Spans(d, Start(z, k), z[k])
    BY DEF Chain
  <2>1. CASE k <= Len(x)
    BY <1>2, <2>1
  <2>2. CASE k > Len(x)
    <3>1. k - Len(x) \in 1..Len(y) /\ Len(x) + (k - Len(x)) = k
      BY <2>2
    <3> QED
      BY <1>3, <3>1
  <2> QED
    BY <2>1, <2>2
<1>5. EndOf(z) = Len(b) + EndOf(y)
  <2>1. CASE y = <<>>
    <3>1. Len(y) = 0 /\ EndOf(y) = 0
      BY <2>1 DEF EndOf
    <3>2. Len(z) = Len(x) /\ Len(x) \in Nat /\ Len(b) \in Nat
      BY <3>1
    <3>3. z = x
      BY <3>2, SeqEqual
    <3> QED
      BY <3>1, <3>2, <3>3
  <2>2. CASE y # <<>>
    <3>1. Len(y) \in 1..Len(y) /\ z[Len(z)] = Len(b) + y[Len(y)] /\ z # <<>>
      BY <2>2
    <3> QED
      BY <2>2, <3>1 DEF EndOf
  <2> QED
    BY <2>1, <2>2
<1> QED
  BY <1>4, <1>5 DEF d

\* What is left behind the last message of a buffer holds no message either.
LEMMA StuckRest ==
    ASSUME NEW b \in Seq(Nat), NEW u \in 0..Len(b), Stuck(b, u)
    PROVE  Stuck(Piece(b, u, Len(b)), 0)
<1> DEFINE h == Piece(b, u, Len(b))
<1>1. PICK n \in Nat, k \in Nat : n = Len(b) /\ k = u /\ k <= n
  OBVIOUS
<1>2. Len(h) = n - k /\ \A i \in 1..(n - k) : h[i] = b[k + i]
  <2>1. h = Piece(b, k, n) /\ n <= Len(b)
    BY <1>1
  <2>2. Len(h) = n - k
    BY <1>1, <2>1, PieceType
  <2>0. k <= n /\ n <= Len(b)
    BY <1>1, <2>1
  <2>3. ASSUME NEW i \in 1..(n - k)
        PROVE  h[i] = b[k + i]
    <3>1. Piece(b, k, n)[i] = b[k + i]
      BY ONLY b \in Seq(Nat), k \in Nat, n \in Nat, <2>0, PieceAt
    <3> QED
      BY <2>1, <3>1
  <2> QED
    BY <2>2, <2>3
<1> HIDE DEF h
<1>3. ASSUME 2 <= n - k
      PROVE  2 + h[2] > n - k
  <2>1. 2 \in 1..(n - k) /\ k + 2 \in 1..n
    BY <1>1, <1>3
  <2>2. PICK v \in Nat : b[k + 2] = v
    BY <1>1, <2>1
  <2>3. h[2] = v
    BY <1>2, <2>1, <2>2
  <2>4. k + 2 + v > n
    BY <1>1, <2>1, <2>2 DEF Stuck
  <2> QED
    BY <2>3, <2>4
<1>4. Stuck(h, 0)
  BY <1>2, <1>3 DEF Stuck
<1> QED
  BY <1>4 DEF h

\* The ends of messages, counted from further back.
LEMMA Shifted ==
    ASSUME NEW x \in Seq(Nat), NEW l \in Nat
    PROVE  /\ [i \in DOMAIN x |-> l + x[i]] \in Seq(Nat)
           /\ Len([i \in DOMAIN x |-> l + x[i]]) = Len(x)
           /\ \A i \in 1..Len(x) : [j \in DOMAIN x |-> l + x[j]][i] = l + x[i]
<1> DEFINE y == [i \in DOMAIN x |-> l + x[i]]
<1>1. DOMAIN x = 1..Len(x) /\ Len(x) \in Nat
  OBVIOUS
<1>2. y \in [1..Len(x) -> Nat] /\ \A i \in 1..Len(x) : y[i] = l + x[i]
  BY <1>1
<1> HIDE DEF y
<1>3. y \in Seq(Nat)
  BY <1>1, <1>2, SeqDef
<1>4. Len(y) = Len(x)
  BY <1>1, <1>2, <1>3, LenProperties
<1> QED
  BY <1>2, <1>3, <1>4 DEF y

\* The reader's step: what Extracted finds in the buffer goes to the messages
\* handed up, the rest stays in the buffer, and nothing is between them.
LEMMA ParseOn ==
    ASSUME NEW t \in Seq(Nat), NEW e \in Seq(Nat), NEW b \in Seq(Nat),
           Chain(t, e), EndOf(e) = Len(t),
           NEW x, x = Extracted(b), NEW u, u = EndOf(x),
           NEW h2, h2 = Piece(b, u, Len(b)),
           NEW t2, t2 = Cat(t, Piece(b, 0, u)),
           NEW e2, e2 = Cat(e, [i \in DOMAIN x |-> Len(t) + x[i]])
    PROVE  /\ t2 \in Seq(Nat) /\ e2 \in Seq(Nat) /\ h2 \in Seq(Nat)
           /\ Chain(t2, e2) /\ EndOf(e2) = Len(t2)
           /\ Stuck(h2, 0)
           /\ Cat(t2, h2) = Cat(t, b)
<1>1. x \in Seq(Nat) /\ Chain(b, x) /\ Stuck(b, u)
  BY Extracts
<1>2. u \in 0..Len(b)
  BY <1>1, ChainBound
<1>3. u \in Nat /\ Len(b) \in Nat /\ 0 \in Nat /\ 0 <= u /\ u <= Len(b) /\ u - 0 = u /\ Len(t) \in Nat
  BY <1>2
<1>4. PICK c \in Seq(Nat) : c = Piece(b, 0, u) /\ Len(c) = u /\ Chain(c, x)
  <2>1. Piece(b, 0, u) \in Seq(Nat) /\ Len(Piece(b, 0, u)) = u
    BY <1>3, PieceType
  <2>2. Chain(Piece(b, 0, u), x)
    BY <1>1, ChainCut
  <2> QED
    BY <2>1, <2>2
<1> DEFINE y == [i \in DOMAIN x |-> Len(t) + x[i]]
<1>5. y \in Seq(Nat) /\ Len(y) = Len(x) /\ \A i \in 1..Len(x) : y[i] = Len(t) + x[i]
  BY <1>1, <1>3, Shifted
<1>6. e2 = Cat(e, y) /\ t2 = Cat(t, c)
  BY <1>4
<1> HIDE DEF y
<1>7. e2 \in Seq(Nat) /\ Len(e2) = Len(e) + Len(x)
  BY <1>5, <1>6, CatType
<1>8. \A i \in 1..Len(e) : e2[i] = e[i]
  BY <1>5, <1>6, CatLeft
<1>9. \A i \in 1..Len(x) : e2[Len(e) + i] = Len(t) + x[i]
  <2> SUFFICES ASSUME NEW i \in 1..Len(x)
               PROVE  e2[Len(e) + i] = Len(t) + x[i]
    OBVIOUS
  <2>1. i \in 1..Len(y) /\ y[i] = Len(t) + x[i]
    BY <1>5
  <2>2. Cat(e, y)[Len(e) + i] = y[i]
    BY <1>5, <2>1, CatRight
  <2> QED
    BY <1>6, <2>1, <2>2
<1>10. t2 \in Seq(Nat) /\ Len(t2) = Len(t) + u
  <2>1. Cat(t, c) \in Seq(Nat) /\ Len(Cat(t, c)) = Len(t) + Len(c)
    BY CatType
  <2> QED
    BY <1>4, <1>6, <2>1
<1>11. Chain(t2, e2) /\ EndOf(e2) = Len(t2)
  <2>1. Chain(Cat(t, c), e2) /\ EndOf(e2) = Len(t) + EndOf(x)
    <3>1. t \in Seq(Nat) /\ e \in Seq(Nat) /\ c \in Seq(Nat) /\ x \in Seq(Nat) /\ e2 \in Seq(Nat)
      BY <1>1, <1>7
    <3>2. Chain(t, e) /\ EndOf(e) = Len(t) /\ Chain(c, x)
      BY <1>4
    <3>3. Behind(e2, e, x, Len(t))
      BY <1>7, <1>8, <1>9 DEF Behind
    <3> QED
      BY ONLY <3>1, <3>2, <3>3, ChainJoin
  <2> QED
    BY <1>6, <1>10, <2>1
<1>12. h2 \in Seq(Nat)
  BY <1>3, PieceType
<1>13. Stuck(h2, 0)
  BY <1>1, <1>2, StuckRest
<1>14. Cat(t2, h2) = Cat(t, b)
  <2>1. Cat(c, h2) = Piece(b, 0, Len(b))
    BY <1>3, <1>4, PiecesJoin
  <2>2. Cat(c, h2) = b
    BY <2>1, PieceAll
  <2>3. Cat(Cat(t, c), h2) = Cat(t, Cat(c, h2))
    BY <1>12, CatAssociates
  <2> QED
    BY <1>6, <2>2, <2>3
<1> QED
  BY <1>7, <1>10, <1>11, <1>12, <1>13, <1>14

\* A bounded set of numbers has a largest one.
LEMMA Largest ==
    ASSUME NEW n \in Nat, NEW S \in SUBSET (0..n), S # {}
    PROVE  \E m \in S : \A y \in S : m >= y
<1> DEFINE T == {k \in Nat : \A Q \in SUBSET (0..k) : Q # {} => \E m \in Q : \A y \in Q : m >= y}
<1>1. 0 \in T
  <2> SUFFICES ASSUME NEW Q \in SUBSET (0..0), Q # {}
               PROVE  \E m \in Q : \A y \in Q : m >= y
    OBVIOUS
  <2>0. \A y \in 0..0 : y = 0
    OBVIOUS
  <2>1. 0 \in Q /\ \A y \in Q : y = 0
    BY <2>0, Zenon
  <2> QED
    BY <2>1
<1>2. ASSUME NEW k \in Nat, k \in T
      PROVE  k + 1 \in T
  <2> SUFFICES ASSUME NEW Q \in SUBSET (0..(k + 1)), Q # {}
               PROVE  \E m \in Q : \A y \in Q : m >= y
    OBVIOUS
  <2>1. CASE k + 1 \in Q
    BY <2>1
  <2>2. CASE k + 1 \notin Q
    <3>1. Q \in SUBSET (0..k)
      BY <2>2
    <3> QED
      BY <1>2, <3>1
  <2> QED
    BY <2>1, <2>2
<1>3. n \in T
  <2> HIDE DEF T
  <2>1. Nat \subseteq T
    BY <1>1, <1>2, Induction
  <2> QED
    BY <2>1
<1> QED
  BY <1>3

\* Stripping takes zeros off the end, all of them and nothing else.
LEMMA Strips ==
    ASSUME NEW c \in Seq(Nat)
    PROVE  \E m \in 0..Len(c) :
             /\ Stripped(c) = SubSeq(c, 1, m)
             /\ \A i \in (m + 1)..Len(c) : c[i] = 0
             /\ m # 0 => c[m] # 0
<1> DEFINE S == {0} \union {i \in DOMAIN c : c[i] # 0}
           P(m) == m \in S /\ \A y \in S : m >= y
<1>1. Stripped(c) = SubSeq(c, 1, Max(S))
  BY DEF Stripped
<1>2. S \in SUBSET (0..Len(c)) /\ S # {} /\ Len(c) \in Nat
  <2>1. DOMAIN c = 1..Len(c) /\ Len(c) \in Nat
    OBVIOUS
  <2> QED
    BY <2>1
<1>3. \E m : P(m)
  BY <1>2, Largest
<1>4. P(Max(S))
  <2>1. Max(S) = CHOOSE m : P(m)
    BY DEF Max
  <2> HIDE DEF P, S
  <2> QED
    BY <1>3, <2>1
<1>5. PICK m \in 0..Len(c) : m = Max(S)
  BY <1>2, <1>4
<1>6. \A i \in (m + 1)..Len(c) : c[i] = 0
  <2> SUFFICES ASSUME NEW i \in (m + 1)..Len(c), c[i] # 0
               PROVE  FALSE
    OBVIOUS
  <2>1. i \in DOMAIN c
    OBVIOUS
  <2>2. m >= i
    BY <1>4, <1>5, <2>1
  <2> QED
    BY <2>2
<1>7. m # 0 => c[m] # 0
  BY <1>4, <1>5
<1> QED
  BY <1>1, <1>5, <1>6, <1>7

-----------------------------------------------------------------------------
(***************************************************************************)
(* What the steps do.                                                      *)
(***************************************************************************)

\* The record that is written.
Wrote(r) ==
    /\ stream' \in Seq(Records) /\ Len(stream') = Len(stream) + 1
    /\ stream'[Len(stream) + 1] = r
    /\ \A i \in 1..Len(stream) : stream'[i] = stream[i]
    /\ Len(stream) < MaxRecords
    /\ r.key = key["writer"] /\ r.num = num["writer"] /\ r.upto = off'
    /\ off' \in off..Len(transcript["writer"])
    /\ r.content = Piece(transcript["writer"], off, off')
    /\ r.type = "data" => off' = off
    /\ num' \in [Parties -> Nat] /\ num'["reader"] = num["reader"]
    /\ key["writer"] # None => num'["writer"] = num["writer"] + 1
    /\ UNCHANGED <<transcript, ends, secret, key, historyVars, readerVars>>

\* Either call of send_record writes a piece of the transcript, under the key and
\* the number of the writer.
LEMMA WriteEffect ==
    ASSUME Types, SendHandshake \/ SendData
    PROVE  \E r \in Records : Wrote(r)
<1>1. /\ transcript["writer"] \in Seq(Nat) /\ off \in Nat /\ Len(transcript["writer"]) \in Nat
      /\ off <= Len(transcript["writer"])
      /\ stream \in Seq(Records) /\ key["writer"] \in Keys /\ num \in [Parties -> Nat]
      /\ "writer" \in Parties /\ "reader" \in Parties
  BY DEF Types, Parties
<1>2. PICK type \in {"handshake", "data"}, content \in {Piece(transcript["writer"], off, off')} :
        /\ Write(type, content)
        /\ off' \in off..Len(transcript["writer"])
        /\ content = Piece(transcript["writer"], off, off')
        /\ type = "data" => off' = off
  <2>1. CASE SendHandshake
    <3>1. PICK n \in (off + 1)..Len(transcript["writer"]) :
            off' = n /\ Write("handshake", SubSeq(transcript["writer"], off + 1, n))
      BY <2>1 DEF SendHandshake
    <3>2. off' \in off..Len(transcript["writer"])
      BY <1>1, <3>1
    <3>3. Write("handshake", Piece(transcript["writer"], off, off'))
      BY <3>1 DEF Piece
    <3> QED
      BY <3>2, <3>3, Zenon
  <2>2. CASE SendData
    <3>1. SubSeq(transcript["writer"], off + 1, off) = <<>>
      BY <1>1, SubSeqEmpty
    <3>2. off' \in off..Len(transcript["writer"]) /\ off' = off
      BY <1>1, <2>2 DEF SendData
    <3>3. Write("data", Piece(transcript["writer"], off, off'))
      BY <2>2, <3>1, <3>2 DEF SendData, Piece
    <3> QED
      BY <3>2, <3>3, Zenon
  <2> QED
    BY <2>1, <2>2
<1>3. content \in Seq(Nat) /\ off' \in Nat
  <2>1. PICK n \in Nat : n = off' /\ off <= n /\ n <= Len(transcript["writer"])
    BY <1>1, <1>2
  <2> QED
    BY <1>1, <1>2, <2>1, PieceType
<1> DEFINE r == [type |-> type, content |-> content, upto |-> off',
                 key |-> key["writer"], num |-> num["writer"]]
<1>4. r \in Records
  BY <1>1, <1>3 DEF Records
<1>5. /\ stream' = Append(stream, r) /\ Len(stream) < MaxRecords
      /\ num' = IF key["writer"] = None THEN num ELSE [num EXCEPT !["writer"] = @ + 1]
      /\ UNCHANGED <<transcript, ends, secret, key, historyVars, readerVars>>
  BY <1>2 DEF Write
<1>6. /\ r.type = type /\ r.content = content /\ r.upto = off'
      /\ r.key = key["writer"] /\ r.num = num["writer"]
  OBVIOUS
<1> HIDE DEF r
<1>7. /\ stream' \in Seq(Records) /\ Len(stream') = Len(stream) + 1
      /\ stream'[Len(stream) + 1] = r
      /\ \A i \in 1..Len(stream) : stream'[i] = stream[i]
  BY <1>1, <1>4, <1>5, AppendProperties
<1>8. /\ num' \in [Parties -> Nat] /\ num'["reader"] = num["reader"]
      /\ key["writer"] # None => num'["writer"] = num["writer"] + 1
  BY <1>1, <1>5
<1>9. Wrote(r)
  BY <1>2, <1>5, <1>6, <1>7, <1>8 DEF Wrote
<1> QED
  BY <1>4, <1>9

\* What the reader does with a record that it has unprotected.
Processed(r, c) ==
    /\ read' = read \union {pos + 1} /\ lost' = lost
    /\ hbuf' \in Seq(Nat)
    /\ transcript' \in [Parties -> Seq(Nat)] /\ ends' \in [Parties -> Seq(Nat)]
    /\ transcript'["writer"] = transcript["writer"] /\ ends'["writer"] = ends["writer"]
    /\ Handed'
    /\ \E m \in Seq(Nat) : transcript'["reader"] = Cat(transcript["reader"], m)
    /\ Text' = IF r.type = "handshake" THEN Cat(Text, c) ELSE Text

\* What Extracted finds goes to the messages handed up, nothing between it and the
\* rest that stays in the buffer.
LEMMA ProcessEffect ==
    ASSUME Types, Handed, NEW r, NEW c \in Seq(Nat), Process(r, c)
    PROVE  Processed(r, c)
<1>1. /\ transcript \in [Parties -> Seq(Nat)] /\ ends \in [Parties -> Seq(Nat)] /\ hbuf \in Seq(Nat)
      /\ "writer" \in Parties /\ "reader" \in Parties
  BY DEF Types, Parties
<1>2. read' = read \union {pos + 1} /\ lost' = lost
  BY DEF Process
<1>3. CASE r.type = "handshake"
  <2> DEFINE t == transcript["reader"]
             e == ends["reader"]
             b == Cat(hbuf, c)
             x == Extracted(b)
             u == EndOf(x)
             p == Piece(b, 0, u)
             f == [i \in DOMAIN x |-> Len(t) + x[i]]
  <2>1. /\ hbuf' = Piece(b, u, Len(b))
        /\ transcript' = [transcript EXCEPT !["reader"] = Cat(t, p)]
        /\ ends' = [ends EXCEPT !["reader"] = Cat(e, f)]
    <3>1. 0 + 1 = 1
      OBVIOUS
    <3> QED
      BY <1>3, <3>1 DEF Process, Cat, Piece, EndOf, Last
  <2>2. t \in Seq(Nat) /\ e \in Seq(Nat) /\ b \in Seq(Nat)
    BY <1>1, CatType
  <2>3. Chain(t, e) /\ EndOf(e) = Len(t)
    BY DEF Handed
  <2>4. p \in Seq(Nat)
    <3>1. x \in Seq(Nat) /\ Chain(b, x)
      BY <2>2, Extracts
    <3>2. u \in 0..Len(b) /\ 0 \in Nat
      BY <2>2, <3>1, ChainBound
    <3>3. u \in Nat /\ 0 <= u /\ u <= Len(b)
      BY <3>2
    <3> QED
      BY <2>2, <3>2, <3>3, PieceType
  <2> HIDE DEF t, e, b, x, u, p, f
  <2>5. transcript'["reader"] = Cat(t, p) /\ ends'["reader"] = Cat(e, f)
    BY <1>1, <2>1
  <2>6. /\ Cat(t, p) \in Seq(Nat) /\ Cat(e, f) \in Seq(Nat) /\ hbuf' \in Seq(Nat)
        /\ Chain(Cat(t, p), Cat(e, f)) /\ EndOf(Cat(e, f)) = Len(Cat(t, p))
        /\ Stuck(hbuf', 0)
        /\ Cat(Cat(t, p), hbuf') = Cat(t, b)
    BY <2>1, <2>2, <2>3, ParseOn DEF x, u, p, f
  <2>7. Handed'
    BY <2>5, <2>6 DEF Handed
  <2>8. Text' = Cat(Text, c)
    <3>1. Text' = Cat(Cat(t, p), hbuf')
      BY <2>5 DEF Text
    <3>2. Cat(Cat(t, hbuf), c) = Cat(t, Cat(hbuf, c))
      BY <1>1, <2>2, CatAssociates
    <3> QED
      BY <2>6, <3>1, <3>2 DEF Text, t, b
  <2>9. /\ transcript' \in [Parties -> Seq(Nat)] /\ ends' \in [Parties -> Seq(Nat)]
        /\ transcript'["writer"] = transcript["writer"] /\ ends'["writer"] = ends["writer"]
    BY <1>1, <2>1, <2>6
  <2>10. \E m \in Seq(Nat) : transcript'["reader"] = Cat(transcript["reader"], m)
    BY <2>4, <2>5 DEF t
  <2> QED
    BY <1>2, <1>3, <2>6, <2>7, <2>8, <2>9, <2>10 DEF Processed
<1>4. CASE r.type # "handshake"
  <2>1. UNCHANGED <<hbuf, transcript, ends>>
    BY <1>4 DEF Process
  <2>2. Cat(transcript["reader"], <<>>) = transcript["reader"] /\ <<>> \in Seq(Nat)
    BY <1>1, ConcatEmptySeq DEF Cat
  <2> QED
    BY <1>1, <1>2, <1>4, <2>1, <2>2 DEF Processed, Handed, Text
<1> QED
  BY <1>3, <1>4

\* A record is taken as it is before the reader has keys, and without the zeros at
\* the end of its content afterwards.
Plainly(r) ==
    /\ key["reader"] = None /\ r.key = None
    /\ Processed(r, r.content)
    /\ UNCHANGED <<cut, num>>

Securely(r) ==
    /\ key["reader"] # None
    /\ r.key = key["reader"] /\ r.num = num["reader"]
    /\ num' \in [Parties -> Nat]
    /\ num'["reader"] = num["reader"] + 1 /\ num'["writer"] = num["writer"]
    /\ \E m \in 0..Len(r.content) :
         /\ Processed(r, Piece(r.content, 0, m))
         /\ \A i \in (m + 1)..Len(r.content) : r.content[i] = 0
         /\ m # 0 => r.content[m] # 0
         /\ cut' = IF m = Len(r.content) THEN cut
                   ELSE cut \union {r.upto - Len(r.content) + m + 1}

Received(r) ==
    /\ pos' = pos + 1 /\ pos' \in 1..Len(stream) /\ r = stream[pos + 1]
    /\ UNCHANGED <<off, stream, secret, key, historyVars>>
    /\ Plainly(r) \/ Securely(r) \/ ReceiveLost(r)

\* One turn of receive_data is one of the three.
LEMMA ReceiveEffect ==
    ASSUME Types, Handed, Receive
    PROVE  \E r \in Records : Received(r)
<1>1. pos \in Nat /\ Len(stream) \in Nat /\ stream \in Seq(Records) /\ num \in [Parties -> Nat]
      /\ "reader" \in Parties /\ "writer" \in Parties
  BY DEF Types, Parties
<1>2. /\ pos < Len(stream) /\ pos' = pos + 1
      /\ UNCHANGED <<off, stream, secret, key, historyVars>>
      /\ \/ ReceivePlain(stream[pos + 1]) \/ ReceiveProtected(stream[pos + 1])
         \/ ReceiveLost(stream[pos + 1])
  BY DEF Receive, writerVars
<1>3. pos + 1 \in 1..Len(stream)
  BY <1>1, <1>2
<1>4. PICK r \in Records : r = stream[pos + 1]
  BY <1>1, <1>3
<1>5. r.content \in Seq(Nat)
  BY DEF Records
<1>6. CASE ReceivePlain(r)
  <2>1. Process(r, r.content) /\ key["reader"] = None /\ r.key = None /\ UNCHANGED <<cut, num>>
    BY <1>6 DEF ReceivePlain
  <2>2. Plainly(r)
    BY <1>5, <2>1, ProcessEffect DEF Plainly
  <2> QED
    BY <1>2, <1>3, <1>4, <2>2 DEF Received
<1>7. CASE ReceiveProtected(r)
  <2>1. PICK m \in 0..Len(r.content) :
          /\ Stripped(r.content) = Piece(r.content, 0, m)
          /\ \A i \in (m + 1)..Len(r.content) : r.content[i] = 0
          /\ m # 0 => r.content[m] # 0
    <3>1. 0 + 1 = 1
      OBVIOUS
    <3> QED
      BY <1>5, <3>1, Strips DEF Piece
  <2>2. Len(r.content) \in Nat /\ m \in Nat /\ 0 \in Nat /\ 0 <= m /\ m <= Len(r.content) /\ m - 0 = m
    BY <1>5
  <2>3. Piece(r.content, 0, m) \in Seq(Nat) /\ Len(Piece(r.content, 0, m)) = m
    BY <1>5, <2>2, PieceType
  <2>4. Process(r, Piece(r.content, 0, m))
    BY <1>7, <2>1 DEF ReceiveProtected
  <2>5. Processed(r, Piece(r.content, 0, m))
    BY <2>3, <2>4, ProcessEffect
  <2>6. cut' = IF m = Len(r.content) THEN cut
               ELSE cut \union {r.upto - Len(r.content) + m + 1}
    BY <1>7, <2>1, <2>3 DEF ReceiveProtected
  <2>7. /\ key["reader"] # None /\ r.key = key["reader"] /\ r.num = num["reader"]
        /\ num' = [num EXCEPT !["reader"] = @ + 1]
    BY <1>7 DEF ReceiveProtected
  <2>8. /\ num' \in [Parties -> Nat]
        /\ num'["reader"] = num["reader"] + 1 /\ num'["writer"] = num["writer"]
    BY <1>1, <2>7
  <2>9. Securely(r)
    BY <2>1, <2>5, <2>6, <2>7, <2>8 DEF Securely
  <2> QED
    BY <1>2, <1>3, <1>4, <2>9 DEF Received
<1> QED
  BY <1>2, <1>3, <1>4, <1>6, <1>7 DEF Received

\* A message is put behind the transcript of the writer.
Composed(m) ==
    /\ 2 <= Len(m) /\ m[1] # 0 /\ m[2] # 0 /\ Len(m) = 2 + m[2]
    /\ transcript' \in [Parties -> Seq(Nat)] /\ ends' \in [Parties -> Seq(Nat)]
    /\ transcript'["writer"] = Cat(transcript["writer"], m)
    /\ transcript'["reader"] = transcript["reader"] /\ ends'["reader"] = ends["reader"]
    /\ Len(ends'["writer"]) = Len(ends["writer"]) + 1
    /\ Len(ends'["writer"]) <= MaxMsgs
    /\ \A i \in 1..Len(ends["writer"]) : ends'["writer"][i] = ends["writer"][i]
    /\ ends'["writer"][Len(ends["writer"]) + 1] = Len(transcript["writer"]) + Len(m)
    /\ UNCHANGED <<writerVars, keyVars, readerVars>>

\* Each of the four messages is whole and not empty.
LEMMA ComposeEffect ==
    ASSUME Types, Compose
    PROVE  \E m \in Seq(Nat) : Composed(m)
<1>1. /\ transcript \in [Parties -> Seq(Nat)] /\ ends \in [Parties -> Seq(Nat)]
      /\ "writer" \in Parties /\ "reader" \in Parties
  BY DEF Types, Parties
<1>2. PICK m \in Messages : transcript' = [transcript EXCEPT !["writer"] = @ \o m]
  BY DEF Compose
<1>3. m \in Seq(Nat) /\ 2 <= Len(m) /\ m[1] # 0 /\ m[2] # 0 /\ Len(m) = 2 + m[2]
  <2>1. CASE m = EncryptedExtensions
    BY <2>1 DEF EncryptedExtensions
  <2>2. CASE m = Certificate
    BY <2>2 DEF Certificate
  <2>3. CASE m = CertificateVerify
    BY <2>3 DEF CertificateVerify
  <2>4. CASE m = Finished
    BY <2>4 DEF Finished
  <2> QED
    BY <2>1, <2>2, <2>3, <2>4 DEF Messages
<1>4. /\ Len(ends["writer"]) < MaxMsgs /\ UNCHANGED <<writerVars, keyVars, readerVars>>
      /\ ends' = [ends EXCEPT !["writer"] = Append(@, Len(transcript'["writer"]))]
  BY DEF Compose
<1> DEFINE t == transcript["writer"]
           e == ends["writer"]
<1>5. t \in Seq(Nat) /\ e \in Seq(Nat)
  BY <1>1
<1>6. Cat(t, m) \in Seq(Nat) /\ Len(Cat(t, m)) = Len(t) + Len(m)
  BY <1>3, <1>5, CatType
<1>7. transcript' = [transcript EXCEPT !["writer"] = Cat(t, m)]
  BY <1>2 DEF Cat
<1>8. /\ transcript' \in [Parties -> Seq(Nat)] /\ transcript'["writer"] = Cat(t, m)
      /\ transcript'["reader"] = transcript["reader"]
  BY <1>1, <1>6, <1>7
<1>9. PICK l \in Nat : l = Len(t) + Len(m) /\ ends' = [ends EXCEPT !["writer"] = Append(e, l)]
  <2>1. Len(transcript'["writer"]) = Len(t) + Len(m)
    BY <1>6, <1>8
  <2>2. Len(t) + Len(m) \in Nat
    BY <1>3, <1>5
  <2> QED
    BY <1>4, <2>1, <2>2
<1>10. /\ ends' \in [Parties -> Seq(Nat)] /\ ends'["writer"] = Append(e, l)
       /\ ends'["reader"] = ends["reader"]
  BY <1>1, <1>9
<1> HIDE DEF t, e
<1>11. /\ Len(Append(e, l)) = Len(e) + 1 /\ Append(e, l)[Len(e) + 1] = l
       /\ \A i \in 1..Len(e) : Append(e, l)[i] = e[i]
  BY <1>5, AppendProperties
<1>12. Len(e) + 1 <= MaxMsgs
  BY <1>4, <1>5 DEF e
<1>13. Composed(m)
  BY <1>3, <1>4, <1>8, <1>9, <1>10, <1>11, <1>12 DEF Composed, t, e
<1> QED
  BY <1>3, <1>13

\* The keys that are made of nothing, of the handshake and of a transcript.
LEMMA KeyTypes ==
    /\ None \in Keys /\ HandshakeKey \in Keys
    /\ None.phase = 0 /\ HandshakeKey.phase = 1
    /\ \A t \in Seq(Nat) : ApplicationKey(t) \in Keys /\ ApplicationKey(t).phase = 2
<1>1. <<>> \in Seq(Nat) /\ 0 \in 0..2 /\ 1 \in 0..2 /\ 2 \in 0..2 /\ 0 \in Nat
  BY EmptySeq
<1>2. None \in Keys /\ None.phase = 0
  BY <1>1 DEF None, Keys
<1>3. HandshakeKey = [phase |-> 1, transcript |-> <<>>, updates |-> 0]
  BY DEF HandshakeKey, None
<1>4. HandshakeKey \in Keys /\ HandshakeKey.phase = 1
  BY <1>1, <1>3 DEF Keys
<1>5. \A t \in Seq(Nat) : ApplicationKey(t) \in Keys /\ ApplicationKey(t).phase = 2
  BY <1>1 DEF ApplicationKey, Keys
<1> QED
  BY <1>2, <1>4, <1>5

\* The keys an end can enable are made of something.
LEMMA HeldTypes ==
    ASSUME NEW e \in Parties, secret \in [Parties -> Keys], NEW k \in Held(e)
    PROVE  k \in Keys /\ k # None
<1>1. CASE k = HandshakeKey
  BY <1>1, KeyTypes
<1>2. CASE k \in {[secret[e] EXCEPT !.updates = u] : u \in 0..secret[e].updates} \ {None}
  <2>1. PICK s \in Keys : s = secret[e]
    OBVIOUS
  <2>2. PICK u \in 0..s.updates : k = [s EXCEPT !.updates = u]
    BY <1>2, <2>1
  <2>3. k = [phase |-> s.phase, transcript |-> s.transcript, updates |-> u]
    BY <2>2 DEF Keys
  <2>4. s.phase \in 0..2 /\ s.transcript \in Seq(Nat) /\ u \in Nat
    BY DEF Keys
  <2>5. k \in Keys
    BY <2>3, <2>4 DEF Keys
  <2> QED
    BY <1>2, <2>5
<1> QED
  BY <1>1, <1>2 DEF Held

\* What is left alone by the steps that only change keys.
OnlyKeys == UNCHANGED <<transcript, ends, writerVars, readerVars>>

\* An end keeps its keys.
Kept(d) ==
    key'[d] = key[d] /\ num'[d] = num[d] /\ enabled'[d] = enabled[d] /\ again'[d] = again[d]

\* An end enables keys, new ones or used ones: the numbers start at 0.
Enabled(d) ==
    /\ key'[d] # None /\ num'[d] = 0
    /\ enabled[d] \subseteq enabled'[d] /\ again[d] \subseteq again'[d]
    /\ key'[d] \in enabled'[d]
    /\ key'[d] \in enabled[d] => key'[d] \in again'[d]

\* A step that changes keys, or nothing.
Rekeyed ==
    /\ OnlyKeys
    /\ secret' \in [Parties -> Keys] /\ key' \in [Parties -> Keys]
    /\ \A d \in Parties : secret'[d].phase # 1
    /\ num' \in [Parties -> Nat]
    /\ History'
    /\ \A d \in Parties : Kept(d) \/ Enabled(d)

\* Derive, Update and Enable are such steps.
LEMMA KeyEffect ==
    ASSUME Types, NEW e \in Parties, Derive(e) \/ Update(e) \/ Enable(e)
    PROVE  Rekeyed
<1>1. /\ transcript[e] \in Seq(Nat) /\ secret \in [Parties -> Keys] /\ key \in [Parties -> Keys]
      /\ num \in [Parties -> Nat] /\ \A d \in Parties : secret[d].phase # 1
      /\ History
  BY DEF Types
<1>2. CASE Derive(e)
  <2>1. /\ secret' = [secret EXCEPT ![e] = ApplicationKey(transcript[e])]
        /\ UNCHANGED <<transcript, ends, key, num, historyVars, writerVars, readerVars>>
    BY <1>2 DEF Derive
  <2>2. ApplicationKey(transcript[e]) \in Keys /\ ApplicationKey(transcript[e]).phase = 2
    BY <1>1, KeyTypes
  <2> QED
    BY <1>1, <2>1, <2>2 DEF OnlyKeys, Rekeyed, Kept, History, historyVars
<1>3. CASE Update(e)
  <2>1. /\ secret' = [secret EXCEPT ![e] = [secret[e] EXCEPT !.updates = @ + 1]]
        /\ UNCHANGED <<transcript, ends, key, num, historyVars, writerVars, readerVars>>
    BY <1>1, <1>3 DEF Update
  <2>2. /\ [secret[e] EXCEPT !.updates = @ + 1] \in Keys
        /\ [secret[e] EXCEPT !.updates = @ + 1].phase # 1
    <3>1. PICK s \in Keys : s = secret[e]
      BY <1>1
    <3>2. s.phase \in 0..2 /\ s.transcript \in Seq(Nat) /\ s.updates + 1 \in Nat
      BY DEF Keys
    <3>3. [s EXCEPT !.updates = @ + 1] =
            [phase |-> s.phase, transcript |-> s.transcript, updates |-> s.updates + 1]
      BY DEF Keys
    <3>4. [s EXCEPT !.updates = @ + 1] \in Keys
      BY <3>2, <3>3 DEF Keys
    <3>5. [s EXCEPT !.updates = @ + 1].phase # 1
      BY <1>1, <3>1, <3>3
    <3> QED
      BY <3>1, <3>4, <3>5
  <2> QED
    BY <1>1, <2>1, <2>2 DEF OnlyKeys, Rekeyed, Kept, History, historyVars
<1>4. CASE Enable(e)
  <2>1. PICK k \in Held(e) :
          /\ key' = [key EXCEPT ![e] = k]
          /\ enabled' = [enabled EXCEPT ![e] = @ \union {k}]
          /\ again' = [again EXCEPT ![e] = IF k \in enabled[e] THEN @ \union {k} ELSE @]
    BY <1>4 DEF Enable, Use
  <2>2. /\ num' = [num EXCEPT ![e] = 0]
        /\ UNCHANGED <<transcript, ends, secret, writerVars, readerVars>>
    BY <1>4 DEF Enable
  <2>3. k \in Keys /\ k # None
    BY <1>1, <2>1, HeldTypes
  <2>4. key' \in [Parties -> Keys] /\ num' \in [Parties -> Nat]
    BY <1>1, <2>1, <2>2, <2>3
  <2>5. /\ enabled' \in [Parties -> SUBSET Keys]
        /\ again' \in [Parties -> SUBSET Keys]
    BY <1>1, <2>1, <2>3 DEF History
  <2>6. /\ key'[e] = k /\ num'[e] = 0 /\ enabled'[e] = enabled[e] \union {k}
        /\ again'[e] = IF k \in enabled[e] THEN again[e] \union {k} ELSE again[e]
        /\ \A d \in Parties \ {e} : Kept(d)
    BY <1>1, <2>1, <2>2 DEF History, Kept
  <2>7. History'
    <3> SUFFICES ASSUME NEW d \in Parties
                 PROVE  /\ again'[d] \subseteq enabled'[d]
                        /\ key'[d] # None => key'[d] \in enabled'[d]
      BY <2>5 DEF History
    <3>1. CASE d = e
      BY <1>1, <2>6, <3>1 DEF History
    <3>2. CASE d # e
      BY <1>1, <2>6, <3>2 DEF History, Kept
    <3> QED
      BY <3>1, <3>2
  <2>8. Enabled(e)
    BY <2>3, <2>6 DEF Enabled
  <2> QED
    BY <1>1, <2>2, <2>4, <2>6, <2>7, <2>8 DEF OnlyKeys, Rekeyed
<1> QED
  BY <1>2, <1>3, <1>4

\* The types are kept, and what the reader has been handed is whole messages.
LEMMA TypesInit == Init => Types /\ Handed
<1> SUFFICES ASSUME Init PROVE Types /\ Handed
  OBVIOUS
<1>1. <<>> \in Seq(Nat) /\ <<>> \in Seq(Records) /\ Len(<<>>) = 0
  BY EmptySeq
<1>2. /\ transcript["reader"] = <<>> /\ ends["reader"] = <<>> /\ hbuf = <<>>
      /\ transcript["writer"] = <<>> /\ ends["writer"] = <<>> /\ stream = <<>> /\ pos = 0 /\ off = 0
  BY DEF Init, Parties
<1>3. Handed
  BY <1>1, <1>2 DEF Handed, Chain, EndOf, Stuck
<1>4. /\ transcript \in [Parties -> Seq(Nat)] /\ ends \in [Parties -> Seq(Nat)]
      /\ secret \in [Parties -> Keys] /\ key \in [Parties -> Keys] /\ num \in [Parties -> Nat]
      /\ \A e \in Parties : secret[e].phase # 1
  BY <1>1, KeyTypes DEF Init
<1>5. 1..0 = {}
  OBVIOUS
<1>6. History
  BY DEF Init, History
<1> QED
  BY <1>1, <1>2, <1>3, <1>4, <1>5, <1>6 DEF Types, Init

\* Every step keeps the types, and leaves no whole message in the reader's buffer.
LEMMA TypesStep ==
    ASSUME Types, Handed, [Next]_vars
    PROVE  Types' /\ Handed'
<1>1. /\ transcript \in [Parties -> Seq(Nat)] /\ ends \in [Parties -> Seq(Nat)]
      /\ Len(ends["writer"]) <= MaxMsgs
      /\ off \in 0..Len(transcript["writer"])
      /\ stream \in Seq(Records) /\ Len(stream) <= MaxRecords
      /\ pos \in 0..Len(stream) /\ hbuf \in Seq(Nat)
      /\ secret \in [Parties -> Keys] /\ key \in [Parties -> Keys]
      /\ \A e \in Parties : secret[e].phase # 1
      /\ num \in [Parties -> Nat]
      /\ read \union lost = 1..pos /\ read \intersect lost = {}
      /\ "writer" \in Parties /\ "reader" \in Parties /\ History
  BY DEF Types, Parties
<1>2. ASSUME NEW e \in Parties, Derive(e) \/ Update(e) \/ Enable(e)
      PROVE  Types' /\ Handed'
  <2>1. /\ OnlyKeys
        /\ secret' \in [Parties -> Keys] /\ key' \in [Parties -> Keys]
        /\ \A d \in Parties : secret'[d].phase # 1
        /\ num' \in [Parties -> Nat] /\ History'
    BY <1>2, KeyEffect DEF Rekeyed
  <2>2. UNCHANGED <<transcript, ends, off, stream, pos, hbuf, read, lost>>
    BY <2>1 DEF OnlyKeys, writerVars, readerVars
  <2>3. Types'
    BY <2>1, <2>2 DEF Types
  <2>4. Handed'
    BY <2>2 DEF Handed
  <2> QED
    BY <2>3, <2>4
<1>3. CASE Compose
  <2>1. PICK m \in Seq(Nat) : Composed(m)
    BY <1>3, ComposeEffect
  <2>2. /\ UNCHANGED <<off, stream, pos, hbuf, read, lost, secret, key, num, enabled, again>>
        /\ transcript'["reader"] = transcript["reader"] /\ ends'["reader"] = ends["reader"]
    BY <2>1 DEF Composed, writerVars, readerVars, keyVars, historyVars
  <2>3. off \in 0..Len(transcript'["writer"])
    <3>1. Len(transcript'["writer"]) = Len(transcript["writer"]) + Len(m)
      BY <1>1, <2>1, CatType DEF Composed
    <3>2. PICK l \in Nat, n \in Nat, o \in Nat :
            l = Len(transcript["writer"]) /\ n = Len(m) /\ o = off /\ o <= l
      BY <1>1
    <3> QED
      BY <3>1, <3>2
  <2>4. /\ transcript' \in [Parties -> Seq(Nat)] /\ ends' \in [Parties -> Seq(Nat)]
        /\ Len(ends'["writer"]) <= MaxMsgs
    BY <2>1 DEF Composed
  <2>5. Types'
    BY <1>1, <2>2, <2>3, <2>4 DEF Types, History
  <2>6. Handed'
    BY <2>2 DEF Handed
  <2> QED
    BY <2>5, <2>6
<1>4. CASE SendHandshake \/ SendData
  <2>1. PICK r \in Records : Wrote(r)
    BY <1>4, WriteEffect
  <2>2. UNCHANGED <<transcript, ends, pos, hbuf, read, lost, secret, key, enabled, again>>
    BY <2>1 DEF Wrote, readerVars, historyVars
  <2>3. stream' \in Seq(Records) /\ num' \in [Parties -> Nat]
    BY <2>1 DEF Wrote
  <2>4. off' \in 0..Len(transcript["writer"])
    <3>1. PICK l \in Nat, o \in Nat : l = Len(transcript["writer"]) /\ o = off
      BY <1>1
    <3>2. off' \in o..l
      BY <2>1, <3>1 DEF Wrote
    <3> QED
      BY <3>1, <3>2
  <2>5. Len(stream') <= MaxRecords /\ pos \in 0..Len(stream')
    <3>1. PICK n \in Nat, p \in Nat : n = Len(stream) /\ p = pos /\ p <= n
      BY <1>1
    <3>2. Len(stream') = n + 1 /\ n < MaxRecords
      BY <2>1, <3>1 DEF Wrote
    <3> QED
      BY <3>1, <3>2
  <2>6. Types'
    BY <1>1, <2>2, <2>3, <2>4, <2>5 DEF Types, History
  <2>7. Handed'
    BY <2>2 DEF Handed
  <2> QED
    BY <2>6, <2>7
<1>5. CASE Receive
  <2>1. PICK r \in Records : Received(r)
    BY <1>5, ReceiveEffect
  <2>2. /\ pos' = pos + 1 /\ pos' \in 1..Len(stream)
        /\ UNCHANGED <<off, stream, secret, key, enabled, again>>
    BY <2>1 DEF Received, historyVars
  <2>3. /\ \/ read' = read \union {pos + 1} /\ lost' = lost
           \/ read' = read /\ lost' = lost \union {pos + 1}
        /\ transcript' \in [Parties -> Seq(Nat)] /\ ends' \in [Parties -> Seq(Nat)]
        /\ transcript'["writer"] = transcript["writer"] /\ ends'["writer"] = ends["writer"]
        /\ hbuf' \in Seq(Nat) /\ num' \in [Parties -> Nat] /\ Handed'
    <3>1. CASE Plainly(r)
      BY <1>1, <3>1 DEF Plainly, Processed
    <3>2. CASE Securely(r)
      BY <1>1, <3>2 DEF Securely, Processed
    <3>3. CASE ReceiveLost(r)
      <4>1. UNCHANGED <<transcript, ends, read, hbuf, num>> /\ lost' = lost \union {pos + 1}
        BY <3>3 DEF ReceiveLost
      <4>2. Handed'
        BY <4>1 DEF Handed
      <4> QED
        BY <1>1, <4>1, <4>2
    <3> QED
      BY <2>1, <3>1, <3>2, <3>3 DEF Received
  <2>4. read' \union lost' = 1..pos' /\ read' \intersect lost' = {}
    <3>1. PICK p \in Nat : p = pos
      BY <1>1
    <3>2. 1..(p + 1) = (1..p) \union {p + 1} /\ p + 1 \notin 1..p
      OBVIOUS
    <3> QED
      BY <1>1, <2>2, <2>3, <3>1, <3>2
  <2>5. pos' \in 0..Len(stream)
    BY <1>1, <2>2
  <2>6. Types'
    BY <1>1, <2>2, <2>3, <2>4, <2>5 DEF Types, History
  <2> QED
    BY <2>3, <2>6
<1>6. CASE UNCHANGED vars
  BY <1>6 DEF vars, writerVars, readerVars, keyVars, historyVars, Types, History, Handed
<1> QED
  BY <1>2, <1>3, <1>4, <1>5, <1>6 DEF Next
-----------------------------------------------------------------------------
(***************************************************************************)
(* Keys and record numbers.                                                *)
(***************************************************************************)

\* The four kinds of steps.
LEMMA StepKinds ==
    ASSUME Types, Handed, [Next]_vars
    PROVE  \/ Rekeyed
           \/ \E m \in Seq(Nat) : Composed(m)
           \/ \E r \in Records : Wrote(r)
           \/ \E r \in Records : Received(r)
<1>1. ASSUME NEW e \in Parties, Derive(e) \/ Update(e) \/ Enable(e)
      PROVE  Rekeyed
  BY <1>1, KeyEffect
<1>2. CASE UNCHANGED vars
  <2>1. OnlyKeys /\ UNCHANGED <<secret, key, num, enabled, again>>
    BY <1>2 DEF vars, keyVars, historyVars, OnlyKeys
  <2> QED
    BY <2>1 DEF Rekeyed, Kept, Types, History
<1> QED
  BY <1>1, <1>2, ComposeEffect, WriteEffect, ReceiveEffect DEF Next

\* The fields of the records in the stream.
LEMMA RecordTypes ==
    ASSUME stream \in Seq(Records)
    PROVE  \A i \in 1..Len(stream) :
             /\ stream[i] \in Records /\ stream[i].key \in Keys /\ stream[i].num \in Nat
             /\ stream[i].upto \in Nat /\ stream[i].content \in Seq(Nat)
<1> SUFFICES ASSUME NEW i \in 1..Len(stream)
             PROVE  /\ stream[i] \in Records /\ stream[i].key \in Keys /\ stream[i].num \in Nat
                    /\ stream[i].upto \in Nat /\ stream[i].content \in Seq(Nat)
  OBVIOUS
<1>1. PICK r \in Records : r = stream[i]
  BY ElementOfSeq
<1>2. r.key \in Keys /\ r.num \in Nat /\ r.upto \in Nat /\ r.content \in Seq(Nat)
  BY DEF Records
<1> QED
  BY <1>1, <1>2

\* The types that the arguments about numbers need.
LEMMA NumberTypes ==
    ASSUME Types
    PROVE  /\ "writer" \in Parties /\ "reader" \in Parties
           /\ key["writer"] \in Keys /\ key["reader"] \in Keys
           /\ num["writer"] \in Nat /\ num["reader"] \in Nat
           /\ pos \in Nat /\ Len(stream) \in Nat /\ pos <= Len(stream)
           /\ \A i \in 1..Len(stream) : /\ stream[i] \in Records
                                        /\ stream[i].key \in Keys /\ stream[i].num \in Nat
           /\ \A i \in read \union lost : i \in 1..pos /\ i \in 1..Len(stream)
           /\ read \intersect lost = {}
           /\ key["writer"] \in {None} \union enabled["writer"]
<1>1. "writer" \in Parties /\ "reader" \in Parties
  BY DEF Parties
<1>2. stream \in Seq(Records) /\ pos \in 0..Len(stream) /\ Len(stream) \in Nat
  BY DEF Types
<1>3. \A i \in 1..Len(stream) : stream[i] \in Records /\ stream[i].key \in Keys /\ stream[i].num \in Nat
  BY <1>2, RecordTypes
<1>4. \A i \in read \union lost : i \in 1..pos /\ i \in 1..Len(stream)
  BY <1>2 DEF Types
<1> QED
  BY <1>1, <1>2, <1>3, <1>4 DEF Types, History

\* The writer's numbers rise within each key it has enabled once.
LEMMA NumberedStep ==
    ASSUME Types, Handed, Numbered, [Next]_vars
    PROVE  Numbered'
<1> USE NumberTypes
<1>1. CASE Rekeyed
  <2>1. stream' = stream
    BY <1>1 DEF Rekeyed, OnlyKeys, writerVars
  <2>2. \A i \in 1..Len(stream) : stream[i].key \in {None} \union enabled["writer"]
    BY DEF Numbered
  <2>3. CASE Kept("writer")
    BY <2>1, <2>3 DEF Numbered, Kept, Once
  <2>4. CASE Enabled("writer")
    <3>1. Once(key["writer"])' => \A i \in 1..Len(stream) : stream[i].key # key'["writer"]
      BY <2>2, <2>4 DEF Enabled, Once
    <3>2. \A k : Once(k)' => Once(k)
      BY <2>4 DEF Enabled, Once
    <3> QED
      BY <2>1, <2>2, <2>4, <3>1, <3>2 DEF Numbered, Enabled
  <2> QED
    BY <1>1, <2>3, <2>4 DEF Rekeyed
<1>2. ASSUME NEW m \in Seq(Nat), Composed(m)
      PROVE  Numbered'
  BY <1>2 DEF Composed, writerVars, keyVars, historyVars, Numbered, Once
<1>3. ASSUME NEW r \in Records, Wrote(r)
      PROVE  Numbered'
  <2>1. PICK n \in Nat : n = Len(stream)
    OBVIOUS
  <2>2. /\ Len(stream') = n + 1 /\ \A i \in 1..n : stream'[i] = stream[i]
        /\ stream'[n + 1].key = key["writer"] /\ stream'[n + 1].num = num["writer"]
        /\ key' = key /\ (key["writer"] # None => num'["writer"] = num["writer"] + 1)
        /\ enabled' = enabled /\ again' = again
    BY <1>3, <2>1 DEF Wrote, historyVars
  <2>3. \A i \in 1..(n + 1) : i \in 1..n \/ i = n + 1
    OBVIOUS
  <2>4. \A i \in 1..(n + 1) : stream'[i].key \in {None} \union enabled'["writer"]
    <3>1. \A i \in 1..n : stream[i].key \in {None} \union enabled["writer"]
      BY <2>1 DEF Numbered
    <3> QED
      BY <2>2, <2>3, <3>1
  <2>5. ASSUME NEW i \in 1..(n + 1), stream'[i].key = key'["writer"], Once(key["writer"])
        PROVE  stream'[i].num < num'["writer"]
    <3>1. CASE i \in 1..n
      <4>1. stream[i].num < num["writer"] /\ stream[i].num \in Nat
        BY <2>1, <2>2, <2>5, <3>1 DEF Numbered
      <4> QED
        BY <2>2, <2>5, <3>1, <4>1 DEF Once
    <3>2. CASE i = n + 1
      BY <2>2, <2>5, <3>2 DEF Once
    <3> QED
      BY <2>3, <3>1, <3>2
  <2>6. ASSUME NEW i \in 1..(n + 1), NEW j \in 1..(n + 1), i < j,
               stream'[i].key = stream'[j].key, Once(stream'[i].key)
        PROVE  stream'[i].num < stream'[j].num
    <3>1. i \in 1..n
      BY <2>6
    <3>2. CASE j \in 1..n
      BY <2>1, <2>2, <2>6, <3>1, <3>2 DEF Numbered
    <3>3. CASE j = n + 1
      BY <2>1, <2>2, <2>6, <3>1, <3>3 DEF Numbered
    <3> QED
      BY <2>3, <3>2, <3>3
  <2>7. \A k : Once(k)' <=> Once(k)
    BY <2>2 DEF Once
  <2> QED
    BY <2>2, <2>4, <2>5, <2>6, <2>7 DEF Numbered
<1>4. ASSUME NEW r \in Records, Received(r)
      PROVE  Numbered'
  <2>1. /\ stream' = stream /\ key' = key /\ num'["writer"] = num["writer"]
        /\ enabled' = enabled /\ again' = again
    BY <1>4 DEF Received, Plainly, Securely, ReceiveLost, historyVars
  <2> QED
    BY <2>1 DEF Numbered, Once
<1> QED
  BY <1>1, <1>2, <1>3, <1>4, StepKinds

\* The reader's number is ahead of what it has read under its key, and behind
\* all it has not.
LEMMA ExpectedStep ==
    ASSUME Types, Handed, Numbered, Expected, [Next]_vars
    PROVE  Expected'
<1> USE NumberTypes
<1>1. CASE Rekeyed
  <2>1. stream' = stream /\ read' = read /\ lost' = lost
    BY <1>1 DEF Rekeyed, OnlyKeys, writerVars, readerVars
  <2>2. \A k : Once(k)' => Once(k)
    BY <1>1 DEF Rekeyed, Kept, Enabled, Once
  <2>3. CASE Kept("reader")
    BY <2>1, <2>2, <2>3 DEF Expected, Kept
  <2>4. CASE Enabled("reader")
    <3>1. \A i \in read : stream[i].key \in {None} \union enabled'["reader"]
      BY <2>4 DEF Expected, Enabled
    <3>2. key'["reader"] # None /\ num'["reader"] = 0
      BY <2>4 DEF Enabled
    <3>3. \A i \in 1..Len(stream) : stream[i].num >= 0
      OBVIOUS
    <3> QED
      BY <2>1, <3>1, <3>2, <3>3 DEF Expected
  <2> QED
    BY <1>1, <2>3, <2>4 DEF Rekeyed
<1>2. ASSUME NEW m \in Seq(Nat), Composed(m)
      PROVE  Expected'
  BY <1>2 DEF Composed, writerVars, keyVars, historyVars, readerVars, Expected, Once
<1>3. ASSUME NEW r \in Records, Wrote(r)
      PROVE  Expected'
  <2>1. PICK n \in Nat : n = Len(stream)
    OBVIOUS
  <2>2. /\ Len(stream') = n + 1 /\ \A i \in 1..n : stream'[i] = stream[i]
        /\ stream'[n + 1].key = key["writer"] /\ stream'[n + 1].num = num["writer"]
        /\ key' = key /\ num'["reader"] = num["reader"] /\ read' = read /\ lost' = lost
        /\ enabled' = enabled /\ again' = again
    BY <1>3, <2>1 DEF Wrote, readerVars, historyVars
  <2>3. \A i \in read \union lost : i \in 1..n /\ stream'[i] = stream[i]
    BY <2>1, <2>2
  <2>4. \A i \in read : stream'[i].key \in {None} \union enabled["reader"]
    BY <2>3 DEF Expected
  <2>5. key["reader"] = None => \A j \in lost : stream'[j].key # None
    BY <2>3 DEF Expected
  <2>6. ASSUME Once(key["reader"])
        PROVE  \/ num["reader"] = 0
               \/ \E i \in read :
                    stream'[i].key = key["reader"] /\ num["reader"] = stream'[i].num + 1
    BY <2>3, <2>6 DEF Expected
  <2>7. ASSUME Once(key["reader"]), NEW i \in 1..(n + 1),
               stream'[i].key = key["reader"], i \notin read
        PROVE  stream'[i].num >= num["reader"]
    <3>1. CASE i \in 1..n
      BY <2>1, <2>2, <2>7, <3>1 DEF Expected
    <3>2. CASE i = n + 1
      <4>1. CASE num["reader"] = 0
        BY <2>2, <3>2, <4>1
      <4>2. CASE \E j \in read :
                   stream[j].key = key["reader"] /\ num["reader"] = stream[j].num + 1
        <5>1. PICK j \in 1..n : stream[j].key = key["writer"] /\ num["reader"] = stream[j].num + 1
          BY <2>2, <2>3, <2>7, <3>2, <4>2
        <5>2. stream[j].num < num["writer"] /\ stream[j].num \in Nat
          BY <2>1, <2>2, <2>7, <3>2, <5>1 DEF Numbered
        <5> QED
          BY <2>2, <3>2, <5>1, <5>2
      <4> QED
        BY <2>7, <4>1, <4>2 DEF Expected
    <3> QED
      BY <3>1, <3>2
  <2>8. \A k : Once(k)' <=> Once(k)
    BY <2>2 DEF Once
  <2> QED
    BY <2>2, <2>4, <2>5, <2>6, <2>7, <2>8 DEF Expected
<1>4. ASSUME NEW r \in Records, Received(r)
      PROVE  Expected'
  <2>1. /\ stream' = stream /\ key' = key /\ r = stream[pos + 1] /\ pos + 1 \in 1..Len(stream)
        /\ enabled' = enabled /\ \A k : Once(k)' <=> Once(k)
    BY <1>4 DEF Received, historyVars, Once
  <2>2. CASE Plainly(r)
    <3>1. /\ read' = read \union {pos + 1} /\ lost' = lost
          /\ key["reader"] = None /\ stream[pos + 1].key = None
      BY <2>1, <2>2 DEF Plainly, Processed
    <3>2. ~ Once(key["reader"])
      BY <3>1 DEF Once
    <3> QED
      BY <2>1, <3>1, <3>2 DEF Expected
  <2>3. CASE Securely(r)
    <3>1. /\ read' = read \union {pos + 1} /\ key["reader"] # None
          /\ stream[pos + 1].key = key["reader"] /\ stream[pos + 1].num = num["reader"]
          /\ num'["reader"] = num["reader"] + 1
      BY <2>1, <2>3 DEF Securely, Processed
    <3>2. \A i \in read' : stream[i].key \in {None} \union enabled["reader"]
      <4>1. key["reader"] \in enabled["reader"]
        BY <3>1 DEF Types, History
      <4> QED
        BY <3>1, <4>1 DEF Expected
    <3>3. ASSUME NEW i \in 1..Len(stream), stream[i].key = key["reader"], i \notin read',
                 Once(key["reader"])
          PROVE  stream[i].num >= num["reader"] + 1
      <4>1. stream[i].num >= num["reader"]
        BY <3>1, <3>3 DEF Expected
      <4>2. i < pos + 1 \/ pos + 1 < i
        BY <3>1, <3>3
      <4>3. stream[i].num # stream[pos + 1].num
        BY <2>1, <3>1, <3>3, <4>2 DEF Numbered
      <4> QED
        BY <3>1, <4>1, <4>3
    <3> QED
      BY <2>1, <3>1, <3>2, <3>3 DEF Expected
  <2>4. CASE ReceiveLost(r)
    <3>1. /\ read' = read /\ lost' = lost \union {pos + 1} /\ num' = num
          /\ key["reader"] = None => stream[pos + 1].key # None
      BY <2>1, <2>4 DEF ReceiveLost
    <3> QED
      BY <2>1, <3>1 DEF Expected
  <2> QED
    BY <1>4, <2>2, <2>3, <2>4 DEF Received
<1> QED
  BY <1>1, <1>2, <1>3, <1>4, StepKinds

\* Under one key, enabled once, what is read is before what is lost.
LEMMA PrefixStep ==
    ASSUME Types, Handed, Numbered, Expected, PrefixPerKey, [Next]_vars
    PROVE  PrefixPerKey'
<1> USE NumberTypes
<1>1. CASE Rekeyed
  BY <1>1 DEF Rekeyed, Kept, Enabled, OnlyKeys, writerVars, readerVars, PrefixPerKey
<1>2. ASSUME NEW m \in Seq(Nat), Composed(m)
      PROVE  PrefixPerKey'
  BY <1>2 DEF Composed, writerVars, keyVars, historyVars, readerVars, PrefixPerKey
<1>3. ASSUME NEW r \in Records, Wrote(r)
      PROVE  PrefixPerKey'
  <2>1. /\ read' = read /\ lost' = lost /\ again' = again
        /\ \A i \in read \union lost : stream'[i] = stream[i]
    BY <1>3 DEF Wrote, readerVars, historyVars
  <2> QED
    BY <2>1 DEF PrefixPerKey
<1>4. ASSUME NEW r \in Records, Received(r)
      PROVE  PrefixPerKey'
  <2>1. /\ stream' = stream /\ again' = again
        /\ r = stream[pos + 1] /\ pos + 1 \in 1..Len(stream)
    BY <1>4 DEF Received, historyVars
  <2>2. \A j \in lost : j < pos + 1
    OBVIOUS
  <2>3. CASE Plainly(r)
    <3>1. /\ read' = read \union {pos + 1} /\ lost' = lost
          /\ key["reader"] = None /\ stream[pos + 1].key = None
      BY <2>1, <2>3 DEF Plainly, Processed
    <3>2. \A j \in lost : stream[j].key # stream[pos + 1].key
      BY <3>1 DEF Expected
    <3> QED
      BY <2>1, <3>1, <3>2 DEF PrefixPerKey
  <2>4. CASE Securely(r)
    <3>1. /\ read' = read \union {pos + 1} /\ lost' = lost /\ key["reader"] # None
          /\ stream[pos + 1].key = key["reader"] /\ stream[pos + 1].num = num["reader"]
      BY <2>1, <2>4 DEF Securely, Processed
    <3>2. ASSUME NEW j \in lost, stream[j].key = key["reader"],
                 key["reader"] \notin again["writer"]
          PROVE  FALSE
      <4>0. Once(key["reader"])
        BY <3>1, <3>2 DEF Once
      <4>1. j \in 1..Len(stream) /\ j \notin read /\ j < pos + 1
        BY <2>2
      <4>2. stream[j].num >= num["reader"]
        BY <3>1, <3>2, <4>0, <4>1 DEF Expected
      <4>3. stream[j].num < stream[pos + 1].num
        BY <2>1, <3>1, <3>2, <4>0, <4>1 DEF Numbered
      <4> QED
        BY <3>1, <4>1, <4>2, <4>3
    <3> QED
      BY <2>1, <3>1, <3>2 DEF PrefixPerKey
  <2>5. CASE ReceiveLost(r)
    <3>1. read' = read /\ lost' = lost \union {pos + 1}
      BY <2>5 DEF ReceiveLost
    <3>2. \A i \in read : i < pos + 1
      OBVIOUS
    <3> QED
      BY <2>1, <3>1, <3>2 DEF PrefixPerKey
  <2> QED
    BY <1>4, <2>3, <2>4, <2>5 DEF Received
<1> QED
  BY <1>1, <1>2, <1>3, <1>4, StepKinds
\* The records a party has under its key, as a finite set.
LEMMA UnderFinite ==
    ASSUME Types, NEW e \in Parties, NEW S
    PROVE  IsFiniteSet(Under(e)) /\ IsFiniteSet(Under(e) \intersect S)
<1>1. PICK n \in Nat : n = Len(stream)
  BY NumberTypes
<1>2. IsFiniteSet(1..n)
  BY FS_Interval
<1>3. Under(e) \subseteq 1..n /\ Under(e) \intersect S \subseteq 1..n
  BY <1>1 DEF Under
<1> QED
  BY <1>2, <1>3, FS_Subset

\* A record number counts the records of its key, if that was enabled once.
LEMMA CountedStep ==
    ASSUME Types, Handed, Numbered, Expected, Counted, [Next]_vars
    PROVE  Counted'
<1> USE NumberTypes
<1>0. IsFiniteSet({}) /\ Cardinality({}) = 0
  BY FS_EmptySet
<1>1. CASE Rekeyed
  <2>1. stream' = stream /\ read' = read
    BY <1>1 DEF Rekeyed, OnlyKeys, writerVars, readerVars
  <2>2. key'["writer"] \notin {None} \union again'["writer"] =>
          num'["writer"] = Cardinality(Under("writer")')
    <3>1. CASE Kept("writer")
      BY <2>1, <3>1 DEF Counted, Under, Kept
    <3>2. ASSUME Enabled("writer"), key'["writer"] \notin again'["writer"]
          PROVE  num'["writer"] = Cardinality(Under("writer")')
      <4>1. \A i \in 1..Len(stream) : stream[i].key # key'["writer"]
        BY <3>2 DEF Numbered, Enabled
      <4>2. Under("writer")' = {}
        BY <2>1, <4>1 DEF Under
      <4> QED
        BY <1>0, <3>2, <4>2 DEF Enabled
    <3> QED
      BY <1>1, <3>1, <3>2 DEF Rekeyed
  <2>3. key'["reader"] \notin {None} \union again'["reader"] =>
          num'["reader"] = Cardinality(Under("reader")' \intersect read')
    <3>1. CASE Kept("reader")
      BY <2>1, <3>1 DEF Counted, Under, Kept
    <3>2. ASSUME Enabled("reader"), key'["reader"] \notin again'["reader"]
          PROVE  num'["reader"] = Cardinality(Under("reader")' \intersect read')
      <4>1. \A i \in read : stream[i].key # key'["reader"]
        BY <3>2 DEF Expected, Enabled
      <4>2. Under("reader")' \intersect read' = {}
        BY <2>1, <4>1 DEF Under
      <4> QED
        BY <1>0, <3>2, <4>2 DEF Enabled
    <3> QED
      BY <1>1, <3>1, <3>2 DEF Rekeyed
  <2> QED
    BY <2>2, <2>3 DEF Counted
<1>2. ASSUME NEW m \in Seq(Nat), Composed(m)
      PROVE  Counted'
  BY <1>2 DEF Composed, writerVars, keyVars, historyVars, readerVars, Counted, Under
<1>3. ASSUME NEW r \in Records, Wrote(r)
      PROVE  Counted'
  <2>1. PICK n \in Nat : n = Len(stream)
    OBVIOUS
  <2>2. /\ Len(stream') = n + 1 /\ \A i \in 1..n : stream'[i] = stream[i]
        /\ stream'[n + 1].key = key["writer"]
        /\ key' = key /\ num'["reader"] = num["reader"] /\ read' = read
        /\ (key["writer"] # None => num'["writer"] = num["writer"] + 1)
        /\ again' = again
    BY <1>3, <2>1 DEF Wrote, readerVars, historyVars
  <2>3. \A i : i \in 1..(n + 1) <=> i \in 1..n \/ i = n + 1
    OBVIOUS
  <2>4. Under("writer")' = Under("writer") \union {n + 1} /\ n + 1 \notin Under("writer")
    <3>1. n + 1 \notin 1..n
      OBVIOUS
    <3> QED
      BY <2>1, <2>2, <2>3, <3>1 DEF Under
  <2>5. Cardinality(Under("writer")') = Cardinality(Under("writer")) + 1
    BY <2>4, UnderFinite, FS_AddElement
  <2>6. Under("reader")' \intersect read' = Under("reader") \intersect read
    <3>1. \A i \in read : i \in 1..n
      BY <2>1
    <3> QED
      BY <2>1, <2>2, <2>3, <3>1 DEF Under
  <2> QED
    BY <2>2, <2>5, <2>6 DEF Counted
<1>4. ASSUME NEW r \in Records, Received(r)
      PROVE  Counted'
  <2>1. /\ stream' = stream /\ key' = key /\ num'["writer"] = num["writer"]
        /\ r = stream[pos + 1] /\ pos + 1 \in 1..Len(stream) /\ again' = again
    BY <1>4 DEF Received, Plainly, Securely, ReceiveLost, historyVars
  <2>2. Under("writer")' = Under("writer") /\ Under("reader")' = Under("reader")
    BY <2>1 DEF Under
  <2>3. key'["reader"] \notin {None} \union again'["reader"] =>
          num'["reader"] = Cardinality(Under("reader")' \intersect read')
    <3>1. CASE Plainly(r)
      BY <2>1, <3>1 DEF Plainly
    <3>2. CASE Securely(r)
      <4>1. /\ read' = read \union {pos + 1} /\ key["reader"] # None
            /\ stream[pos + 1].key = key["reader"] /\ num'["reader"] = num["reader"] + 1
        BY <2>1, <3>2 DEF Securely, Processed
      <4>2. pos + 1 \in Under("reader") /\ pos + 1 \notin read
        BY <2>1, <4>1 DEF Under
      <4>3. Under("reader") \intersect read' = (Under("reader") \intersect read) \union {pos + 1}
        BY <4>1, <4>2
      <4>4. Cardinality(Under("reader") \intersect read') =
              Cardinality(Under("reader") \intersect read) + 1
        <5>1. IsFiniteSet(Under("reader") \intersect read)
          BY UnderFinite
        <5>2. pos + 1 \notin Under("reader") \intersect read
          BY <4>2
        <5>3. \A A, x : IsFiniteSet(A) /\ x \notin A =>
                          Cardinality(A \union {x}) = Cardinality(A) + 1
          BY FS_AddElement
        <5> QED
          BY <4>3, <5>1, <5>2, <5>3
      <4> QED
        BY <2>1, <2>2, <4>1, <4>4 DEF Counted
    <3>3. CASE ReceiveLost(r)
      BY <2>1, <2>2, <3>3 DEF ReceiveLost, Counted
    <3> QED
      BY <1>4, <3>1, <3>2, <3>3 DEF Received
  <2> QED
    BY <2>1, <2>2, <2>3 DEF Counted
<1> QED
  BY <1>1, <1>2, <1>3, <1>4, StepKinds

-----------------------------------------------------------------------------
(***************************************************************************)
(* What is written, and what is read.                                      *)
(***************************************************************************)

\* The pieces that have been written stay pieces of the longer transcript, and the
\* message that is composed lies behind the others.
LEMMA PiecesStep ==
    ASSUME Types, Handed, Pieces, [Next]_vars
    PROVE  Pieces'
<1> DEFINE t == transcript["writer"]
           e == ends["writer"]
<1>0. /\ t \in Seq(Nat) /\ e \in Seq(Nat) /\ off \in Nat /\ off <= Len(t)
      /\ Len(t) \in Nat /\ Len(stream) \in Nat
      /\ \A i \in 1..Len(stream) : stream[i].upto \in Nat
  <2>1. "writer" \in Parties
    BY DEF Parties
  <2>2. off \in 0..Len(transcript["writer"]) /\ transcript["writer"] \in Seq(Nat)
    BY <2>1 DEF Types
  <2>3. \A i \in 1..Len(stream) : stream[i].upto \in Nat
    BY RecordTypes DEF Types
  <2> QED
    BY <2>1, <2>2, <2>3 DEF Types
<1>1. CASE Rekeyed
  BY <1>1 DEF Rekeyed, OnlyKeys, writerVars, Pieces, Upto
<1>2. ASSUME NEW m \in Seq(Nat), Composed(m)
      PROVE  Pieces'
  <2>1. /\ transcript'["writer"] = Cat(t, m) /\ ends'["writer"] \in Seq(Nat)
        /\ off' = off /\ stream' = stream
        /\ 2 <= Len(m) /\ Len(m) = 2 + m[2]
    <3>1. "writer" \in Parties
      BY DEF Parties
    <3> QED
      BY <1>2, <3>1 DEF Composed, writerVars
  <2>2. PICK k \in Nat : k = Len(m)
    OBVIOUS
  <2> DEFINE y == <<k>>
             z == ends'["writer"]
  <2>3. y \in Seq(Nat) /\ Len(y) = 1 /\ y[1] = k
    OBVIOUS
  <2>4. Chain(m, y) /\ EndOf(y) = k
    <3>1. Spans(m, 0, k)
      BY <2>1, <2>2 DEF Spans
    <3>2. Start(y, 1) = 0
      BY DEF Start
    <3>3. \A i \in 1..Len(y) : i = 1
      BY <2>3
    <3> QED
      BY <2>3, <3>1, <3>2, <3>3 DEF Chain, EndOf
  <2>5. Behind(z, e, y, Len(t))
    <3>1. /\ Len(z) = Len(e) + 1 /\ \A i \in 1..Len(e) : z[i] = e[i]
          /\ z[Len(e) + 1] = Len(t) + k
      BY <1>2, <2>2 DEF Composed
    <3>2. \A i \in 1..Len(y) : i = 1
      BY <2>3
    <3> QED
      BY <2>3, <3>1, <3>2 DEF Behind
  <2> HIDE DEF y, z
  <2>6. Chain(t, e) /\ EndOf(e) = Len(t)
    BY DEF Pieces
  <2>7. Chain(Cat(t, m), z) /\ EndOf(z) = Len(t) + k
    <3>1. z \in Seq(Nat)
      BY <2>1 DEF z
    <3>2. t \in Seq(Nat) /\ e \in Seq(Nat) /\ m \in Seq(Nat) /\ y \in Seq(Nat)
      BY <1>0, <2>3
    <3> HIDE DEF t, e
    <3>3. PICK tw \in Seq(Nat), ew \in Seq(Nat), one \in Seq(Nat), all \in Seq(Nat) :
            tw = t /\ ew = e /\ one = y /\ all = z
      BY <3>1, <3>2
    <3>4. /\ Chain(tw, ew) /\ EndOf(ew) = Len(tw) /\ Chain(m, one)
          /\ Behind(all, ew, one, Len(tw))
      BY <2>4, <2>5, <2>6, <3>3
    <3>5. Chain(Cat(tw, m), all) /\ EndOf(all) = Len(tw) + EndOf(one)
      BY ONLY <3>4, ChainJoin, m \in Seq(Nat), tw \in Seq(Nat), ew \in Seq(Nat),
              one \in Seq(Nat), all \in Seq(Nat)
    <3> QED
      BY <2>4, <3>3, <3>5
  <2>8. EndOf(z) = Len(Cat(t, m))
    BY <1>0, <2>2, <2>7, CatType
  <2>9. \A i \in 0..Len(stream) : Upto(i)' = Upto(i) /\ Upto(i) \in Nat
    BY <1>0, <2>1 DEF Upto
  <2>10. ASSUME NEW i \in 1..Len(stream)
         PROVE  Piece(Cat(t, m), Upto(i - 1), Upto(i)) = Piece(t, Upto(i - 1), Upto(i))
    <3>1. Upto(i - 1) \in Nat /\ Upto(i) \in Nat
      BY <1>0, <2>9
    <3>2. Upto(i - 1) <= Upto(i) /\ Upto(i) <= Len(t)
      BY <1>0, <3>1 DEF Pieces
    <3> QED
      BY <1>0, <3>1, <3>2, PieceExtends
  <2>11. \A i \in 1..Len(stream) : i \in 0..Len(stream) /\ i - 1 \in 0..Len(stream)
    BY <1>0
  <2>12. off' = Upto(Len(stream))'
    BY <1>0, <2>1, <2>9 DEF Pieces
  <2>13. ASSUME NEW i \in 1..Len(stream')
         PROVE  /\ Upto(i - 1)' <= Upto(i)' /\ Upto(i)' <= off'
                /\ stream'[i].content = Piece(transcript'["writer"], Upto(i - 1)', Upto(i)')
                /\ stream'[i].type = "data" => Upto(i)' = Upto(i - 1)'
    BY <2>1, <2>9, <2>10, <2>11 DEF Pieces
  <2> QED
    BY <2>1, <2>7, <2>8, <2>12, <2>13 DEF Pieces, z
<1>3. ASSUME NEW r \in Records, Wrote(r)
      PROVE  Pieces'
  <2>1. PICK n \in Nat : n = Len(stream)
    BY <1>0
  <2>2. /\ Len(stream') = n + 1 /\ \A i \in 1..n : stream'[i] = stream[i]
        /\ stream'[n + 1] = r /\ r.upto = off' /\ off' \in off..Len(t)
        /\ r.content = Piece(t, off, off') /\ (r.type = "data" => off' = off)
        /\ transcript' = transcript /\ ends' = ends
    BY <1>3, <2>1 DEF Wrote
  <2>3. \A i \in 0..n : Upto(i)' = Upto(i) /\ Upto(i) \in Nat
    BY <1>0, <2>1, <2>2 DEF Upto
  <2>4. Upto(n + 1)' = off' /\ Upto(n) = off
    BY <2>1, <2>2 DEF Upto, Pieces
  <2>5. off <= off' /\ off' \in Nat
    BY <1>0, <2>2
  <2>6. ASSUME NEW i \in 1..(n + 1)
        PROVE  /\ Upto(i - 1)' <= Upto(i)' /\ Upto(i)' <= off'
               /\ stream'[i].content = Piece(t, Upto(i - 1)', Upto(i)')
               /\ stream'[i].type = "data" => Upto(i)' = Upto(i - 1)'
    <3>1. CASE i \in 1..n
      <4>1. /\ Upto(i)' = Upto(i) /\ Upto(i - 1)' = Upto(i - 1) /\ Upto(i) \in Nat
            /\ stream'[i] = stream[i]
        BY <2>2, <2>3, <3>1
      <4>2. /\ Upto(i - 1) <= Upto(i) /\ Upto(i) <= off
            /\ stream[i].content = Piece(t, Upto(i - 1), Upto(i))
            /\ stream[i].type = "data" => Upto(i) = Upto(i - 1)
        BY <2>1, <3>1 DEF Pieces
      <4>3. Upto(i) <= off'
        BY <1>0, <2>5, <4>1, <4>2
      <4> QED
        BY <4>1, <4>2, <4>3
    <3>2. CASE i = n + 1
      <4>1. i - 1 = n /\ n \in 0..n
        BY <3>2
      <4> QED
        BY <2>2, <2>3, <2>4, <2>5, <3>2, <4>1
    <3> QED
      BY <3>1, <3>2
  <2>7. off' = Upto(Len(stream))'
    BY <2>2 DEF Upto
  <2> QED
    BY <2>2, <2>6, <2>7 DEF Pieces
<1>4. ASSUME NEW r \in Records, Received(r)
      PROVE  Pieces'
  <2>1. /\ stream' = stream /\ off' = off
        /\ transcript'["writer"] = transcript["writer"] /\ ends'["writer"] = ends["writer"]
    BY <1>4 DEF Received, Plainly, Securely, ReceiveLost, Processed
  <2> QED
    BY <2>1 DEF Pieces, Upto
<1> QED
  BY <1>1, <1>2, <1>3, <1>4, StepKinds
\* How far the records go, and that the writer has composed as much.
LEMMA UptoBound ==
    ASSUME Types, Pieces
    PROVE  /\ transcript["writer"] \in Seq(Nat) /\ ends["writer"] \in Seq(Nat)
           /\ transcript["reader"] \in Seq(Nat) /\ ends["reader"] \in Seq(Nat)
           /\ hbuf \in Seq(Nat) /\ Len(transcript["writer"]) \in Nat
           /\ pos \in 0..Len(stream) /\ Len(stream) \in Nat
           /\ \A i \in 0..Len(stream) : Upto(i) \in Nat /\ Upto(i) <= Len(transcript["writer"])
<1>1. /\ transcript["writer"] \in Seq(Nat) /\ ends["writer"] \in Seq(Nat)
      /\ transcript["reader"] \in Seq(Nat) /\ ends["reader"] \in Seq(Nat)
      /\ hbuf \in Seq(Nat) /\ off \in 0..Len(transcript["writer"])
      /\ pos \in 0..Len(stream) /\ stream \in Seq(Records)
  BY DEF Types, Parties
<1>2. Len(transcript["writer"]) \in Nat /\ Len(stream) \in Nat
  BY <1>1
<1>3. ASSUME NEW i \in 0..Len(stream)
      PROVE  Upto(i) \in Nat /\ Upto(i) <= Len(transcript["writer"])
  <2>1. CASE i = 0
    BY <1>2, <2>1 DEF Upto
  <2>2. CASE i # 0
    <3>1. i \in 1..Len(stream)
      BY <1>2, <2>2
    <3>2. Upto(i) \in Nat
      BY <1>1, <2>2, <3>1, RecordTypes DEF Upto
    <3>3. Upto(i) <= off
      BY <3>1 DEF Pieces
    <3> QED
      BY <1>1, <1>2, <3>2, <3>3
  <2> QED
    BY <2>1, <2>2
<1> QED
  BY <1>1, <1>2, <1>3

\* As long as nothing is lost or taken off, the reader has the first part of the
\* writer's transcript, as far as the records go that it has processed.
LEMMA ParsedStep ==
    ASSUME Types, Handed, Pieces, Parsed, [Next]_vars
    PROVE  Parsed'
<1> DEFINE t == transcript["writer"]
<1>0. /\ t \in Seq(Nat) /\ Len(t) \in Nat /\ pos \in 0..Len(stream) /\ Len(stream) \in Nat
      /\ \A i \in 0..Len(stream) : Upto(i) \in Nat /\ Upto(i) <= Len(t)
  BY UptoBound
<1>1. CASE Rekeyed
  <2>1. Text' = Text /\ Upto(pos)' = Upto(pos)
    BY <1>1 DEF Rekeyed, OnlyKeys, writerVars, readerVars, Text, Upto
  <2> QED
    BY <1>1, <2>1 DEF Rekeyed, OnlyKeys, writerVars, readerVars, Parsed
<1>2. ASSUME NEW m \in Seq(Nat), Composed(m)
      PROVE  Parsed'
  <2>1. /\ Text' = Text /\ Upto(pos)' = Upto(pos) /\ lost' = lost /\ cut' = cut
        /\ transcript'["writer"] = Cat(t, m)
    BY <1>2 DEF Composed, writerVars, readerVars, Text, Upto
  <2>2. Piece(Cat(t, m), 0, Upto(pos)) = Piece(t, 0, Upto(pos))
    BY <1>0, PieceExtends
  <2> QED
    BY <2>1, <2>2 DEF Parsed
<1>3. ASSUME NEW r \in Records, Wrote(r)
      PROVE  Parsed'
  <2>1. /\ Text' = Text /\ lost' = lost /\ cut' = cut /\ transcript' = transcript /\ pos' = pos
    BY <1>3 DEF Wrote, readerVars, Text
  <2>2. pos # 0 => stream'[pos] = stream[pos]
    BY <1>0, <1>3 DEF Wrote
  <2>3. Upto(pos)' = Upto(pos)
    BY <2>1, <2>2 DEF Upto
  <2> QED
    BY <2>1, <2>3 DEF Parsed
<1>4. ASSUME NEW r \in Records, Received(r), lost' = {}, cut' = {}
      PROVE  Text' = Piece(transcript'["writer"], 0, Upto(pos)')
  <2>1. /\ pos' = pos + 1 /\ pos + 1 \in 1..Len(stream) /\ r = stream[pos + 1] /\ stream' = stream
    BY <1>4 DEF Received
  <2>2. r.content \in Seq(Nat) /\ r.type \in {"handshake", "data"}
    BY DEF Records
  <2>3. lost = {} /\ cut = {} /\ Processed(r, r.content)
    <3>1. CASE Plainly(r)
      BY <1>4, <3>1 DEF Plainly, Processed
    <3>2. CASE Securely(r)
      <4>1. PICK m \in 0..Len(r.content) :
              /\ Processed(r, Piece(r.content, 0, m))
              /\ cut' = IF m = Len(r.content) THEN cut
                        ELSE cut \union {r.upto - Len(r.content) + m + 1}
        BY <3>2 DEF Securely
      <4>2. m = Len(r.content) /\ cut = {}
        BY <1>4, <4>1
      <4>3. Piece(r.content, 0, m) = r.content
        BY <2>2, <4>2, PieceAll
      <4> QED
        BY <1>4, <4>1, <4>2, <4>3 DEF Processed
    <3>3. ~ ReceiveLost(r)
      BY <1>4 DEF ReceiveLost
    <3> QED
      BY <1>4, <3>1, <3>2, <3>3 DEF Received
  <2>4. Text = Piece(t, 0, Upto(pos))
    BY <2>3 DEF Parsed
  <2>5. transcript'["writer"] = t /\ Text' = IF r.type = "handshake" THEN Cat(Text, r.content) ELSE Text
    BY <2>3 DEF Processed
  <2>6. Upto(pos)' = Upto(pos + 1)
    BY <2>1 DEF Upto
  <2>7. PICK n \in Nat : n = pos /\ n + 1 \in 1..Len(stream) /\ (n + 1) - 1 = n
    BY <1>0, <2>1
  <2>8. /\ Upto(n) \in Nat /\ Upto(n + 1) \in Nat
        /\ Upto(n) <= Upto(n + 1) /\ Upto(n + 1) <= Len(t)
        /\ r.content = Piece(t, Upto(n), Upto(n + 1))
        /\ r.type = "data" => Upto(n + 1) = Upto(n)
    <3>1. n \in 0..Len(stream) /\ n + 1 \in 0..Len(stream)
      BY <1>0, <2>7
    <3> QED
      BY <1>0, <2>1, <2>7, <3>1 DEF Pieces
  <2>9. CASE r.type = "handshake"
    <3>1. PICK k \in Nat, l \in Nat : k = Upto(n) /\ l = Upto(n + 1)
      BY <2>8
    <3>2. Cat(Piece(t, 0, k), Piece(t, k, l)) = Piece(t, 0, l)
      <4>1. 0 <= k /\ k <= l /\ l <= Len(t)
        BY <2>8, <3>1
      <4> QED
        BY <1>0, <4>1, PiecesJoin
    <3> QED
      BY <2>4, <2>5, <2>6, <2>7, <2>8, <2>9, <3>1, <3>2
  <2>10. CASE r.type = "data"
    BY <2>4, <2>5, <2>6, <2>7, <2>8, <2>10
  <2> QED
    BY <2>2, <2>9, <2>10
<1> QED
  BY <1>1, <1>2, <1>3, <1>4, StepKinds DEF Parsed

\* A sequence that begins another one, unit by unit.
LEMMA Begins ==
    ASSUME NEW s \in Seq(Nat), NEW t \in Seq(Nat), Len(s) <= Len(t),
           \A i \in 1..Len(s) : t[i] = s[i]
    PROVE  IsPrefix(s, t)
<1>1. PICK n \in Nat : n = Len(s)
  OBVIOUS
<1>2. 0 \in Nat /\ 0 <= n /\ n - 0 = n /\ n <= Len(s) /\ n <= Len(t)
  BY <1>1
<1>3. /\ Piece(s, 0, n) \in Seq(Nat) /\ Len(Piece(s, 0, n)) = n
      /\ Piece(t, 0, n) \in Seq(Nat) /\ Len(Piece(t, 0, n)) = n
  BY <1>2, PieceType
<1>4. ASSUME NEW i \in 1..n
      PROVE  Piece(s, 0, n)[i] = Piece(t, 0, n)[i]
  <2>1. i \in 1..(n - 0) /\ 0 + i = i
    BY <1>2
  <2>2. Piece(s, 0, n)[i] = s[0 + i] /\ Piece(t, 0, n)[i] = t[0 + i]
    BY <1>2, <2>1, PieceAt
  <2> QED
    BY <1>1, <2>1, <2>2
<1>5. Piece(s, 0, n) = Piece(t, 0, n)
  BY <1>3, <1>4, SeqEqual
<1>6. 0 + 1 = 1
  OBVIOUS
<1>7. SubSeq(s, 1, n) = SubSeq(t, 1, n)
  BY <1>5, <1>6 DEF Piece
<1> QED
  BY <1>1, <1>2, <1>7 DEF IsPrefix

\* Where the reader's text stands against the writer's: r units handed up, h in the
\* buffer, the same as the first of the writer's n.
Aligned(r, h, n) ==
    /\ r = Len(transcript["reader"]) /\ h = Len(hbuf) /\ n = Len(transcript["writer"])
    /\ r + h = Upto(pos) /\ r + h <= n
    /\ \A i \in 1..r : transcript["writer"][i] = transcript["reader"][i]
    /\ \A i \in 1..h : transcript["writer"][r + i] = hbuf[i]

\* That is how it stands as long as nothing is lost or taken off.
LEMMA Alignment ==
    ASSUME Types, Pieces, Parsed, lost = {}, cut = {}
    PROVE  \E r, h, n \in Nat : Aligned(r, h, n)
<1>1. /\ transcript["writer"] \in Seq(Nat) /\ transcript["reader"] \in Seq(Nat)
      /\ hbuf \in Seq(Nat) /\ Upto(pos) \in Nat /\ Upto(pos) <= Len(transcript["writer"])
  BY UptoBound
<1>2. PICK r \in Nat, h \in Nat, n \in Nat, u \in Nat :
        /\ r = Len(transcript["reader"]) /\ h = Len(hbuf) /\ n = Len(transcript["writer"])
        /\ u = Upto(pos) /\ u <= n
  BY <1>1
<1>3. Text = Piece(transcript["writer"], 0, u)
  BY <1>2 DEF Parsed
<1>4. 0 <= u /\ u <= Len(transcript["writer"]) /\ u - 0 = u
  BY <1>2
<1>5. Len(Piece(transcript["writer"], 0, u)) = u
  BY <1>1, <1>4, PieceType
<1>6. r + h = u
  BY <1>1, <1>2, <1>3, <1>5, CatType DEF Text
<1>7. ASSUME NEW i \in 1..u
      PROVE  Text[i] = transcript["writer"][i]
  <2>1. i \in 1..(u - 0) /\ 0 + i = i
    OBVIOUS
  <2> QED
    BY <1>1, <1>3, <1>4, <2>1, PieceAt
<1>8. ASSUME NEW i \in 1..r
      PROVE  transcript["writer"][i] = transcript["reader"][i]
  <2>1. i \in 1..u
    BY <1>6
  <2> QED
    BY <1>1, <1>2, <1>7, <2>1, CatLeft DEF Text
<1>9. ASSUME NEW i \in 1..h
      PROVE  transcript["writer"][r + i] = hbuf[i]
  <2>1. r + i \in 1..u
    BY <1>6
  <2> QED
    BY <1>1, <1>2, <1>7, <2>1, CatRight DEF Text
<1>10. r + h = Upto(pos) /\ r + h <= n
  BY <1>2, <1>6
<1>11. Aligned(r, h, n)
  BY <1>2, <1>8, <1>9, <1>10 DEF Aligned
<1> QED
  BY <1>11

\* The messages the reader has been handed are the first of the writer's.
LEMMA SameMessages ==
    ASSUME Types, Pieces, Handed, Parsed, lost = {}, cut = {}
    PROVE  /\ Chain(transcript["writer"], ends["reader"])
           /\ Len(ends["reader"]) <= Len(ends["writer"])
           /\ \A i \in 1..Len(ends["reader"]) : ends["writer"][i] = ends["reader"][i]
<1> DEFINE t == transcript["writer"]
           e == ends["writer"]
           x == ends["reader"]
<1>1. /\ t \in Seq(Nat) /\ e \in Seq(Nat) /\ x \in Seq(Nat) /\ transcript["reader"] \in Seq(Nat)
      /\ Len(x) \in Nat /\ Len(e) \in Nat
  BY UptoBound
<1>2. Chain(t, e) /\ EndOf(e) = Len(t) /\ Chain(transcript["reader"], x)
  BY DEF Pieces, Handed
<1>3. PICK r \in Nat, h \in Nat, n \in Nat : Aligned(r, h, n)
  BY Alignment
<1>4. /\ Len(transcript["reader"]) <= Len(t) /\ n = Len(t)
      /\ \A i \in 1..Len(transcript["reader"]) : t[i] = transcript["reader"][i]
  BY <1>3 DEF Aligned
<1> HIDE DEF t, e, x
<1>5. Chain(t, x)
  BY <1>1, <1>2, <1>4, ChainExtends
<1>6. \A i \in 1..Len(x) : i <= Len(e) => x[i] = e[i]
  BY <1>1, <1>2, <1>5, ChainsAgree
<1>7. Len(x) <= Len(e)
  <2> SUFFICES ASSUME Len(e) < Len(x)
               PROVE  FALSE
    BY <1>1
  <2>1. PICK l \in Nat : l = Len(e)
    BY <1>1
  <2>2. l + 1 \in 1..Len(x)
    BY <1>1, <2>1
  <2>3. Start(x, l + 1) = n
    <3>1. CASE l = 0
      <4>1. e = <<>>
        BY <1>1, <2>1, <3>1, EmptySeq
      <4> QED
        BY <1>2, <1>4, <3>1, <4>1 DEF EndOf, Start
    <3>2. CASE l # 0
      <4>1. l \in 1..Len(x) /\ l <= Len(e) /\ l + 1 # 1 /\ (l + 1) - 1 = l /\ e # <<>>
        BY <1>1, <2>1, <3>2
      <4> QED
        BY <1>2, <1>4, <1>6, <2>1, <4>1 DEF EndOf, Start
    <3> QED
      BY <3>1, <3>2
  <2>4. PICK from, v, to, k \in Nat : Message(t, k, x, l + 1, from, v, to)
    BY <1>1, <1>5, <2>2, ChainAt
  <2> QED
    BY <1>4, <2>3, <2>4 DEF Message
<1>8. \A i \in 1..Len(x) : e[i] = x[i]
  BY <1>1, <1>6, <1>7
<1> QED
  BY <1>5, <1>7, <1>8 DEF t, e, x
\* MessagesIntact in every state with the invariant.
LEMMA IntactNow ==
    ASSUME Types, Pieces, Handed, Parsed
    PROVE  MessagesIntact
<1> SUFFICES ASSUME lost = {}, cut = {}
             PROVE  /\ IsPrefix(transcript["reader"], transcript["writer"])
                    /\ IsPrefix(ends["reader"], ends["writer"])
  BY DEF MessagesIntact
<1>1. /\ transcript["writer"] \in Seq(Nat) /\ ends["writer"] \in Seq(Nat)
      /\ transcript["reader"] \in Seq(Nat) /\ ends["reader"] \in Seq(Nat)
  BY UptoBound
<1>2. PICK r \in Nat, h \in Nat, n \in Nat : Aligned(r, h, n)
  BY Alignment
<1>3. /\ Len(transcript["reader"]) <= Len(transcript["writer"])
      /\ \A i \in 1..Len(transcript["reader"]) : transcript["writer"][i] = transcript["reader"][i]
  BY <1>2 DEF Aligned
<1> QED
  BY <1>1, <1>3, SameMessages, Begins

\* HandedUpAtOnce in every state with the invariant: the next message of the
\* writer is not yet whole in the buffer.
LEMMA AtOnceNow ==
    ASSUME Types, Pieces, Handed, Parsed
    PROVE  HandedUpAtOnce
<1> SUFFICES ASSUME lost = {}, cut = {}, pos > 0
             PROVE  Len(ends["reader"]) = WholeWithin(stream[pos].upto)
  BY DEF HandedUpAtOnce
<1> DEFINE t == transcript["writer"]
           e == ends["writer"]
           x == ends["reader"]
<1>1. /\ t \in Seq(Nat) /\ e \in Seq(Nat) /\ x \in Seq(Nat) /\ hbuf \in Seq(Nat)
      /\ transcript["reader"] \in Seq(Nat) /\ Len(x) \in Nat /\ Len(e) \in Nat
      /\ pos \in Nat
  BY UptoBound
<1>2. PICK r \in Nat, h \in Nat, n \in Nat : Aligned(r, h, n)
  BY Alignment
<1>3. /\ r = Len(transcript["reader"]) /\ h = Len(hbuf) /\ n = Len(t)
      /\ r + h = Upto(pos) /\ r + h <= n
      /\ \A i \in 1..h : t[r + i] = hbuf[i]
  BY <1>2 DEF Aligned
<1>4. r + h = stream[pos].upto
  BY <1>1, <1>3 DEF Upto
<1>5. /\ Chain(t, x) /\ Len(x) <= Len(e) /\ \A i \in 1..Len(x) : e[i] = x[i]
  BY SameMessages
<1>6. /\ Chain(t, e) /\ Chain(transcript["reader"], x) /\ EndOf(x) = r /\ Stuck(hbuf, 0)
  BY <1>3 DEF Pieces, Handed
<1> HIDE DEF t, e, x
<1>7. PICK l \in Nat, k \in Nat : l = Len(x) /\ k = Len(e) /\ l <= k
  BY <1>1, <1>5
<1>8. ASSUME NEW i \in 1..l
      PROVE  e[i] <= r + h
  <2>1. x[i] <= r /\ x[i] \in Nat
    <3>1. \A j \in 1..Len(x) : x[j] <= Len(transcript["reader"])
      BY <1>1, <1>6, ChainBound
    <3> QED
      BY <1>1, <1>3, <1>7, <3>1
  <2> QED
    BY <1>5, <1>7, <2>1
<1>9. ASSUME NEW i \in (l + 1)..k, e[i] <= r + h
      PROVE  FALSE
  <2>1. l + 1 \in 1..Len(e) /\ i \in 1..Len(e)
    BY <1>7
  <2>2. e[l + 1] <= e[i] /\ e[l + 1] \in Nat /\ e[i] \in Nat
    <3>1. e[l + 1] \in Nat /\ e[i] \in Nat
      BY <1>1, <2>1
    <3>2. CASE i = l + 1
      BY <3>1, <3>2
    <3>3. CASE l + 1 < i
      BY <1>1, <1>6, <2>1, <3>1, <3>3, ChainRises
    <3> QED
      BY <3>1, <3>2, <3>3
  <2>3. Start(e, l + 1) = r
    <3>1. CASE l = 0
      <4>1. x = <<>>
        BY <1>1, <1>7, <3>1, EmptySeq
      <4> QED
        BY <1>6, <3>1, <4>1 DEF EndOf, Start
    <3>2. CASE l # 0
      <4>1. l \in 1..Len(x) /\ l + 1 # 1 /\ (l + 1) - 1 = l /\ x # <<>>
        BY <1>1, <1>7, <3>2
      <4> QED
        BY <1>5, <1>6, <1>7, <4>1 DEF EndOf, Start
    <3> QED
      BY <3>1, <3>2
  <2>4. PICK from, v, to, b \in Nat : Message(t, b, e, l + 1, from, v, to)
    BY <1>1, <1>6, <2>1, ChainAt
  <2>5. from = r /\ t[r + 2] = v /\ to = r + 2 + v /\ to = e[l + 1]
    BY <2>3, <2>4 DEF Message
  <2>6. 2 + v <= h
    BY <1>9, <2>2, <2>5
  <2>7. hbuf[2] = v
    <3>1. 2 \in 1..h
      BY <2>6
    <3> QED
      BY <1>3, <2>5, <3>1
  <2>8. 0 + 2 = 2 /\ 2 <= h /\ ~ (2 + v > h)
    BY <2>6
  <2> QED
    BY <1>3, <1>6, <2>7, <2>8 DEF Stuck
<1>10. {i \in DOMAIN e : e[i] <= r + h} = 1..l
  <2>1. DOMAIN e = 1..k
    BY <1>1, <1>7
  <2>2. \A i \in 1..k : i \in 1..l \/ i \in (l + 1)..k
    OBVIOUS
  <2>3. \A i \in 1..l : i \in 1..k
    BY <1>7
  <2> QED
    BY <1>8, <1>9, <2>1, <2>2, <2>3
<1>11. Cardinality(1..l) = l
  BY FS_Interval
<1>12. WholeWithin(r + h) = l
  BY <1>10, <1>11 DEF WholeWithin, e
<1> QED
  BY <1>4, <1>7, <1>12 DEF x

-----------------------------------------------------------------------------
(***************************************************************************)
(* The invariant holds at the start and is kept by every step, and the     *)
(* theorems follow from it.                                                *)
(***************************************************************************)

\* At the start nothing is written, and no keys are in use.
LEMMA InvInit == Init => Inv
<1> SUFFICES ASSUME Init PROVE Inv
  OBVIOUS
<1>1. Types /\ Handed
  BY TypesInit
<1>2. <<>> \in Seq(Nat) /\ Len(<<>>) = 0 /\ 1..0 = {}
  BY EmptySeq
<1>3. /\ transcript["writer"] = <<>> /\ ends["writer"] = <<>> /\ transcript["reader"] = <<>>
      /\ stream = <<>> /\ pos = 0 /\ off = 0 /\ hbuf = <<>>
      /\ key["writer"] = None /\ key["reader"] = None
      /\ read = {} /\ lost = {} /\ cut = {}
  BY DEF Init, Parties
<1>4. Numbered
  BY <1>2, <1>3 DEF Numbered
<1>5. Expected
  BY <1>3 DEF Expected, Once
<1>6. Counted
  BY <1>3 DEF Counted
<1>7. PrefixPerKey
  BY <1>3 DEF PrefixPerKey
<1>8. Pieces
  BY <1>2, <1>3 DEF Pieces, Chain, EndOf, Upto
<1>9. Parsed
  <2>1. Text = <<>>
    BY <1>2, <1>3, ConcatEmptySeq DEF Text, Cat
  <2>2. Piece(<<>>, 0, 0) = <<>>
    BY <1>2, PieceAll
  <2> QED
    BY <1>3, <2>1, <2>2 DEF Parsed, Upto
<1> QED
  BY <1>1, <1>4, <1>5, <1>6, <1>7, <1>8, <1>9 DEF Inv

\* The invariant is one of the specification.
LEMMA Invariant == Spec => []Inv
<1>1. Inv /\ [Next]_vars => Inv'
  BY TypesStep, NumberedStep, ExpectedStep, CountedStep, PrefixStep, PiecesStep,
     ParsedStep DEF Inv
<1> QED
  BY InvInit, <1>1, PTL DEF Spec

\* The variables keep their types and bounds, and at both ends the record number
\* counts the records of the key in use, unless the end has enabled that key twice.
THEOREM TypeCorrect == Spec => []TypeOK
<1>1. Inv => TypeOK
  <2> SUFFICES ASSUME Inv PROVE TypeOK
    OBVIOUS
  <2>1. \A e \in Parties : key[e].phase \in 0..2 /\ secret[e].phase \in {0, 2}
    <3> SUFFICES ASSUME NEW e \in Parties
                 PROVE  key[e].phase \in 0..2 /\ secret[e].phase \in {0, 2}
      OBVIOUS
    <3>1. PICK k \in Keys, s \in Keys : k = key[e] /\ s = secret[e] /\ s.phase # 1
      BY DEF Inv, Types
    <3>2. k.phase \in 0..2 /\ s.phase \in 0..2
      BY DEF Keys
    <3> QED
      BY <3>1, <3>2
  <2> QED
    BY <2>1 DEF Inv, Types, History, Counted, TypeOK
<1> QED
  BY Invariant, <1>1, PTL

\* A record number comes back under one key, and so a nonce does, only when the writer
\* calls enable_encryption with that key a second time: whatever other calls of
\* enable_encryption, send_record and update_application_traffic_secret are made.
THEOREM NoncesFresh == Spec => []NonceFresh
<1>1. Inv => NonceFresh
  <2> SUFFICES ASSUME Inv,
                      NEW i \in 1..Len(stream), NEW j \in 1..Len(stream), i # j,
                      stream[i].key = stream[j].key, Once(stream[i].key)
               PROVE  stream[i].num # stream[j].num
    BY DEF NonceFresh, Once
  <2>1. Types /\ Numbered
    BY DEF Inv
  <2>2. stream[i].num \in Nat /\ stream[j].num \in Nat
    BY <2>1, NumberTypes
  <2>3. CASE i < j
    BY <2>1, <2>2, <2>3 DEF Numbered
  <2>4. CASE j < i
    BY <2>1, <2>2, <2>4 DEF Numbered
  <2> QED
    BY <2>3, <2>4
<1> QED
  BY Invariant, <1>1, PTL

\* Of the records under a key that the writer has enabled once the reader unprotects
\* a first part: behind one that came before its key or under another number, none
\* any more, even when the reader enables the key again.
THEOREM PrefixOfEachKey == Spec => []PrefixPerKey
<1>1. Inv => PrefixPerKey
  BY DEF Inv
<1> QED
  BY Invariant, <1>1, PTL

\* However messages and records are cut against each other and wherever keys are
\* changed, the reader's messages are the first of the writer's, as long as
\* no record is lost and no zero taken off.
THEOREM Intact == Spec => []MessagesIntact
<1>1. Inv => MessagesIntact
  BY IntactNow DEF Inv
<1> QED
  BY Invariant, <1>1, PTL

\* They are all that have arrived whole: no message waits in handshake_buffer for a
\* record behind the one that completes it.
THEOREM AtOnce == Spec => []HandedUpAtOnce
<1>1. Inv => HandedUpAtOnce
  BY AtOnceNow DEF Inv
<1> QED
  BY Invariant, <1>1, PTL

=============================================================================
