-------------------------- MODULE RecordLayerProofs --------------------------
(***************************************************************************)
(* What RecordLayer guarantees for every length limit, every number of     *)
(* record numbers and every cut of the stream:                             *)
(*   TypeCorrect    the variables keep their types, so a record number     *)
(*                  never outgrows its range;                              *)
(*   NeverOutOfStep the receiver always expects the number of the next     *)
(*                  record;                                                *)
(*   NumbersFresh   no number is used twice before all have been used;     *)
(*   IsChannel      the record layer implements Channel;                   *)
(*   AlwaysFramed   no unit of the stream is lost or parsed twice.         *)
(***************************************************************************)
EXTENDS RecordLayer, WellFoundedInduction, TLAPS

USE LengthAssumption, SeqLimitAssumption, MaxCallsAssumption

WireRecord == [payload : Payload, num : 0..(SeqLimit - 1)]

\* The records on their way carry, in order, the payloads that were sent and
\* have not been returned.
Carried ==
    /\ sameKeys =>
        /\ Len(sent) = Len(got) + Len(wire)
        /\ \A i \in 1..Len(wire) : wire[i].payload = sent[Len(got) + i]
    /\ ~sameKeys => got = <<>>

Inv == TypeOK /\ InStep /\ Carried

-----------------------------------------------------------------------------

\* The next record number stays in the range of the length-limited field.
LEMMA NumberRange ==
    ASSUME NEW n \in 0..(SeqLimit - 1)
    PROVE  NextNumber(n) \in 0..(SeqLimit - 1)
  BY DEF NextNumber

\* A payload without its zeros at the end is not longer than before.
LEMMA StrippedType ==
    ASSUME NEW p \in Payload
    PROVE  Stripped(p) \in [len : 0..MaxLen, zeros : {0}]
  <1>1. p.len \in 1..MaxLen /\ p.zeros \in 0..MaxLen /\ p.zeros <= p.len
    BY DEF Payload
  <1>2. p.len - p.zeros \in 0..MaxLen
    BY <1>1
  <1> QED BY <1>2 DEF Stripped

\* The invariant holds before anything has been sent.
LEMMA InvInit == Init => Inv
  <1> SUFFICES ASSUME Init PROVE Inv
    OBVIOUS
  <1>1. TypeOK
    <2>1. catches \in BOOLEAN /\ ended \in BOOLEAN /\ sameKeys \in BOOLEAN
      BY DEF Init
    <2> QED BY <2>1 DEF Init, TypeOK
  <1>2. InStep /\ Carried
    BY DEF Init, InStep, Carried
  <1> QED BY <1>1, <1>2 DEF Inv

\* A written record continues the numbering and the payloads; a refused one
\* leaves both alone.
LEMMA SendStep == Inv /\ Send => Inv'
  <1> SUFFICES ASSUME Inv, Send PROVE Inv'
    OBVIOUS
  <1> USE DEF Inv
  <1>1. PICK p \in Payload : Write(p) \/ Refuse(p)
    BY DEF Send
  <1>2. UNCHANGED <<buffered, sameKeys, rnum, got>> /\ calls' \in 0..MaxCalls
    BY DEF Send, TypeOK
  <1>5. catches' \in BOOLEAN /\ ended' \in BOOLEAN
    BY <1>1 DEF Send, Write, Refuse, TypeOK
  <1>3. CASE Write(p)
    <2> DEFINE r == [payload |-> p, num |-> wnum]
    <2>1. /\ wire' = Append(wire, r) /\ sent' = Append(sent, p) /\ wnum' = NextNumber(wnum)
          /\ inflight' = inflight + Header + Sealed(p)
      BY <1>3 DEF Write
    <2>2. r \in WireRecord /\ wire \in Seq(WireRecord) /\ sent \in Seq(Payload)
      BY DEF WireRecord, TypeOK
    <2>3. /\ Len(wire') = Len(wire) + 1 /\ wire'[Len(wire) + 1] = r
          /\ \A i \in 1..Len(wire) : wire'[i] = wire[i]
          /\ Len(sent') = Len(sent) + 1 /\ sent'[Len(sent) + 1] = p
          /\ \A i \in 1..Len(sent) : sent'[i] = sent[i]
      BY <2>1, <2>2
    <2>4. TypeOK'
      <3>1. wire' \in Seq(WireRecord) /\ sent' \in Seq(Payload)
        BY <2>1, <2>2
      <3>2. wnum' \in 0..(SeqLimit - 1)
        BY <2>1, NumberRange DEF TypeOK
      <3>3. inflight' \in Nat
        BY <2>1 DEF Header, Sealed, Payload, TypeOK
      <3> QED BY <3>1, <3>2, <3>3, <1>2, <1>5 DEF TypeOK, WireRecord
    <2>5. InStep'
      <3> SUFFICES ASSUME sameKeys
                   PROVE  /\ wire'[1].num = rnum
                          /\ wnum' = NextNumber(wire'[Len(wire')].num)
                          /\ \A i \in 1..(Len(wire') - 1) :
                               wire'[i + 1].num = NextNumber(wire'[i].num)
        BY <1>2, <2>2, <2>3 DEF InStep
      <3>1. wnum' = NextNumber(wire'[Len(wire')].num)
        BY <2>1, <2>2, <2>3
      <3>2. wire'[1].num = rnum
        BY <2>2, <2>3 DEF InStep
      <3>3. ASSUME NEW i \in 1..(Len(wire') - 1)
            PROVE  wire'[i + 1].num = NextNumber(wire'[i].num)
        <4>1. CASE i = Len(wire)
          BY <4>1, <2>2, <2>3 DEF InStep
        <4>2. CASE i \in 1..(Len(wire) - 1)
          BY <4>2, <2>2, <2>3 DEF InStep
        <4> QED BY <4>1, <4>2, <2>2, <2>3
      <3> QED BY <3>1, <3>2, <3>3
    <2>6. Carried'
      <3>1. CASE sameKeys
        <4>1. Len(sent') = Len(got') + Len(wire')
          <5>1. Len(got) \in Nat /\ Len(wire) \in Nat /\ Len(sent) = Len(got) + Len(wire)
            BY <3>1, <2>2 DEF Carried, TypeOK
          <5> QED BY <5>1, <1>2, <2>3
        <4>2. ASSUME NEW i \in 1..Len(wire')
              PROVE  wire'[i].payload = sent'[Len(got') + i]
          <5>1. CASE i = Len(wire) + 1
            <6>1. Len(got) \in Nat /\ Len(wire) \in Nat /\ Len(sent) = Len(got) + Len(wire)
              BY <3>1, <2>2 DEF Carried, TypeOK
            <6>2. Len(got) + i = Len(sent) + 1
              BY <5>1, <6>1
            <6>3. wire'[i].payload = p
              BY <5>1, <2>3
            <6> QED BY <6>2, <6>3, <1>2, <2>3
          <5>2. CASE i \in 1..Len(wire)
            <6>1. Len(got) + i \in 1..Len(sent)
              BY <5>2, <3>1, <2>2 DEF Carried, TypeOK
            <6> QED BY <6>1, <5>2, <3>1, <1>2, <2>3 DEF Carried
          <5> QED BY <5>1, <5>2, <2>2, <2>3
        <4> QED BY <3>1, <1>2, <4>1, <4>2 DEF Carried
      <3> QED BY <3>1, <1>2 DEF Carried
    <2> QED BY <2>4, <2>5, <2>6
  <1>4. CASE Refuse(p)
    BY <1>2, <1>4, <1>5 DEF Refuse, TypeOK, InStep, Carried
  <1> QED BY <1>1, <1>3, <1>4

\* recv moves units into the buffer and touches no record.
LEMMA RecvStep == Inv /\ Recv => Inv'
  <1> SUFFICES ASSUME Inv, Recv PROVE Inv'
    OBVIOUS
  <1>1. UNCHANGED <<calls, sent, wnum, catches, ended, wire, sameKeys, rnum, got>>
    BY DEF Recv, writer
  <1>2. inflight' \in Nat /\ buffered' \in Nat
    BY DEF Recv, Inv, TypeOK
  <1> QED BY <1>1, <1>2 DEF Inv, TypeOK, InStep, Carried

\* The record taken out of the buffer is the one with the expected number, and
\* the next number is the one of the record behind it.
LEMMA UnprotectStep == Inv /\ Unprotect => Inv'
  <1> SUFFICES ASSUME Inv, Unprotect PROVE Inv'
    OBVIOUS
  <1> USE DEF Inv
  <1> DEFINE r == wire[1]
  <1>1. wire # <<>> /\ wire' = Tail(wire) /\ buffered >= Size(r)
    BY DEF Unprotect, Complete
  <1>2. wire \in Seq(WireRecord) /\ got \in Seq([len : 0..MaxLen, zeros : {0}])
    BY DEF TypeOK, WireRecord
  <1>3. UNCHANGED <<calls, sent, wnum, catches, ended, inflight, sameKeys>>
    BY DEF Unprotect, writer
  <1>4. /\ wire' \in Seq(WireRecord) /\ Len(wire) >= 1 /\ Len(wire') = Len(wire) - 1
        /\ \A i \in 1..Len(wire') : wire'[i] = wire[i + 1]
    BY <1>1, <1>2
  <1>5. r \in WireRecord
    BY <1>1, <1>2
  <1>6. buffered' \in Nat
    <2>1. Size(r) \in Nat
      BY <1>5 DEF Size, Header, Sealed, WireRecord, Payload
    <2> QED BY <2>1, <1>1 DEF Unprotect, TypeOK
  <1>7. CASE sameKeys
    <2>1. r.num = rnum
      BY <1>1, <1>7 DEF InStep
    <2>2. rnum' = NextNumber(rnum) /\ got' = Append(got, Stripped(r.payload))
      BY <1>7, <2>1 DEF Unprotect
    <2>3. Stripped(r.payload) \in [len : 0..MaxLen, zeros : {0}]
      BY <1>5, StrippedType DEF WireRecord
    <2>4. got' \in Seq([len : 0..MaxLen, zeros : {0}]) /\ Len(got') = Len(got) + 1
      BY <1>2, <2>2, <2>3
    <2>5. TypeOK'
      <3>1. rnum' \in 0..(SeqLimit - 1)
        BY <2>2, NumberRange DEF TypeOK
      <3> QED BY <3>1, <2>4, <1>3, <1>4, <1>6 DEF TypeOK, WireRecord
    <2>6. InStep'
      <3>1. CASE Len(wire) = 1
        <4>1. wire' = <<>> /\ Len(wire') = 0
          BY <3>1, <1>2, <1>4
        <4>2. wnum = NextNumber(r.num)
          BY <3>1, <1>1, <1>7 DEF InStep
        <4>3. wnum' = rnum'
          BY <4>2, <2>1, <2>2, <1>3
        <4> QED BY <4>1, <4>3 DEF InStep
      <3>2. CASE Len(wire) > 1
        <4>1. wire'[1].num = rnum'
          BY <3>2, <1>2, <1>4, <1>7, <2>1, <2>2 DEF InStep
        <4>2. wnum' = NextNumber(wire'[Len(wire')].num)
          BY <3>2, <1>1, <1>2, <1>3, <1>4, <1>7 DEF InStep
        <4>3. ASSUME NEW i \in 1..(Len(wire') - 1)
              PROVE  wire'[i + 1].num = NextNumber(wire'[i].num)
          <5>1. i + 1 \in 1..(Len(wire) - 1) /\ i + 1 \in 1..Len(wire') /\ i \in 1..Len(wire')
            BY <1>2, <1>4
          <5> QED BY <5>1, <1>4, <1>7 DEF InStep
        <4>4. wire' # <<>>
          BY <3>2, <1>2, <1>4
        <4> QED BY <4>1, <4>2, <4>3, <4>4, <1>3, <1>7 DEF InStep
      <3> QED BY <3>1, <3>2, <1>2, <1>4
    <2>7. Carried'
      <3>1. Len(sent') = Len(got') + Len(wire')
        BY <1>2, <1>3, <1>4, <1>7, <2>4 DEF Carried
      <3>2. ASSUME NEW i \in 1..Len(wire')
            PROVE  wire'[i].payload = sent'[Len(got') + i]
        <4>1. i + 1 \in 1..Len(wire) /\ Len(got') + i = Len(got) + (i + 1)
          BY <1>2, <1>4, <2>4
        <4> QED BY <4>1, <1>3, <1>4, <1>7 DEF Carried
      <3> QED BY <3>1, <3>2, <1>3, <1>7 DEF Carried
    <2> QED BY <2>5, <2>6, <2>7
  <1>8. CASE ~sameKeys
    <2>1. UNCHANGED <<rnum, got>>
      BY <1>8 DEF Unprotect
    <2>2. TypeOK'
      BY <2>1, <1>3, <1>4, <1>6 DEF TypeOK, WireRecord
    <2> QED BY <2>1, <2>2, <1>3, <1>8 DEF InStep, Carried
  <1> QED BY <1>7, <1>8

\* Types, numbering and payloads are invariant.
LEMMA Invariance == Spec => []Inv
  <1>1. Inv /\ [Next]_vars => Inv'
    <2>1. Inv /\ UNCHANGED vars => Inv'
      BY DEF Inv, TypeOK, InStep, Carried, vars
    <2> QED BY <2>1, SendStep, RecvStep, UnprotectStep DEF Next
  <1> QED BY <1>1, InvInit, PTL DEF Spec

\* Every reachable state has the types of TypeOK: in particular no record
\* number outgrows its range, which to_bytes would refuse.
THEOREM TypeCorrect == Spec => []TypeOK
  <1>1. Inv => TypeOK
    BY DEF Inv
  <1> QED BY <1>1, Invariance, PTL

\* For every range of record numbers and every cut of the stream, a receiver
\* with the right keys expects the number of the next record.
THEOREM NeverOutOfStep == Spec => []InStep
  <1>1. Inv => InStep
    BY DEF Inv
  <1> QED BY <1>1, Invariance, PTL

\* For every range of record numbers, the number of the next record is that of
\* the records written, refusals not counted, until the range is used up: the
\* number is advanced once per record, and by nothing else.
THEOREM NumbersFresh == Spec => []FreshUntilWrap
  <1>1. Init => FreshUntilWrap
    BY DEF Init, FreshUntilWrap
  <1>2. Inv /\ FreshUntilWrap /\ [Next]_vars => FreshUntilWrap'
    <2> SUFFICES ASSUME Inv, FreshUntilWrap, [Next]_vars PROVE FreshUntilWrap'
      OBVIOUS
    <2>1. sent \in Seq(Payload) /\ Len(sent) \in Nat
      BY DEF Inv, TypeOK
    <2>2. CASE Send
      <3>1. PICK p \in Payload : Write(p) \/ Refuse(p)
        BY <2>2 DEF Send
      <3>2. CASE Write(p)
        <4>1. Len(sent') = Len(sent) + 1 /\ wnum' = NextNumber(wnum)
          BY <2>1, <3>2 DEF Write
        <4> QED BY <2>1, <4>1 DEF FreshUntilWrap, NextNumber
      <3>3. CASE Refuse(p)
        BY <3>3 DEF Refuse, FreshUntilWrap
      <3> QED BY <3>1, <3>2, <3>3
    <2>3. CASE Recv \/ Unprotect \/ UNCHANGED vars
      BY <2>3 DEF Recv, Unprotect, vars, writer, FreshUntilWrap
    <2> QED BY <2>2, <2>3 DEF Next
  <1> QED BY <1>1, <1>2, Invariance, PTL DEF Spec

-----------------------------------------------------------------------------

SentContent == [i \in 1..Len(sent) |-> Stripped(sent[i])]

\* Stripping commutes with an append.
LEMMA StripAppend ==
    ASSUME NEW s \in Seq(Payload), NEW p \in Payload
    PROVE  [i \in 1..Len(Append(s, p)) |-> Stripped(Append(s, p)[i])]
             = Append([i \in 1..Len(s) |-> Stripped(s[i])], Stripped(p))
  <1> DEFINE a == [i \in 1..Len(Append(s, p)) |-> Stripped(Append(s, p)[i])]
             b == [i \in 1..Len(s) |-> Stripped(s[i])]
             C == {Stripped(q) : q \in Payload}
  <1>1. a \in Seq(C) /\ b \in Seq(C) /\ Stripped(p) \in C
    OBVIOUS
  <1>2. Append(b, Stripped(p)) \in Seq(C)
    BY <1>1
  <1>3. Len(a) = Len(s) + 1 /\ Len(b) = Len(s) /\ Len(Append(b, Stripped(p))) = Len(s) + 1
    BY <1>1
  <1>4. ASSUME NEW i \in 1..(Len(s) + 1)
        PROVE  a[i] = Append(b, Stripped(p))[i]
    <2>1. CASE i = Len(s) + 1
      BY <2>1, <1>1, <1>3
    <2>2. CASE i \in 1..Len(s)
      BY <2>2, <1>1, <1>3
    <2> QED BY <2>1, <2>2
  <1> QED BY <1>1, <1>2, <1>3, <1>4

\* Every step of the record layer is a step of the channel or leaves it alone:
\* a written record puts a payload in, a decrypted one takes the next one out.
LEMMA ChannelStep == Inv /\ [Next]_vars => [Fifo!Next]_(Fifo!vars)
  <1> SUFFICES ASSUME Inv, [Next]_vars PROVE [Fifo!Next]_(Fifo!vars)
    OBVIOUS
  <1>1. CASE Send
    <2>1. PICK p \in Payload : Write(p) \/ Refuse(p)
      BY <1>1 DEF Send
    <2>2. CASE Write(p)
      <3>1. sent' = Append(sent, p) /\ got' = got /\ sent \in Seq(Payload)
        BY <1>1, <2>2 DEF Send, Write, Inv, TypeOK
      <3>2. SentContent' = Append(SentContent, Stripped(p))
        BY <3>1, StripAppend DEF SentContent
      <3> QED BY <3>1, <3>2 DEF Fifo!Next, Fifo!Put, SentContent
    <2>3. CASE Refuse(p)
      BY <1>1, <2>3 DEF Send, Refuse, Fifo!vars
    <2> QED BY <2>1, <2>2, <2>3
  <1>2. CASE Recv
    BY <1>2 DEF Recv, writer, Fifo!vars
  <1>3. CASE Unprotect
    <2>1. sent' = sent
      BY <1>3 DEF Unprotect, writer
    <2>2. CASE sameKeys /\ Head(wire).num = rnum
      <3>1. got' = Append(got, Stripped(wire[1].payload)) /\ wire # <<>>
        BY <1>3, <2>2 DEF Unprotect, Complete
      <3>2. wire \in Seq(WireRecord) /\ sent \in Seq(Payload)
            /\ got \in Seq([len : 0..MaxLen, zeros : {0}])
        BY DEF Inv, TypeOK, WireRecord
      <3>3. 1 \in 1..Len(wire) /\ Len(sent) = Len(got) + Len(wire)
        BY <3>1, <3>2, <2>2 DEF Inv, Carried
      <3>4. wire[1].payload = sent[Len(got) + 1] /\ Len(got) + 1 \in 1..Len(sent)
        BY <3>2, <3>3, <2>2 DEF Inv, Carried
      <3>5. /\ Len(SentContent) = Len(sent)
            /\ SentContent[Len(got) + 1] = Stripped(wire[1].payload)
        BY <3>2, <3>4 DEF SentContent
      <3>6. SentContent' = SentContent
        BY <2>1 DEF SentContent
      <3> QED BY <3>1, <3>2, <3>4, <3>5, <3>6 DEF Fifo!Next, Fifo!Take, SentContent
    <2>3. CASE ~(sameKeys /\ Head(wire).num = rnum)
      BY <1>3, <2>1, <2>3 DEF Unprotect, Fifo!vars
    <2> QED BY <2>2, <2>3
  <1>4. CASE UNCHANGED vars
    BY <1>4 DEF vars, Fifo!vars
  <1> QED BY <1>1, <1>2, <1>3, <1>4 DEF Next

\* For every length limit, every range of record numbers and every cut of the
\* stream the record layer implements a channel: the payloads, without the
\* zeros at their end, come out in order, none missing and none twice.
THEOREM IsChannel == Spec => ImplementsChannel
  <1>1. Init => Fifo!Init
    BY DEF Init, Fifo!Init
  <1> QED BY <1>1, ChannelStep, Invariance, PTL DEF Spec, ImplementsChannel, Fifo!Spec

-----------------------------------------------------------------------------
(***************************************************************************)
(* Framing.  Units is a recursive function over the records on their way:  *)
(* that it exists, and what an append at the one end and a Tail at the     *)
(* other make of it, is shown by induction over the naturals.              *)
(***************************************************************************)

\* Induction over the naturals, for a set rather than for a predicate.
LEMMA NatInSet ==
    ASSUME NEW S, 0 \in S, \A n \in Nat : n \in S => n + 1 \in S
    PROVE  Nat \subseteq S
  <1> SUFFICES ASSUME Nat \ S # {} PROVE FALSE
    OBVIOUS
  <1>1. PICK x \in Nat \ S : \A y \in Nat \ S : ~ (<<y, x>> \in OpToRel(<, Nat))
    BY NatLessThanWellFounded, WFMin
  <1>0. x # 0
    BY <1>1
  <1>2. PICK y \in Nat : x = y + 1
    BY <1>0
  <1>3. y \in S
    <2>1. <<y, x>> \in OpToRel(<, Nat)
      BY <1>1, <1>2 DEF OpToRel
    <2> QED BY <1>1, <2>1
  <1> QED BY <1>1, <1>2, <1>3

\* Units for any records w.
Total(w) == CHOOSE g : g = [n \in Nat |-> IF n = 0 THEN 0 ELSE g[n - 1] + Size(w[n])]

\* There is such a function, so it is what its definition says.
LEMMA TotalUnfolds ==
    ASSUME NEW w
    PROVE  Total(w)[0] = 0 /\ \A n \in Nat : Total(w)[n + 1] = Total(w)[n] + Size(w[n + 1])
  <1> DEFINE B(s, n) == s + Size(w[n])
             D(g, n) == IF n = 0 THEN 0 ELSE B(g[n - 1], n)
             A(g, k) == g = [n \in 0..k |-> D(g, n)]
             P(g) == g = [n \in Nat |-> D(g, n)]
  <1>1. Total(w) = CHOOSE g : P(g)
    BY DEF Total
  <1> HIDE DEF B
  <1> DEFINE S == {k \in Nat : \E g : A(g, k)}
  <1>2. 0 \in S
    <2> DEFINE h == [n \in 0..0 |-> 0]
    <2>1. A(h, 0)
      OBVIOUS
    <2> HIDE DEF h, A
    <2> QED BY <2>1
  <1>3. ASSUME NEW k \in Nat, k \in S
        PROVE  k + 1 \in S
    <2>1. PICK g : A(g, k)
      BY <1>3
    <2> DEFINE h == [n \in 0..(k + 1) |-> IF n = k + 1 THEN B(g[k], n) ELSE g[n]]
    <2>2. ASSUME NEW n \in 0..(k + 1)
          PROVE  h[n] = D(h, n)
      <3>1. CASE n = k + 1
        BY <3>1
      <3>2. CASE n # k + 1
        <4>1. n \in 0..k /\ h[n] = g[n] /\ (n # 0 => h[n - 1] = g[n - 1])
          BY <3>2
        <4> QED BY <2>1, <4>1
      <3> QED BY <3>1, <3>2
    <2>3. h = [n \in 0..(k + 1) |-> h[n]]
      OBVIOUS
    <2> HIDE DEF h
    <2>4. A(h, k + 1)
      BY <2>2, <2>3
    <2> HIDE DEF A
    <2> QED BY <2>4
  <1>4. ASSUME NEW k \in Nat
        PROVE  \E g : A(g, k)
    <2>1. Nat \subseteq S
      <3> HIDE DEF S
      <3> QED BY <1>2, <1>3, NatInSet
    <2> HIDE DEF A
    <2> QED BY <2>1
  <1>5. ASSUME NEW k \in Nat, NEW g, A(g, k), NEW l \in Nat, NEW h, A(h, l)
        PROVE  \A n \in Nat : n <= k /\ n <= l => g[n] = h[n]
    <2> DEFINE T == {n \in Nat : n <= k /\ n <= l => g[n] = h[n]}
    <2>1. 0 \in T
      BY <1>5
    <2>2. ASSUME NEW n \in Nat, n \in T
          PROVE  n + 1 \in T
      <3> SUFFICES ASSUME n + 1 <= k, n + 1 <= l
                   PROVE  g[n + 1] = h[n + 1]
        OBVIOUS
      <3>1. n + 1 \in 0..k /\ n + 1 \in 0..l /\ n + 1 # 0 /\ (n + 1) - 1 = n /\ g[n] = h[n]
        BY <2>2
      <3>2. g[n + 1] = D(g, n + 1) /\ h[n + 1] = D(h, n + 1)
        BY <1>5, <3>1
      <3> QED BY <3>1, <3>2
    <2>3. Nat \subseteq T
      <3> HIDE DEF T
      <3> QED BY <2>1, <2>2, NatInSet
    <2> QED BY <2>3
  <1> DEFINE F(k) == CHOOSE g : A(g, k)
             G == [n \in Nat |-> F(n)[n]]
  <1>6. ASSUME NEW k \in Nat
        PROVE  A(F(k), k)
    <2> HIDE DEF A
    <2> QED BY <1>4
  <1>7. ASSUME NEW n \in Nat
        PROVE  G[n] = D(G, n)
    <2>1. F(n)[n] = D(F(n), n)
      <3>1. A(F(n), n)
        BY <1>6
      <3> HIDE DEF F, D
      <3> QED BY <3>1
    <2>2. CASE n = 0
      BY <2>1, <2>2
    <2>3. CASE n # 0
      <3>1. n - 1 \in Nat /\ n - 1 <= n
        BY <2>3
      <3>2. A(F(n), n) /\ A(F(n - 1), n - 1)
        BY <1>6, <3>1
      <3>3. F(n)[n - 1] = F(n - 1)[n - 1]
        <4> HIDE DEF F, A
        <4> QED BY <1>5, <3>1, <3>2
      <3> HIDE DEF F
      <3> QED BY <2>1, <2>3, <3>1, <3>3
    <2> QED BY <2>2, <2>3
  <1>8. P(Total(w))
    <2>1. G = [n \in Nat |-> G[n]]
      BY DEF G
    <2> HIDE DEF G
    <2>2. P(G)
      BY <1>7, <2>1
    <2> HIDE DEF P
    <2> QED BY <1>1, <2>2
  <1>9. \A n \in Nat : Total(w)[n] = D(Total(w), n)
    <2> HIDE DEF D
    <2> QED BY <1>8
  <1>10. ASSUME NEW n \in Nat
         PROVE  Total(w)[n + 1] = B(Total(w)[n], n + 1)
    <2>1. n + 1 \in Nat /\ n + 1 # 0 /\ (n + 1) - 1 = n
      OBVIOUS
    <2> QED BY <1>9, <2>1
  <1> QED BY <1>9, <1>10 DEF B

\* A record has a size, and so have the first n.
LEMMA TotalTyped ==
    ASSUME NEW w \in Seq(WireRecord)
    PROVE  /\ \A n \in 1..Len(w) : Size(w[n]) \in Nat
           /\ \A n \in Nat : n <= Len(w) => Total(w)[n] \in Nat
  <1>1. ASSUME NEW r \in WireRecord
        PROVE  Size(r) \in Nat
    <2>1. r.payload \in Payload
      BY DEF WireRecord
    <2>2. r.payload.len \in Nat
      BY <2>1 DEF Payload
    <2> QED BY <2>2 DEF Size, Header, Sealed
  <1>2. ASSUME NEW n \in 1..Len(w)
        PROVE  Size(w[n]) \in Nat
    <2>1. w[n] \in WireRecord
      OBVIOUS
    <2> QED BY <1>1, <2>1
  <1> DEFINE S == {n \in Nat : n <= Len(w) => Total(w)[n] \in Nat}
  <1>3. 0 \in S
    BY TotalUnfolds
  <1>4. ASSUME NEW n \in Nat, n \in S
        PROVE  n + 1 \in S
    <2> SUFFICES ASSUME n + 1 <= Len(w)
                 PROVE  Total(w)[n + 1] \in Nat
      OBVIOUS
    <2>1. n + 1 \in 1..Len(w) /\ Total(w)[n] \in Nat
      BY <1>4
    <2>2. Total(w)[n + 1] = Total(w)[n] + Size(w[n + 1])
      BY TotalUnfolds
    <2> QED BY <1>2, <2>1, <2>2
  <1>5. Nat \subseteq S
    <2> HIDE DEF S
    <2> QED BY <1>3, <1>4, NatInSet
  <1> QED BY <1>2, <1>5

\* A record that is written is counted behind the others.
LEMMA TotalAppend ==
    ASSUME NEW w \in Seq(WireRecord), NEW r \in WireRecord
    PROVE  Total(Append(w, r))[Len(w) + 1] = Total(w)[Len(w)] + Size(r)
  <1> DEFINE a == Append(w, r)
             S == {n \in Nat : n <= Len(w) => Total(a)[n] = Total(w)[n]}
  <1>1. Len(w) \in Nat /\ a[Len(w) + 1] = r /\ \A n \in 1..Len(w) : a[n] = w[n]
    OBVIOUS
  <1> HIDE DEF a
  <1>2. 0 \in S
    BY TotalUnfolds
  <1>3. ASSUME NEW n \in Nat, n \in S
        PROVE  n + 1 \in S
    <2> SUFFICES ASSUME n + 1 <= Len(w)
                 PROVE  Total(a)[n + 1] = Total(w)[n + 1]
      OBVIOUS
    <2>1. n + 1 \in 1..Len(w) /\ Total(a)[n] = Total(w)[n]
      BY <1>1, <1>3
    <2>2. /\ Total(w)[n + 1] = Total(w)[n] + Size(w[n + 1])
          /\ Total(a)[n + 1] = Total(a)[n] + Size(a[n + 1])
      BY TotalUnfolds
    <2> QED BY <1>1, <2>1, <2>2
  <1>4. Nat \subseteq S
    <2> HIDE DEF S
    <2> QED BY <1>2, <1>3, NatInSet
  <1>5. Total(a)[Len(w)] = Total(w)[Len(w)]
    BY <1>1, <1>4
  <1>6. Total(a)[Len(w) + 1] = Total(a)[Len(w)] + Size(a[Len(w) + 1])
    BY <1>1, TotalUnfolds
  <1> QED BY <1>1, <1>5, <1>6 DEF a

\* A record that is taken out takes its units with it.
LEMMA TotalTail ==
    ASSUME NEW w \in Seq(WireRecord), w # <<>>
    PROVE  Total(w)[Len(w)] = Size(w[1]) + Total(Tail(w))[Len(w) - 1]
  <1> DEFINE t == Tail(w)
             S == {n \in Nat : n + 1 <= Len(w) => Total(w)[n + 1] = Size(w[1]) + Total(t)[n]}
  <1>1. /\ Len(w) \in Nat /\ Len(w) >= 1 /\ t \in Seq(WireRecord) /\ Len(t) = Len(w) - 1
        /\ \A n \in 1..Len(t) : t[n] = w[n + 1]
    OBVIOUS
  <1> HIDE DEF t
  <1>2. Size(w[1]) \in Nat
    <2>1. 1 \in 1..Len(w)
      BY <1>1
    <2> QED BY <2>1, TotalTyped
  <1>3. 0 \in S
    <2>1. Total(w)[0] = 0 /\ Total(t)[0] = 0 /\ Total(w)[0 + 1] = Total(w)[0] + Size(w[0 + 1])
      BY TotalUnfolds
    <2> QED BY <1>2, <2>1
  <1>4. ASSUME NEW n \in Nat, n \in S
        PROVE  n + 1 \in S
    <2> SUFFICES ASSUME (n + 1) + 1 <= Len(w)
                 PROVE  Total(w)[(n + 1) + 1] = Size(w[1]) + Total(t)[n + 1]
      OBVIOUS
    <2>1. n + 1 \in 1..Len(t) /\ n <= Len(t) /\ n + 1 <= Len(w)
      BY <1>1
    <2>2. Total(w)[n + 1] = Size(w[1]) + Total(t)[n]
      BY <1>4, <2>1
    <2>3. Total(w)[(n + 1) + 1] = Total(w)[n + 1] + Size(w[(n + 1) + 1])
      BY TotalUnfolds
    <2>4. Total(t)[n + 1] = Total(t)[n] + Size(t[n + 1])
      BY TotalUnfolds
    <2>5. t[n + 1] = w[(n + 1) + 1]
      BY <1>1, <2>1
    <2>6. Total(t)[n] \in Nat /\ Size(t[n + 1]) \in Nat
      BY <1>1, <2>1, TotalTyped
    <2> QED BY <1>2, <2>2, <2>3, <2>4, <2>5, <2>6
  <1>5. Nat \subseteq S
    <2> HIDE DEF S
    <2> QED BY <1>3, <1>4, NatInSet
  <1>6. PICK n \in Nat : n = Len(w) - 1 /\ n + 1 = Len(w)
    BY <1>1
  <1>7. n \in S
    <2> HIDE DEF S
    <2> QED BY <1>5
  <1>8. n + 1 <= Len(w)
    BY <1>1, <1>6
  <1> QED BY <1>6, <1>7, <1>8 DEF t

\* What is buffered and in flight is the records on their way, whole, in every
\* step: a call of send_application_data adds a record or nothing, recv moves
\* units, and unprotect_record removes what the header announced.
LEMMA FramedStep == Inv /\ Framed /\ [Next]_vars => Framed'
  <1> SUFFICES ASSUME Inv, Framed, [Next]_vars PROVE Framed'
    OBVIOUS
  <1>1. wire \in Seq(WireRecord) /\ Len(wire) \in Nat /\ inflight \in Nat /\ buffered \in Nat
        /\ wnum \in 0..(SeqLimit - 1)
    BY DEF Inv, TypeOK, WireRecord
  <1>2. Units = Total(wire) /\ Units' = Total(wire')
    BY DEF Units, Total
  <1>3. PICK k \in Nat : k = Total(wire)[Len(wire)] /\ buffered + inflight = k
    BY <1>1, <1>2, TotalTyped DEF Framed
  <1>4. CASE Send
    <2>1. PICK p \in Payload : Write(p) \/ Refuse(p)
      BY <1>4 DEF Send
    <2>2. buffered' = buffered
      BY <1>4 DEF Send
    <2>3. CASE Write(p)
      <3>1. PICK r \in WireRecord : r = [payload |-> p, num |-> wnum]
        BY <1>1 DEF WireRecord
      <3>2. wire' = Append(wire, r) /\ inflight' = inflight + Header + Sealed(p)
        BY <2>3, <3>1 DEF Write
      <3>3. Len(wire') = Len(wire) + 1
        BY <1>1, <3>2
      <3>4. p.len \in Nat /\ r.payload = p
        BY <3>1 DEF Payload
      <3>5. inflight' = inflight + Size(r) /\ Size(r) \in Nat
        <4>1. PICK l \in Nat : l = p.len
          BY <3>4
        <4>2. Header = 2 /\ Sealed(p) = l + 1 /\ Size(r) = 2 + (l + 1)
          BY <3>4, <4>1 DEF Header, Sealed, Size
        <4> QED BY <1>1, <3>2, <4>2
      <3>6. Total(wire')[Len(wire')] = k + Size(r)
        BY <1>1, <1>3, <3>2, <3>3, TotalAppend
      <3> QED BY <1>1, <1>2, <1>3, <2>2, <3>5, <3>6 DEF Framed
    <2>4. CASE Refuse(p)
      BY <1>2, <2>2, <2>4 DEF Refuse, Framed
    <2> QED BY <2>1, <2>3, <2>4
  <1>5. CASE Recv
    <2>1. PICK j \in 1..inflight : inflight' = inflight - j /\ buffered' = buffered + j
      BY <1>5 DEF Recv
    <2>2. wire' = wire
      BY <1>5 DEF Recv
    <2>3. buffered' + inflight' = buffered + inflight
      BY <1>1, <2>1
    <2> QED BY <1>2, <2>2, <2>3 DEF Framed
  <1>6. CASE Unprotect
    <2>1. /\ wire # <<>> /\ wire' = Tail(wire) /\ inflight' = inflight
          /\ buffered' = buffered - Size(wire[1])
      BY <1>6 DEF Unprotect, Complete
    <2>2. Len(wire') = Len(wire) - 1 /\ wire' \in Seq(WireRecord) /\ 1 \in 1..Len(wire)
          /\ Len(wire') \in Nat
      BY <1>1, <2>1
    <2>3. Size(wire[1]) \in Nat /\ Total(wire')[Len(wire')] \in Nat
      BY <1>1, <2>2, TotalTyped
    <2>4. k = Size(wire[1]) + Total(wire')[Len(wire')]
      BY <1>1, <1>3, <2>1, <2>2, TotalTail
    <2> QED BY <1>1, <1>2, <1>3, <2>1, <2>3, <2>4 DEF Framed
  <1>7. CASE UNCHANGED vars
    BY <1>2, <1>7 DEF vars, Framed
  <1> QED BY <1>4, <1>5, <1>6, <1>7 DEF Next

\* For every limit of the length field and every cut of the stream, with the
\* right keys or not, over failed records and refused payloads, the buffer
\* continues where the last whole record ended.
THEOREM AlwaysFramed == Spec => []Framed
  <1>1. Init => Framed
    <2> SUFFICES ASSUME Init PROVE Framed
      OBVIOUS
    <2>1. Units = Total(wire)
      BY DEF Units, Total
    <2>2. Units[0] = 0
      BY <2>1, TotalUnfolds
    <2> QED BY <2>2 DEF Init, Framed
  <1> QED BY <1>1, FramedStep, Invariance, PTL DEF Spec
=============================================================================
