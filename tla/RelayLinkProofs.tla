--------------------------- MODULE RelayLinkProofs ---------------------------
(***************************************************************************)
(* What RelayLink guarantees for every number of handlers, of messages and *)
(* every buffer size:                                                      *)
(*   TypeCorrect     the variables keep their types;                       *)
(*   Order           per-sender order without duplicates on the screen,    *)
(*                   from the inductive invariant OrderInv;                *)
(*   NoLoss          no record is lost before relays overlap, from the     *)
(*                   inductive invariant LossInv;                          *)
(*   PermanentLoss   a lost record number is never recovered.              *)
(***************************************************************************)
EXTENDS RelayLink, TLAPS

(***************************************************************************)
(* OrderInv follows a message from the handler that carries it, over the   *)
(* stream, to the screen: at each place the numbers of one sender are      *)
(* below those still behind them.                                          *)
(***************************************************************************)

Older(r, s) == r.from = s.from => r.num < s.num

\* A record on its way carries an older message than the one its sender holds.
Behind(r) ==
    /\ r.num <= msg[r.from]
    /\ InFlight(r.from) => r.num < msg[r.from]

WireOrder == \A i, j \in 1..Len(wire) : i < j => Older(wire[i], wire[j])
ScreenOrder == \A i, j \in 1..Len(shown) : i < j => Older(shown[i], shown[j])
ScreenBeforeWire ==
    \A i \in 1..Len(shown) : \A j \in (taken + 1)..Len(wire) : Older(shown[i], wire[j])
AllBehind ==
    /\ \A i \in 1..Len(wire) : Behind(wire[i])
    /\ \A i \in 1..Len(shown) : Behind(shown[i])

OrderInv == WireOrder /\ ScreenOrder /\ ScreenBeforeWire /\ AllBehind

(***************************************************************************)
(* LossInv: while relays have not overlapped, at most one handler is in    *)
(* the relay path, record i of the stream carries number i-1, and the      *)
(* counter is at the number the next record will need.                     *)
(***************************************************************************)

OneInFlight == \A g, h \in Handlers : InFlight(g) /\ InFlight(h) => g = h

Numbered ==
    /\ \A i \in 1..Len(wire) : wire[i].seq = i - 1
    /\ \A h \in Handlers : pc[h] = "sending" => stamp[h] = Len(wire)
    /\ open => \A h \in Handlers : InFlight(h) => stamp[h] = Len(wire)
    /\ (open /\ \A h \in Handlers : pc[h] \in {"idle", "stamped"}) => seq = Len(wire)
    /\ open => \A h \in Handlers : pc[h] \in {"bumped", "sending"} => seq = Len(wire) + 1

CaughtUp == expect = taken /\ shown = SubSeq(wire, 1, taken)

LossInv ==
    /\ client = "hello" => taken = 0 /\ expect = 0 /\ shown = <<>>
    /\ ~overlap => OneInFlight
    /\ (~overlap /\ client # "down") => Numbered
    /\ (~overlap /\ client = "up") => CaughtUp

-----------------------------------------------------------------------------

\* A record appended to a sequence of records: its type and its elements.
LEMMA AppendRecord ==
    ASSUME NEW s \in Seq(Record), NEW r \in Record
    PROVE  /\ Append(s, r) \in Seq(Record)
           /\ Len(Append(s, r)) = Len(s) + 1
           /\ \A i \in 1..Len(s) : Append(s, r)[i] = s[i]
           /\ Append(s, r)[Len(s) + 1] = r
  OBVIOUS

\* Prefixes of the stream: the empty one, the next one, and their stability
\* under an append.
LEMMA EmptyPrefix == ASSUME NEW s \in Seq(Record) PROVE SubSeq(s, 1, 0) = <<>>
  OBVIOUS

\* A prefix with the element behind it is the next longer prefix.
LEMMA NextPrefix ==
    ASSUME NEW s \in Seq(Record), NEW n \in 0..Len(s), n + 1 \in 1..Len(s)
    PROVE  SubSeq(s, 1, n + 1) = Append(SubSeq(s, 1, n), s[n + 1])
  OBVIOUS

\* An append leaves the prefixes of a sequence as they are.
LEMMA PrefixOfAppend ==
    ASSUME NEW s \in Seq(Record), NEW r \in Record, NEW n \in 0..Len(s)
    PROVE  SubSeq(Append(s, r), 1, n) = SubSeq(s, 1, n)
  OBVIOUS

\* The number in a record is a message number because a handler in the relay
\* path has taken one up.
Carrying == \A h \in Handlers : InFlight(h) => msg[h] > 0

TypeInv == TypeOK /\ Carrying

\* The initial state has the types.
LEMMA TypeInit == Init => TypeInv
<1> SUFFICES ASSUME Init
             PROVE  TypeInv
  OBVIOUS
<1>1. wire \in Seq(Record) /\ shown \in Seq(Record) /\ Len(wire) = 0
  BY DEF Init
<1>2. msg \in [Handlers -> 0..MaxMsg] /\ taken \in 0..Len(wire)
  BY <1>1, MaxMsgAssumption DEF Init
<1>3. TypeOK
  BY <1>1, <1>2 DEF Init, TypeOK
<1>4. Carrying
  BY DEF Init, Carrying, InFlight
<1> QED
  BY <1>3, <1>4 DEF TypeInv

\* The record a handler writes at the end of a relay.
LEMMA NewRecord ==
    ASSUME TypeInv, NEW h \in Handlers, FinishSend(h)
    PROVE  [from |-> h, num |-> msg[h], seq |-> stamp[h]] \in Record
<1>1. msg[h] \in 0..MaxMsg /\ stamp[h] \in Nat
  BY DEF TypeInv, TypeOK
<1>2. msg[h] > 0
  BY DEF FinishSend, TypeInv, Carrying, InFlight
<1> QED
  BY <1>1, <1>2, MaxMsgAssumption DEF Record

\* Every step keeps the types: in particular the client never takes more
\* records off the stream than were written.
LEMMA TypeStep == TypeInv /\ [Next]_vars => TypeInv'
<1> SUFFICES ASSUME TypeInv, [Next]_vars
             PROVE  TypeInv'
  OBVIOUS
<1> USE MaxMsgAssumption DEF TypeInv, TypeOK, Carrying, InFlight
<1>1. ASSUME NEW h \in Handlers, Encrypt(h)
      PROVE  TypeInv'
  BY <1>1 DEF Encrypt, linkState
<1>2. ASSUME NEW h \in Handlers, Bump(h)
      PROVE  TypeInv'
  BY <1>2 DEF Bump, linkState
<1>3. ASSUME NEW h \in Handlers, EnterSend(h)
      PROVE  TypeInv'
  BY <1>3 DEF EnterSend, linkState
<1>4. ASSUME NEW h \in Handlers, FinishSend(h)
      PROVE  TypeInv'
  <2>1. [from |-> h, num |-> msg[h], seq |-> stamp[h]] \in Record
    BY <1>4, NewRecord
  <2> DEFINE r == [from |-> h, num |-> msg[h], seq |-> stamp[h]]
  <2>2. Append(wire, r) \in Seq(Record) /\ Len(Append(wire, r)) = Len(wire) + 1
    BY <2>1, AppendRecord
  <2>3. wire' = Append(wire, r)
    BY <1>4 DEF FinishSend
  <2> HIDE DEF r
  <2>4. wire' \in Seq(Record) /\ taken' \in 0..Len(wire')
    BY <1>4, <2>2, <2>3 DEF FinishSend
  <2> QED
    BY <1>4, <2>4 DEF FinishSend
<1>5. ASSUME NEW h \in Handlers, SendError(h)
      PROVE  TypeInv'
  BY <1>5 DEF SendError, linkState
<1>6. CASE Close
  BY <1>6 DEF Close
<1>7. CASE FirstRecv
  BY <1>7 DEF FirstRecv
<1>8. CASE Receive
  <2>1. taken + 1 \in 1..Len(wire) /\ wire[taken + 1] \in Record
    BY <1>8 DEF Receive
  <2> DEFINE r == wire[taken + 1]
  <2>2. Append(shown, r) \in Seq(Record)
    BY <2>1, AppendRecord
  <2> HIDE DEF r
  <2>3. shown' \in {shown, Append(shown, r)} /\ expect' \in {expect, expect + 1}
    BY <1>8 DEF Receive, r
  <2>4. shown' \in Seq(Record)
    BY <2>2, <2>3
  <2>5. expect' \in Nat /\ taken' \in 0..Len(wire')
    BY <1>8, <2>1, <2>3 DEF Receive
  <2> QED
    BY <1>8, <2>4, <2>5 DEF Receive
<1>9. CASE Quit
  BY <1>9 DEF Quit
<1>10. CASE UNCHANGED vars
  BY <1>10 DEF vars
<1> QED
  BY <1>1, <1>2, <1>3, <1>4, <1>5, <1>6, <1>7, <1>8, <1>9, <1>10
     DEF Next, HandlerStep

\* The types, and the record every handler in a relay carries, are invariant.
LEMMA TypeInvariance == Spec => []TypeInv
  BY TypeInit, TypeStep, PTL DEF Spec

\* Every reachable state has the types of TypeOK: the client has taken at most
\* what was written, and every record carries a message some handler took up.
THEOREM TypeCorrect == Spec => []TypeOK
<1>1. TypeInv => TypeOK
  BY DEF TypeInv
<1> QED
  BY <1>1, TypeInvariance, PTL

-----------------------------------------------------------------------------

\* The order invariant holds before anything has been sent.
LEMMA OrderInit == Init => OrderInv
<1> SUFFICES ASSUME Init
             PROVE  OrderInv
  OBVIOUS
<1>1. Len(wire) = 0 /\ Len(shown) = 0 /\ taken = 0
  BY DEF Init
<1> QED
  BY <1>1 DEF OrderInv, WireOrder, ScreenOrder, ScreenBeforeWire, AllBehind

\* OrderInv depends on the handlers only through Behind.
LEMMA OrderFrame ==
    ASSUME TypeInv, OrderInv, UNCHANGED <<wire, taken, shown>>,
           \A r \in Record : Behind(r) => Behind(r)'
    PROVE  OrderInv'
<1>1. /\ \A i \in 1..Len(wire) : wire[i] \in Record
      /\ \A i \in 1..Len(shown) : shown[i] \in Record
  BY DEF TypeInv, TypeOK
<1> QED
  BY <1>1 DEF OrderInv, WireOrder, ScreenOrder, ScreenBeforeWire, AllBehind, Older

\* A record stays behind its sender's message while the sender does not take
\* the same message up again.
LEMMA BehindFrame ==
    ASSUME TypeInv, msg' = msg,
           \A h \in Handlers : InFlight(h)' => InFlight(h)
    PROVE  \A r \in Record : Behind(r) => Behind(r)'
  BY DEF Behind, Record

\* The inductive step for the order of messages.  A handler writes its record
\* while it still holds the message, so the record is newer than all of that
\* sender's records on the stream and the screen; the client then displays
\* from the front of the stream.
LEMMA OrderStep == TypeInv /\ OrderInv /\ [Next]_vars => OrderInv'
<1> SUFFICES ASSUME TypeInv, OrderInv, [Next]_vars
             PROVE  OrderInv'
  OBVIOUS
<1>t. pc \in [Handlers -> {"idle", "stamped", "bumped", "sending"}]
  BY DEF TypeInv, TypeOK
<1>1. ASSUME NEW h \in Handlers, Encrypt(h)
      PROVE  OrderInv'
  <2>1. UNCHANGED <<wire, taken, shown>>
    BY <1>1 DEF Encrypt, linkState
  <2>2. ASSUME NEW r \in Record, Behind(r)
        PROVE  Behind(r)'
    <3>1. r.from \in Handlers /\ r.num \in Nat
      BY DEF Record
    <3>2. msg \in [Handlers -> 0..MaxMsg]
      BY DEF TypeInv, TypeOK
    <3>3. CASE r.from = h
      BY <1>1, <2>2, <3>1, <3>2, <3>3, MaxMsgAssumption DEF Encrypt, Behind
    <3>4. CASE r.from # h
      BY <1>1, <2>2, <3>1, <3>2, <3>4, <1>t DEF Encrypt, Behind, InFlight
    <3> QED
      BY <3>3, <3>4
  <2> QED
    BY <2>1, <2>2, OrderFrame
<1>2. ASSUME NEW h \in Handlers, Bump(h)
      PROVE  OrderInv'
  <2>1. UNCHANGED <<wire, taken, shown, msg>>
    BY <1>2 DEF Bump, linkState
  <2>2. \A g \in Handlers : InFlight(g)' => InFlight(g)
    BY <1>2, <1>t DEF Bump, InFlight
  <2> QED
    BY <2>1, <2>2, OrderFrame, BehindFrame
<1>3. ASSUME NEW h \in Handlers, EnterSend(h)
      PROVE  OrderInv'
  <2>1. UNCHANGED <<wire, taken, shown, msg>>
    BY <1>3 DEF EnterSend, linkState
  <2>2. \A g \in Handlers : InFlight(g)' => InFlight(g)
    BY <1>3, <1>t DEF EnterSend, InFlight
  <2> QED
    BY <2>1, <2>2, OrderFrame, BehindFrame
<1>4. ASSUME NEW h \in Handlers, FinishSend(h)
      PROVE  OrderInv'
  <2>1. UNCHANGED <<msg, taken, shown>>
    BY <1>4 DEF FinishSend
  <2>2. PICK r \in Record : wire' = Append(wire, r) /\ r.from = h /\ r.num = msg[h]
    <3>1. wire' = Append(wire, [from |-> h, num |-> msg[h], seq |-> stamp[h]])
      BY <1>4 DEF FinishSend
    <3> QED
      BY <1>4, <3>1, NewRecord
  <2>3. wire \in Seq(Record) /\ shown \in Seq(Record) /\ taken \in Nat
    BY DEF TypeInv, TypeOK
  <2>4. /\ Len(wire') = Len(wire) + 1
        /\ \A i \in 1..Len(wire) : wire'[i] = wire[i]
        /\ wire'[Len(wire) + 1] = r
    BY <2>2, <2>3, AppendRecord
  <2>5. ASSUME NEW s \in Record, Behind(s)
        PROVE  Behind(s)' /\ Older(s, r)
    <3>1. \A g \in Handlers : InFlight(g)' => InFlight(g)
      BY <1>4, <1>t DEF FinishSend, InFlight
    <3>2. InFlight(h)
      BY <1>4 DEF FinishSend, InFlight
    <3> QED
      BY <2>1, <2>2, <2>5, <3>1, <3>2, BehindFrame DEF Behind, Older
  <2>6. Behind(r)'
    <3>1. msg[h] \in Nat
      BY DEF TypeInv, TypeOK
    <3> QED
      BY <1>4, <1>t, <2>1, <2>2, <3>1 DEF FinishSend, Behind, InFlight
  <2>7. /\ \A i \in 1..Len(wire) : wire[i] \in Record /\ Behind(wire[i])
        /\ \A i \in 1..Len(shown) : shown[i] \in Record /\ Behind(shown[i])
    BY <2>3 DEF OrderInv, WireOrder, ScreenOrder, ScreenBeforeWire, AllBehind
  <2>8. /\ \A i \in 1..Len(wire) : Behind(wire[i])' /\ Older(wire[i], r)
        /\ \A i \in 1..Len(shown) : Behind(shown[i])' /\ Older(shown[i], r)
    BY <2>1, <2>4, <2>5, <2>7
  <2>9. WireOrder'
    BY <2>1, <2>3, <2>4, <2>8 DEF OrderInv, WireOrder
  <2>10. ScreenOrder' /\ ScreenBeforeWire'
    BY <2>1, <2>3, <2>4, <2>8 DEF OrderInv, ScreenOrder, ScreenBeforeWire
  <2>11. AllBehind'
    <3>1. \A i \in 1..Len(wire') : i \in 1..Len(wire) \/ i = Len(wire) + 1
      BY <2>3, <2>4
    <3> QED
      BY <2>1, <2>4, <2>6, <2>8, <3>1 DEF AllBehind, Behind
  <2> QED
    BY <2>9, <2>10, <2>11 DEF OrderInv
<1>5. ASSUME NEW h \in Handlers, SendError(h)
      PROVE  OrderInv'
  <2>1. UNCHANGED <<wire, taken, shown, msg>>
    BY <1>5 DEF SendError, linkState
  <2>2. \A g \in Handlers : InFlight(g)' => InFlight(g)
    BY <1>5, <1>t DEF SendError, InFlight
  <2> QED
    BY <2>1, <2>2, OrderFrame, BehindFrame
<1>6. CASE Close
  BY <1>6, OrderFrame, BehindFrame DEF Close, InFlight
<1>7. CASE FirstRecv
  <2>1. UNCHANGED <<wire, shown, msg, pc>> /\ taken \in Nat /\ taken' \in Nat /\ taken <= taken'
    BY <1>7 DEF FirstRecv, TypeInv, TypeOK
  <2>2. wire \in Seq(Record)
    BY DEF TypeInv, TypeOK
  <2>3. WireOrder' /\ ScreenOrder'
    BY <2>1 DEF OrderInv, WireOrder, ScreenOrder, Older
  <2>4. ScreenBeforeWire'
    <3>1. Len(wire) \in Nat /\ wire' = wire /\ shown' = shown
      BY <2>1, <2>2
    <3>2. (taken' + 1)..Len(wire) \subseteq (taken + 1)..Len(wire)
      BY <2>1, <3>1
    <3> QED
      BY <3>1, <3>2 DEF OrderInv, ScreenBeforeWire, Older
  <2>5. AllBehind'
    BY <2>1 DEF OrderInv, AllBehind, Behind, InFlight
  <2> QED
    BY <2>3, <2>4, <2>5 DEF OrderInv
<1>8. CASE Receive
  <2> DEFINE r == wire[taken + 1]
  <2>1. wire \in Seq(Record) /\ shown \in Seq(Record) /\ taken \in Nat
    BY DEF TypeInv, TypeOK
  <2>2. taken + 1 \in 1..Len(wire) /\ taken' = taken + 1 /\ UNCHANGED <<wire, msg, pc>>
    BY <1>8, <2>1 DEF Receive
  <2>3. CASE shown' = shown
    BY <2>1, <2>2, <2>3 DEF OrderInv, WireOrder, ScreenOrder, ScreenBeforeWire, AllBehind, Older, Behind, InFlight
  <2>4. CASE shown' = Append(shown, r)
    <3>1. /\ Len(shown') = Len(shown) + 1
          /\ \A i \in 1..Len(shown) : shown'[i] = shown[i]
          /\ shown'[Len(shown) + 1] = r
      BY <2>1, <2>2, <2>4, AppendRecord
    <3>2. \A i \in 1..Len(shown) : Older(shown[i], r)
      BY <2>1, <2>2 DEF OrderInv, WireOrder, ScreenOrder, ScreenBeforeWire, AllBehind
    <3>3. \A j \in (taken + 2)..Len(wire) : Older(r, wire[j])
      BY <2>1, <2>2 DEF OrderInv, WireOrder, ScreenOrder, ScreenBeforeWire, AllBehind
    <3>4. Behind(r)
      BY <2>1, <2>2 DEF OrderInv, WireOrder, ScreenOrder, ScreenBeforeWire, AllBehind
    <3> HIDE DEF r
    <3>5. WireOrder' /\ ScreenOrder'
      BY <2>1, <2>2, <3>1, <3>2 DEF OrderInv, WireOrder, ScreenOrder
    <3>6. ScreenBeforeWire'
      BY <2>1, <2>2, <3>1, <3>3 DEF OrderInv, ScreenBeforeWire
    <3>7. AllBehind'
      BY <2>1, <2>2, <3>1, <3>4 DEF OrderInv, AllBehind, Behind, InFlight
    <3> QED
      BY <3>5, <3>6, <3>7 DEF OrderInv
  <2> QED
    BY <1>8, <2>3, <2>4 DEF Receive
<1>9. CASE Quit
  BY <1>9, OrderFrame, BehindFrame DEF Quit, InFlight
<1>10. CASE UNCHANGED vars
  BY <1>10, OrderFrame, BehindFrame DEF vars, InFlight
<1> QED
  BY <1>1, <1>2, <1>3, <1>4, <1>5, <1>6, <1>7, <1>8, <1>9, <1>10
     DEF Next, HandlerStep

\* For any number of handlers and messages, and however their relays
\* interleave, the recipient displays each sender's messages in order and at
\* most once.
THEOREM Order == Spec => []PerSenderOrder
<1>1. OrderInv => PerSenderOrder
  BY DEF OrderInv, WireOrder, ScreenOrder, ScreenBeforeWire, AllBehind, PerSenderOrder, Older
<1> QED
  BY <1>1, OrderInit, OrderStep, TypeInvariance, PTL DEF Spec

-----------------------------------------------------------------------------

\* The step fact behind PermanentLoss: later nonces are built from a counter
\* that has passed the number the client waits for.
LEMMA LostStep == TypeInv /\ Lost /\ [Next]_vars => shown' = shown /\ Lost'
<1> SUFFICES ASSUME TypeInv, Lost, [Next]_vars
             PROVE  shown' = shown /\ Lost'
  OBVIOUS
<1>1. CASE client \in {"deaf", "down"}
  BY <1>1 DEF Next, HandlerStep, vars, linkState, Lost, Encrypt, Bump, EnterSend,
              FinishSend, SendError, Close, FirstRecv, Receive, Quit
<1>2. CASE client = "up" /\ Passed
  <2>1. ASSUME NEW h \in Handlers, Encrypt(h)
        PROVE  shown' = shown /\ client' = "up" /\ Passed'
    BY <1>2, <2>1 DEF Encrypt, linkState, Passed, InFlight, TypeInv, TypeOK
  <2>2. ASSUME NEW h \in Handlers, Bump(h)
        PROVE  shown' = shown /\ client' = "up" /\ Passed'
    BY <1>2, <2>2 DEF Bump, linkState, Passed, InFlight, TypeInv, TypeOK
  <2>3. ASSUME NEW h \in Handlers, EnterSend(h) \/ SendError(h)
        PROVE  shown' = shown /\ client' = "up" /\ Passed'
    BY <1>2, <2>3 DEF EnterSend, SendError, linkState, Passed, InFlight, TypeInv, TypeOK
  <2>4. ASSUME NEW h \in Handlers, FinishSend(h)
        PROVE  shown' = shown /\ client' = "up" /\ Passed'
    <3> DEFINE r == [from |-> h, num |-> msg[h], seq |-> stamp[h]]
    <3>1. /\ wire' = Append(wire, r)
          /\ pc' = [pc EXCEPT ![h] = "idle"]
          /\ UNCHANGED <<stamp, seq, taken, expect, shown, client>>
      BY <2>4 DEF FinishSend
    <3>2. wire \in Seq(Record) /\ taken \in Nat
      BY DEF TypeInv, TypeOK
    <3>3. r \in Record /\ r.seq # expect
      BY <1>2, <2>4, NewRecord DEF FinishSend, Passed, InFlight
    <3> HIDE DEF r
    <3>4. \A i \in (taken' + 1)..Len(wire') : wire'[i].seq # expect'
      BY <1>2, <3>1, <3>2, <3>3, AppendRecord DEF Passed
    <3>5. \A g \in Handlers : InFlight(g)' => stamp'[g] # expect'
      BY <1>2, <3>1 DEF Passed, InFlight, TypeInv, TypeOK
    <3> QED
      BY <1>2, <3>1, <3>4, <3>5 DEF Passed
  <2>5. ASSUME Receive
        PROVE  shown' = shown /\ client' = "up" /\ Passed'
    <3>1. wire \in Seq(Record) /\ taken \in Nat
      BY DEF TypeInv, TypeOK
    <3>2. taken' = taken + 1 /\ UNCHANGED <<wire, pc, stamp, seq, client>>
      BY <2>5 DEF Receive
    <3>3. wire[taken + 1].seq # expect
      BY <1>2, <2>5, <3>1 DEF Receive, Passed
    <3>4. shown' = shown /\ expect' = expect
      BY <2>5, <3>3 DEF Receive
    <3> QED
      BY <1>2, <3>1, <3>2, <3>4 DEF Passed, InFlight
  <2>6. ASSUME Close \/ UNCHANGED vars
        PROVE  shown' = shown /\ client' = "up" /\ Passed'
    BY <1>2, <2>6 DEF Close, vars, Passed, InFlight
  <2>7. CASE Quit
    <3>1. shown' = shown /\ client' \in {"deaf", "down"}
      BY <2>7 DEF Quit
    <3> QED
      BY <3>1, Zenon DEF Lost
  <2>8. ~FirstRecv
    BY <1>2 DEF FirstRecv
  <2> QED
    BY <2>1, <2>2, <2>3, <2>4, <2>5, <2>6, <2>7, <2>8, Zenon DEF Next, HandlerStep, Lost
<1> QED
  BY <1>1, <1>2 DEF Lost

\* A recipient that is deaf or has been passed by the record number displays
\* nothing more, however many handlers go on relaying to it.
THEOREM PermanentLoss == Spec => LossIsPermanent
<1>1. TypeInv /\ [Next]_vars => [Lost => (shown' = shown /\ Lost')]_vars
  BY LostStep
<1> QED
  BY <1>1, TypeInvariance, PTL DEF Spec, LossIsPermanent

-----------------------------------------------------------------------------

\* The loss invariant holds before anything has been sent.
LEMMA LossInit == Init => LossInv
  BY DEF Init, LossInv, OneInFlight, InFlight, Numbered, CaughtUp

\* The inductive step for the absence of loss.  Without overlap a relay starts
\* with no other in progress, so its nonce carries the number of the next
\* record of the stream.
LEMMA LossStep == TypeInv /\ LossInv /\ [Next]_vars => LossInv'
<1> SUFFICES ASSUME TypeInv, LossInv, [Next]_vars
             PROVE  LossInv'
  OBVIOUS
<1>t. /\ pc \in [Handlers -> {"idle", "stamped", "bumped", "sending"}]
      /\ stamp \in [Handlers -> Nat]
      /\ seq \in Nat
      /\ wire \in Seq(Record) /\ Len(wire) \in Nat
      /\ taken \in 0..Len(wire)
      /\ shown \in Seq(Record)
      /\ overlap \in BOOLEAN
  BY DEF TypeInv, TypeOK
<1>1. ASSUME NEW h \in Handlers, Encrypt(h)
      PROVE  LossInv'
  <2>1. UNCHANGED <<seq, open, wire, taken, client, expect, shown>>
    BY <1>1 DEF Encrypt, linkState
  <2>2. ~overlap' => ~overlap /\ \A g \in Handlers : pc[g] = "idle"
    BY <1>1 DEF Encrypt, InFlight
  <2>3. ~overlap' => OneInFlight'
    BY <1>1, <1>t, <2>2 DEF Encrypt, OneInFlight, InFlight
  <2>4. ~overlap' /\ client' # "down" => Numbered'
    BY <1>1, <1>t, <2>1, <2>2 DEF Encrypt, LossInv, Numbered, InFlight
  <2>5. ~overlap' /\ client' = "up" => CaughtUp'
    BY <2>1, <2>2 DEF LossInv, CaughtUp
  <2> QED
    BY <2>1, <2>3, <2>4, <2>5 DEF LossInv
<1>2. ASSUME NEW h \in Handlers, Bump(h)
      PROVE  LossInv'
  <2>1. UNCHANGED <<stamp, linkState, overlap>>
    BY <1>2 DEF Bump
  <2>2. \A g \in Handlers : InFlight(g)' = InFlight(g)
    BY <1>2, <1>t DEF Bump, InFlight
  <2>3. ~overlap => OneInFlight'
    BY <2>2 DEF LossInv, OneInFlight
  <2>4. ~overlap /\ client # "down" => Numbered'
    BY <1>2, <1>t, <2>1 DEF Bump, linkState, LossInv, OneInFlight, Numbered, InFlight
  <2> QED
    BY <2>1, <2>3, <2>4 DEF linkState, LossInv, CaughtUp
<1>3. ASSUME NEW h \in Handlers, EnterSend(h)
      PROVE  LossInv'
  <2>1. UNCHANGED <<stamp, seq, linkState, overlap>>
    BY <1>3 DEF EnterSend
  <2>2. \A g \in Handlers : InFlight(g)' => InFlight(g)
    BY <1>3, <1>t DEF EnterSend, InFlight
  <2>3. ~overlap => OneInFlight'
    BY <2>2 DEF LossInv, OneInFlight
  <2>4. ~overlap /\ client # "down" => Numbered'
    BY <1>3, <1>t, <2>1 DEF EnterSend, linkState, LossInv, OneInFlight, Numbered, InFlight
  <2> QED
    BY <2>1, <2>3, <2>4 DEF linkState, LossInv, CaughtUp
<1>4. ASSUME NEW h \in Handlers, FinishSend(h)
      PROVE  LossInv'
  <2>1. /\ UNCHANGED <<stamp, seq, open, taken, client, expect, shown, overlap>>
        /\ pc[h] = "sending"
        /\ pc' = [pc EXCEPT ![h] = "idle"]
    BY <1>4 DEF FinishSend
  <2>2. PICK r \in Record : wire' = Append(wire, r) /\ r.seq = stamp[h]
    <3>1. wire' = Append(wire, [from |-> h, num |-> msg[h], seq |-> stamp[h]])
      BY <1>4 DEF FinishSend
    <3> QED
      BY <1>4, <3>1, NewRecord
  <2>3. /\ Len(wire') = Len(wire) + 1
        /\ \A i \in 1..Len(wire) : wire'[i] = wire[i]
        /\ wire'[Len(wire) + 1] = r
    BY <1>t, <2>2, AppendRecord
  <2>4. ~overlap => \A g \in Handlers : pc'[g] = "idle"
    BY <1>t, <2>1 DEF LossInv, OneInFlight, InFlight
  <2>5. ~overlap => OneInFlight'
    BY <2>4 DEF OneInFlight, InFlight
  <2>6. ~overlap /\ client # "down" => Numbered'
    BY <1>t, <2>1, <2>2, <2>3, <2>4 DEF LossInv, Numbered, InFlight
  <2>7. ~overlap /\ client = "up" => CaughtUp'
    BY <1>t, <2>1, <2>2, <2>3, PrefixOfAppend DEF LossInv, CaughtUp
  <2> QED
    BY <2>1, <2>5, <2>6, <2>7 DEF LossInv
<1>5. ASSUME NEW h \in Handlers, SendError(h)
      PROVE  LossInv'
  <2>1. UNCHANGED <<overlap, linkState>> /\ client = "down"
    BY <1>5 DEF SendError
  <2>2. \A g \in Handlers : InFlight(g)' => InFlight(g)
    BY <1>5, <1>t DEF SendError, InFlight
  <2> QED
    BY <2>1, <2>2 DEF linkState, LossInv, OneInFlight
<1>6. CASE Close
  BY <1>6, <1>t DEF Close, LossInv, OneInFlight, InFlight, Numbered, CaughtUp
<1>7. CASE FirstRecv
  <2>1. UNCHANGED <<pc, stamp, seq, open, wire, expect, shown, overlap>> /\ client = "hello"
    BY <1>7 DEF FirstRecv
  <2>2. client' = "up" => taken' = 0
    BY <1>7, <1>t, <2>1 DEF FirstRecv, LossInv
  <2>3. client' = "up" => CaughtUp'
    BY <1>t, <2>1, <2>2, EmptyPrefix DEF LossInv, CaughtUp
  <2>4. client' \in {"up", "deaf"}
    BY <1>7 DEF FirstRecv
  <2> QED
    BY <2>1, <2>3, <2>4 DEF LossInv, OneInFlight, InFlight, Numbered
<1>8. CASE Receive
  <2>1. /\ UNCHANGED <<pc, stamp, seq, open, wire, client, overlap>>
        /\ taken + 1 \in 1..Len(wire) /\ taken' = taken + 1
        /\ client \in {"up", "deaf"}
    BY <1>8, <1>t DEF Receive
  <2>2. ASSUME ~overlap, client = "up"
        PROVE  CaughtUp'
    <3>1. wire[taken + 1].seq = taken
      <4>1. \A i \in 1..Len(wire) : wire[i].seq = i - 1
        BY <2>2 DEF LossInv, Numbered
      <4>2. wire[taken + 1].seq = (taken + 1) - 1 /\ taken \in Nat
        BY <1>t, <2>1, <4>1
      <4> QED
        BY <4>2
    <3>2. expect' = taken + 1 /\ shown' = Append(SubSeq(wire, 1, taken), wire[taken + 1])
      BY <1>8, <2>2, <3>1 DEF Receive, LossInv, CaughtUp
    <3> QED
      BY <1>t, <2>1, <3>2, NextPrefix DEF CaughtUp
  <2> QED
    BY <2>1, <2>2 DEF LossInv, OneInFlight, InFlight, Numbered
<1>9. CASE Quit
  BY <1>9 DEF Quit, LossInv, OneInFlight, InFlight
<1>10. CASE UNCHANGED vars
  BY <1>10 DEF vars, LossInv, OneInFlight, InFlight, Numbered, CaughtUp
<1> QED
  BY <1>1, <1>2, <1>3, <1>4, <1>5, <1>6, <1>7, <1>8, <1>9, <1>10
     DEF Next, HandlerStep

\* For any number of handlers: until two of them are in the relay path at
\* once, the client has displayed exactly the records it has received.
THEOREM NoLoss == Spec => []NoLossWithoutOverlap
<1>1. LossInv => NoLossWithoutOverlap
  BY DEF LossInv, CaughtUp, NoLossWithoutOverlap
<1> QED
  BY <1>1, LossInit, LossStep, TypeInvariance, PTL DEF Spec
=============================================================================
