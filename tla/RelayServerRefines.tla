-------------------------- MODULE RelayServerRefines --------------------------
(***************************************************************************)
(* That the server implements its two abstractions, for every set of       *)
(* clients, every number of messages and every buffer size:                *)
(*   IsLinks       what happens between the server and any one client is a *)
(*                 behaviour of RelayLink;                                 *)
(*   IsBroadcast   what the users see is a behaviour of Broadcast.         *)
(***************************************************************************)
EXTENDS RelayServerProofs

(***************************************************************************)
(* What a handler has relayed to r is the message in hand or an earlier    *)
(* one; a target still to come has only had earlier ones.                  *)
(***************************************************************************)

RelayedUpTo(h, r) ==
    /\ relayed[h][r] <= done[h] + 1
    /\ relayed[h][r] = done[h] + 1 => Fanning(h) /\ r \notin targets[h]
    /\ RelaysTo(h, r) => relayed[h][r] = done[h] + 1

NoEcho(h) == h \notin targets[h] /\ ~RelaysTo(h, h)

RelayInv == \A h \in Clients : NoEcho(h) /\ \A r \in Clients : RelayedUpTo(h, r)

(***************************************************************************)
(* Per-sender order at one recipient, as in RelayLinkProofs: what is on    *)
(* the screen is older than what is on the stream, and that is older than  *)
(* what its sender holds.                                                  *)
(***************************************************************************)

Older(x, y) == x.from = y.from => x.num < y.num

\* The records from other clients that are older than what their senders hold
\* for r.
Past(r) ==
    {x \in Record :
        /\ x.from # r
        /\ x.num <= relayed[x.from][r]
        /\ RelaysTo(x.from, r) => x.num < relayed[x.from][r]}

Ordered(r) ==
    /\ \A i, j \in 1..Len(wire[r]) : i < j => Older(wire[r][i], wire[r][j])
    /\ \A i, j \in 1..Len(shown[r]) : i < j => Older(shown[r][i], shown[r][j])
    /\ \A i \in 1..Len(shown[r]) : \A j \in (taken[r] + 1)..Len(wire[r]) :
         Older(shown[r][i], wire[r][j])
    /\ \A i \in 1..Len(wire[r]) : wire[r][i] \in Past(r)
    /\ \A i \in 1..Len(shown[r]) : shown[r][i] \in Past(r)

OrderInv == \A r \in Clients : Ordered(r)

-----------------------------------------------------------------------------

\* A handler offers a message to each of its targets once, and never to the
\* connection it comes from.
LEMMA RelayStep == TypeInv /\ RelayInv /\ [Next]_vars => RelayInv'
<1> SUFFICES ASSUME TypeInv, RelayInv, [Next]_vars, NEW h \in Clients, NEW r \in Clients
             PROVE  NoEcho(h)' /\ RelayedUpTo(h, r)'
  BY DEF RelayInv
<1>0. /\ hpc \in [Clients -> Places] /\ done \in [Clients -> Nat]
      /\ tgt \in [Clients -> SUBSET Clients] /\ targets \in [Clients -> SUBSET Clients]
      /\ relayed \in [Clients -> [Clients -> Nat]]
      /\ TargetSet
  BY DEF TypeInv, ThreadTypes, CountTypes, LinkTypes
<1>1. NoEcho(h) /\ RelayedUpTo(h, r)
  BY DEF RelayInv
<1>2. \A c \in Clients : c \in Same(c)
  BY DEF Same
<1> USE <1>0, <1>1 DEF NoEcho, RelayedUpTo, RelaysTo, InRelay, Fanning, Goto
<1>3. ASSUME UNCHANGED <<done, targets, tgt, relayed>>, InRelay(h)' => InRelay(h),
             Fanning(h) => Fanning(h)'
      PROVE  NoEcho(h)' /\ RelayedUpTo(h, r)'
  BY <1>3
<1>4. ASSUME NEW g \in Clients, Snapshot(g)
      PROVE  NoEcho(h)' /\ RelayedUpTo(h, r)'
  BY <1>2, <1>4 DEF Snapshot, linkVars
<1>5. ASSUME NEW g \in Clients, Encrypt(g)
      PROVE  NoEcho(h)' /\ RelayedUpTo(h, r)'
  <2>1. PICK d \in targets[g] :
          /\ tgt' = [tgt EXCEPT ![g] = {d}]
          /\ targets' = [targets EXCEPT ![g] = @ \ {d}]
          /\ relayed' = [relayed EXCEPT ![g][d] = done[g] + 1]
    BY <1>5 DEF Encrypt
  <2>2. hpc[g] = "fan" /\ hpc' = [hpc EXCEPT ![g] = "stamped"] /\ done' = done
    BY <1>5 DEF Encrypt
  <2>3. d \in Clients
    OBVIOUS
  <2>4. CASE g = h
    <3>1. /\ hpc'[h] = "stamped" /\ tgt'[h] = {d} /\ targets'[h] = targets[h] \ {d}
          /\ relayed'[h] = [relayed[h] EXCEPT ![d] = done[h] + 1]
      BY <2>1, <2>2, <2>3, <2>4
    <3>2. d # h /\ ~InRelay(h)
      BY <2>2, <2>4
    <3>5. NoEcho(h)'
      BY <3>1, <3>2
    <3>6. done'[h] = done[h] /\ done[h] \in Nat
      BY <2>2
    <3>3. CASE r = d
      <4>1. relayed'[h][r] = done[h] + 1 /\ r \notin targets'[h]
        BY <2>3, <3>1, <3>3
      <4>2. done[h] + 1 <= done[h] + 1 /\ Fanning(h)'
        BY <3>1, <3>6
      <4> HIDE <1>0, <1>1
      <4> QED
        BY <3>5, <3>6, <4>1, <4>2
    <3>4. CASE r # d
      <4>1. relayed'[h][r] = relayed[h][r] /\ ~RelaysTo(h, r)'
        BY <2>3, <3>1, <3>4
      <4> QED
        BY <3>1, <3>5, <3>6, <4>1
    <3> QED
      BY <3>3, <3>4
  <2>5. CASE g # h
    BY <2>1, <2>2, <2>3, <2>5
  <2> QED
    BY <2>4, <2>5
<1>6. ASSUME NEW g \in Clients, FanDone(g)
      PROVE  NoEcho(h)' /\ RelayedUpTo(h, r)'
  BY <1>6 DEF FanDone, linkVars, TargetSet
<1>7. ASSUME NEW g \in Clients, EnterSend(g) \/ FinishSend(g) \/ SendError(g)
      PROVE  NoEcho(h)' /\ RelayedUpTo(h, r)'
  BY <1>7 DEF EnterSend, FinishSend, SendError, linkVars
<1>8. ASSUME NEW g \in Clients, Cleanup(g) \/ CleanupClose(g)
      PROVE  NoEcho(h)' /\ RelayedUpTo(h, r)'
  BY <1>8 DEF Cleanup, CleanupClose, linkVars
<1>9. ASSUME NEW g \in Clients, Accept(g) \/ HandlerStep(g) \/ Collect(g)
      PROVE  NoEcho(h)' /\ RelayedUpTo(h, r)'
  BY <1>3, <1>4, <1>5, <1>6, <1>7, <1>8, <1>9
     DEF Accept, HandlerStep, Collect, HelloOk, HelloFail, Register, Enter, Check, Recv,
         RecvEnd, Bump, CleanupDel, Except, ExceptClose, fanVars, linkVars
<1>10. ASSUME Interrupt \/ StopStep
      PROVE  NoEcho(h)' /\ RelayedUpTo(h, r)'
  BY <1>3, <1>10 DEF Interrupt, StopStep, StopSnapshot, StopNext, StopClose, StopDel, Exit, fanVars,
                     linkVars
<1>11. ASSUME NEW c \in Clients, ClientStep(c)
      PROVE  NoEcho(h)' /\ RelayedUpTo(h, r)'
  BY <1>3, <1>11 DEF ClientStep, FirstRecv, ClientSend, Receive, Quit, fanVars, linkVars
<1>12. CASE UNCHANGED vars
  BY <1>3, <1>12 DEF vars, fanVars, linkVars
<1> QED
  BY <1>9, <1>10, <1>11, <1>12 DEF Next

\* What a recipient has been relayed is an invariant of the specification.
LEMMA RelayInvariant == Spec => [](TypeInv /\ RelayInv)
<1>1. Init => RelayInv
  BY DEF Init, RelayInv, NoEcho, RelayedUpTo, RelaysTo, InRelay
<1> QED
  BY <1>1, TypeInit, TypeStep, RelayStep, PTL DEF Spec

-----------------------------------------------------------------------------

\* The link to each recipient starts as RelayLink does.
LEMMA LinkInit == ASSUME Init, NEW r \in Clients PROVE Link(r)!Init
  BY DEF Init, Link!Init, RelaysTo, InRelay

\* A step that leaves alone what the link to r is made of.
LEMMA LinkFrame ==
    ASSUME NEW r \in Clients,
           \A h \in Clients \ {r} : RelaysTo(h, r)' <=> RelaysTo(h, r),
           \A h \in Clients \ {r} : RelaysTo(h, r) => hpc'[h] = hpc[h],
           \A h \in Clients \ {r} : relayed'[h][r] = relayed[h][r],
           \A h \in Clients \ {r} : stamp'[h][r] = stamp[h][r],
           seq'[r] = seq[r], open'[r] = open[r], wire'[r] = wire[r], taken'[r] = taken[r],
           cst'[r] = cst[r], expect'[r] = expect[r], shown'[r] = shown[r],
           overlap'[r] = overlap[r]
    PROVE  UNCHANGED Link(r)!vars
<1> DEFINE H == Clients \ {r}
<1>1. [h \in H |-> IF RelaysTo(h, r) THEN hpc[h] ELSE "idle"]'
        = [h \in H |-> IF RelaysTo(h, r) THEN hpc[h] ELSE "idle"]
  OBVIOUS
<1>2. [h \in H |-> relayed[h][r]]' = [h \in H |-> relayed[h][r]]
  OBVIOUS
<1>3. [h \in H |-> stamp[h][r]]' = [h \in H |-> stamp[h][r]]
  OBVIOUS
<1> QED
  BY <1>1, <1>2, <1>3, Zenon DEF Link!vars

\* The handler h starts to relay to r.
LEMMA LinkEncrypt ==
    ASSUME TypeInv, RelayInv, NEW h \in Clients, NEW r \in Clients, Encrypt(h), tgt'[h] = {r}
    PROVE  h # r /\ Link(r)!Encrypt(h)
<1>0. /\ hpc \in [Clients -> Places] /\ done \in [Clients -> Nat]
      /\ tgt \in [Clients -> SUBSET Clients]
      /\ stamp \in [Clients -> [Clients -> Nat]] /\ relayed \in [Clients -> [Clients -> Nat]]
      /\ overlap \in [Clients -> BOOLEAN]
  BY DEF TypeInv, ThreadTypes, CountTypes, LinkTypes
<1>1. /\ r \in targets[h]
      /\ tgt' = [tgt EXCEPT ![h] = {r}]
      /\ stamp' = [stamp EXCEPT ![h][r] = seq[r]]
      /\ relayed' = [relayed EXCEPT ![h][r] = done[h] + 1]
      /\ overlap' = [overlap EXCEPT ![r] = @ \/ \E g \in Clients : RelaysTo(g, r)]
  <2>1. PICK d \in targets[h] :
          /\ tgt' = [tgt EXCEPT ![h] = {d}]
          /\ stamp' = [stamp EXCEPT ![h][d] = seq[d]]
          /\ relayed' = [relayed EXCEPT ![h][d] = done[h] + 1]
          /\ overlap' = [overlap EXCEPT ![d] = @ \/ \E g \in Clients : RelaysTo(g, d)]
    BY DEF Encrypt
  <2>2. d = r
    BY <1>0, <2>1
  <2> QED
    BY <2>1, <2>2, Zenon
<1>2. hpc[h] = "fan" /\ hpc' = [hpc EXCEPT ![h] = "stamped"]
  BY DEF Encrypt, Goto
<1>3. h # r /\ relayed[h][r] <= done[h] /\ ~RelaysTo(h, r) /\ ~RelaysTo(r, r)
  <2>1. /\ r \in targets[h] /\ NoEcho(h) /\ NoEcho(r) /\ RelayedUpTo(h, r)
        /\ relayed[h][r] \in Nat /\ done[h] \in Nat
    BY <1>0, <1>1 DEF RelayInv
  <2> QED
    BY <1>2, <2>1 DEF NoEcho, RelayedUpTo, RelaysTo, InRelay
<1>4. done[h] + 1 \in 1..MaxMsg /\ done[h] \in Nat
  BY <1>0, <1>2, NewRecord DEF Fanning
<1> DEFINE H == Clients \ {r}
           lpc == [g \in H |-> IF RelaysTo(g, r) THEN hpc[g] ELSE "idle"]
           lmsg == [g \in H |-> relayed[g][r]]
           lstamp == [g \in H |-> stamp[g][r]]
<1>5. lpc[h] = "idle" /\ lpc' = [lpc EXCEPT ![h] = "stamped"]
  <2>1. \A g \in Clients \ {h} : (RelaysTo(g, r) <=> RelaysTo(g, r)') /\ hpc'[g] = hpc[g]
    BY <1>0, <1>1, <1>2 DEF RelaysTo, InRelay
  <2>2. RelaysTo(h, r)' /\ hpc'[h] = "stamped"
    BY <1>0, <1>1, <1>2 DEF RelaysTo, InRelay
  <2> QED
    BY <1>3, <2>1, <2>2
<1>6. \E n \in 1..MaxMsg : n > lmsg[h] /\ lmsg' = [lmsg EXCEPT ![h] = n]
  <2>1. done[h] + 1 > lmsg[h]
    BY <1>0, <1>3, <1>4
  <2>2. lmsg' = [lmsg EXCEPT ![h] = done[h] + 1]
    BY <1>0, <1>1, <1>3
  <2> QED
    BY <1>4, <2>1, <2>2
<1>7. lstamp' = [lstamp EXCEPT ![h] = seq[r]]
  BY <1>0, <1>1, <1>3
<1>8. overlap'[r] = (overlap[r] \/ \E g \in H \ {h} : lpc[g] # "idle")
  <2>1. (\E g \in Clients : RelaysTo(g, r)) <=> \E g \in H \ {h} : lpc[g] # "idle"
    BY <1>3 DEF RelaysTo, InRelay
  <2>2. overlap'[r] = (overlap[r] \/ \E g \in Clients : RelaysTo(g, r))
    BY <1>0, <1>1, Zenon
  <2> QED
    BY <2>1, <2>2, Zenon
<1>9. /\ seq'[r] = seq[r] /\ open'[r] = open[r] /\ wire'[r] = wire[r] /\ taken'[r] = taken[r]
      /\ cst'[r] = cst[r] /\ expect'[r] = expect[r] /\ shown'[r] = shown[r]
  BY DEF Encrypt, viewVars
<1> QED
  BY <1>3, <1>5, <1>6, <1>7, <1>8, <1>9, Zenon DEF Link!Encrypt, Link!linkState, Link!InFlight

\* Where the handlers are in the relay to r, as the link to r sees them.
LinkPc(r) == [g \in Clients \ {r} |-> IF RelaysTo(g, r) THEN hpc[g] ELSE "idle"]

\* A step of a relay to another recipient, or of a handler outside the relay path.
LEMMA LinkAside ==
    ASSUME TypeInv, NEW h \in Clients, NEW r \in Clients,
           \A g \in Clients \ {h} : hpc'[g] = hpc[g] /\ tgt'[g] = tgt[g],
           ~RelaysTo(h, r), ~RelaysTo(h, r)',
           \A g \in Clients : relayed'[g][r] = relayed[g][r],
           \A g \in Clients : stamp'[g][r] = stamp[g][r],
           seq'[r] = seq[r], open'[r] = open[r], wire'[r] = wire[r], UNCHANGED <<cst, viewVars>>,
           overlap'[r] = overlap[r]
    PROVE  UNCHANGED Link(r)!vars
<1>1. \A g \in Clients : RelaysTo(g, r)' <=> RelaysTo(g, r)
  BY DEF RelaysTo, InRelay
<1>2. \A g \in Clients \ {r} : RelaysTo(g, r) => hpc'[g] = hpc[g]
  OBVIOUS
<1> QED
  BY <1>1, <1>2, LinkFrame DEF viewVars

\* The steps of a relay to r are those of the link.
LEMMA LinkRelay ==
    ASSUME TypeInv, RelayInv, NEW h \in Clients, NEW r \in Clients, RelaysTo(h, r),
           Bump(h) \/ EnterSend(h) \/ FinishSend(h) \/ SendError(h)
    PROVE  h # r /\ Link(r)!HandlerStep(h)
<1>0. /\ tgt[h] = {r} /\ InRelay(h) /\ h # r
      /\ hpc \in [Clients -> Places] /\ tgt \in [Clients -> SUBSET Clients]
      /\ seq \in [Clients -> Nat] /\ wire \in [Clients -> Seq(Record)]
      /\ relayed[h][r] = done[h] + 1
  BY DEF RelaysTo, TypeInv, ThreadTypes, LinkTypes, RelayInv, NoEcho, RelayedUpTo
<1> DEFINE H == Clients \ {r}
           lmsg == [g \in H |-> relayed[g][r]]
           lstamp == [g \in H |-> stamp[g][r]]
           Moves(p) == LinkPc(r)[h] = hpc[h] /\ LinkPc(r)' = [LinkPc(r) EXCEPT ![h] = p]
           Kept == lmsg' = lmsg /\ lstamp' = lstamp
           View == taken'[r] = taken[r] /\ cst'[r] = cst[r] /\ expect'[r] = expect[r]
                   /\ shown'[r] = shown[r] /\ open'[r] = open[r]
           Others == \A g \in Clients \ {h} : hpc'[g] = hpc[g] /\ tgt'[g] = tgt[g]
<1>m. ASSUME Others, NEW p, RelaysTo(h, r)' => p = hpc'[h], ~RelaysTo(h, r)' => p = "idle"
      PROVE  Moves(p)
  <2>1. \A g \in Clients \ {h} : RelaysTo(g, r)' <=> RelaysTo(g, r)
    BY <1>m DEF RelaysTo, InRelay
  <2> QED
    BY <1>0, <1>m, <2>1 DEF LinkPc
<1>1. CASE Bump(h)
  <2>1. hpc' = [hpc EXCEPT ![h] = "bumped"] /\ tgt' = tgt /\ hpc[h] = "stamped"
    BY <1>1 DEF Bump, Goto, fanVars
  <2>2. RelaysTo(h, r)' /\ Others /\ hpc'[h] = "bumped"
    BY <1>0, <2>1 DEF RelaysTo, InRelay
  <2>3. Moves("bumped")
    BY <2>2, <1>m
  <2>4. seq'[r] = seq[r] + 1
    BY <1>0, <1>1 DEF Bump
  <2>5. Kept /\ View /\ wire'[r] = wire[r] /\ overlap'[r] = overlap[r]
    BY <1>1 DEF Bump, fanVars, viewVars
  <2>6. Link(r)!Bump(h)
    BY <2>1, <2>3, <2>4, <2>5, Zenon DEF Link!Bump, Link!linkState, LinkPc
  <2> QED
    BY <1>0, <2>6 DEF Link!HandlerStep
<1>2. CASE EnterSend(h)
  <2>1. /\ hpc[h] = "bumped"
        /\ open[r] => hpc' = [hpc EXCEPT ![h] = "sending"] /\ tgt' = tgt
        /\ ~open[r] => hpc' = [hpc EXCEPT ![h] = "fan"] /\ tgt' = [tgt EXCEPT ![h] = {}]
    BY <1>0, <1>2 DEF EnterSend, Goto
  <2>2. Kept /\ View /\ seq'[r] = seq[r] /\ wire'[r] = wire[r] /\ overlap'[r] = overlap[r]
    BY <1>2 DEF EnterSend, linkVars, viewVars
  <2>3. Moves(IF open[r] THEN "sending" ELSE "idle")
    <3>1. CASE open[r]
      <4>1. RelaysTo(h, r)' /\ Others /\ hpc'[h] = "sending"
        BY <1>0, <2>1, <3>1 DEF RelaysTo, InRelay
      <4>2. Moves("sending")
        BY <4>1, <1>m
      <4> QED
        BY <3>1, <4>2
    <3>2. CASE ~open[r]
      <4>1. ~RelaysTo(h, r)' /\ Others
        BY <1>0, <2>1, <3>2 DEF RelaysTo, InRelay
      <4>2. Moves("idle")
        BY <4>1, <1>m
      <4> QED
        BY <3>2, <4>2
    <3> QED
      BY <3>1, <3>2
  <2>4. Link(r)!EnterSend(h)
    BY <2>1, <2>2, <2>3, Zenon DEF Link!EnterSend, Link!linkState, LinkPc
  <2> QED
    BY <1>0, <2>4 DEF Link!HandlerStep
<1>3. CASE FinishSend(h)
  <2>1. /\ hpc[h] = "sending" /\ hpc' = [hpc EXCEPT ![h] = "fan"]
        /\ tgt' = [tgt EXCEPT ![h] = {}]
        /\ Len(wire[r]) - taken[r] < SendBuf
        /\ wire' = [wire EXCEPT ![r] =
                       Append(@, [from |-> h, num |-> done[h] + 1, seq |-> stamp[h][r]])]
    BY <1>0, <1>3 DEF FinishSend, Goto
  <2>2. ~RelaysTo(h, r)' /\ Others
    BY <1>0, <2>1 DEF RelaysTo, InRelay
  <2>3. Moves("idle")
    BY <2>2, <1>m
  <2>4. Kept /\ View /\ seq'[r] = seq[r] /\ overlap'[r] = overlap[r]
    BY <1>3 DEF FinishSend, viewVars
  <2>5. wire'[r] = Append(wire[r], [from |-> h, num |-> lmsg[h], seq |-> lstamp[h]])
    <3>1. lmsg[h] = done[h] + 1 /\ lstamp[h] = stamp[h][r]
      BY <1>0
    <3> QED
      BY <1>0, <2>1, <3>1
  <2>6. Link(r)!FinishSend(h)
    BY <2>1, <2>3, <2>4, <2>5, Zenon DEF Link!FinishSend, LinkPc
  <2> QED
    BY <1>0, <2>6 DEF Link!HandlerStep
<1>4. CASE SendError(h)
  <2>1. /\ hpc[h] = "sending" /\ hpc' = [hpc EXCEPT ![h] = "fan"]
        /\ tgt' = [tgt EXCEPT ![h] = {}] /\ cst[r] = "down"
    BY <1>0, <1>4 DEF SendError, Goto
  <2>2. ~RelaysTo(h, r)' /\ Others
    BY <1>0, <2>1 DEF RelaysTo, InRelay
  <2>3. Moves("idle")
    BY <2>2, <1>m
  <2>4. Kept /\ View /\ seq'[r] = seq[r] /\ wire'[r] = wire[r] /\ overlap'[r] = overlap[r]
    BY <1>4 DEF SendError, linkVars, viewVars
  <2>5. Link(r)!SendError(h)
    BY <2>1, <2>3, <2>4, Zenon DEF Link!SendError, Link!linkState, LinkPc
  <2> QED
    BY <1>0, <2>5 DEF Link!HandlerStep
<1> QED
  BY <1>1, <1>2, <1>3, <1>4

-----------------------------------------------------------------------------

\* A step of the link to r, or none.
LinkNext(r) == [Link(r)!Next]_(Link(r)!vars)

\* A step that is not about the relays to r: at most it closes the socket.
LEMMA LinkQuiet ==
    ASSUME TypeInv, NEW r \in Clients, UNCHANGED <<linkVars, viewVars, stamp, cst>>,
           \A h \in Clients : RelaysTo(h, r)' <=> RelaysTo(h, r),
           \A h \in Clients : RelaysTo(h, r) => hpc'[h] = hpc[h],
           open'[r] = open[r] \/ open'[r] = FALSE
    PROVE  LinkNext(r)
<1>1. open[r] \in BOOLEAN
  BY DEF TypeInv, ThreadTypes
<1>2. CASE open'[r] = open[r]
  <2>1. UNCHANGED Link(r)!vars
    BY <1>2, LinkFrame DEF linkVars, viewVars
  <2> QED
    BY <2>1 DEF LinkNext
<1>3. CASE open[r] /\ open'[r] = FALSE
  <2> DEFINE H == Clients \ {r}
  <2>1. LinkPc(r)' = LinkPc(r)
    BY DEF LinkPc
  <2>2. /\ [h \in H |-> relayed[h][r]]' = [h \in H |-> relayed[h][r]]
        /\ [h \in H |-> stamp[h][r]]' = [h \in H |-> stamp[h][r]]
    BY DEF linkVars
  <2>3. /\ seq'[r] = seq[r] /\ wire'[r] = wire[r] /\ taken'[r] = taken[r]
        /\ cst'[r] = cst[r] /\ expect'[r] = expect[r] /\ shown'[r] = shown[r]
        /\ overlap'[r] = overlap[r]
    BY DEF linkVars, viewVars
  <2>4. Link(r)!Close
    BY <1>3, <2>1, <2>2, <2>3, Zenon DEF Link!Close, LinkPc
  <2> QED
    BY <2>4 DEF LinkNext, Link!Next
<1> QED
  BY <1>1, <1>2, <1>3

\* What the clients do is what the links' clients do.
LEMMA LinkClient ==
    ASSUME TypeInv, NEW c \in Clients, NEW r \in Clients, ClientStep(c)
    PROVE  LinkNext(r)
<1>0. /\ taken \in [Clients -> Nat] /\ expect \in [Clients -> Nat]
      /\ shown \in [Clients -> Seq(Record)] /\ UNCHANGED <<hpc, fanVars, linkVars, open>>
      /\ cst \in [Clients -> {"hello", "up", "deaf", "down"}]
  BY DEF TypeInv, ViewTypes, ClientStep, FirstRecv, ClientSend, Receive, Quit
<1>1. \A h \in Clients : (RelaysTo(h, r)' <=> RelaysTo(h, r)) /\ hpc'[h] = hpc[h]
  BY <1>0 DEF RelaysTo, InRelay, fanVars
<1>2. CASE c # r \/ ClientSend(c)
  <2>1. taken'[r] = taken[r] /\ expect'[r] = expect[r] /\ shown'[r] = shown[r]
        /\ cst'[r] = cst[r]
    BY <1>0, <1>2 DEF ClientStep, FirstRecv, ClientSend, Receive, Quit, viewVars
  <2>2. UNCHANGED Link(r)!vars
    BY <1>0, <1>1, <2>1, LinkFrame DEF fanVars, linkVars
  <2> QED
    BY <2>2 DEF LinkNext
<1>3. CASE c = r /\ ~ClientSend(c)
  <2> DEFINE H == Clients \ {r}
  <2>1. /\ LinkPc(r)' = LinkPc(r)
        /\ [h \in H |-> relayed[h][r]]' = [h \in H |-> relayed[h][r]]
        /\ [h \in H |-> stamp[h][r]]' = [h \in H |-> stamp[h][r]]
        /\ seq'[r] = seq[r] /\ open'[r] = open[r] /\ wire'[r] = wire[r]
        /\ overlap'[r] = overlap[r]
    BY <1>0, <1>1 DEF LinkPc, fanVars, linkVars
  <2>2. CASE FirstRecv(r)
    <3>1. /\ cst[r] = "hello" /\ expect'[r] = expect[r] /\ shown'[r] = shown[r]
          /\ \E k \in 0..(Len(wire[r]) - taken[r]) :
               taken'[r] = taken[r] + k /\ cst'[r] = IF k = 0 THEN "up" ELSE "deaf"
      BY <1>0, <2>2 DEF FirstRecv
    <3>2. Link(r)!FirstRecv
      BY <2>1, <3>1, Zenon DEF Link!FirstRecv, LinkPc
    <3> QED
      BY <3>2 DEF LinkNext, Link!Next
  <2>3. CASE Receive(r)
    <3>1. /\ cst[r] \in {"up", "deaf"} /\ taken[r] < Len(wire[r])
          /\ taken'[r] = taken[r] + 1 /\ cst'[r] = cst[r]
          /\ IF cst[r] = "up" /\ wire[r][taken[r] + 1].seq = expect[r]
               THEN /\ shown'[r] = Append(shown[r], wire[r][taken[r] + 1])
                    /\ expect'[r] = expect[r] + 1
               ELSE shown'[r] = shown[r] /\ expect'[r] = expect[r]
      BY <1>0, <2>3 DEF Receive
    <3>2. Link(r)!Receive
      BY <2>1, <3>1, Zenon DEF Link!Receive, LinkPc
    <3> QED
      BY <3>2 DEF LinkNext, Link!Next
  <2>4. CASE Quit(r)
    <3>1. /\ cst[r] # "down" /\ cst'[r] = "down" /\ taken'[r] = taken[r]
          /\ expect'[r] = expect[r] /\ shown'[r] = shown[r]
      BY <1>0, <2>4 DEF Quit, viewVars
    <3>2. Link(r)!Quit
      BY <2>1, <3>1, Zenon DEF Link!Quit, LinkPc
    <3> QED
      BY <3>2 DEF LinkNext, Link!Next
  <2> QED
    BY <1>3, <2>2, <2>3, <2>4 DEF ClientStep
<1> QED
  BY <1>2, <1>3

\* Every step of the server is a step of each link, or none of its business.
LEMMA LinksFollow ==
    TypeInv /\ RelayInv /\ [Next]_vars =>
        \A r \in Clients : LinkNext(r)
<1> SUFFICES ASSUME TypeInv, RelayInv, [Next]_vars, NEW r \in Clients
             PROVE  LinkNext(r)
  OBVIOUS
<1>0. /\ hpc \in [Clients -> Places] /\ tgt \in [Clients -> SUBSET Clients]
      /\ open \in [Clients -> BOOLEAN] /\ stamp \in [Clients -> [Clients -> Nat]]
      /\ relayed \in [Clients -> [Clients -> Nat]] /\ seq \in [Clients -> Nat]
      /\ overlap \in [Clients -> BOOLEAN] /\ wire \in [Clients -> Seq(Record)]
      /\ TargetSet
  BY DEF TypeInv, ThreadTypes, LinkTypes
<1>1. ASSUME NEW h \in Clients, Encrypt(h)
      PROVE  LinkNext(r)
  <2>1. CASE tgt'[h] = {r}
    <3>1. h # r /\ Link(r)!Encrypt(h)
      BY <1>1, <2>1, LinkEncrypt
    <3> QED
      BY <3>1 DEF LinkNext, Link!Next, Link!HandlerStep
  <2>2. CASE tgt'[h] # {r}
    <3>1. PICK d \in targets[h] :
            /\ tgt' = [tgt EXCEPT ![h] = {d}]
            /\ stamp' = [stamp EXCEPT ![h][d] = seq[d]]
            /\ relayed' = [relayed EXCEPT ![h][d] = done[h] + 1]
            /\ overlap' = [overlap EXCEPT ![d] = @ \/ \E g \in Clients : RelaysTo(g, d)]
      BY <1>1 DEF Encrypt
    <3>2. d # r
      BY <1>0, <2>2, <3>1
    <3>3. \A g \in Clients : relayed'[g][r] = relayed[g][r] /\ stamp'[g][r] = stamp[g][r]
      BY <1>0, <3>1, <3>2
    <3>4. overlap'[r] = overlap[r]
      BY <1>0, <3>1, <3>2
    <3>5. hpc[h] = "fan" /\ hpc' = [hpc EXCEPT ![h] = "stamped"]
          /\ UNCHANGED <<seq, open, wire, cst, viewVars>>
      BY <1>1 DEF Encrypt, Goto
    <3>6. ~RelaysTo(h, r) /\ ~RelaysTo(h, r)'
      BY <2>2, <3>5 DEF RelaysTo, InRelay
    <3>7. \A g \in Clients \ {h} : hpc'[g] = hpc[g] /\ tgt'[g] = tgt[g]
      BY <1>0, <3>1, <3>5
    <3>8. UNCHANGED Link(r)!vars
      BY <3>3, <3>4, <3>5, <3>6, <3>7, LinkAside
    <3> QED
      BY <3>8 DEF LinkNext
  <2> QED
    BY <2>1, <2>2
<1>2. ASSUME NEW h \in Clients, Bump(h) \/ EnterSend(h) \/ FinishSend(h) \/ SendError(h)
      PROVE  LinkNext(r)
  <2>1. CASE RelaysTo(h, r)
    <3>1. h # r /\ Link(r)!HandlerStep(h)
      BY <1>2, <2>1, LinkRelay
    <3> QED
      BY <3>1 DEF LinkNext, Link!Next
  <2>2. CASE ~RelaysTo(h, r)
    <3>0. InRelay(h)
      BY <1>2 DEF InRelay, Bump, EnterSend, FinishSend, SendError
    <3>1. PICK d \in tgt[h] : tgt[h] = {d}
      <4>1. tgt[h] # {} /\ \A c, d \in tgt[h] : c = d
        BY <1>0, <3>0 DEF TargetSet
      <4>2. PICK d : d \in tgt[h]
        BY <4>1
      <4>3. tgt[h] = {d}
        BY <4>1, <4>2
      <4> QED
        BY <4>2, <4>3
    <3>2. d # r
      BY <2>2, <3>0, <3>1 DEF RelaysTo
    <3>3. UNCHANGED <<open, stamp, cst, viewVars, relayed, overlap>>
      BY <1>2 DEF Bump, EnterSend, FinishSend, SendError, fanVars, linkVars
    <3>4. seq'[r] = seq[r] /\ wire'[r] = wire[r]
      BY <1>0, <1>2, <3>1, <3>2 DEF Bump, EnterSend, FinishSend, SendError, linkVars
    <3>5. \A g \in Clients \ {h} : hpc'[g] = hpc[g] /\ tgt'[g] = tgt[g]
      BY <1>0, <1>2 DEF Bump, EnterSend, FinishSend, SendError, Goto, fanVars
    <3>6. ~RelaysTo(h, r)'
      <4>1. tgt' = tgt \/ tgt' = [tgt EXCEPT ![h] = {}]
        <5>1. EnterSend(h) => tgt' = tgt \/ tgt' = [tgt EXCEPT ![h] = {}]
          BY DEF EnterSend
        <5> QED
          BY <1>2, <5>1 DEF Bump, FinishSend, SendError, fanVars
      <4>2. tgt'[h] = {d} \/ tgt'[h] = {}
        BY <1>0, <3>1, <4>1
      <4>3. tgt'[h] # {r}
        BY <3>2, <4>2
      <4> QED
        BY <4>3 DEF RelaysTo
    <3>7. UNCHANGED Link(r)!vars
      BY <2>2, <3>3, <3>4, <3>5, <3>6, LinkAside
    <3> QED
      BY <3>7 DEF LinkNext
  <2> QED
    BY <2>1, <2>2
<1> DEFINE Aside == /\ UNCHANGED <<linkVars, viewVars, stamp, cst>>
                    /\ \A h \in Clients : RelaysTo(h, r)' <=> RelaysTo(h, r)
                    /\ \A h \in Clients : RelaysTo(h, r) => hpc'[h] = hpc[h]
                    /\ open'[r] = open[r] \/ open'[r] = FALSE
<1>3. ASSUME Aside PROVE LinkNext(r)
  BY <1>3, LinkQuiet
<1>4. ASSUME NEW h \in Clients, Cleanup(h) \/ CleanupClose(h)
      PROVE  Aside
  <2>1. UNCHANGED <<linkVars, viewVars, stamp, cst>> /\ ~InRelay(h) /\ ~InRelay(h)'
        /\ \A g \in Clients \ {h} : hpc'[g] = hpc[g] /\ tgt'[g] = tgt[g]
    BY <1>0, <1>4 DEF Cleanup, CleanupClose, Goto, InRelay
  <2>2. open'[r] = open[r] \/ open'[r] = FALSE
    BY <1>0, <1>4 DEF Cleanup, CleanupClose
  <2> QED
    BY <2>1, <2>2 DEF RelaysTo, InRelay
<1>5. ASSUME NEW h \in Clients,
             \/ Accept(h) \/ HelloOk(h) \/ HelloFail(h) \/ Register(h) \/ Enter(h) \/ Check(h)
             \/ Recv(h) \/ RecvEnd(h) \/ Snapshot(h) \/ FanDone(h) \/ CleanupDel(h)
             \/ Except(h) \/ ExceptClose(h) \/ Collect(h)
      PROVE  Aside
  <2>1. UNCHANGED <<linkVars, viewVars, stamp, cst, tgt>>
    BY <1>5 DEF Accept, HelloOk, HelloFail, Register, Enter, Check, Recv, RecvEnd, Snapshot,
                FanDone, CleanupDel, Except, ExceptClose, Collect, fanVars
  <2>2. \A g \in Clients : InRelay(g)' <=> InRelay(g)
    BY <1>0, <1>5
       DEF Accept, HelloOk, HelloFail, Register, Enter, Check, Recv, RecvEnd, Snapshot,
           FanDone, CleanupDel, Except, ExceptClose, Collect, Goto, InRelay
  <2>3. \A g \in Clients : InRelay(g) => hpc'[g] = hpc[g]
    BY <1>0, <1>5
       DEF Accept, HelloOk, HelloFail, Register, Enter, Check, Recv, RecvEnd, Snapshot,
           FanDone, CleanupDel, Except, ExceptClose, Collect, Goto, InRelay
  <2>4. open'[r] = open[r] \/ open'[r] = FALSE
    BY <1>0, <1>5
       DEF Accept, HelloOk, HelloFail, Register, Enter, Check, Recv, RecvEnd, Snapshot,
           FanDone, CleanupDel, Except, ExceptClose, Collect
  <2> QED
    BY <2>1, <2>2, <2>3, <2>4 DEF RelaysTo
<1>6. ASSUME Interrupt \/ StopStep PROVE Aside
  <2>1. UNCHANGED <<linkVars, viewVars, stamp, cst, tgt, hpc>>
    BY <1>6 DEF Interrupt, StopStep, StopSnapshot, StopNext, StopClose, StopDel, Exit, fanVars
  <2>2. open'[r] = open[r] \/ open'[r] = FALSE
    BY <1>0, <1>6 DEF Interrupt, StopStep, StopSnapshot, StopNext, StopClose, StopDel, Exit
  <2> QED
    BY <2>1, <2>2 DEF RelaysTo, InRelay
<1>7. CASE UNCHANGED vars
  BY <1>3, <1>7 DEF vars, fanVars, RelaysTo, InRelay
<1> HIDE DEF Aside
<1>8. ASSUME NEW h \in Clients, HandlerStep(h) PROVE LinkNext(r)
  BY <1>1, <1>2, <1>3, <1>4, <1>5, <1>8, Zenon DEF HandlerStep
<1>9. ASSUME NEW c \in Clients, ClientStep(c) PROVE LinkNext(r)
  BY <1>9, LinkClient
<1>10. CASE Next
  BY <1>3, <1>5, <1>6, <1>8, <1>9, <1>10, Zenon DEF Next
<1> QED
  BY <1>7, <1>10

\* What happens between the server and any one client is a behaviour of
\* RelayLink: of the server's threads a link shows the relays to its client,
\* the closing of its socket, and nothing else.
THEOREM IsLinks == Spec => ImplementsLinks
<1>1. Init => \A r \in Clients : Link(r)!Init
  BY LinkInit
<1>2. TypeInv /\ RelayInv /\ [Next]_vars =>
        [\A r \in Clients : [Link(r)!Next]_(Link(r)!vars)]_vars
  <2> SUFFICES ASSUME TypeInv, RelayInv, [Next]_vars
               PROVE  \A r \in Clients : [Link(r)!Next]_(Link(r)!vars)
    OBVIOUS
  <2> QED
    BY LinksFollow DEF LinkNext
<1> QED
  BY <1>1, <1>2, RelayInvariant, PTL DEF Spec, ImplementsLinks

-----------------------------------------------------------------------------

\* The handler g does not go back in what it relays to r, and starts only with
\* a later message.
Advances(g, r) ==
    \/ relayed'[g][r] = relayed[g][r] /\ (RelaysTo(g, r)' => RelaysTo(g, r))
    \/ relayed'[g][r] > relayed[g][r]

\* What a step of the link does to the order of messages: nothing, or a handler
\* puts the message it holds on the stream, or the next one of the stream is
\* displayed.
LinkEffect(r) ==
    /\ \A g \in Clients \ {r} : Advances(g, r)
    /\ \/ /\ wire'[r] = wire[r] /\ shown'[r] = shown[r]
          /\ taken'[r] \in Nat /\ taken[r] <= taken'[r]
       \/ /\ \E h \in Clients \ {r} : \E x \in Record :
               /\ x.from = h /\ x.num = relayed[h][r]
               /\ RelaysTo(h, r) /\ ~RelaysTo(h, r)' /\ relayed'[h][r] = relayed[h][r]
               /\ wire'[r] = Append(wire[r], x)
          /\ shown'[r] = shown[r] /\ taken'[r] = taken[r]
       \/ /\ taken[r] < Len(wire[r]) /\ taken'[r] = taken[r] + 1 /\ wire'[r] = wire[r]
          /\ shown'[r] = Append(shown[r], wire[r][taken[r] + 1])

\* A step of the link appends or shows one record, and each thread keeps to its order.
LEMMA LinkOrder ==
    ASSUME TypeInv, TypeInv', RelayInv, NEW r \in Clients, LinkNext(r)
    PROVE  LinkEffect(r)
<1> DEFINE H == Clients \ {r}
           lmsg == [g \in H |-> relayed[g][r]]
           lstamp == [g \in H |-> stamp[g][r]]
<1>0. /\ taken[r] \in Nat /\ wire[r] \in Seq(Record) /\ shown[r] \in Seq(Record)
      /\ \A g \in H : relayed[g][r] \in Nat /\ relayed'[g][r] \in Nat
  BY DEF TypeInv, LinkTypes, ViewTypes
<1>1. \A g \in H : /\ LinkPc(r)[g] # "idle" <=> RelaysTo(g, r)
                   /\ (LinkPc(r)[g] # "idle" <=> RelaysTo(g, r))'
                   /\ lmsg[g] = relayed[g][r] /\ lmsg'[g] = relayed'[g][r]
  BY DEF LinkPc, RelaysTo, InRelay
<1>2. ASSUME NEW h \in H, Link(r)!Encrypt(h) PROVE LinkEffect(r)
  <2>1. PICK n \in 1..MaxMsg :
          /\ n > lmsg[h] /\ lmsg' = [lmsg EXCEPT ![h] = n]
          /\ LinkPc(r)' = [LinkPc(r) EXCEPT ![h] = "stamped"]
          /\ taken'[r] = taken[r] /\ wire'[r] = wire[r] /\ shown'[r] = shown[r]
    BY <1>2, Zenon DEF Link!Encrypt, Link!linkState, LinkPc
  <2>2. \A g \in H : Advances(g, r)
    BY <1>0, <1>1, <2>1 DEF Advances, LinkPc
  <2> QED
    BY <1>0, <2>1, <2>2 DEF LinkEffect
<1>3. ASSUME NEW h \in H,
             \/ Link(r)!Bump(h) \/ Link(r)!EnterSend(h) \/ Link(r)!SendError(h)
      PROVE  LinkEffect(r)
  <2>1. /\ LinkPc(r)[h] # "idle" /\ lmsg' = lmsg
        /\ \E p : LinkPc(r)' = [LinkPc(r) EXCEPT ![h] = p]
        /\ taken'[r] = taken[r] /\ wire'[r] = wire[r] /\ shown'[r] = shown[r]
    BY <1>3 DEF Link!Bump, Link!EnterSend, Link!SendError, Link!linkState, LinkPc
  <2>2. \A g \in H : Advances(g, r)
    BY <1>0, <1>1, <2>1 DEF Advances, LinkPc
  <2> QED
    BY <1>0, <2>1, <2>2 DEF LinkEffect
<1>4. ASSUME NEW h \in H, Link(r)!FinishSend(h)
      PROVE  LinkEffect(r)
  <2>1. /\ LinkPc(r)[h] = "sending" /\ LinkPc(r)' = [LinkPc(r) EXCEPT ![h] = "idle"]
        /\ lmsg' = lmsg
        /\ wire'[r] = Append(wire[r], [from |-> h, num |-> lmsg[h], seq |-> lstamp[h]])
        /\ taken'[r] = taken[r] /\ shown'[r] = shown[r]
    BY <1>4, Zenon DEF Link!FinishSend, LinkPc
  <2>2. \A g \in H : Advances(g, r)
    BY <1>0, <1>1, <2>1 DEF Advances, LinkPc
  <2>3. RelaysTo(h, r) /\ ~RelaysTo(h, r)' /\ relayed'[h][r] = relayed[h][r]
    BY <1>1, <2>1 DEF LinkPc
  <2>4. PICK x \in Record : x = [from |-> h, num |-> lmsg[h], seq |-> lstamp[h]]
    <3>1. lmsg[h] \in 1..MaxMsg
      BY <2>3, NewRecord DEF TypeInv, RelayInv, RelayedUpTo, RelaysTo, InRelay, Fanning
    <3>2. lstamp[h] \in Nat
      BY DEF TypeInv, LinkTypes
    <3> QED
      BY <3>1, <3>2 DEF Record
  <2>5. x.from = h /\ x.num = relayed[h][r]
    BY <2>4
  <2>6. wire'[r] = Append(wire[r], x)
    BY <2>1, <2>4, Zenon
  <2> QED
    BY <2>1, <2>2, <2>3, <2>5, <2>6 DEF LinkEffect
<1>5. ASSUME lmsg' = lmsg, LinkPc(r)' = LinkPc(r) PROVE \A g \in H : Advances(g, r)
  BY <1>1, <1>5 DEF Advances
<1>6. CASE Link(r)!FirstRecv
  <2>1. /\ LinkPc(r)' = LinkPc(r) /\ lmsg' = lmsg
        /\ \E k \in 0..(Len(wire[r]) - taken[r]) : taken'[r] = taken[r] + k
        /\ wire'[r] = wire[r] /\ shown'[r] = shown[r]
    BY <1>6, Zenon DEF Link!FirstRecv, LinkPc
  <2>2. taken'[r] \in Nat /\ taken[r] <= taken'[r]
    BY <1>0, <2>1
  <2> QED
    BY <1>5, <2>1, <2>2 DEF LinkEffect
<1>7. CASE Link(r)!Receive
  <2>1. /\ LinkPc(r)' = LinkPc(r) /\ lmsg' = lmsg
        /\ taken[r] < Len(wire[r]) /\ taken'[r] = taken[r] + 1 /\ wire'[r] = wire[r]
        /\ shown'[r] = shown[r] \/ shown'[r] = Append(shown[r], wire[r][taken[r] + 1])
    BY <1>7, Zenon DEF Link!Receive, LinkPc
  <2> QED
    BY <1>0, <1>5, <2>1 DEF LinkEffect
<1>8. CASE Link(r)!Close \/ Link(r)!Quit \/ UNCHANGED Link(r)!vars
  <2>1. /\ LinkPc(r)' = LinkPc(r) /\ lmsg' = lmsg
        /\ taken'[r] = taken[r] /\ wire'[r] = wire[r] /\ shown'[r] = shown[r]
    BY <1>8, Zenon DEF Link!Close, Link!Quit, Link!vars, LinkPc
  <2> QED
    BY <1>0, <1>5, <2>1 DEF LinkEffect
<1> QED
  BY <1>2, <1>3, <1>4, <1>6, <1>7, <1>8, Zenon
     DEF LinkNext, Link!Next, Link!HandlerStep

\* A record that is older than what its sender holds stays so.
LEMMA PastStep ==
    ASSUME TypeInv, TypeInv', NEW r \in Clients, LinkEffect(r)
    PROVE  Past(r) \subseteq Past(r)'
<1> SUFFICES ASSUME NEW x \in Record, x \in Past(r)
             PROVE  x \in Past(r)'
  BY DEF Past
<1>1. /\ x.from \in Clients \ {r} /\ x.num \in Nat
      /\ relayed[x.from][r] \in Nat /\ relayed'[x.from][r] \in Nat
  BY BoundsAssumption DEF Record, Past, TypeInv, LinkTypes
<1>2. Advances(x.from, r)
  BY <1>1 DEF LinkEffect
<1> QED
  BY <1>1, <1>2 DEF Past, Advances

\* The order of messages at one recipient, through every step of its link.
LEMMA OrderStep ==
    ASSUME TypeInv, TypeInv', NEW r \in Clients, LinkEffect(r), Ordered(r)
    PROVE  Ordered(r)'
<1>0. /\ wire[r] \in Seq(Record) /\ wire'[r] \in Seq(Record) /\ taken[r] \in Nat
      /\ shown[r] \in Seq(Record) /\ shown'[r] \in Seq(Record) /\ taken'[r] \in Nat
  BY DEF TypeInv, LinkTypes, ViewTypes
<1>1. Past(r) \subseteq Past(r)'
  BY PastStep
<1>2. /\ \A i \in 1..Len(wire[r]) : wire[r][i] \in Past(r) /\ wire[r][i] \in Past(r)'
      /\ \A i \in 1..Len(shown[r]) : shown[r][i] \in Past(r) /\ shown[r][i] \in Past(r)'
  BY <1>1 DEF Ordered
<1>3. CASE /\ wire'[r] = wire[r] /\ shown'[r] = shown[r]
           /\ taken'[r] \in Nat /\ taken[r] <= taken'[r]
  <2>1. \A j \in (taken'[r] + 1)..Len(wire[r]) : j \in (taken[r] + 1)..Len(wire[r])
    BY <1>0, <1>3
  <2> QED
    BY <1>2, <1>3, <2>1 DEF Ordered, Older
<1>4. ASSUME NEW h \in Clients \ {r}, NEW x \in Record, x.from = h, x.num = relayed[h][r],
             RelaysTo(h, r), ~RelaysTo(h, r)', relayed'[h][r] = relayed[h][r],
             wire'[r] = Append(wire[r], x), shown'[r] = shown[r], taken'[r] = taken[r]
      PROVE  Ordered(r)'
  <2>1. /\ Len(wire'[r]) = Len(wire[r]) + 1
        /\ \A i \in 1..Len(wire[r]) : wire'[r][i] = wire[r][i]
        /\ wire'[r][Len(wire[r]) + 1] = x
    BY <1>0, <1>4, AppendRecord
  <2>2. \A y \in Past(r) : Older(y, x)
    BY <1>4 DEF Past, Older
  <2>3. x \in Past(r)'
    BY <1>4, BoundsAssumption DEF Past, Record, TypeInv, LinkTypes
  <2>4. /\ \A i \in 1..Len(wire[r]) : Older(wire[r][i], x)
        /\ \A i \in 1..Len(shown[r]) : Older(shown[r][i], x)
    BY <1>2, <2>2 DEF Ordered
  <2>5. \A i \in 1..Len(wire'[r]) : i \in 1..Len(wire[r]) \/ i = Len(wire[r]) + 1
    BY <1>0, <2>1
  <2>6. \A i, j \in 1..Len(wire'[r]) : i < j => i \in 1..Len(wire[r])
    BY <1>0, <2>1
  <2>7. \A i, j \in 1..Len(wire'[r]) : i < j => Older(wire'[r][i], wire'[r][j])
    BY <2>1, <2>4, <2>5, <2>6 DEF Ordered
  <2>8. \A i \in 1..Len(shown[r]) : \A j \in (taken[r] + 1)..Len(wire'[r]) :
          Older(shown[r][i], wire'[r][j])
    <3>1. \A j \in (taken[r] + 1)..Len(wire'[r]) :
            j \in (taken[r] + 1)..Len(wire[r]) \/ j = Len(wire[r]) + 1
      BY <1>0, <2>1
    <3>2. \A j \in (taken[r] + 1)..Len(wire[r]) : wire'[r][j] = wire[r][j]
      BY <1>0, <2>1
    <3> QED
      BY <2>1, <2>4, <3>1, <3>2 DEF Ordered
  <2>9. \A i \in 1..Len(wire'[r]) : (wire[r][i] \in Past(r)' /\ wire'[r][i] = wire[r][i])
                                     \/ (wire'[r][i] = x)
    BY <1>2, <2>1, <2>5
  <2>10. x \in Past(r)' /\ \A i \in 1..Len(shown[r]) : shown[r][i] \in Past(r)'
    BY <1>2, <2>3
  <2> QED
    BY <1>4, <2>7, <2>8, <2>9, <2>10 DEF Ordered, Older
<1>5. CASE /\ taken[r] < Len(wire[r]) /\ taken'[r] = taken[r] + 1 /\ wire'[r] = wire[r]
           /\ shown'[r] = Append(shown[r], wire[r][taken[r] + 1])
  <2> DEFINE x == wire[r][taken[r] + 1]
  <2>1. taken[r] + 1 \in 1..Len(wire[r]) /\ taken[r] + 1 \in (taken[r] + 1)..Len(wire[r])
    BY <1>0, <1>5
  <2>2. x \in Record /\ x \in Past(r)'
    BY <1>2, <2>1 DEF Past
  <2>3. /\ Len(shown'[r]) = Len(shown[r]) + 1
        /\ \A i \in 1..Len(shown[r]) : shown'[r][i] = shown[r][i]
        /\ shown'[r][Len(shown[r]) + 1] = x
    BY <1>0, <1>5, <2>2, AppendRecord
  <2>4. \A i \in 1..Len(shown[r]) : Older(shown[r][i], x)
    BY <2>1 DEF Ordered
  <2>5. \A j \in (taken'[r] + 1)..Len(wire[r]) :
          j \in (taken[r] + 1)..Len(wire[r]) /\ Older(x, wire[r][j])
    <3>1. \A j \in (taken'[r] + 1)..Len(wire[r]) :
            j \in (taken[r] + 1)..Len(wire[r]) /\ j \in 1..Len(wire[r]) /\ taken[r] + 1 < j
      BY <1>0, <1>5
    <3> QED
      BY <2>1, <3>1 DEF Ordered
  <2> HIDE DEF x
  <2>6. \A i \in 1..Len(shown'[r]) : i \in 1..Len(shown[r]) \/ i = Len(shown[r]) + 1
    BY <1>0, <2>3
  <2>7. \A i, j \in 1..Len(shown'[r]) : i < j => i \in 1..Len(shown[r])
    BY <1>0, <2>3
  <2>8. \A i, j \in 1..Len(shown'[r]) : i < j => Older(shown'[r][i], shown'[r][j])
    BY <2>3, <2>4, <2>6, <2>7 DEF Ordered
  <2>9. \A i \in 1..Len(shown'[r]) : \A j \in (taken'[r] + 1)..Len(wire[r]) :
          Older(shown'[r][i], wire[r][j])
    BY <2>3, <2>5, <2>6 DEF Ordered
  <2>10. \A i \in 1..Len(shown'[r]) : (shown[r][i] \in Past(r)' /\ shown'[r][i] = shown[r][i])
                                       \/ (shown'[r][i] = x)
    BY <1>2, <2>3, <2>6
  <2>11. x \in Past(r)' /\ \A i \in 1..Len(wire[r]) : wire[r][i] \in Past(r)'
    BY <1>2, <2>2
  <2> QED
    BY <1>5, <2>8, <2>9, <2>10, <2>11 DEF Ordered, Older
<1> QED
  BY <1>3, <1>4, <1>5 DEF LinkEffect

\* The invariant the refinement of Broadcast rests on.
LEMMA OrderInvariant == Spec => [](TypeInv /\ RelayInv /\ OrderInv)
<1>1. Init => OrderInv
  BY DEF Init, OrderInv, Ordered
<1>2. TypeInv /\ RelayInv /\ OrderInv /\ [Next]_vars => OrderInv'
  <2> SUFFICES ASSUME TypeInv, RelayInv, OrderInv, [Next]_vars, NEW r \in Clients
               PROVE  Ordered(r)'
    BY DEF OrderInv
  <2>1. TypeInv' /\ LinkNext(r)
    BY TypeStep, LinksFollow
  <2>2. LinkEffect(r)
    BY <2>1, LinkOrder
  <2> QED
    BY <2>1, <2>2, OrderStep DEF OrderInv
<1> QED
  BY <1>1, <1>2, RelayInvariant, PTL DEF Spec

-----------------------------------------------------------------------------

\* A screen as Broadcast sees it: without the record numbers.
Strip(x) == [from |-> x.from, num |-> x.num]
Screen(s) == [i \in 1..Len(s) |-> Strip(s[i])]

\* A record that is shown is one message more on the screen.
LEMMA ScreenAppend ==
    ASSUME NEW s \in Seq(Record), NEW x \in Record
    PROVE  Screen(Append(s, x)) = Append(Screen(s), Strip(x))
<1> DEFINE M == [from: Clients, num: 1..MaxMsg]
<1>1. \A y \in Record : Strip(y) \in M
  BY DEF Record, Strip
<1>2. Screen(s) \in Seq(M) /\ Len(Screen(s)) = Len(s)
  BY <1>1 DEF Screen
<1>3. Strip(x) \in M
  BY <1>1
<1>4. Append(s, x) \in Seq(Record) /\ Screen(Append(s, x)) \in Seq(M)
      /\ Len(Screen(Append(s, x))) = Len(s) + 1
  <2>1. Append(s, x) \in Seq(Record) /\ Len(Append(s, x)) = Len(s) + 1
    BY AppendRecord
  <2> QED
    BY <1>1, <2>1 DEF Screen
<1> HIDE DEF M
<1>5. Append(Screen(s), Strip(x)) \in Seq(M) /\ Len(Append(Screen(s), Strip(x))) = Len(s) + 1
  BY <1>2, <1>3
<1>6. ASSUME NEW i \in 1..(Len(s) + 1)
      PROVE  Screen(Append(s, x))[i] = Append(Screen(s), Strip(x))[i]
  <2>1. Len(Append(s, x)) = Len(s) + 1
    BY AppendRecord
  <2>2. CASE i \in 1..Len(s)
    <3>1. Append(s, x)[i] = s[i]
      BY <2>2, AppendRecord
    <3>2. Append(Screen(s), Strip(x))[i] = Screen(s)[i]
      BY <1>2, <1>3, <2>2
    <3> QED
      BY <2>1, <2>2, <3>1, <3>2 DEF Screen
  <2>3. CASE i = Len(s) + 1
    <3>1. Append(s, x)[i] = x
      BY <2>3, AppendRecord
    <3>2. Append(Screen(s), Strip(x))[i] = Strip(x)
      BY <1>2, <1>3, <2>3
    <3> QED
      BY <2>1, <3>1, <3>2 DEF Screen
  <2> QED
    BY <2>2, <2>3, i \in 1..Len(s) \/ i = Len(s) + 1
<1> QED
  BY <1>4, <1>5, <1>6

\* A client is shown what another one has sent, later than what it has seen of
\* that client before.
LEMMA ShowStep ==
    ASSUME TypeInv, RelayInv, OrderInv, NEW r \in Clients, Receive(r), shown' # shown
    PROVE  \E c \in Clients : \E n \in 1..csent[c] : Abstract!Show(r, c, n)
<1>1. /\ taken[r] \in Nat /\ wire[r] \in Seq(Record) /\ shown \in [Clients -> Seq(Record)]
      /\ taken[r] + 1 \in 1..Len(wire[r]) /\ taken[r] + 1 \in (taken[r] + 1)..Len(wire[r])
  BY DEF Receive, TypeInv, LinkTypes, ViewTypes
<1>2. PICK x \in Record : x = wire[r][taken[r] + 1]
  BY <1>1
<1>3. x \in Past(r) /\ \A i \in 1..Len(shown[r]) : Older(shown[r][i], x)
  BY <1>1, <1>2 DEF OrderInv, Ordered
<1>4. x.from # r /\ x.num \in 1..csent[x.from]
  <2> DEFINE c == x.from
  <2>1. /\ c \in Clients /\ c # r /\ x.num \in 1..MaxMsg /\ x.num <= relayed[c][r]
    BY <1>3 DEF Record, Past
  <2>2. /\ done[c] \in Nat /\ got[c] \in Nat /\ csent[c] \in 0..MaxMsg /\ relayed[c][r] \in Nat
        /\ done[c] <= got[c] /\ got[c] <= csent[c] /\ (Fanning(c) => done[c] < got[c])
    BY <2>1 DEF TypeInv, CountTypes, LinkTypes, InHand
  <2>3. relayed[c][r] <= done[c] + 1 /\ (relayed[c][r] = done[c] + 1 => Fanning(c))
    BY <2>1 DEF RelayInv, RelayedUpTo
  <2> QED
    BY <2>1, <2>2, <2>3, BoundsAssumption
<1> DEFINE out == [c \in Clients |-> [i \in 1..Len(shown[c]) |->
                     [from |-> shown[c][i].from, num |-> shown[c][i].num]]]
<1>5. /\ out = [c \in Clients |-> Screen(shown[c])]
      /\ out' = [c \in Clients |-> Screen(shown'[c])]
  BY DEF Screen, Strip
<1>6. shown' = [shown EXCEPT ![r] = Append(@, x)] /\ csent' = csent
  BY <1>2 DEF Receive
<1>7. out' = [out EXCEPT ![r] = Append(@, [from |-> x.from, num |-> x.num])]
  <2>1. Screen(shown'[r]) = Append(Screen(shown[r]), Strip(x))
    BY <1>1, <1>6, ScreenAppend
  <2>2. \A c \in Clients \ {r} : shown'[c] = shown[c]
    BY <1>1, <1>6
  <2> HIDE DEF out
  <2> QED
    BY <1>5, <2>1, <2>2 DEF Strip
<1>8. \A i \in 1..Len(out[r]) : out[r][i].from = x.from => out[r][i].num < x.num
  <2>1. out[r] = Screen(shown[r]) /\ Len(out[r]) = Len(shown[r])
    BY <1>1, <1>5 DEF Screen
  <2> HIDE DEF out
  <2> QED
    BY <1>3, <2>1 DEF Screen, Strip, Older
<1>9. x.from \in Clients
  BY <1>3 DEF Record
<1>10. Abstract!Show(r, x.from, x.num)
  BY <1>6, <1>4, <1>7, <1>8, Zenon DEF Abstract!Show
<1> QED
  BY <1>4, <1>9, <1>10

\* What the users see is a behaviour of Broadcast: messages of the others, that
\* were sent, each sender's in order and none twice.
THEOREM IsBroadcast == Spec => ImplementsBroadcast
<1>1. Init => Abstract!Init
  BY DEF Init, Abstract!Init
<1>2. TypeInv /\ RelayInv /\ OrderInv /\ [Next]_vars => [Abstract!Next]_(Abstract!vars)
  <2> SUFFICES ASSUME TypeInv, RelayInv, OrderInv, [Next]_vars
               PROVE  [Abstract!Next]_(Abstract!vars)
    OBVIOUS
  <2>1. CASE UNCHANGED <<csent, shown>>
    BY <2>1 DEF Abstract!vars
  <2>2. ASSUME NEW c \in Clients, ClientSend(c) PROVE Abstract!Next
    <3>1. csent' = [csent EXCEPT ![c] = @ + 1] /\ shown' = shown
      BY <2>2 DEF ClientSend, viewVars
    <3>2. Abstract!Send(c)
      BY <3>1 DEF Abstract!Send
    <3> QED
      BY <3>2 DEF Abstract!Next
  <2>3. ASSUME NEW c \in Clients, Receive(c), shown' # shown PROVE Abstract!Next
    BY <2>3, ShowStep, Zenon DEF Abstract!Next
  <2>4. ASSUME NEW c \in Clients, Receive(c) PROVE csent' = csent
    BY <2>4 DEF Receive
  <2>5. ASSUME NEW c \in Clients, FirstRecv(c) \/ Quit(c) PROVE UNCHANGED <<csent, shown>>
    BY <2>5 DEF FirstRecv, Quit, viewVars
  <2>6. ASSUME NEW h \in Clients, Accept(h) \/ HandlerStep(h) \/ Collect(h)
        PROVE  UNCHANGED <<csent, shown>>
    BY <2>6 DEF Accept, HandlerStep, Collect, HelloOk, HelloFail, Register, Enter, Check, Recv,
                RecvEnd, Snapshot, Encrypt, FanDone, Bump, EnterSend, FinishSend, SendError,
                Cleanup, CleanupClose, CleanupDel, Except, ExceptClose, viewVars
  <2>7. ASSUME Interrupt \/ StopStep PROVE UNCHANGED <<csent, shown>>
    BY <2>7 DEF Interrupt, StopStep, StopSnapshot, StopNext, StopClose, StopDel, Exit, viewVars
  <2>8. CASE UNCHANGED vars
    BY <2>1, <2>8 DEF vars, viewVars
  <2> QED
    BY <2>1, <2>2, <2>3, <2>4, <2>5, <2>6, <2>7, <2>8, Zenon DEF Next, ClientStep
<1> QED
  BY <1>1, <1>2, OrderInvariant, PTL DEF Spec, ImplementsBroadcast, Abstract!Spec
=============================================================================
