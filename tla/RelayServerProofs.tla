-------------------------- MODULE RelayServerProofs --------------------------
(***************************************************************************)
(* What RelayServer guarantees for every set of clients, every client id   *)
(* in use twice, every number of messages and every buffer size:           *)
(*   TypeCorrect    the variables keep their types;                        *)
(*   LeakFree       a thread that ends leaves no entry and no socket;      *)
(*   Served         until stop() a served client is entered;               *)
(*   Unserved       after stop() what is entered is on its way out;        *)
(*   Owed           one failed target costs the others nothing.            *)
(***************************************************************************)
EXTENDS RelayServer, TLAPS

(***************************************************************************)
(* The types of single variables.                                          *)
(***************************************************************************)

Record == [from: Clients, num: 1..MaxMsg, seq: Nat]

Places ==
    {"none", "hello", "reply", "enter", "check", "recv", "batch", "fan", "stamped",
     "bumped", "sending", "cleanup", "dclose", "ddel", "except", "xclose", "done",
     "refused"}

MainTypes ==
    /\ mpc \in {"accept", "snapshot", "next", "close", "del", "stopped", "crashed", "gone"}
    /\ running \in BOOLEAN /\ (running <=> mpc = "accept")
    /\ todo \subseteq Clients /\ victim \subseteq Clients /\ registry \subseteq Clients
    /\ twins \in {{}, Reusers}

ThreadTypes ==
    /\ hpc \in [Clients -> Places]
    /\ open \in [Clients -> BOOLEAN]
    /\ targets \in [Clients -> SUBSET Clients]
    /\ tgt \in [Clients -> SUBSET Clients]

CountTypes ==
    /\ csent \in [Clients -> 0..MaxMsg]
    /\ got \in [Clients -> Nat] /\ done \in [Clients -> Nat]
    /\ \A c \in Clients : done[c] <= got[c] /\ got[c] <= csent[c]
    /\ owed \subseteq Clients \X (1..MaxMsg) \X Clients

LinkTypes ==
    /\ stamp \in [Clients -> [Clients -> Nat]]
    /\ relayed \in [Clients -> [Clients -> Nat]]
    /\ seq \in [Clients -> Nat]
    /\ overlap \in [Clients -> BOOLEAN]
    /\ wire \in [Clients -> Seq(Record)]

ViewTypes ==
    /\ cst \in [Clients -> {"hello", "up", "deaf", "down"}]
    /\ taken \in [Clients -> Nat] /\ \A c \in Clients : taken[c] <= Len(wire[c])
    /\ shown \in [Clients -> Seq(Record)]
    /\ expect \in [Clients -> Nat] /\ \A c \in Clients : expect[c] = Len(shown[c])

(***************************************************************************)
(* How the variables go together.                                          *)
(***************************************************************************)

\* One connection at most is entered under each client id.
OneEntry == \A c, d \in registry : c \in Same(d) => c = d

\* stop() works on one connection at a time, and only at these two places.
VictimSet ==
    /\ victim # {} <=> mpc \in {"close", "del"}
    /\ \A c, d \in victim : c = d

\* A handler has a target, or a connection to close, at these places only, and
\* one at a time.
TargetSet ==
    \A h \in Clients :
        /\ tgt[h] # {} <=> InRelay(h) \/ hpc[h] = "dclose"
        /\ \A c, d \in tgt[h] : c = d

\* While a message is fanned out it is not yet counted as done.
Fanning(h) == hpc[h] \in {"fan", "stamped", "bumped", "sending"}
InHand == \A h \in Clients : Fanning(h) => done[h] < got[h]

TypeInv ==
    /\ MainTypes /\ ThreadTypes /\ CountTypes /\ LinkTypes /\ ViewTypes
    /\ OneEntry /\ VictimSet /\ TargetSet /\ InHand

(***************************************************************************)
(* Leaving: what a handler may rely on about its own entry and socket.     *)
(***************************************************************************)

\* A thread that has not registered its connection yet, or that is done with
\* it, has no entry.
Unentered ==
    \A c \in Clients :
        hpc[c] \in {"none", "hello", "reply", "except", "xclose", "done", "refused"}
            => c \notin registry

\* A connection whose id is its own loses its entry only after its socket has
\* been closed, by stop() or by its handler.
ClosedFirst ==
    \A c \in Clients \ twins :
        /\ hpc[c] \notin {"none", "hello", "reply"} /\ c \notin registry => ~open[c]
        /\ hpc[c] = "dclose" => tgt[c] = {c}
        /\ hpc[c] = "ddel" => ~open[c]

StopClosedFirst == mpc = "del" => \A v \in victim : ~open[v]

\* A client that is entered and not on its way out is one stop() has still to
\* disconnect.
Pursued ==
    mpc \in {"next", "close", "del", "stopped"} =>
        /\ \A c \in registry :
             hpc[c] \in {"enter", "check", "cleanup", "dclose", "ddel"} \/ c \in todo \union victim
        /\ mpc = "stopped" => todo = {}

LeaveInv == Unentered /\ ClosedFirst /\ StopClosedFirst /\ Pursued

(***************************************************************************)
(* Owing: where a message is that has been fanned out to a client.         *)
(***************************************************************************)

OnWire(h, n, r) == \E i \in 1..Len(wire[r]) : wire[r][i].from = h /\ wire[r][i].num = n
Excused(r) == ~open[r] \/ cst[r] = "down"

Settled(h, n, r) == OnWire(h, n, r) \/ Excused(r)

\* A message that is owed is the one in hand or an earlier one; the one in hand
\* is still to be offered, is being offered, or is settled.
Accounted(h, n, r) ==
    /\ n <= done[h] + 1
    /\ n = done[h] + 1 => Fanning(h)
    /\ Settled(h, n, r) \/ (n = done[h] + 1 /\ r \in targets[h] \union tgt[h])

OwedInv ==
    \A h, r \in Clients : \A n \in 1..MaxMsg : <<h, n, r>> \in owed => Accounted(h, n, r)

-----------------------------------------------------------------------------

\* Connections with one id: the relation is symmetric and transitive.
LEMMA SameIds ==
    ASSUME NEW c \in Clients, NEW d \in Clients, NEW e \in Clients,
           c \in Same(d), d \in Same(e)
    PROVE  d \in Same(c) /\ c \in Same(e)
  BY DEF Same

\* What a lookup by id finds is one connection.
LEMMA OneFound ==
    ASSUME OneEntry, registry \subseteq Clients, NEW h \in Clients
    PROVE  /\ Entered(h) \subseteq registry /\ Entered(h) \subseteq Clients
           /\ \A c, d \in Entered(h) : c = d
           /\ h \in registry => Entered(h) = {h}
           /\ h \notin twins => Entered(h) = registry \intersect {h}
  BY SameIds DEF OneEntry, Entered, Same

\* The types hold before the server accepts anything.
LEMMA TypeInit == Init => TypeInv
<1> SUFFICES ASSUME Init
             PROVE  TypeInv
  OBVIOUS
<1> USE BoundsAssumption DEF Init
<1>1. MainTypes
  BY DEF MainTypes
<1>2. ThreadTypes
  BY DEF ThreadTypes, Places
<1>3. CountTypes
  BY DEF CountTypes
<1>4. LinkTypes
  BY DEF LinkTypes
<1>5. ViewTypes
  BY DEF ViewTypes
<1>6. OneEntry /\ VictimSet /\ TargetSet /\ InHand
  BY DEF OneEntry, VictimSet, TargetSet, InHand, InRelay, Fanning
<1> QED
  BY <1>1, <1>2, <1>3, <1>4, <1>5, <1>6 DEF TypeInv

\* The main thread's variables, and the one entry under each id.
LEMMA MainStep == TypeInv /\ [Next]_vars => MainTypes' /\ OneEntry' /\ VictimSet'
<1> SUFFICES ASSUME TypeInv, [Next]_vars
             PROVE  MainTypes' /\ OneEntry' /\ VictimSet'
  OBVIOUS
<1> USE DEF TypeInv, MainTypes, OneEntry, VictimSet, Same
<1>1. ASSUME UNCHANGED <<mainVars, registry>>
      PROVE  MainTypes' /\ OneEntry' /\ VictimSet'
  BY <1>1 DEF mainVars
<1>2. ASSUME NEW h \in Clients, Register(h)
      PROVE  MainTypes' /\ OneEntry' /\ VictimSet'
  BY <1>2 DEF Register, mainVars
<1>3. ASSUME NEW h \in Clients, CleanupDel(h) \/ Except(h) \/ ExceptClose(h)
      PROVE  MainTypes' /\ OneEntry' /\ VictimSet'
  BY <1>3 DEF CleanupDel, Except, ExceptClose, mainVars
<1>4. CASE Interrupt
  <2>1. running' \in BOOLEAN /\ ~running'
    BY <1>4, Zenon DEF Interrupt
  <2> QED
    BY <1>4, <2>1 DEF Interrupt
<1>11. CASE StopSnapshot
  BY <1>11 DEF StopSnapshot
<1>5. CASE StopNext
  BY <1>5, OneFound DEF StopNext
<1>6. CASE StopClose
  BY <1>6 DEF StopClose
<1>7. CASE StopDel
  BY <1>7 DEF StopDel
<1>12. CASE Exit
  BY <1>12 DEF Exit
<1>8. ASSUME NEW h \in Clients, Accept(h) \/ HandlerStep(h) \/ Collect(h)
      PROVE  MainTypes' /\ OneEntry' /\ VictimSet'
  BY <1>1, <1>2, <1>3, <1>8
     DEF Accept, HandlerStep, Collect, HelloOk, HelloFail, Enter, Check, Recv, RecvEnd,
         Snapshot, Encrypt, FanDone, Bump, EnterSend, FinishSend, SendError, Cleanup,
         CleanupClose
<1>9. ASSUME NEW c \in Clients, ClientStep(c)
      PROVE  MainTypes' /\ OneEntry' /\ VictimSet'
  BY <1>1, <1>9 DEF ClientStep, FirstRecv, ClientSend, Receive, Quit
<1>10. CASE UNCHANGED vars
  BY <1>1, <1>10 DEF vars
<1> QED
  BY <1>4, <1>5, <1>6, <1>7, <1>8, <1>9, <1>10, <1>11, <1>12
     DEF Next, StopStep

\* The places of the threads, their sockets and their targets.
LEMMA ThreadStep == TypeInv /\ [Next]_vars => ThreadTypes' /\ TargetSet'
<1> SUFFICES ASSUME TypeInv, [Next]_vars
             PROVE  ThreadTypes' /\ TargetSet'
  OBVIOUS
<1>0. registry \subseteq Clients /\ victim \subseteq Clients /\ OneEntry
  BY DEF TypeInv, MainTypes
<1> USE DEF TypeInv, ThreadTypes, Places, TargetSet, InRelay, Goto
<1>1. ASSUME UNCHANGED <<hpc, open, targets, tgt>>
      PROVE  ThreadTypes' /\ TargetSet'
  BY <1>1
<1>2. ASSUME NEW h \in Clients,
             \/ Accept(h) \/ HelloOk(h) \/ Register(h) \/ Enter(h) \/ Check(h) \/ Recv(h)
             \/ RecvEnd(h) \/ FanDone(h) \/ Bump(h) \/ CleanupDel(h) \/ Except(h)
      PROVE  ThreadTypes' /\ TargetSet'
  BY <1>2 DEF Accept, HelloOk, Register, Enter, Check, Recv, RecvEnd, FanDone, Bump,
              CleanupDel, Except, fanVars
<1>11. ASSUME NEW h \in Clients, HelloFail(h) \/ ExceptClose(h) \/ Collect(h)
      PROVE  ThreadTypes' /\ TargetSet'
  <2>1. open' = [open EXCEPT ![h] = FALSE] /\ UNCHANGED <<targets, tgt>>
    BY <1>11 DEF HelloFail, ExceptClose, Collect, fanVars
  <2>2. open' \in [Clients -> BOOLEAN]
    BY <2>1
  <2> QED
    BY <1>11, <2>1, <2>2 DEF HelloFail, ExceptClose, Collect
<1>3. ASSUME NEW h \in Clients, Snapshot(h)
      PROVE  ThreadTypes' /\ TargetSet'
  BY <1>0, <1>3 DEF Snapshot
<1>4. ASSUME NEW h \in Clients, Encrypt(h)
      PROVE  ThreadTypes' /\ TargetSet'
  BY <1>4 DEF Encrypt
<1>5. ASSUME NEW h \in Clients, EnterSend(h) \/ FinishSend(h) \/ SendError(h)
      PROVE  ThreadTypes' /\ TargetSet'
  BY <1>5 DEF EnterSend, FinishSend, SendError
<1>6. ASSUME NEW h \in Clients, Cleanup(h)
      PROVE  ThreadTypes' /\ TargetSet'
  BY <1>0, <1>6, OneFound DEF Cleanup
<1>7. ASSUME NEW h \in Clients, CleanupClose(h)
      PROVE  ThreadTypes' /\ TargetSet'
  BY <1>7 DEF CleanupClose
<1>8. ASSUME Interrupt \/ StopStep
      PROVE  ThreadTypes' /\ TargetSet'
  BY <1>0, <1>8
     DEF Interrupt, StopStep, StopSnapshot, StopNext, StopClose, StopDel, Exit, fanVars
<1>9. ASSUME NEW c \in Clients, ClientStep(c)
      PROVE  ThreadTypes' /\ TargetSet'
  BY <1>1, <1>9 DEF ClientStep, FirstRecv, ClientSend, Receive, Quit, fanVars
<1>10. CASE UNCHANGED vars
  BY <1>1, <1>10 DEF vars, fanVars
<1> QED
  BY <1>2, <1>3, <1>4, <1>5, <1>6, <1>7, <1>8, <1>9, <1>10, <1>11 DEF Next, HandlerStep

\* The messages of each client: sent, decrypted, relayed, owed.
LEMMA CountStep == TypeInv /\ [Next]_vars => CountTypes' /\ InHand'
<1> SUFFICES ASSUME TypeInv, [Next]_vars
             PROVE  CountTypes' /\ InHand'
  OBVIOUS
<1>0. registry \subseteq Clients /\ hpc \in [Clients -> Places]
  BY DEF TypeInv, MainTypes, ThreadTypes
<1> USE BoundsAssumption DEF TypeInv, CountTypes, InHand, Fanning, Goto
<1>1. ASSUME UNCHANGED <<csent, got, done, owed, hpc>>
      PROVE  CountTypes' /\ InHand'
  BY <1>1
<1>3. ASSUME NEW h \in Clients,
             \/ Accept(h) \/ HelloOk(h) \/ HelloFail(h) \/ Register(h) \/ Enter(h)
             \/ Check(h) \/ RecvEnd(h) \/ Encrypt(h) \/ Bump(h) \/ EnterSend(h)
             \/ FinishSend(h) \/ SendError(h) \/ Cleanup(h) \/ CleanupClose(h)
             \/ CleanupDel(h) \/ Except(h) \/ ExceptClose(h) \/ Collect(h)
      PROVE  CountTypes' /\ InHand'
  BY <1>0, <1>3
     DEF Accept, HelloOk, HelloFail, Register, Enter, Check, RecvEnd, Encrypt, Bump,
         EnterSend, FinishSend, SendError, Cleanup, CleanupClose, CleanupDel, Except, ExceptClose,
         Collect, fanVars
<1>4. ASSUME NEW h \in Clients, Recv(h)
      PROVE  CountTypes' /\ InHand'
  BY <1>0, <1>4 DEF Recv
<1>5. ASSUME NEW h \in Clients, Snapshot(h)
      PROVE  CountTypes' /\ InHand'
  BY <1>0, <1>5 DEF Snapshot
<1>6. ASSUME NEW h \in Clients, FanDone(h)
      PROVE  CountTypes' /\ InHand'
  BY <1>0, <1>6 DEF FanDone
<1>7. ASSUME Interrupt \/ StopStep
      PROVE  CountTypes' /\ InHand'
  BY <1>1, <1>7
     DEF Interrupt, StopStep, StopSnapshot, StopNext, StopClose, StopDel, Exit, fanVars
<1>8. ASSUME NEW c \in Clients, ClientSend(c)
      PROVE  CountTypes' /\ InHand'
  BY <1>8 DEF ClientSend, fanVars
<1>9. ASSUME NEW c \in Clients, FirstRecv(c) \/ Receive(c) \/ Quit(c)
      PROVE  CountTypes' /\ InHand'
  BY <1>1, <1>9 DEF FirstRecv, Receive, Quit, fanVars
<1>10. CASE UNCHANGED vars
  BY <1>1, <1>10 DEF vars, fanVars
<1> QED
  BY <1>3, <1>4, <1>5, <1>6, <1>7, <1>8, <1>9, <1>10 DEF Next, HandlerStep, ClientStep

\* The record a handler writes.
LEMMA NewRecord ==
    ASSUME TypeInv, NEW h \in Clients, NEW r \in Clients, Fanning(h)
    PROVE  /\ done[h] + 1 \in 1..MaxMsg
           /\ [from |-> h, num |-> done[h] + 1, seq |-> stamp[h][r]] \in Record
<1>1. done[h] \in Nat /\ got[h] \in Nat /\ csent[h] \in 0..MaxMsg
      /\ done[h] < got[h] /\ got[h] <= csent[h]
  BY DEF TypeInv, CountTypes, InHand
<1>2. done[h] + 1 \in 1..MaxMsg
  BY <1>1, BoundsAssumption
<1>3. stamp[h][r] \in Nat
  BY DEF TypeInv, LinkTypes
<1> QED
  BY <1>2, <1>3 DEF Record

\* A record appended to a stream or a screen.
LEMMA AppendRecord ==
    ASSUME NEW s \in Seq(Record), NEW r \in Record
    PROVE  /\ Append(s, r) \in Seq(Record)
           /\ Len(Append(s, r)) = Len(s) + 1
           /\ \A i \in 1..Len(s) : Append(s, r)[i] = s[i]
           /\ Append(s, r)[Len(s) + 1] = r
  OBVIOUS

\* What each client's record manager and stream hold.
LEMMA LinkStep == TypeInv /\ [Next]_vars => LinkTypes'
<1> SUFFICES ASSUME TypeInv, [Next]_vars
             PROVE  LinkTypes'
  OBVIOUS
<1>0. LinkTypes /\ done \in [Clients -> Nat] /\ tgt \in [Clients -> SUBSET Clients]
      /\ targets \in [Clients -> SUBSET Clients]
  BY DEF TypeInv, CountTypes, ThreadTypes
<1>1. ASSUME UNCHANGED <<stamp, linkVars>>
      PROVE  LinkTypes'
  BY <1>0, <1>1 DEF LinkTypes, linkVars
<1>2. ASSUME NEW h \in Clients, Encrypt(h)
      PROVE  LinkTypes'
  <2>1. PICK r \in targets[h] :
          /\ stamp' = [stamp EXCEPT ![h][r] = seq[r]]
          /\ relayed' = [relayed EXCEPT ![h][r] = done[h] + 1]
          /\ overlap' = [overlap EXCEPT ![r] = @ \/ \E g \in Clients : RelaysTo(g, r)]
    BY <1>2 DEF Encrypt
  <2>2. r \in Clients /\ seq[r] \in Nat /\ done[h] + 1 \in Nat
    BY <1>0 DEF LinkTypes
  <2>3. stamp' \in [Clients -> [Clients -> Nat]] /\ relayed' \in [Clients -> [Clients -> Nat]]
    BY <1>0, <2>1, <2>2 DEF LinkTypes
  <2>4. overlap' \in [Clients -> BOOLEAN]
    <3> DEFINE o == overlap[r] \/ \E g \in Clients : RelaysTo(g, r)
    <3>1. o \in BOOLEAN
      OBVIOUS
    <3>2. overlap' = [overlap EXCEPT ![r] = o]
      BY <2>1
    <3> HIDE DEF o
    <3> QED
      BY <1>0, <2>2, <3>1, <3>2 DEF LinkTypes
  <2> QED
    BY <1>0, <1>2, <2>3, <2>4 DEF Encrypt, LinkTypes
<1>3. ASSUME NEW h \in Clients, Bump(h)
      PROVE  LinkTypes'
  BY <1>0, <1>3 DEF Bump, LinkTypes, fanVars
<1>4. ASSUME NEW h \in Clients, FinishSend(h)
      PROVE  LinkTypes'
  <2>1. PICK r \in tgt[h] :
          wire' = [wire EXCEPT ![r] =
                     Append(@, [from |-> h, num |-> done[h] + 1, seq |-> stamp[h][r]])]
    BY <1>4 DEF FinishSend
  <2>2. r \in Clients /\ Fanning(h)
    BY <1>0, <1>4 DEF FinishSend, Fanning
  <2>3. [from |-> h, num |-> done[h] + 1, seq |-> stamp[h][r]] \in Record
    BY <2>2, NewRecord
  <2>4. wire' \in [Clients -> Seq(Record)]
    BY <1>0, <2>1, <2>2, <2>3, AppendRecord DEF LinkTypes
  <2> QED
    BY <1>0, <1>4, <2>4 DEF FinishSend, LinkTypes
<1>5. ASSUME NEW h \in Clients, Accept(h) \/ HandlerStep(h) \/ Collect(h)
      PROVE  LinkTypes'
  BY <1>1, <1>2, <1>3, <1>4, <1>5
     DEF Accept, HandlerStep, Collect, HelloOk, HelloFail, Register, Enter, Check, Recv,
         RecvEnd, Snapshot, FanDone, EnterSend, SendError, Cleanup, CleanupClose, CleanupDel,
         Except, ExceptClose, fanVars
<1>6. ASSUME Interrupt \/ StopStep
      PROVE  LinkTypes'
  BY <1>1, <1>6
     DEF Interrupt, StopStep, StopSnapshot, StopNext, StopClose, StopDel, Exit, fanVars
<1>7. ASSUME NEW c \in Clients, ClientStep(c)
      PROVE  LinkTypes'
  BY <1>1, <1>7 DEF ClientStep, FirstRecv, ClientSend, Receive, Quit, fanVars
<1>8. CASE UNCHANGED vars
  BY <1>1, <1>8 DEF vars, fanVars
<1> QED
  BY <1>5, <1>6, <1>7, <1>8 DEF Next

\* What each client has taken off its stream and shown.
LEMMA ViewStep == TypeInv /\ [Next]_vars => ViewTypes'
<1> SUFFICES ASSUME TypeInv, [Next]_vars
             PROVE  ViewTypes'
  OBVIOUS
<1>0. ViewTypes /\ wire \in [Clients -> Seq(Record)] /\ tgt \in [Clients -> SUBSET Clients]
  BY DEF TypeInv, LinkTypes, ThreadTypes
<1>1. ASSUME UNCHANGED <<wire, cst, viewVars>>
      PROVE  ViewTypes'
  BY <1>0, <1>1 DEF ViewTypes, viewVars
<1>2. ASSUME NEW h \in Clients, FinishSend(h)
      PROVE  ViewTypes'
  <2>1. PICK r \in tgt[h] :
          wire' = [wire EXCEPT ![r] =
                     Append(@, [from |-> h, num |-> done[h] + 1, seq |-> stamp[h][r]])]
    BY <1>2 DEF FinishSend
  <2>2. r \in Clients /\ Fanning(h)
    BY <1>0, <1>2 DEF FinishSend, Fanning
  <2>3. [from |-> h, num |-> done[h] + 1, seq |-> stamp[h][r]] \in Record
    BY <2>2, NewRecord
  <2>4. \A c \in Clients : Len(wire[c]) \in Nat /\ Len(wire'[c]) >= Len(wire[c])
                          /\ Len(wire'[c]) \in Nat
    BY <1>0, <2>1, <2>2, <2>3, AppendRecord
  <2> QED
    BY <1>0, <1>2, <2>4 DEF FinishSend, ViewTypes, viewVars
<1>3. ASSUME NEW c \in Clients, FirstRecv(c)
      PROVE  ViewTypes'
  BY <1>0, <1>3 DEF FirstRecv, ViewTypes, linkVars
<1>4. ASSUME NEW c \in Clients, Receive(c)
      PROVE  ViewTypes'
  <2>1. taken[c] + 1 \in 1..Len(wire[c]) /\ wire[c][taken[c] + 1] \in Record
    BY <1>0, <1>4 DEF Receive, ViewTypes
  <2> DEFINE r == wire[c][taken[c] + 1]
  <2>2. Append(shown[c], r) \in Seq(Record) /\ Len(Append(shown[c], r)) = Len(shown[c]) + 1
    BY <1>0, <2>1, AppendRecord DEF ViewTypes
  <2>3. UNCHANGED <<cst, wire>> /\ taken' = [taken EXCEPT ![c] = @ + 1]
    BY <1>4 DEF Receive, linkVars
  <2>4. taken' \in [Clients -> Nat] /\ \A d \in Clients : taken'[d] <= Len(wire'[d])
    BY <1>0, <2>1, <2>3 DEF ViewTypes
  <2>5. CASE shown' = [shown EXCEPT ![c] = Append(@, r)] /\ expect' = [expect EXCEPT ![c] = @ + 1]
    BY <1>0, <2>2, <2>3, <2>4, <2>5 DEF ViewTypes
  <2>6. CASE UNCHANGED <<shown, expect>>
    BY <1>0, <2>3, <2>4, <2>6 DEF ViewTypes
  <2> QED
    BY <1>4, <2>5, <2>6 DEF Receive
<1>5. ASSUME NEW c \in Clients, Quit(c)
      PROVE  ViewTypes'
  BY <1>0, <1>5 DEF Quit, ViewTypes, viewVars, linkVars
<1>6. ASSUME NEW h \in Clients, Accept(h) \/ HandlerStep(h) \/ Collect(h)
      PROVE  ViewTypes'
  BY <1>1, <1>2, <1>6
     DEF Accept, HandlerStep, Collect, HelloOk, HelloFail, Register, Enter, Check, Recv,
         RecvEnd, Snapshot, Encrypt, FanDone, Bump, EnterSend, SendError, Cleanup, CleanupClose,
         CleanupDel, Except, ExceptClose, linkVars
<1>7. ASSUME Interrupt \/ StopStep
      PROVE  ViewTypes'
  BY <1>1, <1>7
     DEF Interrupt, StopStep, StopSnapshot, StopNext, StopClose, StopDel, Exit, linkVars
<1>8. ASSUME NEW c \in Clients, ClientSend(c)
      PROVE  ViewTypes'
  BY <1>1, <1>8 DEF ClientSend, linkVars
<1>9. CASE UNCHANGED vars
  BY <1>1, <1>9 DEF vars, linkVars
<1> QED
  BY <1>3, <1>4, <1>5, <1>6, <1>7, <1>8, <1>9 DEF Next, ClientStep

\* Every step keeps the types, the bookkeeping and the counts.
LEMMA TypeStep == TypeInv /\ [Next]_vars => TypeInv'
  BY MainStep, ThreadStep, CountStep, LinkStep, ViewStep DEF TypeInv

\* The types and the bookkeeping of the server: one entry under each id, one target
\* or victim at a time, no more relayed than decrypted and no more decrypted than
\* sent, nothing taken that was not written.
THEOREM TypeCorrect == Spec => []TypeOK
<1>1. Spec => []TypeInv
  BY TypeInit, TypeStep, PTL DEF Spec
<1>2. TypeInv => TypeOK
  <2> SUFFICES ASSUME TypeInv
               PROVE  TypeOK
    OBVIOUS
  <2>1. running = (mpc = "accept")
    BY Zenon DEF TypeInv, MainTypes
  <2>2. \A c \in registry : Entered(c) = {c}
    BY OneFound DEF TypeInv, MainTypes
  <2>3. \A c \in Clients :
          /\ done[c] \in 0..got[c] /\ got[c] \in 0..csent[c] /\ csent[c] \in 0..MaxMsg
          /\ taken[c] \in 0..Len(wire[c]) /\ expect[c] = Len(shown[c])
    BY DEF TypeInv, CountTypes, ViewTypes, LinkTypes
  <2>4. \A c \in Clients :
          /\ targets[c] \subseteq Clients /\ tgt[c] \subseteq Clients
          /\ tgt[c] # {} <=> InRelay(c) \/ hpc[c] = "dclose"
          /\ cst[c] \in {"hello", "up", "deaf", "down"}
    BY DEF TypeInv, ThreadTypes, TargetSet, ViewTypes
  <2> QED
    BY <2>1, <2>2, <2>3, <2>4
       DEF TypeOK, TypeInv, MainTypes, ThreadTypes, CountTypes, VictimSet, Places
<1> QED
  BY <1>1, <1>2, PTL

-----------------------------------------------------------------------------

\* Nobody is entered, and nothing is closed, at the start.
LEMMA LeaveInit == Init => LeaveInv
  BY DEF Init, LeaveInv, Unentered, ClosedFirst, StopClosedFirst, Pursued

\* Only the thread of a connection enters it, and it takes whatever is entered
\* under its id out before it ends.
LEMMA UnenteredStep == TypeInv /\ Unentered /\ [Next]_vars => Unentered'
<1> SUFFICES ASSUME TypeInv, Unentered, [Next]_vars
             PROVE  Unentered'
  OBVIOUS
<1>0. hpc \in [Clients -> Places] /\ registry \subseteq Clients /\ victim \subseteq Clients
      /\ OneEntry
  BY DEF TypeInv, ThreadTypes, MainTypes
<1>1. \A h \in Clients : h \in Same(h)
  BY DEF Same
<1> USE <1>0 DEF Unentered, Goto
<1>2. ASSUME UNCHANGED <<hpc, registry>>
      PROVE  Unentered'
  BY <1>2
<1>3. ASSUME NEW h \in Clients, Register(h)
      PROVE  Unentered'
  BY <1>3 DEF Register
<1>4. ASSUME NEW h \in Clients, Cleanup(h)
      PROVE  Unentered'
  <2>1. h \in registry => Entered(h) # {}
    BY OneFound
  <2> QED
    BY <1>4, <2>1 DEF Cleanup
<1>5. ASSUME NEW h \in Clients, CleanupDel(h) \/ Except(h) \/ ExceptClose(h)
      PROVE  Unentered'
  BY <1>1, <1>5 DEF CleanupDel, Except, ExceptClose
<1>6. ASSUME NEW h \in Clients, Enter(h)
      PROVE  Unentered'
  <2>1. h \in registry => Entered(h) # {}
    BY OneFound
  <2> QED
    BY <1>6, <2>1 DEF Enter
<1>7. ASSUME NEW h \in Clients, Accept(h) \/ HandlerStep(h) \/ Collect(h)
      PROVE  Unentered'
  BY <1>3, <1>4, <1>5, <1>6, <1>7
     DEF Accept, HandlerStep, Collect, HelloOk, HelloFail, Check, Recv, RecvEnd, Snapshot,
         Encrypt, FanDone, Bump, EnterSend, FinishSend, SendError, CleanupClose
<1>8. ASSUME Interrupt \/ StopStep
      PROVE  Unentered'
  BY <1>8 DEF Interrupt, StopStep, StopSnapshot, StopNext, StopClose, StopDel, Exit
<1>9. ASSUME NEW c \in Clients, ClientStep(c)
      PROVE  Unentered'
  BY <1>2, <1>9 DEF ClientStep, FirstRecv, ClientSend, Receive, Quit
<1>10. CASE UNCHANGED vars
  BY <1>2, <1>10 DEF vars
<1> QED
  BY <1>7, <1>8, <1>9, <1>10 DEF Next

\* stop() closes what it goes on to delete, and sockets stay closed.
LEMMA StopClosedStep == TypeInv /\ StopClosedFirst /\ [Next]_vars => StopClosedFirst'
<1> SUFFICES ASSUME TypeInv, StopClosedFirst, [Next]_vars
             PROVE  StopClosedFirst'
  OBVIOUS
<1>0. open \in [Clients -> BOOLEAN] /\ victim \subseteq Clients /\ VictimSet
  BY DEF TypeInv, ThreadTypes, MainTypes
<1> USE <1>0 DEF StopClosedFirst
<1>1. ASSUME UNCHANGED <<mpc, victim>>, \A c \in Clients : ~open[c] => ~open'[c]
      PROVE  StopClosedFirst'
  BY <1>1
<1>2. ASSUME NEW h \in Clients, Accept(h) \/ HandlerStep(h) \/ Collect(h)
      PROVE  StopClosedFirst'
  BY <1>1, <1>2
     DEF Accept, HandlerStep, Collect, HelloOk, HelloFail, Register, Enter, Check, Recv,
         RecvEnd, Snapshot, Encrypt, FanDone, Bump, EnterSend, FinishSend, SendError, Cleanup,
         CleanupClose, CleanupDel, Except, ExceptClose, mainVars
<1>3. CASE StopClose
  BY <1>3 DEF StopClose, VictimSet
<1>4. ASSUME Interrupt \/ StopSnapshot \/ StopNext \/ StopDel \/ Exit
      PROVE  StopClosedFirst'
  BY <1>4 DEF Interrupt, StopSnapshot, StopNext, StopDel, Exit
<1>5. ASSUME NEW c \in Clients, ClientStep(c)
      PROVE  StopClosedFirst'
  BY <1>1, <1>5 DEF ClientStep, FirstRecv, ClientSend, Receive, Quit, mainVars
<1>6. CASE UNCHANGED vars
  BY <1>1, <1>6 DEF vars, mainVars
<1> QED
  BY <1>2, <1>3, <1>4, <1>5, <1>6 DEF Next, StopStep

\* A connection with an id of its own is taken out of the registry by its own
\* handler or by stop(), and both have closed its socket before.
LEMMA ClosedStep ==
    TypeInv /\ Unentered /\ ClosedFirst /\ StopClosedFirst /\ [Next]_vars => ClosedFirst'
<1> SUFFICES ASSUME TypeInv, Unentered, ClosedFirst, StopClosedFirst, [Next]_vars
             PROVE  ClosedFirst'
  OBVIOUS
<1>0. /\ hpc \in [Clients -> Places] /\ open \in [Clients -> BOOLEAN]
      /\ tgt \in [Clients -> SUBSET Clients]
      /\ registry \subseteq Clients /\ victim \subseteq Clients /\ OneEntry
      /\ VictimSet /\ TargetSet
  BY DEF TypeInv, ThreadTypes, MainTypes
<1>1. \A c \in Clients : /\ c \in Same(c)
                        /\ \A d \in Clients \ twins : c \in Same(d) \/ d \in Same(c) => c = d
  BY DEF Same
<1>2. twins' = twins
  BY DEF Next, vars, Accept, HandlerStep, Collect, HelloOk, HelloFail, Register, Enter, Check,
         Recv, RecvEnd, Snapshot, Encrypt, FanDone, Bump, EnterSend, FinishSend, SendError,
         Cleanup, CleanupClose, CleanupDel, Except, ExceptClose, Interrupt, StopStep,
         StopSnapshot, StopNext, StopClose, StopDel, Exit, ClientStep, FirstRecv, ClientSend,
         Receive, Quit, mainVars
<1> USE <1>0, <1>2 DEF ClosedFirst, Goto
<1>3. ASSUME UNCHANGED <<hpc, registry, open, tgt>>
      PROVE  ClosedFirst'
  BY <1>3
<1>4. ASSUME NEW h \in Clients,
             \/ Accept(h) \/ HelloOk(h) \/ Enter(h) \/ Check(h) \/ Recv(h) \/ RecvEnd(h)
             \/ Snapshot(h) \/ FanDone(h) \/ Bump(h)
      PROVE  ClosedFirst'
  BY <1>4 DEF Accept, HelloOk, Enter, Check, Recv, RecvEnd, Snapshot, FanDone, Bump, fanVars
<1>5. ASSUME NEW h \in Clients, HelloFail(h) \/ Collect(h)
      PROVE  ClosedFirst'
  BY <1>5 DEF HelloFail, Collect, fanVars
<1>6. ASSUME NEW h \in Clients, Register(h)
      PROVE  ClosedFirst'
  BY <1>1, <1>6 DEF Register, fanVars
<1>7. ASSUME NEW h \in Clients,
             Encrypt(h) \/ EnterSend(h) \/ FinishSend(h) \/ SendError(h)
      PROVE  ClosedFirst'
  BY <1>7 DEF Encrypt, EnterSend, FinishSend, SendError
<1>8. ASSUME NEW h \in Clients, Cleanup(h)
      PROVE  ClosedFirst'
  BY <1>8, OneFound DEF Cleanup
<1>9. ASSUME NEW h \in Clients, CleanupClose(h)
      PROVE  ClosedFirst'
  BY <1>9 DEF CleanupClose, TargetSet
<1>10. ASSUME NEW h \in Clients, CleanupDel(h)
      PROVE  ClosedFirst'
  BY <1>1, <1>10 DEF CleanupDel, fanVars
<1>11. ASSUME NEW h \in Clients, Except(h)
      PROVE  ClosedFirst'
  BY <1>1, <1>11 DEF Except, Unentered, fanVars
<1>17. ASSUME NEW h \in Clients, ExceptClose(h)
      PROVE  ClosedFirst'
  BY <1>17 DEF ExceptClose, fanVars
<1>12. ASSUME Interrupt \/ StopSnapshot \/ StopNext
      PROVE  ClosedFirst'
  BY <1>3, <1>12 DEF Interrupt, StopSnapshot, StopNext, fanVars
<1>13. ASSUME StopClose \/ Exit
      PROVE  ClosedFirst'
  BY <1>13 DEF StopClose, Exit, fanVars
<1>14. CASE StopDel
  BY <1>1, <1>14 DEF StopDel, StopClosedFirst, VictimSet, fanVars
<1>15. ASSUME NEW c \in Clients, ClientStep(c)
      PROVE  ClosedFirst'
  BY <1>3, <1>15 DEF ClientStep, FirstRecv, ClientSend, Receive, Quit, fanVars
<1>16. CASE UNCHANGED vars
  BY <1>3, <1>16 DEF vars, fanVars
<1> QED
  BY <1>4, <1>5, <1>6, <1>7, <1>8, <1>9, <1>10, <1>11, <1>12, <1>13, <1>14, <1>15, <1>16,
     <1>17 DEF Next, HandlerStep, StopStep

\* After its snapshot stop() need not hear of connections entered later: their
\* handlers see that the server has stopped before they read anything.
LEMMA PursuedStep == TypeInv /\ Unentered /\ Pursued /\ [Next]_vars => Pursued'
<1> SUFFICES ASSUME TypeInv, Unentered, Pursued, [Next]_vars
             PROVE  Pursued'
  OBVIOUS
<1>0. /\ hpc \in [Clients -> Places] /\ registry \subseteq Clients /\ OneEntry
      /\ victim \subseteq Clients /\ todo \subseteq Clients /\ VictimSet
      /\ running <=> mpc = "accept"
  BY DEF TypeInv, ThreadTypes, MainTypes
<1>1. \A h \in Clients : h \in Same(h)
  BY DEF Same
<1> USE <1>0 DEF Pursued, Goto
<1>2. ASSUME UNCHANGED <<mpc, todo, victim, hpc, registry>>
      PROVE  Pursued'
  BY <1>2
<1>3. ASSUME NEW h \in Clients,
             \/ Accept(h) \/ HelloOk(h) \/ HelloFail(h) \/ Register(h) \/ Recv(h) \/ RecvEnd(h)
             \/ Snapshot(h) \/ Encrypt(h) \/ FanDone(h) \/ Bump(h) \/ EnterSend(h)
             \/ FinishSend(h) \/ SendError(h) \/ CleanupClose(h) \/ CleanupDel(h)
             \/ Except(h) \/ ExceptClose(h) \/ Collect(h)
      PROVE  Pursued'
  BY <1>1, <1>3
     DEF Accept, HelloOk, HelloFail, Register, Recv, RecvEnd, Snapshot, Encrypt, FanDone, Bump,
         EnterSend, FinishSend, SendError, CleanupClose, CleanupDel, Except, ExceptClose,
         Collect, mainVars, Unentered
<1>4. ASSUME NEW h \in Clients, Enter(h) \/ Check(h) \/ Cleanup(h)
      PROVE  Pursued'
  <2>1. h \in registry => Entered(h) # {}
    BY OneFound
  <2> QED
    BY <1>4, <2>1 DEF Enter, Check, Cleanup, mainVars
<1>5. ASSUME Interrupt \/ StopSnapshot \/ StopClose \/ Exit
      PROVE  Pursued'
  BY <1>5 DEF Interrupt, StopSnapshot, StopClose, Exit, VictimSet
<1>6. CASE StopNext
  <2>1. ASSUME NEW v \in todo, todo' = todo \ {v}, victim' = Entered(v),
               mpc' = IF Entered(v) # {} THEN "close" ELSE mpc
        PROVE  Pursued'
    <3>1. v \in Clients /\ (v \in registry => Entered(v) = {v})
      BY OneFound
    <3> QED
      BY <1>6, <2>1, <3>1 DEF StopNext, VictimSet
  <2>2. CASE todo = {}
    BY <1>6, <2>2 DEF StopNext, VictimSet
  <2> QED
    BY <1>6, <2>1, <2>2 DEF StopNext
<1>7. CASE StopDel
  BY <1>1, <1>7 DEF StopDel, VictimSet
<1>8. ASSUME NEW c \in Clients, ClientStep(c)
      PROVE  Pursued'
  BY <1>2, <1>8 DEF ClientStep, FirstRecv, ClientSend, Receive, Quit, mainVars
<1>9. CASE UNCHANGED vars
  BY <1>2, <1>9 DEF vars, mainVars
<1> QED
  BY <1>3, <1>4, <1>5, <1>6, <1>7, <1>8, <1>9 DEF Next, HandlerStep, StopStep

\* Both parts are invariants of the specification.
LEMMA LeaveInvariant == Spec => [](TypeInv /\ LeaveInv)
<1>1. Init => TypeInv /\ LeaveInv
  BY TypeInit, LeaveInit
<1>2. TypeInv /\ LeaveInv /\ [Next]_vars => TypeInv' /\ LeaveInv'
  BY TypeStep, UnenteredStep, ClosedStep, StopClosedStep, PursuedStep DEF LeaveInv
<1> QED
  BY <1>1, <1>2, PTL DEF Spec

\* However a connection ends and whatever races its cleanup, no entry and no open
\* socket outlives its thread; only an id in use twice can leave a socket to the
\* collector.
THEOREM LeakFree == Spec => []NothingLeaks
<1>1. TypeInv /\ LeaveInv => NothingLeaks
  BY DEF LeaveInv, Unentered, ClosedFirst, NothingLeaks, Ended
<1> QED
  BY <1>1, LeaveInvariant, PTL

\* A client that got into the registry behind the back of stop() is not served.
THEOREM Unserved == Spec => []NotServedAfterStop
<1>1. TypeInv /\ LeaveInv => NotServedAfterStop
  BY DEF TypeInv, VictimSet, LeaveInv, Pursued, NotServedAfterStop
<1> QED
  BY <1>1, LeaveInvariant, PTL

\* No thread takes out the entry of a connection that is being served, unless
\* another connection has come under the same id.
LEMMA ServedStep == TypeInv /\ ServedIsEntered /\ [Next]_vars => ServedIsEntered'
<1> SUFFICES ASSUME TypeInv, ServedIsEntered, [Next]_vars
             PROVE  ServedIsEntered'
  OBVIOUS
<1>0. /\ hpc \in [Clients -> Places] /\ registry \subseteq Clients
      /\ running <=> mpc = "accept"
  BY DEF TypeInv, ThreadTypes, MainTypes
<1>1. \A h \in Clients : Same(h) = {c \in Clients : c = h \/ {c, h} \subseteq twins}
  BY DEF Same
<1> DEFINE Serving == {"enter", "check", "recv", "batch", "fan", "stamped", "bumped", "sending"}
           Replaced(g) == g \in twins /\ \E c \in twins \ {g} : hpc[c] # "none"
<1>8. running => \A g \in Clients : hpc[g] \in Serving => g \in registry \/ Replaced(g)
  BY DEF ServedIsEntered
<1>10. twins \subseteq Clients
  BY ReusersAssumption DEF TypeInv, MainTypes
<1> USE <1>0 DEF ServedIsEntered, Goto
<1>9. ASSUME UNCHANGED <<running, twins>>,
             \A c \in Clients : hpc[c] # "none" => hpc'[c] # "none",
             \A g \in Clients : hpc'[g] \in Serving /\ g \notin registry' =>
                                  (hpc[g] \in Serving /\ g \notin registry) \/ Replaced(g)'
      PROVE  ServedIsEntered'
  <2> SUFFICES ASSUME running', NEW g \in Clients, hpc'[g] \in Serving, g \notin registry'
               PROVE  Replaced(g)'
    OBVIOUS
  <2>1. CASE Replaced(g)'
    BY <2>1
  <2>2. CASE hpc[g] \in Serving /\ g \notin registry
    <3>1. Replaced(g)
      BY <1>8, <1>9, <2>2
    <3> QED
      BY <1>9, <1>10, <3>1
  <2> QED
    BY <1>9, <2>1, <2>2
<1>2. ASSUME UNCHANGED <<running, twins, hpc, registry>>
      PROVE  ServedIsEntered'
  BY <1>2
<1>3. ASSUME NEW h \in Clients,
             \/ Accept(h) \/ HelloOk(h) \/ HelloFail(h) \/ Enter(h) \/ Check(h) \/ Recv(h)
             \/ RecvEnd(h) \/ Snapshot(h) \/ Encrypt(h) \/ FanDone(h) \/ Bump(h) \/ EnterSend(h)
             \/ FinishSend(h) \/ SendError(h) \/ Cleanup(h) \/ CleanupClose(h) \/ Collect(h)
      PROVE  ServedIsEntered'
  <2>1. UNCHANGED <<running, twins, registry>>
    BY <1>3
       DEF Accept, HelloOk, HelloFail, Enter, Check, Recv, RecvEnd, Snapshot, Encrypt, FanDone,
           Bump, EnterSend, FinishSend, SendError, Cleanup, CleanupClose, Collect, mainVars
  <2>2. /\ \A c \in Clients \ {h} : hpc'[c] = hpc[c]
        /\ hpc'[h] # "none"
        /\ hpc'[h] \in Serving => hpc[h] \in Serving
    BY <1>3
       DEF Accept, HelloOk, HelloFail, Enter, Check, Recv, RecvEnd, Snapshot, Encrypt, FanDone,
           Bump, EnterSend, FinishSend, SendError, Cleanup, CleanupClose, Collect, Ended
  <2> QED
    BY <1>9, <2>1, <2>2
<1>4. ASSUME NEW h \in Clients, Register(h) \/ CleanupDel(h) \/ Except(h) \/ ExceptClose(h)
      PROVE  ServedIsEntered'
  <2>1. UNCHANGED <<running, twins>> /\ hpc[h] # "none"
    BY <1>4 DEF Register, CleanupDel, Except, ExceptClose, mainVars
  <2>2. /\ \A c \in Clients \ {h} : hpc'[c] = hpc[c]
        /\ hpc'[h] # "none"
        /\ hpc'[h] \in Serving => h \in registry'
    BY <1>4 DEF Register, CleanupDel, Except, ExceptClose
  <2>3. \A g \in Clients : g \in registry /\ g \notin registry' => g = h \/ {g, h} \subseteq twins
    BY <1>1, <1>4 DEF Register, CleanupDel, Except, ExceptClose
  <2>4. \A c \in Clients : hpc[c] # "none" => hpc'[c] # "none"
    BY <2>2
  <2>5. ASSUME NEW g \in Clients, hpc'[g] \in Serving, g \notin registry'
        PROVE  (hpc[g] \in Serving /\ g \notin registry) \/ Replaced(g)'
    <3>1. g # h /\ hpc[g] = hpc'[g]
      BY <2>2, <2>5
    <3>2. CASE g \in registry
      <4>1. {g, h} \subseteq twins /\ h \in twins' \ {g} /\ hpc'[h] # "none"
        BY <2>1, <2>2, <2>3, <2>5, <3>1, <3>2
      <4> QED
        BY <2>1, <4>1
    <3> QED
      BY <2>5, <3>1, <3>2
  <2> QED
    BY <1>9, <2>1, <2>4, <2>5
<1>5. ASSUME Interrupt \/ StopStep
      PROVE  ServedIsEntered'
  BY <1>5 DEF Interrupt, StopStep, StopSnapshot, StopNext, StopClose, StopDel, Exit
<1>6. ASSUME NEW c \in Clients, ClientStep(c)
      PROVE  ServedIsEntered'
  BY <1>2, <1>6 DEF ClientStep, FirstRecv, ClientSend, Receive, Quit, mainVars
<1>7. CASE UNCHANGED vars
  BY <1>2, <1>7 DEF vars, mainVars
<1> QED
  BY <1>3, <1>4, <1>5, <1>6, <1>7 DEF Next, HandlerStep

\* Until the server is stopped, a client whose messages are read gets those of the
\* others.
THEOREM Served == Spec => []ServedIsEntered
<1>1. Init => ServedIsEntered
  BY DEF Init, ServedIsEntered
<1> QED
  BY <1>1, TypeInit, TypeStep, ServedStep, PTL DEF Spec

-----------------------------------------------------------------------------

\* What is on a stream stays there, a closed socket stays closed and a client that
\* has gone does not come back.
LEMMA SettledStays ==
    ASSUME TypeInv, [Next]_vars, NEW h \in Clients, NEW r \in Clients, NEW n \in 1..MaxMsg,
           Settled(h, n, r)
    PROVE  Settled(h, n, r)'
<1>0. /\ open \in [Clients -> BOOLEAN] /\ tgt \in [Clients -> SUBSET Clients]
      /\ wire \in [Clients -> Seq(Record)]
      /\ cst \in [Clients -> {"hello", "up", "deaf", "down"}]
  BY DEF TypeInv, ThreadTypes, LinkTypes, ViewTypes
<1> USE <1>0 DEF Settled, OnWire, Excused
<1>1. ASSUME UNCHANGED <<wire, cst>>, \A c \in Clients : ~open[c] => ~open'[c]
      PROVE  Settled(h, n, r)'
  BY <1>1
<1>2. ASSUME NEW g \in Clients, FinishSend(g)
      PROVE  Settled(h, n, r)'
  <2>1. PICK d \in tgt[g] :
          wire' = [wire EXCEPT ![d] =
                     Append(@, [from |-> g, num |-> done[g] + 1, seq |-> stamp[g][d]])]
    BY <1>2 DEF FinishSend
  <2>2. d \in Clients /\ Fanning(g)
    BY <1>2 DEF FinishSend, Fanning
  <2>3. [from |-> g, num |-> done[g] + 1, seq |-> stamp[g][d]] \in Record
    BY <2>2, NewRecord
  <2>4. /\ Len(wire'[r]) \in Nat /\ Len(wire[r]) \in Nat /\ Len(wire'[r]) >= Len(wire[r])
        /\ \A i \in 1..Len(wire[r]) : wire'[r][i] = wire[r][i]
    BY <2>1, <2>2, <2>3, AppendRecord
  <2> QED
    BY <1>2, <2>4 DEF FinishSend
<1>3. ASSUME NEW c \in Clients, FirstRecv(c) \/ Quit(c)
      PROVE  Settled(h, n, r)'
  BY <1>3 DEF FirstRecv, Quit, linkVars
<1>4. ASSUME NEW g \in Clients, Accept(g) \/ HandlerStep(g) \/ Collect(g)
      PROVE  Settled(h, n, r)'
  BY <1>1, <1>2, <1>4
     DEF Accept, HandlerStep, Collect, HelloOk, HelloFail, Register, Enter, Check, Recv,
         RecvEnd, Snapshot, Encrypt, FanDone, Bump, EnterSend, SendError, Cleanup, CleanupClose,
         CleanupDel, Except, ExceptClose, linkVars
<1>5. ASSUME Interrupt \/ StopStep
      PROVE  Settled(h, n, r)'
  BY <1>1, <1>5 DEF Interrupt, StopStep, StopSnapshot, StopNext, StopClose, StopDel, Exit, linkVars
<1>6. ASSUME NEW c \in Clients, ClientSend(c) \/ Receive(c)
      PROVE  Settled(h, n, r)'
  BY <1>1, <1>6 DEF ClientSend, Receive, linkVars
<1>7. CASE UNCHANGED vars
  BY <1>1, <1>7 DEF vars, linkVars
<1> QED
  BY <1>3, <1>4, <1>5, <1>6, <1>7 DEF Next, ClientStep

\* A target leaves the hands of the handler only with the message on its stream, its
\* socket closed or its client gone.
LEMMA OwedStep == TypeInv /\ OwedInv /\ [Next]_vars => OwedInv'
<1> SUFFICES ASSUME TypeInv, OwedInv, [Next]_vars,
                    NEW h \in Clients, NEW r \in Clients, NEW n \in 1..MaxMsg,
                    (<<h, n, r>> \in owed)'
             PROVE  Accounted(h, n, r)'
  BY DEF OwedInv
<1>0. /\ hpc \in [Clients -> Places] /\ done \in [Clients -> Nat]
      /\ tgt \in [Clients -> SUBSET Clients] /\ targets \in [Clients -> SUBSET Clients]
      /\ TargetSet
  BY DEF TypeInv, ThreadTypes, CountTypes
<1>1. Settled(h, n, r) => Settled(h, n, r)'
  BY SettledStays
<1>2. <<h, n, r>> \in owed => Accounted(h, n, r)
  BY DEF OwedInv
<1> USE <1>0 DEF Accounted, Fanning, Goto
<1>3. ASSUME UNCHANGED <<owed, done, targets, tgt>>, Fanning(h) => Fanning(h)'
      PROVE  Accounted(h, n, r)'
  BY <1>1, <1>2, <1>3
<1>4. ASSUME NEW g \in Clients, Snapshot(g)
      PROVE  Accounted(h, n, r)'
  <2>1. CASE done[g] < got[g]
    BY <1>1, <1>2, <1>4, <2>1 DEF Snapshot
  <2>2. CASE ~(done[g] < got[g])
    BY <1>1, <1>2, <1>4, <2>2 DEF Snapshot
  <2> QED
    BY <2>1, <2>2
<1>5. ASSUME NEW g \in Clients, Encrypt(g)
      PROVE  Accounted(h, n, r)'
  BY <1>1, <1>2, <1>5 DEF Encrypt, TargetSet, InRelay
<1>6. ASSUME NEW g \in Clients, FanDone(g)
      PROVE  Accounted(h, n, r)'
  BY <1>1, <1>2, <1>6 DEF FanDone, TargetSet, InRelay
<1>7. ASSUME NEW g \in Clients, EnterSend(g)
      PROVE  Accounted(h, n, r)'
  BY <1>1, <1>2, <1>7 DEF EnterSend, TargetSet, Settled, Excused
<1>8. ASSUME NEW g \in Clients, FinishSend(g)
      PROVE  Accounted(h, n, r)'
  <2>1. PICK d \in tgt[g] :
          wire' = [wire EXCEPT ![d] =
                     Append(@, [from |-> g, num |-> done[g] + 1, seq |-> stamp[g][d]])]
    BY <1>8 DEF FinishSend
  <2>2. d \in Clients /\ Fanning(g) /\ tgt[g] = {d}
    BY <1>8 DEF FinishSend, Fanning, TargetSet
  <2>3. [from |-> g, num |-> done[g] + 1, seq |-> stamp[g][d]] \in Record
    BY <2>2, NewRecord
  <2>4. OnWire(g, done[g] + 1, d)'
    <3>1. wire \in [Clients -> Seq(Record)]
      BY DEF TypeInv, LinkTypes
    <3>2. /\ wire'[d][Len(wire[d]) + 1]
               = [from |-> g, num |-> done[g] + 1, seq |-> stamp[g][d]]
          /\ Len(wire'[d]) = Len(wire[d]) + 1 /\ Len(wire[d]) \in Nat
      BY <2>1, <2>2, <2>3, <3>1, AppendRecord
    <3>3. done' = done
      BY <1>8 DEF FinishSend
    <3> DEFINE i == Len(wire[d]) + 1
    <3>4. i \in 1..Len(wire'[d]) /\ wire'[d][i].from = g /\ wire'[d][i].num = done'[g] + 1
      BY <3>2, <3>3
    <3> HIDE DEF i
    <3> QED
      BY <3>4, Zenon DEF OnWire
  <2> QED
    BY <1>1, <1>2, <1>8, <2>2, <2>4 DEF FinishSend, Settled
<1>9. ASSUME NEW g \in Clients, SendError(g)
      PROVE  Accounted(h, n, r)'
  BY <1>1, <1>2, <1>9 DEF SendError, TargetSet, Settled, Excused
<1>10. ASSUME NEW g \in Clients, Cleanup(g) \/ CleanupClose(g)
      PROVE  Accounted(h, n, r)'
  BY <1>1, <1>2, <1>10 DEF Cleanup, CleanupClose
<1>11. ASSUME NEW g \in Clients, Accept(g) \/ HandlerStep(g) \/ Collect(g)
      PROVE  Accounted(h, n, r)'
  BY <1>3, <1>4, <1>5, <1>6, <1>7, <1>8, <1>9, <1>10, <1>11
     DEF Accept, HandlerStep, Collect, HelloOk, HelloFail, Register, Enter, Check, Recv,
         RecvEnd, Bump, CleanupDel, Except, ExceptClose, fanVars
<1>12. ASSUME Interrupt \/ StopStep
      PROVE  Accounted(h, n, r)'
  BY <1>3, <1>12
     DEF Interrupt, StopStep, StopSnapshot, StopNext, StopClose, StopDel, Exit, fanVars
<1>13. ASSUME NEW c \in Clients, ClientStep(c)
      PROVE  Accounted(h, n, r)'
  BY <1>3, <1>13 DEF ClientStep, FirstRecv, ClientSend, Receive, Quit, fanVars
<1>14. CASE UNCHANGED vars
  BY <1>3, <1>14 DEF vars, fanVars
<1> QED
  BY <1>11, <1>12, <1>13, <1>14 DEF Next

\* Whoever was registered when a message was fanned out has it on its stream when the
\* handler goes on to the next, unless its own connection has ended: one target that
\* fails costs the others nothing.
THEOREM Owed == Spec => []OwedDelivered
<1>1. Init => OwedInv
  BY DEF Init, OwedInv
<1>2. TypeInv /\ OwedInv => OwedDelivered
  <2> SUFFICES ASSUME TypeInv, OwedInv, NEW o \in owed, done[o[1]] >= o[2]
               PROVE  Settled(o[1], o[2], o[3])
    BY DEF OwedDelivered, Settled, OnWire, Excused
  <2>1. /\ o[1] \in Clients /\ o[2] \in 1..MaxMsg /\ o[3] \in Clients
        /\ <<o[1], o[2], o[3]>> \in owed
    BY DEF TypeInv, CountTypes
  <2>2. done[o[1]] \in Nat
    BY <2>1 DEF TypeInv, CountTypes
  <2> QED
    BY <2>1, <2>2, BoundsAssumption DEF OwedInv, Accounted
<1> QED
  BY <1>1, <1>2, TypeInit, TypeStep, OwedStep, PTL DEF Spec

==============================================================================
