----------------------------- MODULE RelayServer -----------------------------
(***************************************************************************)
(* server.py as a whole: the registry self.clients, one handler thread per *)
(* connection, the main thread that accepts connections and runs stop(),   *)
(* and the clients at the other end.                                       *)
(*                                                                         *)
(* A handler goes through                                                  *)
(*   hello      blocked in recv() for the ClientHello                      *)
(*   reply      ServerHello sent, keys and record managers being made      *)
(*   enter      registered, about to look itself up                        *)
(*   check      the loop condition of _handle_secure_messages              *)
(*   recv       blocked in recv() for records                              *)
(*   batch      a batch of messages decrypted, some not yet relayed        *)
(*   fan        one message being relayed, targets still to do             *)
(*   stamped, bumped, sending    the relay to one target (see RelayLink)   *)
(*   cleanup, dclose, ddel       _disconnect_client                        *)
(*   except, xclose    the exception handler of _handle_client             *)
(*   done, refused    the thread has ended; refused after a failed hello   *)
(* A thread can lose the interpreter between any two of these; the dict    *)
(* operations themselves, and a membership test with the lookup or the     *)
(* deletion behind it, contain no such point.  The threads are daemons:    *)
(* they end with the process, wherever they are, when main() has returned. *)
(***************************************************************************)
EXTENDS Naturals, Sequences, FiniteSets

CONSTANTS
    Clients,        \* the connections
    Reusers,        \* bound: connections that may come from one address and port
    Senders,        \* bound: the clients that send messages
    Quitters,       \* bound: the clients that leave of their own accord
    MaxMsg,         \* bound: messages each sender sends
    SendBuf,        \* records that fit between the server and a client
    Interruptible   \* bound: whether the main thread is interrupted

ASSUME SendersAssumption == Senders \subseteq Clients /\ Quitters \subseteq Clients
ASSUME ReusersAssumption == Reusers \subseteq Clients
ASSUME BoundsAssumption == MaxMsg \in Nat \ {0} /\ SendBuf \in Nat \ {0}
ASSUME InterruptibleAssumption == Interruptible \in BOOLEAN

VARIABLES
    mpc,        \* where the main thread is
    running,    \* self.running
    todo,       \* the client ids stop() still has to disconnect, each as the
                \* connection that was entered under it
    victim,     \* the connection it is disconnecting, as a set of at most one
    twins,      \* the connections with one and the same client_id
    registry,   \* self.clients: the connection entered under each client_id
    open,       \* the sockets the server has not closed
    hpc,        \* where each handler thread is
    got,        \* messages of its client a handler has decrypted
    done,       \* and how many of those it has relayed
    targets,    \* the snapshot of the registry, less the targets done
    tgt,        \* the target of the relay under way, or the connection being
                \* disconnected, as a set of at most one
    stamp,      \* stamp[h][r]: the record number in the last nonce h built for r
    cst,        \* the state of each client
    csent,      \* messages each client has sent
    seq,        \* record number of each client's record_manager_send
    wire,       \* history: the records written to each client's socket
    taken,      \* how many of them the client has received
    expect,     \* record number of the client's record_manager_recv
    shown,      \* history: the records each client displayed
    relayed,    \* history: relayed[h][r], the last message h encrypted for r
    overlap,    \* history: relays to r have overlapped
    owed        \* history: who was registered when a message was fanned out

mainVars == <<mpc, running, todo, victim, twins>>
linkVars == <<seq, wire, relayed, overlap>>
viewVars == <<taken, expect, shown>>
fanVars == <<got, done, targets, tgt, stamp>>
vars == <<mainVars, registry, open, hpc, fanVars, cst, csent, linkVars, viewVars, owed>>

Init ==
    /\ mpc = "accept" /\ running = TRUE /\ todo = {} /\ victim = {}
    /\ twins \in {{}, Reusers}
    /\ registry = {}
    /\ open = [c \in Clients |-> TRUE]
    /\ hpc = [c \in Clients |-> "none"]
    /\ got = [c \in Clients |-> 0]
    /\ done = [c \in Clients |-> 0]
    /\ targets = [c \in Clients |-> {}]
    /\ tgt = [c \in Clients |-> {}]
    /\ stamp = [h \in Clients |-> [r \in Clients |-> 0]]
    /\ cst = [c \in Clients |-> "hello"]
    /\ csent = [c \in Clients |-> 0]
    /\ seq = [c \in Clients |-> 0]
    /\ wire = [c \in Clients |-> <<>>]
    /\ taken = [c \in Clients |-> 0]
    /\ expect = [c \in Clients |-> 0]
    /\ shown = [c \in Clients |-> <<>>]
    /\ relayed = [h \in Clients |-> [r \in Clients |-> 0]]
    /\ overlap = [c \in Clients |-> FALSE]
    /\ owed = {}

Goto(h, l) == hpc' = [hpc EXCEPT ![h] = l]

\* Mutant of the next operator: the client_id is the address without the port.
SameAddress(h) == Clients

\* The connections with the client_id of h.
Same(h) == {c \in Clients : c = h \/ {c, h} \subseteq twins}

\* The one among them that is entered, if any.
Entered(h) == registry \intersect Same(h)

InRelay(h) == hpc[h] \in {"stamped", "bumped", "sending"}
RelaysTo(h, r) == InRelay(h) /\ tgt[h] = {r}

(***************************************************************************)
(* Mutated operations: plausible bugs, each of which some property below   *)
(* must notice.  They are not part of the specification.                   *)
(***************************************************************************)

\* End of file is not told apart from an empty read.
RecvEndIgnored(h) ==
    /\ hpc[h] = "recv"
    /\ cst[h] = "down"
    /\ Goto(h, "check")
    /\ UNCHANGED <<mainVars, registry, open, fanVars, cst, csent, linkVars, viewVars, owed>>

\* The sender is not left out of its own broadcast.
SnapshotEcho(h) ==
    /\ hpc[h] = "batch"
    /\ IF done[h] < got[h]
         THEN /\ targets' = [targets EXCEPT ![h] = registry]
              /\ owed' = owed \union {<<h, done[h] + 1, r>> : r \in registry}
              /\ Goto(h, "fan")
         ELSE /\ Goto(h, "check")
              /\ UNCHANGED <<targets, owed>>
    /\ UNCHANGED <<mainVars, registry, open, got, done, tgt, stamp, cst, csent,
                   linkVars, viewVars>>

\* The message is encrypted with the sender's own record manager.
EncryptOwnManager(h) ==
    /\ hpc[h] = "fan"
    /\ \E r \in targets[h] :
        /\ tgt' = [tgt EXCEPT ![h] = {r}]
        /\ targets' = [targets EXCEPT ![h] = @ \ {r}]
        /\ stamp' = [stamp EXCEPT ![h][r] = seq[h]]
        /\ relayed' = [relayed EXCEPT ![h][r] = done[h] + 1]
        /\ overlap' = [overlap EXCEPT ![r] = @ \/ \E g \in Clients : RelaysTo(g, r)]
    /\ Goto(h, "stamped")
    /\ UNCHANGED <<mainVars, registry, open, got, done, cst, csent, seq, wire, viewVars, owed>>

\* A target that cannot be reached ends the fan-out of the message.
EnterSendGiveUp(h) ==
    /\ hpc[h] = "bumped"
    /\ \E r \in tgt[h] :
        IF open[r]
          THEN Goto(h, "sending") /\ UNCHANGED <<tgt, targets>>
          ELSE /\ Goto(h, "fan")
               /\ tgt' = [tgt EXCEPT ![h] = {}]
               /\ targets' = [targets EXCEPT ![h] = {}]
    /\ UNCHANGED <<mainVars, registry, open, got, done, stamp, cst, csent,
                   linkVars, viewVars, owed>>

\* The loss of the peer is never reported to a blocked send().
SendErrorNever(h) ==
    /\ hpc[h] = "sending"
    /\ FALSE
    /\ UNCHANGED vars

\* The socket is left to the garbage collector.
CleanupNoClose(h) ==
    /\ hpc[h] = "dclose"
    /\ tgt' = [tgt EXCEPT ![h] = {}]
    /\ Goto(h, "ddel")
    /\ UNCHANGED <<mainVars, registry, open, got, done, targets, stamp, cst, csent, linkVars,
                   viewVars, owed>>

\* stop() does not clear self.running before it looks at the registry.
InterruptStillRunning ==
    /\ Interruptible
    /\ mpc = "accept"
    /\ mpc' = "snapshot"
    /\ UNCHANGED <<running, todo, victim, twins, registry, open, hpc, fanVars, cst, csent, linkVars,
                   viewVars, owed>>

\* The handler threads are no daemons: the process waits for them.
ExitJoining ==
    /\ mpc \in {"stopped", "crashed"}
    /\ \A h \in Clients : hpc[h] \in {"none", "done", "refused"}
    /\ mpc' = "gone"
    /\ open' = [c \in Clients |-> FALSE]
    /\ UNCHANGED <<running, todo, victim, twins, registry, hpc, fanVars, cst, csent, linkVars,
                   viewVars, owed>>

\* A relay that found the socket closed is not ended.
EnterSendKeep(h) ==
    /\ hpc[h] = "bumped"
    /\ \E r \in tgt[h] : Goto(h, IF open[r] THEN "sending" ELSE "fan")
    /\ UNCHANGED <<mainVars, registry, open, fanVars, cst, csent, linkVars, viewVars, owed>>

(***************************************************************************)
(* A handler thread, from the connection to the message loop.              *)
(***************************************************************************)

\* _accept_connections: a thread for the connection.  An address and port can
\* be used again when the client before has gone, noticed or not; bound: its
\* handler was past the handshake.
Accept(h) ==
    /\ mpc = "accept"
    /\ hpc[h] = "none"
    /\ \A c \in Same(h) \ {h} :
        hpc[c] = "none" \/ (cst[c] = "down" /\ hpc[c] \notin {"hello", "reply", "enter"})
    /\ Goto(h, "hello")
    /\ UNCHANGED <<mainVars, registry, open, fanVars, cst, csent, linkVars, viewVars, owed>>

\* The ClientHello arrives, is accepted and answered.
HelloOk(h) ==
    /\ hpc[h] = "hello"
    /\ Goto(h, "reply")
    /\ UNCHANGED <<mainVars, registry, open, fanVars, cst, csent, linkVars, viewVars, owed>>

\* End of file, an unusable ClientHello, an exception: the handler closes the
\* socket and ends.  It was never registered.
HelloFail(h) ==
    /\ hpc[h] = "hello"
    /\ Goto(h, "refused")
    /\ open' = [open EXCEPT ![h] = FALSE]
    /\ UNCHANGED <<mainVars, registry, fanVars, cst, csent, linkVars, viewVars, owed>>

\* The client becomes a target of every relay from here on.  An entry under the
\* same id is replaced.
Register(h) ==
    /\ hpc[h] = "reply"
    /\ registry' = (registry \ Same(h)) \union {h}
    /\ Goto(h, "enter")
    /\ UNCHANGED <<mainVars, open, fanVars, cst, csent, linkVars, viewVars, owed>>

\* self.clients[client_id] at the top of _handle_secure_messages.
Enter(h) ==
    /\ hpc[h] = "enter"
    /\ Goto(h, IF Entered(h) # {} THEN "check" ELSE "except")
    /\ UNCHANGED <<mainVars, registry, open, fanVars, cst, csent, linkVars, viewVars, owed>>

\* The loop condition and the call of recv(), which raises on a closed socket.
Check(h) ==
    /\ hpc[h] = "check"
    /\ Goto(h, IF running /\ Entered(h) # {} /\ open[h] THEN "recv" ELSE "cleanup")
    /\ UNCHANGED <<mainVars, registry, open, fanVars, cst, csent, linkVars, viewVars, owed>>

\* recv() returns some of the client's messages.  A close by stop() does not
\* wake a thread that is inside recv().
Recv(h) ==
    /\ hpc[h] = "recv"
    /\ \E n \in (got[h] + 1)..csent[h] : got' = [got EXCEPT ![h] = n]
    /\ Goto(h, "batch")
    /\ UNCHANGED <<mainVars, registry, open, done, targets, tgt, stamp, cst, csent,
                   linkVars, viewVars, owed>>

\* End of file or a reset connection; either may come before unread messages.
RecvEnd(h) ==
    /\ hpc[h] = "recv"
    /\ cst[h] = "down"
    /\ Goto(h, "cleanup")
    /\ UNCHANGED <<mainVars, registry, open, fanVars, cst, csent, linkVars, viewVars, owed>>

(***************************************************************************)
(* Relaying.                                                               *)
(***************************************************************************)

\* list(self.clients.items()) for the next message of the batch, without the
\* sender itself; after the last message, back to the loop condition.
Snapshot(h) ==
    /\ hpc[h] = "batch"
    /\ IF done[h] < got[h]
         THEN /\ targets' = [targets EXCEPT ![h] = registry \ Same(h)]
              /\ owed' = owed \union {<<h, done[h] + 1, r>> : r \in registry \ Same(h)}
              /\ Goto(h, "fan")
         ELSE /\ Goto(h, "check")
              /\ UNCHANGED <<targets, owed>>
    /\ UNCHANGED <<mainVars, registry, open, got, done, tgt, stamp, cst, csent,
                   linkVars, viewVars>>

\* send_application_data for the next target: the nonce is built.
Encrypt(h) ==
    /\ hpc[h] = "fan"
    /\ \E r \in targets[h] :
        /\ tgt' = [tgt EXCEPT ![h] = {r}]
        /\ targets' = [targets EXCEPT ![h] = @ \ {r}]
        /\ stamp' = [stamp EXCEPT ![h][r] = seq[r]]
        /\ relayed' = [relayed EXCEPT ![h][r] = done[h] + 1]
        /\ overlap' = [overlap EXCEPT ![r] = @ \/ \E g \in Clients : RelaysTo(g, r)]
    /\ Goto(h, "stamped")
    /\ UNCHANGED <<mainVars, registry, open, got, done, cst, csent, seq, wire, viewVars, owed>>

\* The message has been offered to every target.
FanDone(h) ==
    /\ hpc[h] = "fan"
    /\ targets[h] = {}
    /\ done' = [done EXCEPT ![h] = @ + 1]
    /\ Goto(h, "batch")
    /\ UNCHANGED <<mainVars, registry, open, got, targets, tgt, stamp, cst, csent,
                   linkVars, viewVars, owed>>

Bump(h) ==
    /\ hpc[h] = "stamped"
    /\ \E r \in tgt[h] : seq' = [seq EXCEPT ![r] = @ + 1]
    /\ Goto(h, "bumped")
    /\ UNCHANGED <<mainVars, registry, open, fanVars, cst, csent, wire, relayed, overlap,
                   viewVars, owed>>

\* A closed socket raises; the exception is logged and the next target's turn
\* comes.
EnterSend(h) ==
    /\ hpc[h] = "bumped"
    /\ \E r \in tgt[h] :
        IF open[r]
          THEN Goto(h, "sending") /\ UNCHANGED tgt
          ELSE Goto(h, "fan") /\ tgt' = [tgt EXCEPT ![h] = {}]
    /\ UNCHANGED <<mainVars, registry, open, got, done, targets, stamp, cst, csent,
                   linkVars, viewVars, owed>>

\* send() blocks until there is room.
FinishSend(h) ==
    /\ hpc[h] = "sending"
    /\ \E r \in tgt[h] :
        /\ Len(wire[r]) - taken[r] < SendBuf
        /\ wire' = [wire EXCEPT ![r] =
                      Append(@, [from |-> h, num |-> done[h] + 1, seq |-> stamp[h][r]])]
    /\ Goto(h, "fan")
    /\ tgt' = [tgt EXCEPT ![h] = {}]
    /\ UNCHANGED <<mainVars, registry, open, got, done, targets, stamp, cst, csent,
                   seq, relayed, overlap, viewVars, owed>>

\* The target's client is gone: send() raises.
SendError(h) ==
    /\ hpc[h] = "sending"
    /\ \E r \in tgt[h] : cst[r] = "down"
    /\ Goto(h, "fan")
    /\ tgt' = [tgt EXCEPT ![h] = {}]
    /\ UNCHANGED <<mainVars, registry, open, got, done, targets, stamp, cst, csent,
                   linkVars, viewVars, owed>>

(***************************************************************************)
(* The end of a connection.                                                *)
(***************************************************************************)

\* _disconnect_client: the membership test and the lookup.
Cleanup(h) ==
    /\ hpc[h] = "cleanup"
    /\ Goto(h, IF Entered(h) # {} THEN "dclose" ELSE "done")
    /\ tgt' = [tgt EXCEPT ![h] = Entered(h)]
    /\ UNCHANGED <<mainVars, registry, open, got, done, targets, stamp, cst, csent,
                   linkVars, viewVars, owed>>

CleanupClose(h) ==
    /\ hpc[h] = "dclose"
    /\ \E c \in tgt[h] : open' = [open EXCEPT ![c] = FALSE]
    /\ tgt' = [tgt EXCEPT ![h] = {}]
    /\ Goto(h, "ddel")
    /\ UNCHANGED <<mainVars, registry, got, done, targets, stamp, cst, csent, linkVars,
                   viewVars, owed>>

\* What is entered under the id now is deleted, be it what was closed or not;
\* the deletion raises KeyError when stop() has got there first.
CleanupDel(h) ==
    /\ hpc[h] = "ddel"
    /\ registry' = registry \ Same(h)
    /\ Goto(h, IF Entered(h) # {} THEN "done" ELSE "except")
    /\ UNCHANGED <<mainVars, open, fanVars, cst, csent, linkVars, viewVars, owed>>

\* The except clause of _handle_client: the entry under the id, if there is one,
\* and then the handler's own socket.
Except(h) ==
    /\ hpc[h] = "except"
    /\ registry' = registry \ Same(h)
    /\ Goto(h, "xclose")
    /\ UNCHANGED <<mainVars, open, fanVars, cst, csent, linkVars, viewVars, owed>>

ExceptClose(h) ==
    /\ hpc[h] = "xclose"
    /\ open' = [open EXCEPT ![h] = FALSE]
    /\ Goto(h, "done")
    /\ UNCHANGED <<mainVars, registry, fanVars, cst, csent, linkVars, viewVars, owed>>

Ended(h) == hpc[h] \in {"done", "refused"}

\* A socket that no thread and no entry refers to any more is closed with the
\* object; this is left when the entry of a connection was replaced, or deleted
\* by the handler of another one with its id.
Collect(h) ==
    /\ Ended(h) /\ open[h]
    /\ h \notin registry \union victim
    /\ \A g \in Clients : h \notin targets[g] \union tgt[g]
    /\ open' = [open EXCEPT ![h] = FALSE]
    /\ UNCHANGED <<mainVars, registry, hpc, fanVars, cst, csent, linkVars, viewVars, owed>>

(***************************************************************************)
(* stop(), in the main thread.                                             *)
(***************************************************************************)

\* KeyboardInterrupt leaves the accept loop; stop() begins.
Interrupt ==
    /\ Interruptible
    /\ mpc = "accept"
    /\ mpc' = "snapshot"
    /\ running' = FALSE
    /\ UNCHANGED <<todo, victim, twins, registry, open, hpc, fanVars, cst, csent, linkVars,
                   viewVars, owed>>

StopSnapshot ==
    /\ mpc = "snapshot"
    /\ mpc' = "next"
    /\ todo' = registry
    /\ UNCHANGED <<running, victim, twins, registry, open, hpc, fanVars, cst, csent, linkVars,
                   viewVars, owed>>

\* The next client id, and the test and lookup of _disconnect_client; after
\* the last one the listening socket is closed.
StopNext ==
    /\ mpc = "next"
    /\ IF todo = {}
         THEN mpc' = "stopped" /\ UNCHANGED <<todo, victim>>
         ELSE \E v \in todo :
                /\ todo' = todo \ {v}
                /\ victim' = Entered(v)
                /\ mpc' = IF Entered(v) # {} THEN "close" ELSE mpc
    /\ UNCHANGED <<running, twins, registry, open, hpc, fanVars, cst, csent, linkVars, viewVars, owed>>

StopClose ==
    /\ mpc = "close"
    /\ \E v \in victim : open' = [open EXCEPT ![v] = FALSE]
    /\ mpc' = "del"
    /\ UNCHANGED <<running, todo, victim, twins, registry, hpc, fanVars, cst, csent, linkVars,
                   viewVars, owed>>

\* The deletion raises KeyError when the client's own handler got there first:
\* nothing in stop() or main() catches it.
StopDel ==
    /\ mpc = "del"
    /\ \E v \in victim :
        /\ registry' = registry \ Same(v)
        /\ mpc' = IF Entered(v) # {} THEN "next" ELSE "crashed"
    /\ victim' = {}
    /\ UNCHANGED <<running, todo, twins, open, hpc, fanVars, cst, csent, linkVars, viewVars, owed>>

\* main() returns behind stop(), or the KeyError leaves it: the process ends, the
\* handler threads with it, and the system closes what is open.
Exit ==
    /\ mpc \in {"stopped", "crashed"}
    /\ mpc' = "gone"
    /\ open' = [c \in Clients |-> FALSE]
    /\ UNCHANGED <<running, todo, victim, twins, registry, hpc, fanVars, cst, csent, linkVars,
                   viewVars, owed>>

(***************************************************************************)
(* The clients.                                                            *)
(***************************************************************************)

Answered(c) == hpc[c] \notin {"none", "hello", "refused"}

\* ServerHello, with k relayed records behind it in the same buffer.
FirstRecv(c) ==
    /\ cst[c] = "hello"
    /\ Answered(c)
    /\ \E k \in 0..(Len(wire[c]) - taken[c]) :
        /\ taken' = [taken EXCEPT ![c] = @ + k]
        /\ cst' = [cst EXCEPT ![c] = IF k = 0 THEN "up" ELSE "deaf"]
    /\ UNCHANGED <<mainVars, registry, open, hpc, fanVars, csent, linkVars, expect, shown, owed>>

\* The user sends a message.  What a deaf client sends does not decrypt at the
\* server, which skips it; it is left out.
ClientSend(c) ==
    /\ c \in Senders
    /\ cst[c] = "up"
    /\ csent[c] < MaxMsg
    /\ csent' = [csent EXCEPT ![c] = @ + 1]
    /\ UNCHANGED <<mainVars, registry, open, hpc, fanVars, cst, linkVars, viewVars, owed>>

Receive(c) ==
    /\ cst[c] \in {"up", "deaf"}
    /\ taken[c] < Len(wire[c])
    /\ taken' = [taken EXCEPT ![c] = @ + 1]
    /\ LET r == wire[c][taken[c] + 1] IN
         IF cst[c] = "up" /\ r.seq = expect[c]
           THEN /\ shown' = [shown EXCEPT ![c] = Append(@, r)]
                /\ expect' = [expect EXCEPT ![c] = @ + 1]
           ELSE UNCHANGED <<shown, expect>>
    /\ UNCHANGED <<mainVars, registry, open, hpc, fanVars, cst, csent, linkVars, owed>>

\* The client leaves, or it reads end of file: the server has closed the
\* socket and no thread is inside a system call on it.
SeesEnd(c) ==
    /\ ~open[c]
    /\ taken[c] = Len(wire[c])
    /\ \/ mpc = "gone"
       \/ /\ hpc[c] # "recv"
          /\ \A h \in Clients : ~(RelaysTo(h, c) /\ hpc[h] = "sending")

Quit(c) ==
    /\ cst[c] # "down"
    /\ c \in Quitters \/ SeesEnd(c)
    /\ cst' = [cst EXCEPT ![c] = "down"]
    /\ UNCHANGED <<mainVars, registry, open, hpc, fanVars, csent, linkVars, viewVars, owed>>

HandlerStep(h) ==
    /\ mpc # "gone"
    /\ \/ HelloOk(h) \/ HelloFail(h) \/ Register(h) \/ Enter(h) \/ Check(h)
       \/ Recv(h) \/ RecvEnd(h) \/ Snapshot(h) \/ Encrypt(h) \/ FanDone(h)
       \/ Bump(h) \/ EnterSend(h) \/ FinishSend(h) \/ SendError(h)
       \/ Cleanup(h) \/ CleanupClose(h) \/ CleanupDel(h) \/ Except(h) \/ ExceptClose(h)

StopStep == StopSnapshot \/ StopNext \/ StopClose \/ StopDel \/ Exit

ClientStep(c) == FirstRecv(c) \/ ClientSend(c) \/ Receive(c) \/ Quit(c)

Next ==
    \/ \E h \in Clients : Accept(h) \/ HandlerStep(h) \/ Collect(h)
    \/ Interrupt \/ StopStep
    \/ \E c \in Clients : ClientStep(c)

Spec == Init /\ [][Next]_vars

(***************************************************************************)
(* Fairness.  Every thread that can run does run, as long as there is the  *)
(* process: a handler, and stop() with the end of the process once it has  *)
(* begun.  The client's receive thread reads, whatever its main thread     *)
(* does, and notices the end of the connection.  Nobody has to connect, to *)
(* send, to leave or to interrupt the server.                              *)
(***************************************************************************)

FairServer ==
    /\ \A h \in Clients : WF_vars(HandlerStep(h))
    /\ WF_vars(StopStep)

FairClients ==
    \A c \in Clients :
        /\ WF_vars(FirstRecv(c) \/ Receive(c))
        /\ WF_vars(SeesEnd(c) /\ Quit(c))

FairSpec == Spec /\ FairServer /\ FairClients

\* One client stops reading without leaving: a suspended process.
StalledSpec == Spec /\ FairServer

(***************************************************************************)
(* Properties.                                                             *)
(***************************************************************************)

TypeOK ==
    /\ mpc \in {"accept", "snapshot", "next", "close", "del", "stopped", "crashed", "gone"}
    /\ running = (mpc = "accept")
    /\ todo \subseteq Clients
    /\ victim \subseteq Clients /\ (victim # {} <=> mpc \in {"close", "del"})
    /\ twins \in {{}, Reusers}
    /\ registry \subseteq Clients /\ \A c \in registry : Entered(c) = {c}
    /\ open \in [Clients -> BOOLEAN]
    /\ hpc \in [Clients ->
         {"none", "hello", "reply", "enter", "check", "recv", "batch", "fan", "stamped",
          "bumped", "sending", "cleanup", "dclose", "ddel", "except", "xclose", "done",
          "refused"}]
    /\ \A c \in Clients :
         /\ done[c] \in 0..got[c] /\ got[c] \in 0..csent[c] /\ csent[c] \in 0..MaxMsg
         /\ targets[c] \subseteq Clients
         /\ tgt[c] \subseteq Clients /\ (tgt[c] # {} <=> InRelay(c) \/ hpc[c] = "dclose")
         /\ cst[c] \in {"hello", "up", "deaf", "down"}
         /\ taken[c] \in 0..Len(wire[c])
         /\ expect[c] = Len(shown[c])
    /\ owed \subseteq Clients \X (1..MaxMsg) \X Clients

\* However a connection ends - end of file, an error, a failed hello, stop()
\* racing the handler for the same entry - no registry entry and no open
\* socket is left behind when its thread has ended; only of two connections
\* with one id a socket may be left to be collected.
NothingLeaks ==
    \A c \in Clients : Ended(c) => c \notin registry /\ (open[c] => c \in twins)

\* Until the server is stopped, a client whose messages are read is entered and
\* gets those of the others: no thread removes the entry of a connection that
\* is not its own, unless another one has come with the same id.
ServedIsEntered ==
    running =>
        \A h \in Clients :
            hpc[h] \in {"enter", "check", "recv", "batch", "fan", "stamped", "bumped", "sending"}
                => h \in registry \/ (h \in twins /\ \E c \in twins \ {h} : hpc[c] # "none")

\* A client that registers while stop() is at work, after the snapshot stop()
\* works through, is not served: its handler is on its way out.
NotServedAfterStop ==
    mpc = "stopped" =>
        \A c \in registry : hpc[c] \in {"enter", "check", "cleanup", "dclose", "ddel"}

\* One target that fails does not cost the others the message: whoever was
\* registered when a message was fanned out has it on its stream when the
\* handler goes on to the next, unless its own connection has ended.
OwedDelivered ==
    \A o \in owed :
        done[o[1]] >= o[2] =>
            \/ \E i \in 1..Len(wire[o[3]]) :
                 wire[o[3]][i].from = o[1] /\ wire[o[3]][i].num = o[2]
            \/ ~open[o[3]]
            \/ cst[o[3]] = "down"

\* What happens between the server and one client is a behaviour of RelayLink
\* with the other clients' handlers.
Link(r) == INSTANCE RelayLink WITH
    Handlers <- Clients \ {r},
    pc <- [h \in Clients \ {r} |-> IF RelaysTo(h, r) THEN hpc[h] ELSE "idle"],
    msg <- [h \in Clients \ {r} |-> relayed[h][r]],
    stamp <- [h \in Clients \ {r} |-> stamp[h][r]],
    seq <- seq[r], open <- open[r], wire <- wire[r], taken <- taken[r],
    client <- cst[r], expect <- expect[r], shown <- shown[r], overlap <- overlap[r]

ImplementsLinks ==
    /\ \A r \in Clients : Link(r)!Init
    /\ [][\A r \in Clients : [Link(r)!Next]_(Link(r)!vars)]_vars

\* What the users see is a best-effort broadcast.
Abstract == INSTANCE Broadcast WITH
    sent <- csent,
    out <- [c \in Clients |->
              [i \in 1..Len(shown[c]) |->
                 [from |-> shown[c][i].from, num |-> shown[c][i].num]]]

ImplementsBroadcast == Abstract!Spec

\* Every message of a connected client is offered to all its targets, unless
\* the client leaves or the server is stopped: no set of handlers blocks each
\* other in send() for ever while the clients read.
MessageHandled ==
    \A c \in Senders : \A n \in 1..MaxMsg :
        csent[c] >= n ~> (done[c] >= n \/ cst[c] = "down" \/ ~running)

\* A client that has gone is always noticed and its thread ends, with the process
\* if not before.
DepartureNoticed ==
    \A c \in Clients : (cst[c] = "down" /\ hpc[c] # "none") ~> (Ended(c) \/ mpc = "gone")

\* An interrupt ends every session: whether stop() closes a connection, overlooks
\* it or fails, and although a close does not wake a thread in recv() or send(),
\* every client that was connected sees the end.
InterruptEndsAll ==
    \A c \in Clients : (~running /\ hpc[c] # "none") ~> cst[c] = "down"

\* report.txt:479: a thread per connection prevents blocking operations on one
\* connection from affecting other active sessions; so the server goes on
\* reading what a connected client sends, whatever the others do.
SessionServed ==
    \A c \in Senders : \A n \in 1..MaxMsg :
        csent[c] >= n ~> (got[c] >= n \/ cst[c] = "down" \/ ~running)

\* server.py:206 and server.py:210: stop() closes all client connections and
\* then the server socket.
StopCompletes == mpc # "crashed"
=============================================================================
