------------------------------ MODULE RelayLink ------------------------------
(***************************************************************************)
(* The relay path of server.py to ONE recipient, and the receive side of   *)
(* that recipient's client.                                                *)
(*                                                                         *)
(* Every connected sender has a handler thread in the server.  To relay a  *)
(* message a handler calls                                                 *)
(*     other_info['record_manager_send'].send_application_data(relay_msg)  *)
(*     other_info['socket'].send(encrypted)                                *)
(* and all handlers share the recipient's record manager and socket: no    *)
(* lock is held.  AESGCM.encrypt reads the record number into the nonce    *)
(* and advances it only after the encryption, so a handler passes through  *)
(*     idle -> stamped -> bumped -> sending -> idle                        *)
(* and other handlers may run at every arrow.  The arrows are the points   *)
(* where a CPython thread can lose the interpreter: method calls, the      *)
(* cryptography library, and the system call.                              *)
(*                                                                         *)
(* A record is abstracted to who sent it, which of the sender's messages   *)
(* it carries and the record number its nonce was built from.  Decryption  *)
(* succeeds exactly when both sides hold the same keys and the receiver    *)
(* expects that record number.                                             *)
(***************************************************************************)
EXTENDS Naturals, Sequences

CONSTANTS
    Handlers,   \* the handler threads that relay to this recipient
    MaxMsg,     \* bound: messages each handler takes up
    SendBuf     \* records that fit between the server and the recipient

ASSUME MaxMsgAssumption == MaxMsg \in Nat \ {0}
ASSUME SendBufAssumption == SendBuf \in Nat \ {0}

VARIABLES
    pc,       \* where each handler is in the relay of one message
    msg,      \* the last message each handler took up for this recipient
    stamp,    \* the record number in the nonce each handler built
    seq,      \* cipher_suite.sequence_number of record_manager_send
    open,     \* the server has not closed the recipient's socket
    wire,     \* history: the records written to the socket, in order
    taken,    \* how many of them the recipient's recv() has returned
    client,   \* the recipient: waiting for ServerHello, up, deaf or gone
    expect,   \* cipher_suite.sequence_number of its record_manager_recv
    shown,    \* history: the records it decrypted and displayed
    overlap   \* history: a relay began while another was in progress

vars == <<pc, msg, stamp, seq, open, wire, taken, client, expect, shown, overlap>>
linkState == <<open, wire, taken, client, expect, shown>>

Record == [from: Handlers, num: 1..MaxMsg, seq: Nat]

InFlight(h) == pc[h] # "idle"

Init ==
    /\ pc = [h \in Handlers |-> "idle"]
    /\ msg = [h \in Handlers |-> 0]
    /\ stamp = [h \in Handlers |-> 0]
    /\ seq = 0
    /\ open = TRUE
    /\ wire = <<>>
    /\ taken = 0
    /\ client = "hello"
    /\ expect = 0
    /\ shown = <<>>
    /\ overlap = FALSE

(***************************************************************************)
(* Mutated operations: plausible bugs, each of which some property below   *)
(* must notice.  They are not part of the specification.                   *)
(***************************************************************************)

\* A failed relay is retried: the same message may be taken up again.
EncryptRetry(h) ==
    /\ pc[h] = "idle"
    /\ \E n \in 1..MaxMsg :
        /\ n >= msg[h]
        /\ msg' = [msg EXCEPT ![h] = n]
    /\ pc' = [pc EXCEPT ![h] = "stamped"]
    /\ stamp' = [stamp EXCEPT ![h] = seq]
    /\ overlap' = (overlap \/ \E g \in Handlers \ {h} : InFlight(g))
    /\ UNCHANGED <<seq, linkState>>

\* The cipher and the record layer advance the same counter.
BumpTwice(h) ==
    /\ pc[h] = "stamped"
    /\ pc' = [pc EXCEPT ![h] = "bumped"]
    /\ seq' = seq + 2
    /\ UNCHANGED <<msg, stamp, linkState, overlap>>

\* A non-blocking socket: a record that finds no room is dropped.
EnterSendNonBlocking(h) ==
    /\ pc[h] = "bumped"
    /\ pc' = [pc EXCEPT ![h] =
                IF open /\ Len(wire) - taken < SendBuf THEN "sending" ELSE "idle"]
    /\ UNCHANGED <<msg, stamp, seq, linkState, overlap>>

\* The loss of the peer is never reported to a blocked send().
SendErrorNever(h) ==
    /\ pc[h] = "sending"
    /\ FALSE
    /\ UNCHANGED vars

\* A record that does not decrypt advances the record number all the same.
ReceiveAdvancing ==
    /\ client \in {"up", "deaf"}
    /\ taken < Len(wire)
    /\ taken' = taken + 1
    /\ expect' = expect + 1
    /\ shown' = IF client = "up" /\ wire[taken + 1].seq = expect
                  THEN Append(shown, wire[taken + 1]) ELSE shown
    /\ UNCHANGED <<pc, msg, stamp, seq, open, wire, client, overlap>>

\* The receiver adopts the record number of whatever record comes next.
ReceiveResync ==
    /\ client \in {"up", "deaf"}
    /\ taken < Len(wire)
    /\ taken' = taken + 1
    /\ IF client = "up"
         THEN /\ shown' = Append(shown, wire[taken + 1])
              /\ expect' = wire[taken + 1].seq + 1
         ELSE UNCHANGED <<shown, expect>>
    /\ UNCHANGED <<pc, msg, stamp, seq, open, wire, client, overlap>>

(***************************************************************************)
(* The sending side.                                                       *)
(***************************************************************************)

\* The nonce is built from the current record number.  Messages between
\* msg[h] and n are the ones h never relays here: the recipient was not in
\* the snapshot of the registry, or the record was too long to build.
Encrypt(h) ==
    /\ pc[h] = "idle"
    /\ \E n \in 1..MaxMsg :
        /\ n > msg[h]
        /\ msg' = [msg EXCEPT ![h] = n]
    /\ pc' = [pc EXCEPT ![h] = "stamped"]
    /\ stamp' = [stamp EXCEPT ![h] = seq]
    /\ overlap' = (overlap \/ \E g \in Handlers \ {h} : InFlight(g))
    /\ UNCHANGED <<seq, linkState>>

\* update_sequence_number, after the ciphertext has been computed.
Bump(h) ==
    /\ pc[h] = "stamped"
    /\ pc' = [pc EXCEPT ![h] = "bumped"]
    /\ seq' = seq + 1
    /\ UNCHANGED <<msg, stamp, linkState, overlap>>

\* The call of socket.send: a closed socket raises OSError, which the relay
\* loop logs before it goes on to the next recipient.
EnterSend(h) ==
    /\ pc[h] = "bumped"
    /\ pc' = [pc EXCEPT ![h] = IF open THEN "sending" ELSE "idle"]
    /\ UNCHANGED <<msg, stamp, seq, linkState, overlap>>

\* send() blocks until there is room.  A close() by another thread does not
\* wake it, and the record still goes out.
FinishSend(h) ==
    /\ pc[h] = "sending"
    /\ Len(wire) - taken < SendBuf
    /\ pc' = [pc EXCEPT ![h] = "idle"]
    /\ wire' = Append(wire, [from |-> h, num |-> msg[h], seq |-> stamp[h]])
    /\ UNCHANGED <<msg, stamp, seq, open, taken, client, expect, shown, overlap>>

\* The recipient is gone: send() raises, the relay loop logs it.
SendError(h) ==
    /\ pc[h] = "sending"
    /\ client = "down"
    /\ pc' = [pc EXCEPT ![h] = "idle"]
    /\ UNCHANGED <<msg, stamp, seq, linkState, overlap>>

\* _disconnect_client closes the recipient's socket, from the recipient's own
\* handler or from stop(); relays hold a snapshot and may still be running.
Close ==
    /\ open
    /\ open' = FALSE
    /\ UNCHANGED <<pc, msg, stamp, seq, wire, taken, client, expect, shown, overlap>>

(***************************************************************************)
(* The recipient's client.                                                 *)
(***************************************************************************)

\* The one recv(4096) that waits for ServerHello returns k relayed records
\* with it.  The whole buffer becomes part of the client's transcript, so for
\* k > 0 the client derives other keys than the server and never notices.
FirstRecv ==
    /\ client = "hello"
    /\ \E k \in 0..(Len(wire) - taken) :
        /\ taken' = taken + k
        /\ client' = IF k = 0 THEN "up" ELSE "deaf"
    /\ UNCHANGED <<pc, msg, stamp, seq, open, wire, expect, shown, overlap>>

\* receive_data: one record is taken off the stream.  A record that does not
\* decrypt is skipped and leaves the record number alone.
Receive ==
    /\ client \in {"up", "deaf"}
    /\ taken < Len(wire)
    /\ taken' = taken + 1
    /\ IF client = "up" /\ wire[taken + 1].seq = expect
         THEN /\ shown' = Append(shown, wire[taken + 1])
              /\ expect' = expect + 1
         ELSE UNCHANGED <<shown, expect>>
    /\ UNCHANGED <<pc, msg, stamp, seq, open, wire, client, overlap>>

\* The client leaves: 'quit', end of file, an exception, or a lost connection.
Quit ==
    /\ client # "down"
    /\ client' = "down"
    /\ UNCHANGED <<pc, msg, stamp, seq, open, wire, taken, expect, shown, overlap>>

HandlerStep(h) == Encrypt(h) \/ Bump(h) \/ EnterSend(h) \/ FinishSend(h) \/ SendError(h)

Next ==
    \/ \E h \in Handlers : HandlerStep(h)
    \/ Close
    \/ FirstRecv
    \/ Receive
    \/ Quit

Spec == Init /\ [][Next]_vars

\* A thread that can run does run, and a connected client keeps reading; no
\* one has to send, to close or to leave.
Fairness ==
    /\ \A h \in Handlers :
        WF_vars(Bump(h) \/ EnterSend(h) \/ FinishSend(h) \/ SendError(h))
    /\ WF_vars(FirstRecv \/ Receive)

FairSpec == Spec /\ Fairness

(***************************************************************************)
(* Properties.                                                             *)
(***************************************************************************)

\* The types; the recipient's record number counts the records it displayed.
TypeOK ==
    /\ pc \in [Handlers -> {"idle", "stamped", "bumped", "sending"}]
    /\ msg \in [Handlers -> 0..MaxMsg]
    /\ stamp \in [Handlers -> Nat]
    /\ seq \in Nat
    /\ open \in BOOLEAN
    /\ wire \in Seq(Record)
    /\ taken \in 0..Len(wire)
    /\ client \in {"hello", "up", "deaf", "down"}
    /\ shown \in Seq(Record) /\ expect = Len(shown)
    /\ overlap \in BOOLEAN

\* Whatever the handlers do to each other, the client displays no message
\* twice and displays the messages of one sender in the order they were sent:
\* a handler finishes one relay before it takes up the next message.
PerSenderOrder ==
    \A i, j \in 1..Len(shown) :
        (i < j /\ shown[i].from = shown[j].from) => shown[i].num < shown[j].num

\* What the missing lock costs is confined to overlapping relays: as long as
\* no two handlers have been in the relay path at once, the client has
\* displayed every record it has received.
NoLossWithoutOverlap ==
    (~overlap /\ client = "up") => shown = SubSeq(wire, 1, taken)

\* Nobody holds, and the stream does not carry, the record number the client
\* waits for, and the server has counted past it.
Passed ==
    /\ expect < seq
    /\ \A h \in Handlers : InFlight(h) => stamp[h] # expect
    /\ \A i \in (taken + 1)..Len(wire) : wire[i].seq # expect

Lost == client \in {"deaf", "down"} \/ (client = "up" /\ Passed)

\* A recipient that has lost the record number never recovers: records are
\* skipped one by one and nothing in the code resynchronises or closes the
\* connection, so it displays nothing more for the rest of its life.
LossIsPermanent == [][Lost => (shown' = shown /\ Lost')]_vars

\* A relay that is under way reaches the screen unless relays overlapped, the
\* keys differ, the client left or the server closed the socket.
RelayedIsShown ==
    \A h \in Handlers : \A n \in 1..MaxMsg :
        (InFlight(h) /\ msg[h] = n) ~>
            \/ \E i \in 1..Len(shown) : shown[i].from = h /\ shown[i].num = n
            \/ overlap
            \/ client \in {"deaf", "down"}
            \/ ~open

\* No handler is kept in the relay path for ever by a recipient whose client
\* reads or has left: the queue in front of send() drains.
RelayFinishes == \A h \in Handlers : InFlight(h) ~> ~InFlight(h)

\* report.txt:501: messages transmitted by one client are correctly received
\* by other connected clients.
EveryRecordShown ==
    client = "up" => \A i \in 1..taken : \E j \in 1..Len(shown) : shown[j] = wire[i]
=============================================================================
