----------------------------- MODULE ClientApp ------------------------------
(***************************************************************************)
(* client.py: one client program, its main thread and its receive thread,  *)
(* which share connected and socket without a lock, the user at the        *)
(* keyboard, and the server end of the connection.                         *)
(*                                                                         *)
(* The main thread goes through                                            *)
(*   dial       connecting and sending the ClientHello                     *)
(*   shake      blocked in recv() for the ServerHello                      *)
(*   start      keys made, the receive thread about to start               *)
(*   check      the loop condition of _send_messages                       *)
(*   input      waiting for a line                                         *)
(*   send       a line encrypted, about to call send()                     *)
(*   sending    inside send()                                              *)
(*   bye, close, clear     disconnect()                                    *)
(*   exit, gone            main() returns; the process has ended           *)
(* and the receive thread through none, check, recv (inside recv()), show, *)
(* bye, close, clear and done.  disconnect() is three steps: the flag with *)
(* the test of the socket behind it, the close, and the assignment of      *)
(* None; both threads may be in it.  The second call, in main(), finds the *)
(* socket None and changes nothing.                                        *)
(***************************************************************************)
EXTENDS Naturals, Sequences

CONSTANTS
    MaxLines,   \* bound: the lines of text the user types
    MaxIn,      \* bound: the records the server sends
    SendBuf     \* records that fit between the client and the server

ASSUME BoundsAssumption == MaxLines \in Nat /\ MaxIn \in Nat /\ SendBuf \in Nat \ {0}

VARIABLES
    pc,           \* where the two threads are
    connected,    \* self.connected
    socket,       \* self.socket is not None
    open,         \* the socket is not closed
    num,          \* the record number of record_manager_send
    typed,        \* history: the lines of text typed
    refused,      \* history: one of them could not be made a record
    wire,         \* history: the record numbers written to the socket
    drained,      \* how many of them the server has read
    fate,         \* history: "reported" or "silent" once a line failed
    interrupted,  \* history: the user pressed Ctrl-C
    server,       \* the server's end: "open", or "closed" as the client sees it
    arrived,      \* records the server has sent to the client
    taken,        \* how many of them recv() has returned
    shown         \* and how many of those are on the screen

flagVars == <<connected, socket, open>>
outVars == <<num, typed, refused, wire, fate, interrupted>>
inVars == <<taken, shown>>
serverVars == <<server, arrived, drained>>
vars == <<pc, flagVars, outVars, inVars, serverVars>>

Threads == {"main", "receive"}

Init ==
    /\ pc = [t \in Threads |-> IF t = "main" THEN "dial" ELSE "none"]
    /\ connected = FALSE /\ socket = TRUE /\ open = TRUE
    /\ num = 0 /\ typed = 0 /\ refused = FALSE /\ wire = <<>> /\ fate = "none" /\ interrupted = FALSE
    /\ taken = 0 /\ shown = 0
    /\ server = "open" /\ arrived = 0 /\ drained = 0

\* Thread t moves from one place to another.
Goto(t, from, to) == pc[t] = from /\ pc' = [pc EXCEPT ![t] = to]

(***************************************************************************)
(* Mutated operations: plausible bugs, each of which some property below   *)
(* must notice.  They are not part of the specification.                   *)
(***************************************************************************)

\* A failed send is caught inside the loop, as the server does it.
FailAndGoOn(from) ==
    /\ Goto("main", from, "check")
    /\ fate' = IF connected THEN "reported" ELSE "silent"
    /\ UNCHANGED <<num, wire, interrupted>>

\* An error is reported only when the connection has already been given up.
FailSwapped(from) ==
    /\ Goto("main", from, "bye")
    /\ fate' = IF connected THEN "silent" ELSE "reported"
    /\ UNCHANGED <<num, wire, interrupted>>

\* The receive thread is started before the handshake.
DialAndStart ==
    /\ pc["main"] = "dial" /\ pc["receive"] = "none"
    /\ pc' = [pc EXCEPT !["main"] = "shake", !["receive"] = "check"]
    /\ connected' = TRUE
    /\ UNCHANGED <<socket, open, outVars, inVars, serverVars>>

\* The receive thread ends without disconnect().
RecvEndOnly ==
    /\ Goto("receive", "recv", "done")
    /\ server = "closed"
    /\ UNCHANGED <<flagVars, outVars, inVars, serverVars>>

\* disconnect() without connected = False.
ByeStillConnected(t, end) ==
    /\ Goto(t, "bye", IF socket THEN "close" ELSE end)
    /\ UNCHANGED <<flagVars, outVars, inVars, serverVars>>

\* disconnect() drops the socket before it has closed it.
ByeDropFirst(t, end) ==
    /\ Goto(t, "bye", end)
    /\ connected' = FALSE
    /\ socket' = FALSE
    /\ UNCHANGED <<open, outVars, inVars, serverVars>>

(***************************************************************************)
(* connect() and the handshake.                                            *)
(***************************************************************************)

Dial ==
    /\ Goto("main", "dial", "shake")
    /\ connected' = TRUE
    /\ UNCHANGED <<socket, open, outVars, inVars, serverVars>>

\* The connection is refused, or the ClientHello cannot be sent.
DialFail ==
    /\ Goto("main", "dial", "bye")
    /\ connected' \in BOOLEAN
    /\ UNCHANGED <<socket, open, outVars, inVars, serverVars>>

Shake ==
    /\ Goto("main", "shake", "start")
    /\ UNCHANGED <<flagVars, outVars, inVars, serverVars>>

\* End of file, an error, or a ServerHello that cannot be used.
ShakeFail ==
    /\ Goto("main", "shake", "bye")
    /\ UNCHANGED <<flagVars, outVars, inVars, serverVars>>

Start ==
    /\ pc["main"] = "start"
    /\ pc' = [pc EXCEPT !["main"] = "check", !["receive"] = "check"]
    /\ UNCHANGED <<flagVars, outVars, inVars, serverVars>>

(***************************************************************************)
(* The main thread in _send_messages.                                      *)
(***************************************************************************)

Check ==
    /\ Goto("main", "check", IF connected THEN "input" ELSE "bye")
    /\ UNCHANGED <<flagVars, outVars, inVars, serverVars>>

\* A blank line.
Blank ==
    /\ Goto("main", "input", "check")
    /\ UNCHANGED <<flagVars, outVars, inVars, serverVars>>

\* "quit", or the end of the input.
Quit ==
    /\ Goto("main", "input", "bye")
    /\ UNCHANGED <<flagVars, outVars, inVars, serverVars>>

\* An exception in the loop: it is logged if connected still holds.
Fail(from) ==
    /\ Goto("main", from, "bye")
    /\ fate' = IF connected THEN "reported" ELSE "silent"
    /\ UNCHANGED <<num, wire, interrupted>>

\* A line of text, encrypted: its record number is spent.
Text ==
    /\ Goto("main", "input", "send")
    /\ typed < MaxLines
    /\ typed' = typed + 1
    /\ num' = num + 1
    /\ UNCHANGED <<flagVars, refused, wire, fate, interrupted, inVars, serverVars>>

\* A line that does not fit the length field of a record, or cannot be encoded:
\* send_application_data raises before a record number is spent.
TextRefused ==
    /\ typed < MaxLines
    /\ typed' = typed + 1
    /\ refused' = TRUE
    /\ Fail("input")
    /\ UNCHANGED <<flagVars, inVars, serverVars>>

\* self.socket.send: there may be no socket any more, or a closed one.
EnterSend ==
    /\ IF socket /\ open
         THEN Goto("main", "send", "sending") /\ UNCHANGED outVars
         ELSE Fail("send") /\ UNCHANGED <<typed, refused>>
    /\ UNCHANGED <<flagVars, inVars, serverVars>>

\* send() blocks until there is room; a close() by the receive thread does not
\* wake it.
FinishSend ==
    /\ Goto("main", "sending", "check")
    /\ Len(wire) - drained < SendBuf
    /\ wire' = Append(wire, num - 1)
    /\ UNCHANGED <<flagVars, num, typed, refused, fate, interrupted, inVars, serverVars>>

SendError ==
    /\ server = "closed"
    /\ Fail("sending")
    /\ UNCHANGED <<typed, refused, flagVars, inVars, serverVars>>

\* Ctrl-C where the main thread waits.
Interrupt ==
    /\ \E from \in {"dial", "shake", "input", "sending"} : Goto("main", from, "bye")
    /\ interrupted' = TRUE
    /\ UNCHANGED <<flagVars, num, typed, refused, wire, fate, inVars, serverVars>>

(***************************************************************************)
(* The receive thread.                                                     *)
(***************************************************************************)

RecvCheck ==
    /\ Goto("receive", "check", IF connected THEN "recv" ELSE "bye")
    /\ UNCHANGED <<flagVars, outVars, inVars, serverVars>>

\* recv() returns some of the records; a close() by the main thread does not
\* wake it.
Recv ==
    /\ Goto("receive", "recv", "show")
    /\ taken' \in (taken + 1)..arrived
    /\ UNCHANGED <<flagVars, outVars, shown, serverVars>>

\* End of file behind the last record, or an error at any time.
RecvEnd ==
    /\ Goto("receive", "recv", "bye")
    /\ server = "closed"
    /\ UNCHANGED <<flagVars, outVars, inVars, serverVars>>

Show ==
    /\ Goto("receive", "show", IF shown + 1 = taken THEN "check" ELSE "show")
    /\ shown' = shown + 1
    /\ UNCHANGED <<flagVars, outVars, taken, serverVars>>

(***************************************************************************)
(* disconnect(), by either thread, and the end of the program.             *)
(***************************************************************************)

\* The place a thread comes to behind disconnect().
End(t) == IF t = "main" THEN "exit" ELSE "done"

Bye(t, end) ==
    /\ Goto(t, "bye", IF socket THEN "close" ELSE end)
    /\ connected' = FALSE
    /\ UNCHANGED <<socket, open, outVars, inVars, serverVars>>

Close(t) ==
    /\ Goto(t, "close", "clear")
    /\ open' = FALSE
    /\ UNCHANGED <<connected, socket, outVars, inVars, serverVars>>

Clear(t, end) ==
    /\ Goto(t, "clear", end)
    /\ socket' = FALSE
    /\ UNCHANGED <<connected, open, outVars, inVars, serverVars>>

Disconnect(t) == Bye(t, End(t)) \/ Close(t) \/ Clear(t, End(t))

\* The receive thread is a daemon: it ends with the process wherever it is,
\* and the system closes what is open.
Exit ==
    /\ pc["main"] = "exit"
    /\ pc' = [t \in Threads |-> IF t = "main" THEN "gone" ELSE "done"]
    /\ open' = FALSE
    /\ UNCHANGED <<connected, socket, outVars, inVars, serverVars>>

(***************************************************************************)
(* The server's end.                                                       *)
(***************************************************************************)

ServerSends ==
    /\ server = "open" /\ pc["main"] # "dial"
    /\ arrived < MaxIn
    /\ arrived' = arrived + 1
    /\ UNCHANGED <<pc, flagVars, outVars, inVars, server, drained>>

ServerReads ==
    /\ drained < Len(wire)
    /\ drained' = drained + 1
    /\ UNCHANGED <<pc, flagVars, outVars, inVars, server, arrived>>

ServerCloses ==
    /\ server = "open" /\ pc["main"] # "dial"
    /\ server' = "closed"
    /\ UNCHANGED <<pc, flagVars, outVars, inVars, arrived, drained>>

User == Blank \/ Quit \/ Text \/ TextRefused

Main ==
    \/ Dial \/ DialFail \/ Start \/ Check \/ EnterSend \/ FinishSend \/ SendError
    \/ Disconnect("main") \/ Exit

Receive == RecvCheck \/ Recv \/ RecvEnd \/ Show \/ Disconnect("receive")

Next ==
    \/ Main \/ Shake \/ ShakeFail \/ User \/ Interrupt \/ Receive
    \/ ServerSends \/ ServerReads \/ ServerCloses

Spec == Init /\ [][Next]_vars

\* The threads run, and the end of the connection reaches a thread that waits
\* for the ServerHello.  Nobody has to type, to send or to close anything.
FairSpec ==
    /\ Spec
    /\ WF_vars(Main)
    /\ WF_vars(Receive)
    /\ WF_vars(server = "closed" /\ ShakeFail)

(***************************************************************************)
(* Properties.                                                             *)
(***************************************************************************)

Sending == pc["main"] \in {"send", "sending"}

\* Before the handshake is done, or when it has failed.
Greeting ==
    \/ pc["main"] \in {"dial", "shake"}
    \/ pc["receive"] = "none" /\ pc["main"] # "start"

\* The connection is over: the process has ended, or the socket is closed and
\* neither thread is inside a system call on it or has records left to show.
Gone ==
    \/ pc["main"] = "gone"
    \/ ~open /\ pc["main"] # "sending" /\ pc["receive"] \notin {"recv", "show"}

TypeOK ==
    /\ pc["main"] \in {"dial", "shake", "start", "check", "input", "send", "sending",
                       "bye", "close", "clear", "exit", "gone"}
    /\ pc["receive"] \in {"none", "check", "recv", "show", "bye", "close", "clear", "done"}
    /\ connected \in BOOLEAN /\ socket \in BOOLEAN /\ open \in BOOLEAN
    /\ ~socket => ~open
    /\ refused \in BOOLEAN
    /\ typed \in 0..MaxLines /\ num = IF refused THEN typed - 1 ELSE typed
    /\ Len(wire) \in 0..typed
    /\ fate \in {"none", "reported", "silent"}
    /\ interrupted \in BOOLEAN
    /\ server \in {"open", "closed"}
    /\ arrived \in 0..MaxIn /\ taken \in 0..arrived /\ shown \in 0..taken
    /\ drained \in 0..Len(wire)

\* A record number is spent before send() may fail, yet the numbers on the
\* connection have no gap, which is what RecordLayer takes for granted of its
\* writer: after a failure nothing more is written.
NoGap == \A i \in 1..Len(wire) : wire[i] = i - 1

\* Every line that was typed is on the connection, but for the last one, and that
\* one only if it could not be made a record, the user interrupted the program or
\* the server closed.  The loss is logged, except after Ctrl-C, and except when the
\* receive thread had given the connection up before the line was taken up.
LossExplained ==
    typed # Len(wire) /\ ~Sending =>
        /\ typed = Len(wire) + 1
        /\ \/ interrupted
           \/ fate = "reported" /\ (refused \/ server = "closed")
           \/ fate = "silent" /\ server = "closed" /\ pc["receive"] \in {"close", "clear", "done"}

\* As long as connected stands, someone reads: the program does not take lines
\* on a connection whose end nobody would notice.
ReaderAlive ==
    connected /\ pc["main"] \in {"check", "input", "send", "sending"} =>
        pc["receive"] \in {"check", "recv", "show", "bye"}

\* With two threads disconnecting at any moment, the program is a Peer.
AsPeer == INSTANCE Peer WITH
    state <- IF Gone THEN "down" ELSE IF Greeting THEN "hello" ELSE "up",
    sent <- Len(wire)

ImplementsPeer == AsPeer!Spec

\* When the server closes, the connection is given up at this end too, even if
\* nobody types a line.
EndNoticed == (server = "closed") ~> Gone

\* And the program ends, provided that the user, asked for a line, types one.
ProgramEnds == WF_vars(User) => ((server = "closed") ~> (pc["main"] = "gone"))
=============================================================================
