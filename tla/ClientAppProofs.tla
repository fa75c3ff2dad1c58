--------------------------- MODULE ClientAppProofs ---------------------------
(***************************************************************************)
(* What ClientApp guarantees however many lines the user types and records *)
(* the server sends, and whatever fits between them:                       *)
(*   TypeCorrect   the variables keep their types, and a socket that is    *)
(*                 dropped is closed;                                      *)
(*   Gapless       the record numbers on the connection have no gap;       *)
(*   LossIsTold    a line that is not on the connection is accounted for;  *)
(*   SomeoneReads  while connected stands, the receive thread is there;    *)
(*   IsPeer        the two threads together behave as one Peer.            *)
(* The places of the two threads and the flags they share depend on each   *)
(* other; Inv spells out how.                                              *)
(***************************************************************************)
EXTENDS ClientApp, TLAPS

USE BoundsAssumption

\* The main thread has left its loop, or never comes to it.
Leaving == pc["main"] \in {"bye", "close", "clear", "exit", "gone"}

InLoop == pc["main"] \in {"check", "input", "send", "sending"}

\* The receive thread is in disconnect(), behind connected = False.
Finishing == pc["receive"] \in {"close", "clear", "done"}

\* The receive thread runs from the end of the handshake to its own end or
\* that of the process.
Threading ==
    /\ DOMAIN pc = Threads
    /\ pc["main"] \in {"dial", "shake", "start"} => pc["receive"] = "none"
    /\ InLoop => pc["receive"] # "none"
    /\ pc["main"] = "gone" => pc["receive"] = "done"
    /\ pc["receive"] = "show" => shown < taken

\* connected falls before the socket is closed, whoever closes it.
Flags ==
    /\ pc["main"] \in {"close", "clear", "exit", "gone"} => ~connected
    /\ Finishing => ~connected
    /\ ~open => ~connected
    /\ ~open /\ ~Leaving => pc["receive"] \in {"clear", "done"}
    /\ \A t \in Threads : pc[t] = "clear" => ~open
    /\ pc["main"] \in {"shake", "start"} => connected

\* As long as the main thread is at work, only the receive thread gives the
\* connection up, and only because the server has closed it.
Cause ==
    ~Leaving =>
        /\ pc["receive"] \in {"bye", "close", "clear", "done"} => server = "closed"
        /\ ~connected /\ InLoop => Finishing

\* What has been typed is on the connection, but for the line in hand.
Books ==
    /\ wire \in Seq(Nat)
    /\ refused => Leaving
    /\ Sending => typed = Len(wire) + 1
    /\ ~Sending /\ ~Leaving => typed = Len(wire)

Inv == TypeOK /\ Threading /\ Flags /\ Cause /\ Books /\ NoGap /\ LossExplained

-----------------------------------------------------------------------------

\* The invariant holds when the program starts.
LEMMA InvInit == Init => Inv
  <1> SUFFICES ASSUME Init PROVE Inv
    OBVIOUS
  <1>1. DOMAIN pc = Threads /\ pc["main"] = "dial" /\ pc["receive"] = "none"
    BY DEF Init, Threads
  <1>2. TypeOK
    <2>1. /\ Len(wire) = 0 /\ typed = 0 /\ num = 0 /\ ~refused /\ refused \in BOOLEAN
          /\ arrived = 0 /\ taken = 0 /\ shown = 0 /\ drained = 0
      BY DEF Init
    <2>2. /\ connected \in BOOLEAN /\ socket \in BOOLEAN /\ open \in BOOLEAN
          /\ interrupted \in BOOLEAN /\ socket
      BY DEF Init
    <2>3. fate = "none" /\ server = "open"
      BY DEF Init
    <2> QED BY <1>1, <2>1, <2>2, <2>3 DEF TypeOK
  <1>3. Threading /\ Flags /\ Cause
    BY <1>1 DEF Init, Threading, Flags, Cause, Leaving, InLoop, Finishing, Threads
  <1>4. Books /\ NoGap /\ LossExplained
    BY <1>1 DEF Init, Books, NoGap, LossExplained, Sending, Leaving
  <1> QED BY <1>2, <1>3, <1>4 DEF Inv

\* Every step keeps the types: a line is on the connection at most once, and
\* the socket is dropped only when it has been closed.
LEMMA TypeStep == Inv /\ [Next]_vars => TypeOK'
  <1> SUFFICES ASSUME Inv, [Next]_vars PROVE TypeOK'
    OBVIOUS
  <1> USE DEF Inv, TypeOK, Threading, Flags, Books, Sending, Threads, Goto, flagVars, outVars, inVars, serverVars
  <1>1. CASE Dial
    BY <1>1 DEF Dial
  <1>2. CASE DialFail
    BY <1>2 DEF DialFail
  <1>3. CASE Shake
    BY <1>3 DEF Shake
  <1>4. CASE ShakeFail
    BY <1>4 DEF ShakeFail
  <1>5. CASE Start
    BY <1>5 DEF Start
  <1>6. CASE Check
    BY <1>6 DEF Check
  <1>7. CASE Blank
    BY <1>7 DEF Blank
  <1>8. CASE Quit
    BY <1>8 DEF Quit
  <1>9. CASE Text
    BY <1>9 DEF Text
  <1>26. CASE TextRefused
    BY <1>26 DEF TextRefused, Fail, Leaving
  <1>10. CASE EnterSend
    BY <1>10 DEF EnterSend, Fail
  <1>11. CASE FinishSend
    <2>1. wire' = Append(wire, num - 1) /\ UNCHANGED <<typed, num, drained>>
      BY <1>11 DEF FinishSend
    <2>2. Len(wire') = Len(wire) + 1 /\ Len(wire) + 1 = typed
      BY <1>11, <2>1 DEF FinishSend
    <2> QED BY <1>11, <2>1, <2>2 DEF FinishSend
  <1>12. CASE SendError
    BY <1>12 DEF SendError, Fail
  <1>13. CASE Interrupt
    BY <1>13 DEF Interrupt
  <1>14. CASE RecvCheck
    BY <1>14 DEF RecvCheck
  <1>15. CASE Recv
    BY <1>15 DEF Recv
  <1>16. CASE RecvEnd
    BY <1>16 DEF RecvEnd
  <1>17. CASE Show
    BY <1>17 DEF Show
  <1>18. ASSUME NEW t \in Threads, Bye(t, End(t)) PROVE TypeOK'
    BY <1>18 DEF Bye, End
  <1>19. ASSUME NEW t \in Threads, Close(t) PROVE TypeOK'
    BY <1>19 DEF Close, End
  <1>20. ASSUME NEW t \in Threads, Clear(t, End(t)) PROVE TypeOK'
    BY <1>20 DEF Clear, End
  <1>21. CASE Exit
    BY <1>21 DEF Exit
  <1>22. CASE ServerSends
    BY <1>22 DEF ServerSends
  <1>23. CASE ServerReads
    BY <1>23 DEF ServerReads
  <1>24. CASE ServerCloses
    BY <1>24 DEF ServerCloses
  <1>25. CASE UNCHANGED vars
    BY <1>25 DEF vars
  <1> QED
    BY <1>1, <1>2, <1>3, <1>4, <1>5, <1>6, <1>7, <1>8, <1>9, <1>10, <1>11, <1>12, <1>13,
       <1>14, <1>15, <1>16, <1>17, <1>18, <1>19, <1>20, <1>21, <1>22, <1>23, <1>24, <1>25, <1>26
       DEF Next, Main, User, Receive, Disconnect

\* Every step keeps what ties the places of the threads to the flags.
LEMMA CoordinationStep == Inv /\ [Next]_vars => (Threading /\ Flags /\ Cause)'
  <1> SUFFICES ASSUME Inv, [Next]_vars PROVE (Threading /\ Flags /\ Cause)'
    OBVIOUS
  <1> USE DEF Inv, TypeOK, Threading, Flags, Cause, Leaving, InLoop, Finishing, Threads,
             Goto, flagVars, outVars, inVars, serverVars
  <1>1. CASE Dial
    BY <1>1 DEF Dial
  <1>2. CASE DialFail
    BY <1>2 DEF DialFail
  <1>3. CASE Shake
    BY <1>3 DEF Shake
  <1>4. CASE ShakeFail
    BY <1>4 DEF ShakeFail
  <1>5. CASE Start
    BY <1>5 DEF Start
  <1>6. CASE Check
    BY <1>6 DEF Check
  <1>7. CASE Blank
    BY <1>7 DEF Blank
  <1>8. CASE Quit
    BY <1>8 DEF Quit
  <1>9. CASE Text
    BY <1>9 DEF Text
  <1>26. CASE TextRefused
    BY <1>26 DEF TextRefused, Fail
  <1>10. CASE EnterSend
    BY <1>10 DEF EnterSend, Fail
  <1>11. CASE FinishSend
    BY <1>11 DEF FinishSend
  <1>12. CASE SendError
    BY <1>12 DEF SendError, Fail
  <1>13. CASE Interrupt
    BY <1>13 DEF Interrupt
  <1>14. CASE RecvCheck
    BY <1>14 DEF RecvCheck
  <1>15. CASE Recv
    BY <1>15 DEF Recv
  <1>16. CASE RecvEnd
    BY <1>16 DEF RecvEnd
  <1>17. CASE Show
    BY <1>17 DEF Show
  <1>18. ASSUME NEW t \in Threads, Bye(t, End(t)) PROVE (Threading /\ Flags /\ Cause)'
    BY <1>18 DEF Bye, End
  <1>19. ASSUME NEW t \in Threads, Close(t) PROVE (Threading /\ Flags /\ Cause)'
    BY <1>19 DEF Close, End
  <1>20. ASSUME NEW t \in Threads, Clear(t, End(t)) PROVE (Threading /\ Flags /\ Cause)'
    BY <1>20 DEF Clear, End
  <1>21. CASE Exit
    BY <1>21 DEF Exit
  <1>22. CASE ServerSends
    BY <1>22 DEF ServerSends
  <1>23. CASE ServerReads
    BY <1>23 DEF ServerReads
  <1>24. CASE ServerCloses
    BY <1>24 DEF ServerCloses
  <1>25. CASE UNCHANGED vars
    BY <1>25 DEF vars
  <1> QED
    BY <1>1, <1>2, <1>3, <1>4, <1>5, <1>6, <1>7, <1>8, <1>9, <1>10, <1>11, <1>12, <1>13,
       <1>14, <1>15, <1>16, <1>17, <1>18, <1>19, <1>20, <1>21, <1>22, <1>23, <1>24, <1>25, <1>26
       DEF Next, Main, User, Receive, Disconnect

\* Every step keeps the account of the lines: what is written continues the
\* numbering, and a line is given up only by Ctrl-C or when the server closed.
LEMMA AccountStep == Inv /\ [Next]_vars => (Books /\ NoGap /\ LossExplained)'
  <1> SUFFICES ASSUME Inv, [Next]_vars PROVE (Books /\ NoGap /\ LossExplained)'
    OBVIOUS
  <1> USE DEF Inv, TypeOK, Threading, Flags, Cause, Books, NoGap, LossExplained, Leaving,
             InLoop, Finishing, Sending, Threads, Goto, flagVars, outVars, inVars, serverVars
  <1>1. CASE Dial
    BY <1>1 DEF Dial
  <1>2. CASE DialFail
    BY <1>2 DEF DialFail
  <1>3. CASE Shake
    BY <1>3 DEF Shake
  <1>4. CASE ShakeFail
    BY <1>4 DEF ShakeFail
  <1>5. CASE Start
    BY <1>5 DEF Start
  <1>6. CASE Check
    BY <1>6 DEF Check
  <1>7. CASE Blank
    BY <1>7 DEF Blank
  <1>8. CASE Quit
    BY <1>8 DEF Quit
  <1>9. CASE Text
    BY <1>9 DEF Text
  <1>26. CASE TextRefused
    BY <1>26 DEF TextRefused, Fail
  <1>10. CASE EnterSend
    BY <1>10 DEF EnterSend, Fail
  <1>11. CASE FinishSend
    <2>1. wire' = Append(wire, num - 1) /\ pc'["main"] = "check" /\ pc'["receive"] = pc["receive"]
          /\ UNCHANGED <<typed, num, refused>>
      BY <1>11 DEF FinishSend
    <2>2. pc["main"] = "sending" /\ num - 1 = Len(wire) /\ num - 1 \in Nat
      BY <1>11 DEF FinishSend
    <2>3. wire' \in Seq(Nat) /\ Len(wire') = typed'
      BY <2>1, <2>2
    <2>4. NoGap'
      <3>1. wire' = Append(wire, Len(wire)) /\ wire \in Seq(Nat) /\ Len(wire) \in Nat
        BY <2>1, <2>2
      <3>2. /\ \A i \in 1..Len(wire) : wire[i] = i - 1
            /\ Len(wire') = Len(wire) + 1 /\ wire'[Len(wire) + 1] = Len(wire)
            /\ \A i \in 1..Len(wire) : wire'[i] = wire[i]
        BY <3>1
      <3> QED BY ONLY <3>1, <3>2 DEF NoGap
    <2>5. ~Leaving /\ ~Leaving' /\ ~Sending'
      BY <2>1, <2>2
    <2> QED BY <2>1, <2>3, <2>4, <2>5
  <1>12. CASE SendError
    BY <1>12 DEF SendError, Fail
  <1>13. CASE Interrupt
    BY <1>13 DEF Interrupt
  <1>14. CASE RecvCheck
    BY <1>14 DEF RecvCheck
  <1>15. CASE Recv
    BY <1>15 DEF Recv
  <1>16. CASE RecvEnd
    BY <1>16 DEF RecvEnd
  <1>17. CASE Show
    BY <1>17 DEF Show
  <1>18. ASSUME NEW t \in Threads, Bye(t, End(t)) PROVE (Books /\ NoGap /\ LossExplained)'
    BY <1>18 DEF Bye, End
  <1>19. ASSUME NEW t \in Threads, Close(t) PROVE (Books /\ NoGap /\ LossExplained)'
    BY <1>19 DEF Close, End
  <1>20. ASSUME NEW t \in Threads, Clear(t, End(t)) PROVE (Books /\ NoGap /\ LossExplained)'
    BY <1>20 DEF Clear, End
  <1>21. CASE Exit
    BY <1>21 DEF Exit
  <1>22. CASE ServerSends
    BY <1>22 DEF ServerSends
  <1>23. CASE ServerReads
    BY <1>23 DEF ServerReads
  <1>24. CASE ServerCloses
    BY <1>24 DEF ServerCloses
  <1>25. CASE UNCHANGED vars
    BY <1>25 DEF vars
  <1> QED
    BY <1>1, <1>2, <1>3, <1>4, <1>5, <1>6, <1>7, <1>8, <1>9, <1>10, <1>11, <1>12, <1>13,
       <1>14, <1>15, <1>16, <1>17, <1>18, <1>19, <1>20, <1>21, <1>22, <1>23, <1>24, <1>25, <1>26
       DEF Next, Main, User, Receive, Disconnect

\* The invariant holds in every reachable state.
LEMMA Invariance == Spec => []Inv
  <1>1. Inv /\ [Next]_vars => Inv'
    BY TypeStep, CoordinationStep, AccountStep DEF Inv
  <1> QED BY <1>1, InvInit, PTL DEF Spec

\* Every reachable state has the types of TypeOK; a socket that disconnect()
\* has dropped is closed, whichever thread was in it.
THEOREM TypeCorrect == Spec => []TypeOK
  <1>1. Inv => TypeOK
    BY DEF Inv
  <1> QED BY <1>1, Invariance, PTL

\* However often send() fails or is interrupted, the record numbers on the
\* connection have no gap.
THEOREM Gapless == Spec => []NoGap
  <1>1. Inv => NoGap
    BY DEF Inv
  <1> QED BY <1>1, Invariance, PTL

\* Every line but the last is on the connection; the last one may be lost to
\* Ctrl-C, to its own length or to a server that closed, and the loss is logged
\* unless it was Ctrl-C or the receive thread had disconnected before.
THEOREM LossIsTold == Spec => []LossExplained
  <1>1. Inv => LossExplained
    BY DEF Inv
  <1> QED BY <1>1, Invariance, PTL

\* While connected stands, the receive thread is there to notice the end.
THEOREM SomeoneReads == Spec => []ReaderAlive
  <1>1. Inv => ReaderAlive
    BY DEF Inv, TypeOK, Threading, Flags, InLoop, Finishing, ReaderAlive
  <1> QED BY <1>1, Invariance, PTL

-----------------------------------------------------------------------------

State == IF Gone THEN "down" ELSE IF Greeting THEN "hello" ELSE "up"

\* Once the program is gone it stays gone: no thread enters a system call on
\* the closed socket, and the receive thread does not read on.
LEMMA GoneForGood == Inv /\ [Next]_vars /\ Gone => Gone'
  <1> SUFFICES ASSUME Inv, [Next]_vars, Gone PROVE Gone'
    OBVIOUS
  <1> USE DEF Inv, TypeOK, Threading, Flags, Gone, Threads, Goto, flagVars
  <1>1. CASE Main
    BY <1>1 DEF Main, Dial, DialFail, Start, Check, EnterSend, FinishSend, SendError, Fail,
                Disconnect, Bye, Close, Clear, End, Exit
  <1>2. CASE Shake \/ ShakeFail \/ User \/ Interrupt
    BY <1>2 DEF Shake, ShakeFail, User, Blank, Quit, Text, TextRefused, Fail, Interrupt
  <1>3. CASE Receive
    BY <1>3 DEF Receive, RecvCheck, Recv, RecvEnd, Show, Disconnect, Bye, Close, Clear, End
  <1>4. CASE ServerSends \/ ServerReads \/ ServerCloses \/ UNCHANGED vars
    BY <1>4 DEF ServerSends, ServerReads, ServerCloses, vars
  <1> QED BY <1>1, <1>2, <1>3, <1>4 DEF Next

\* A program whose receive thread has started greets no more.
LEMMA GreetingEnds == Inv /\ [Next]_vars /\ ~Greeting => ~Greeting'
  <1> SUFFICES ASSUME Inv, [Next]_vars, ~Greeting PROVE ~Greeting'
    OBVIOUS
  <1> USE DEF Inv, TypeOK, Threading, Greeting, Threads, Goto
  <1>1. CASE Main
    BY <1>1 DEF Main, Dial, DialFail, Start, Check, EnterSend, FinishSend, SendError, Fail,
                Disconnect, Bye, Close, Clear, End, Exit
  <1>2. CASE Shake \/ ShakeFail \/ User \/ Interrupt
    BY <1>2 DEF Shake, ShakeFail, User, Blank, Quit, Text, TextRefused, Fail, Interrupt
  <1>3. CASE Receive
    BY <1>3 DEF Receive, RecvCheck, Recv, RecvEnd, Show, Disconnect, Bye, Close, Clear, End
  <1>4. CASE ServerSends \/ ServerReads \/ ServerCloses \/ UNCHANGED vars
    BY <1>4 DEF ServerSends, ServerReads, ServerCloses, vars
  <1> QED BY <1>1, <1>2, <1>3, <1>4 DEF Next

\* Only while it is up does the program write, receive or show a record, and
\* each step does one of them.
LEMMA OneThingAtATime ==
    ASSUME Inv, [Next]_vars
    PROVE  \/ State = "up" /\ Len(wire') = Len(wire) + 1 /\ UNCHANGED <<taken, shown>>
           \/ State = "up" /\ taken' > taken /\ UNCHANGED <<wire, shown>>
           \/ State = "up" /\ shown < taken /\ shown' = shown + 1 /\ UNCHANGED <<wire, taken>>
           \/ UNCHANGED <<wire, taken, shown>>
  <1> USE DEF Inv, Threading, Threads, Goto, State, Gone, Greeting
  <1>1. CASE FinishSend
    BY <1>1 DEF FinishSend, Books, InLoop, inVars
  <1>2. CASE Recv
    BY <1>2 DEF Recv, TypeOK, outVars
  <1>3. CASE Show
    BY <1>3 DEF Show, TypeOK, outVars
  <1>4. CASE Main /\ ~FinishSend
    BY <1>4 DEF Main, Dial, DialFail, Start, Check, EnterSend, SendError, Fail,
                Disconnect, Bye, Close, Clear, Exit, outVars, inVars
  <1>5. CASE Shake \/ ShakeFail \/ User \/ Interrupt
    BY <1>5 DEF Shake, ShakeFail, User, Blank, Quit, Text, TextRefused, Fail, Interrupt, outVars, inVars
  <1>6. CASE Receive /\ ~Recv /\ ~Show
    BY <1>6 DEF Receive, RecvCheck, RecvEnd, Disconnect, Bye, Close, Clear, outVars, inVars
  <1>7. CASE ServerSends \/ ServerReads \/ ServerCloses \/ UNCHANGED vars
    BY <1>7 DEF ServerSends, ServerReads, ServerCloses, vars, outVars, inVars
  <1> QED BY <1>1, <1>2, <1>3, <1>4, <1>5, <1>6, <1>7 DEF Next

\* The program starts as a Peer starts, and every step is one of Peer's or
\* changes nothing a Peer has: the server may take it for one, whichever thread
\* disconnects, and when.
THEOREM IsPeer == Spec => ImplementsPeer
  <1>1. Init => AsPeer!Init
    BY DEF Init, AsPeer!Init, Gone, Greeting, Threads
  <1>2. ASSUME Inv, [Next]_vars
        PROVE  [AsPeer!Next]_(AsPeer!vars)
    <2> USE DEF AsPeer!Next, AsPeer!Connect, AsPeer!Last, AsPeer!Send, AsPeer!Take, AsPeer!Show,
                AsPeer!Leave, AsPeer!vars
    <2>1. State \in {"hello", "up", "down"} /\ State' \in {"hello", "up", "down"}
      BY DEF State
    <2>2. (State = "down" => State' = "down") /\ (State = "up" => State' \in {"up", "down"})
      BY <1>2, GoneForGood, GreetingEnds DEF State
    <2> QED BY <1>2, <2>1, <2>2, OneThingAtATime DEF State
  <1>3. Spec => [][AsPeer!Next]_(AsPeer!vars)
    BY <1>2, Invariance, PTL DEF Spec
  <1> QED BY <1>1, <1>3, PTL DEF Spec, ImplementsPeer, AsPeer!Spec
=============================================================================
