-------------------------------- MODULE Peer --------------------------------
(***************************************************************************)
(* What the server may expect of the program at the other end of a         *)
(* connection, whatever its threads do: it says hello once, sends and      *)
(* takes records only while it is up, shows only what it took, and once it *)
(* is gone nothing more comes from it.  RelayServer relies on this much    *)
(* when it lets a client be in one state at a time.                        *)
(***************************************************************************)
EXTENDS Naturals

VARIABLES
    state,   \* "hello", "up" or "down"
    sent,    \* records it has written
    taken,   \* records it has received
    shown    \* records it has displayed

vars == <<state, sent, taken, shown>>

Init == state = "hello" /\ sent = 0 /\ taken = 0 /\ shown = 0

Connect ==
    /\ state = "hello" /\ state' = "up"
    /\ UNCHANGED <<sent, taken, shown>>

\* Whatever a peer does while it is up may be the last it does.
Last == state = "up" /\ state' \in {"up", "down"}

Send ==
    /\ Last /\ sent' = sent + 1
    /\ UNCHANGED <<taken, shown>>

Take ==
    /\ Last /\ taken' > taken
    /\ UNCHANGED <<sent, shown>>

Show ==
    /\ Last /\ shown < taken /\ shown' = shown + 1
    /\ UNCHANGED <<sent, taken>>

Leave ==
    /\ state # "down" /\ state' = "down"
    /\ UNCHANGED <<sent, taken, shown>>

Next == Connect \/ Send \/ Take \/ Show \/ Leave

Spec == Init /\ [][Next]_vars
=============================================================================
