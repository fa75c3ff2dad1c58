------------------------------ MODULE Broadcast ------------------------------
(***************************************************************************)
(* What the relay chat promises its users, without threads, sockets or     *)
(* keys: a best-effort broadcast.  A client sees messages of the others    *)
(* only, only ones that were sent, those of one sender in the order they   *)
(* were sent and each at most once.  Messages may be missing, and two      *)
(* clients may see two senders in different orders.                        *)
(***************************************************************************)
EXTENDS Naturals, Sequences

CONSTANT Clients

VARIABLES
    sent,   \* how many messages each client has sent
    out     \* the messages each client has been shown, in order

vars == <<sent, out>>

Init ==
    /\ sent = [c \in Clients |-> 0]
    /\ out = [c \in Clients |-> <<>>]

Send(c) ==
    /\ sent' = [sent EXCEPT ![c] = @ + 1]
    /\ UNCHANGED out

Show(r, c, n) ==
    /\ r # c
    /\ n \in 1..sent[c]
    /\ \A i \in 1..Len(out[r]) : out[r][i].from = c => out[r][i].num < n
    /\ out' = [out EXCEPT ![r] = Append(@, [from |-> c, num |-> n])]
    /\ UNCHANGED sent

Next ==
    \/ \E c \in Clients : Send(c)
    \/ \E r, c \in Clients : \E n \in 1..sent[c] : Show(r, c, n)

Spec == Init /\ [][Next]_vars
=============================================================================
