------------------------------- MODULE Channel -------------------------------
(***************************************************************************)
(* What the record layer promises for one direction of a connection: the   *)
(* payloads come out in the order they went in, none missing in between    *)
(* and none twice.                                                         *)
(***************************************************************************)
EXTENDS Naturals, Sequences

CONSTANT Contents   \* what can be sent

VARIABLES
    sent,   \* the payloads put in
    got     \* the payloads taken out

vars == <<sent, got>>

Init == sent = <<>> /\ got = <<>>

Put ==
    /\ \E c \in Contents : sent' = Append(sent, c)
    /\ UNCHANGED got

Take ==
    /\ Len(got) < Len(sent)
    /\ got' = Append(got, sent[Len(got) + 1])
    /\ UNCHANGED sent

Next == Put \/ Take

Spec == Init /\ [][Next]_vars
=============================================================================
