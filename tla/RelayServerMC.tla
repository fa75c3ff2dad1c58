---------------------------- MODULE RelayServerMC ----------------------------
(* Instances of RelayServer for TLC. *)
EXTENDS RelayServer, TLC

\* Clients with the same role are interchangeable: no action and no property
\* of the safety runs tells two senders apart.
SenderSymmetry == Permutations(Senders)
=============================================================================
