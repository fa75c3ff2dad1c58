----------------------------- MODULE RelayLinkMC -----------------------------
(* Instances of RelayLink for TLC. *)
EXTENDS RelayLink, TLC

\* Handlers are interchangeable; used where no liveness is checked.
HandlerSymmetry == Permutations(Handlers)
=============================================================================
