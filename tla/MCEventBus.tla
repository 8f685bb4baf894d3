---------------------------- MODULE MCEventBus ----------------------------
(* Instances of EventBus for TLC. *)
EXTENDS EventBus, TLC

CONSTANTS c1, c2
MCClients == {c1, c2}
Symmetry == Permutations(MCClients)
=============================================================================
