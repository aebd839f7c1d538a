---------------------------- MODULE MCCoordinator ----------------------------
(* Instances of Coordinator for the invariants: the clients are alike.       *)
EXTENDS Coordinator, TLC

Clients == Permutations(Client)
=============================================================================
