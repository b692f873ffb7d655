---------------------------- MODULE MCCoordinator ----------------------------
(* Coordinator with two nodes of one slot and two hashes, so that a        *)
(* reference can be announced under both.                                  *)
EXTENDS Coordinator, TLC

Symmetry == Permutations(Nodes) \cup Permutations(Hashes)

=============================================================================
