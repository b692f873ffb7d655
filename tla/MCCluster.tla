------------------------------ MODULE MCCluster ------------------------------
(* Two workers with small pools and short workloads.                         *)
EXTENDS Cluster, TLC

\* Requests of one block, for pools of one slot
TwoBlocks == {<<"x">>, <<"y">>}
ThreeOfTwo == [k \in 1 .. 3 |-> TwoBlocks]

\* Two requests that share their first block, that block alone, and another one
Fork == {<<"x">>, <<"x", "y">>, <<"x", "z">>, <<"w">>}
ThreeOfFork == [k \in 1 .. 3 |-> Fork]

\* A chain of three blocks; two requests in between evict its first block.
Chain == {<<"x">>, <<"x", "y">>, <<"x", "y", "z">>, <<"v">>, <<"w">>}
ChainTorn ==
    <<{<<"x", "y", "z">>}, {<<"x", "y">>}, {<<"v">>}, {<<"w">>}, {<<"x", "y", "z">>}>>

Symmetry == Permutations(Handles)

=============================================================================
