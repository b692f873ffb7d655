---------------------------- MODULE MCEventStream ----------------------------
(* A cache with two tiers and the streams it writes.  A chain of three       *)
(* blocks and another request compete for the places.                        *)
EXTENDS EventStream, TLC

DeepPaths == {<<"a">>, <<"a", "b">>, <<"a", "b", "c">>, <<"d">>}
OneAndTwo == [GpuSim |-> 1, Host |-> 2]

Symmetry == Permutations(Handles)

=============================================================================
