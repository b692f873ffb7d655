---------------------------- MODULE MCTierStorage ----------------------------
(* TierStorage with two tiers of two places, so that a scan can move two     *)
(* blocks or stop after the first one, and payloads that are too short and   *)
(* too long for a buffer of two bytes.                                       *)
EXTENDS TierStorage, TLC

MCTierCapacity == [GpuSim |-> 2, Host |-> 2]

MCInputs == {<<1>>, <<2, 3, 4>>}

\* The GPU tier moves 2 bytes per ns, the host tier 2 bytes in 3 ns.
MCLatency ==
    [model |-> "bandwidth", base_ns |-> 1,
     bytes_per_ns |-> [GpuSim |-> [num |-> 2, den |-> 1], Host |-> [num |-> 2, den |-> 3]]]

Symmetry == Permutations(Blocks)

=============================================================================
