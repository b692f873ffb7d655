---------------------------- MODULE MCPrefixIndex ----------------------------
(* PrefixIndex with blocks of three tokens.  The requests make edges split *)
(* after their first and after their second token, in the first block and  *)
(* in the second, and again where they were split before.                  *)
EXTENDS PrefixIndex, TLC

MCRequests ==
    {<<0, 0, 0>>, <<0, 0, 1>>, <<0, 1, 1>>,
     <<0, 0, 0, 1, 0, 0>>, <<0, 0, 0, 1, 1, 0>>}

Symmetry == Permutations(Ids) \cup Permutations(Contexts)

=============================================================================
