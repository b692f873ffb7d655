----------------------------- MODULE MCPrefixMap -----------------------------
(* PrefixMap on the prefixes of three requests, two of which share a block.  *)
EXTENDS PrefixMap, TLC

MCPaths == {<<"a">>, <<"a", "b">>, <<"a", "b", "c">>, <<"a", "d">>, <<"e">>}

Symmetry == Permutations(Ids)

=============================================================================
