---------------------------- MODULE MCLocalCache ----------------------------
(* LocalCache on small pools.  The paths are two requests that share their *)
(* first block and a third one; with three slots their blocks              *)
(* compete for space.                                                      *)
EXTENDS LocalCache

MCPaths == {<<"a">>, <<"a", "b">>, <<"a", "c">>, <<"d">>}

OneAndTwo == [GpuSim |-> 1, Host |-> 2]

=============================================================================
