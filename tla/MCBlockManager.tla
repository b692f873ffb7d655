--------------------------- MODULE MCBlockManager ---------------------------
(* BlockManager on a small pool, with callers that hold up to two handles. *)
EXTENDS BlockManager, TLC

\* Handles and hashes are interchangeable.
Symmetry == Permutations(Handles) \cup Permutations(Hashes)

=============================================================================
