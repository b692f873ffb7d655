------------------------------ MODULE PrefixMap ------------------------------
(***************************************************************************)
(* What the prefix index of a worker promises, without its radix tree: a   *)
(* map from block-aligned token prefixes to blocks.  A path is a nonempty  *)
(* sequence of block contents (the tokens of one block each, the context   *)
(* hash being part of the first), so the prefixes of a path are the block  *)
(* boundaries at which PrefixIndex keeps a terminal_block.                 *)
(*                                                                         *)
(* PrefixIndex (the radix tree) implements this module; LocalCache uses it *)
(* through PrefixLookupEngine.                                             *)
(***************************************************************************)
EXTENDS Integers, Sequences, FiniteSets

CONSTANTS
    Paths,      \* the prefixes that occur, closed under nonempty prefixes
    Ids,        \* block ids
    NoId,       \* no terminal_block at this boundary
    NoPath      \* id is not in block_node_index_

ASSUME PathsAssumption ==
    /\ Paths \subseteq Seq(UNION {{p[i] : i \in 1 .. Len(p)} : p \in Paths})
    /\ \A p \in Paths : Len(p) > 0
    /\ \A p \in Paths : \A i \in 1 .. Len(p) : SubSeq(p, 1, i) \in Paths
ASSUME NoneAssumption == NoId \notin Ids /\ NoPath \notin Paths

VARIABLES
    terminals,  \* the block at the end of each prefix (Node::terminal_block)
    block_node  \* the node of each block (block_node_index_), as its prefix

pmVars == <<terminals, block_node>>

TypeOK ==
    /\ terminals \in [Paths -> Ids \cup {NoId}]
    /\ block_node \in [Ids -> Paths \cup {NoPath}]

Init ==
    /\ terminals = [p \in Paths |-> NoId]
    /\ block_node = [b \in Ids |-> NoPath]

-----------------------------------------------------------------------------

Prefix(p, i) == SubSeq(p, 1, i)
Parent(p) == SubSeq(p, 1, Len(p) - 1)

\* The prefixes of p are all mapped up to and including block i.
Contiguous(p, i) == \A j \in 1 .. i : terminals[Prefix(p, j)] # NoId

matchedBlocks(p) ==
    CHOOSE k \in 0 .. Len(p) :
        /\ Contiguous(p, k)
        /\ k < Len(p) => ~ Contiguous(p, k + 1)

\* PrefixIndex::lookup: the blocks of the longest gapless mapped prefix of p
lookup(p) == [i \in 1 .. matchedBlocks(p) |-> terminals[Prefix(p, i)]]

\* The block boundaries along p that have no block yet
Gaps(p) == {i \in 1 .. Len(p) : terminals[Prefix(p, i)] = NoId}

\* PrefixIndex::insert(tokens, blocks): fills the gaps along p and leaves a
\* boundary that already has a block alone; a block given for several gaps
\* is indexed at the last of them.
insert(p, blocks) ==
    /\ terminals' = [q \in Paths |->
          IF \E i \in Gaps(p) : q = Prefix(p, i) THEN blocks[Len(q)] ELSE terminals[q]]
    /\ block_node' = [b \in Ids |->
          LET at == {i \in Gaps(p) : blocks[i] = b}
          IN IF at = {} THEN block_node[b]
             ELSE Prefix(p, CHOOSE i \in at : \A j \in at : j <= i)]

\* Mutant: the node keeps its terminal_block.
remove_keepsTerminal(b) ==
    /\ block_node' = [block_node EXCEPT ![b] = NoPath]
    /\ UNCHANGED terminals

\* PrefixIndex::remove(id)
remove(b) ==
    /\ terminals' = IF block_node[b] = NoPath THEN terminals
                    ELSE [terminals EXCEPT ![block_node[b]] = NoId]
    /\ block_node' = [block_node EXCEPT ![b] = NoPath]

\* blockChildCount(id) and blockDescendantCount(id): the mapped prefixes one
\* block below the block's own, and all the mapped prefixes below it.
Below(b) ==
    IF block_node[b] = NoPath THEN {}
    ELSE {q \in Paths : /\ Len(q) > Len(block_node[b])
                        /\ Prefix(q, Len(block_node[b])) = block_node[b]
                        /\ terminals[q] # NoId}
blockChildCount(b) == Cardinality({q \in Below(b) : Len(q) = Len(block_node[b]) + 1})
blockDescendantCount(b) == Cardinality(Below(b))

-----------------------------------------------------------------------------
(* The callers insert one new block below a chain that lookup returned     *)
(* (AdmissionController::admit) and remove any block                       *)
(* (EvictionController::makeSpace).                                        *)

insertBlock(p, b) ==
    /\ block_node[b] = NoPath
    /\ terminals[p] = NoId
    /\ Contiguous(p, Len(p) - 1)
    /\ insert(p, Append([i \in 1 .. Len(p) - 1 |-> terminals[Prefix(p, i)]], b))

Next ==
    \/ \E p \in Paths, b \in Ids : insertBlock(p, b)
    \/ \E b \in Ids : remove(b)

Spec == Init /\ [][Next]_pmVars

-----------------------------------------------------------------------------

\* The two maps of the index are inverse to each other: a block is mapped at
\* exactly the prefix block_node_index_ has for it, so that removing a block
\* leaves no prefix that still leads to it.
MapsAreInverse ==
    /\ \A p \in Paths : terminals[p] # NoId => block_node[terminals[p]] = p
    /\ \A b \in Ids : block_node[b] # NoPath => terminals[block_node[b]] = b

=============================================================================
