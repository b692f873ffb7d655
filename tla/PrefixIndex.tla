----------------------------- MODULE PrefixIndex -----------------------------
(***************************************************************************)
(* PrefixIndex: a radix tree over tokens, one root per context hash, whose *)
(* nodes at block boundaries carry the block that ends there.  Nodes live  *)
(* in a vector that only grows: a pruned node is unlinked from its parent  *)
(* and never used again.                                                   *)
(*                                                                         *)
(* The tree implements the map PrefixMap.  Its walks are recursive         *)
(* operators on the tree as a value.                                       *)
(***************************************************************************)
EXTENDS Integers, Sequences, FiniteSets

CONSTANTS
    Contexts,   \* context hashes
    Tokens,     \* token ids
    BlockSize,  \* block_size_
    Requests,   \* the token sequences that occur, of whole blocks
    Ids, NoId,  \* block ids
    MaxNodes    \* bound: nothing is inserted once there are this many nodes

ASSUME BlockSizeAssumption == BlockSize \in Nat \ {0}
ASSUME RequestsAssumption ==
    \A r \in Requests : r \in Seq(Tokens) /\ Len(r) > 0 /\ Len(r) % BlockSize = 0

VARIABLES
    nodes,              \* nodes_, numbered from 1
    namespace_roots,    \* namespace_roots_
    block_node_index    \* block_node_index_

vars == <<nodes, namespace_roots, block_node_index>>

INVALID_NODE == 0

\* first_edge_token is edge_tokens[1] of every node but a root.
Node(edge, terminal, children, parent) ==
    [edge_tokens |-> edge, terminal_block |-> terminal,
     children |-> children, parent_idx |-> parent]
NoChildren == [t \in Tokens |-> INVALID_NODE]

TypeOK ==
    /\ \A n \in 1 .. Len(nodes) :
          /\ nodes[n].edge_tokens \in Seq(Tokens)
          /\ nodes[n].terminal_block \in Ids \cup {NoId}
          /\ nodes[n].children \in [Tokens -> 0 .. Len(nodes)]
          /\ nodes[n].parent_idx \in 0 .. Len(nodes)
    /\ namespace_roots \in [Contexts -> 0 .. Len(nodes)]
    /\ block_node_index \in [Ids -> 0 .. Len(nodes)]

Init ==
    /\ nodes = <<>>
    /\ namespace_roots = [c \in Contexts |-> INVALID_NODE]
    /\ block_node_index = [b \in Ids |-> INVALID_NODE]

Tree == [nodes |-> nodes, index |-> block_node_index]
Children(ns, n) == {ns[n].children[t] : t \in Tokens} \ {INVALID_NODE}

-----------------------------------------------------------------------------
(* lookup *)

\* The edge of node n is a prefix of what is left of tokens after pos.
EdgeMatches(n, tokens, pos) ==
    LET edge == nodes[n].edge_tokens
    IN /\ Len(tokens) - pos >= Len(edge)
       /\ SubSeq(tokens, pos + 1, pos + Len(edge)) = edge

\* Mutant: lookup walks on over a boundary that has no block.
RECURSIVE Descend_overGaps(_, _, _)
Descend_overGaps(n, tokens, pos) ==
    IF pos = Len(tokens) THEN <<>>
    ELSE LET child == nodes[n].children[tokens[pos + 1]]
         IN IF child = INVALID_NODE \/ ~ EdgeMatches(child, tokens, pos) THEN <<>>
            ELSE LET end == pos + Len(nodes[child].edge_tokens)
                     own == IF nodes[child].terminal_block = NoId THEN <<>>
                            ELSE <<nodes[child].terminal_block>>
                 IN own \o Descend_overGaps(child, tokens, end)

RECURSIVE Descend(_, _, _)
Descend(n, tokens, pos) ==
    IF pos = Len(tokens) THEN <<>>
    ELSE LET child == nodes[n].children[tokens[pos + 1]]
         IN IF child = INVALID_NODE \/ ~ EdgeMatches(child, tokens, pos) THEN <<>>
            ELSE LET end == pos + Len(nodes[child].edge_tokens)
                 IN IF end % BlockSize # 0 THEN Descend(child, tokens, end)
                    ELSE IF nodes[child].terminal_block = NoId THEN <<>>
                    ELSE <<nodes[child].terminal_block>> \o Descend(child, tokens, end)

lookup(ctx, tokens) ==
    IF tokens = <<>> \/ namespace_roots[ctx] = INVALID_NODE THEN <<>>
    ELSE Descend(namespace_roots[ctx], tokens, 0)

-----------------------------------------------------------------------------
(* insert *)

\* Mutant: the parent is given a number one past the new node's.
AddLeaf_numberTooHigh(tree, n, edge, block) ==
    LET new == Len(tree.nodes) + 1
    IN [nodes |-> Append([tree.nodes EXCEPT ![n].children[edge[1]] = new + 1],
                         Node(edge, block, NoChildren, n)),
        index |-> [tree.index EXCEPT ![block] = new]]

\* No path on from node n: a leaf takes the rest of the block's tokens.
AddLeaf(tree, n, edge, block) ==
    LET new == Len(tree.nodes) + 1
    IN [nodes |-> Append([tree.nodes EXCEPT ![n].children[edge[1]] = new],
                         Node(edge, block, NoChildren, n)),
        index |-> [tree.index EXCEPT ![block] = new]]

\* Node n ends at the block's boundary: it takes the block unless it has one.
SetTerminal(tree, n, block) ==
    IF tree.nodes[n].terminal_block # NoId THEN tree
    ELSE [nodes |-> [tree.nodes EXCEPT ![n].terminal_block = block],
          index |-> [tree.index EXCEPT ![block] = n]]

\* Mutant: the block's entry in block_node_index_ still names the upper node.
Split_keepsIndex(tree, n, lcp) ==
    LET new == Len(tree.nodes) + 1
        old == tree.nodes[n]
        rest == SubSeq(old.edge_tokens, lcp + 1, Len(old.edge_tokens))
        upper == Node(SubSeq(old.edge_tokens, 1, lcp), NoId,
                      [NoChildren EXCEPT ![rest[1]] = new], old.parent_idx)
        reparented == [m \in DOMAIN tree.nodes |->
            IF m = n THEN upper
            ELSE IF m \in Children(tree.nodes, n)
                 THEN [tree.nodes[m] EXCEPT !.parent_idx = new]
                 ELSE tree.nodes[m]]
    IN [nodes |-> Append(reparented, Node(rest, old.terminal_block, old.children, n)),
        index |-> tree.index]

\* Node n keeps the first lcp tokens of its edge; a new node below it takes the
\* other ones, with n's block and children.
Split(tree, n, lcp) ==
    LET new == Len(tree.nodes) + 1
        old == tree.nodes[n]
        rest == SubSeq(old.edge_tokens, lcp + 1, Len(old.edge_tokens))
        upper == Node(SubSeq(old.edge_tokens, 1, lcp), NoId,
                      [NoChildren EXCEPT ![rest[1]] = new], old.parent_idx)
        reparented == [m \in DOMAIN tree.nodes |->
            IF m = n THEN upper
            ELSE IF m \in Children(tree.nodes, n)
                 THEN [tree.nodes[m] EXCEPT !.parent_idx = new]
                 ELSE tree.nodes[m]]
    IN [nodes |-> Append(reparented, Node(rest, old.terminal_block, old.children, n)),
        index |-> IF old.terminal_block = NoId THEN tree.index
                  ELSE [tree.index EXCEPT ![old.terminal_block] = new]]

\* The length of the longest common prefix of two sequences
lcpLen(s, t) ==
    CHOOSE k \in 0 .. Len(s) :
        /\ k <= Len(t) /\ SubSeq(s, 1, k) = SubSeq(t, 1, k)
        /\ k = Len(s) \/ k = Len(t) \/ s[k + 1] # t[k + 1]

\* The loops of insert: at node n, with pos tokens consumed, in the k-th block
RECURSIVE InsertFrom(_, _, _, _, _, _)
InsertFrom(tree, tokens, blocks, n, pos, k) ==
    IF k > Len(blocks) THEN tree
    ELSE IF pos = k * BlockSize THEN InsertFrom(tree, tokens, blocks, n, pos, k + 1)
    ELSE
      LET left == SubSeq(tokens, pos + 1, k * BlockSize)
          child == tree.nodes[n].children[left[1]]
      IN IF child = INVALID_NODE
         THEN InsertFrom(AddLeaf(tree, n, left, blocks[k]), tokens, blocks,
                         Len(tree.nodes) + 1, k * BlockSize, k + 1)
         ELSE
           LET edge == tree.nodes[child].edge_tokens
               lcp == lcpLen(edge, left)
               next == IF lcp < Len(edge) THEN Split(tree, child, lcp)
                       ELSE IF lcp = Len(left) THEN SetTerminal(tree, child, blocks[k])
                       ELSE tree
           IN InsertFrom(next, tokens, blocks, child, pos + lcp, k)

insert(ctx, tokens, blocks) ==
    LET fresh == namespace_roots[ctx] = INVALID_NODE
        root == IF fresh THEN Len(nodes) + 1 ELSE namespace_roots[ctx]
        start == IF fresh THEN [Tree EXCEPT !.nodes =
                                   Append(@, Node(<<>>, NoId, NoChildren, INVALID_NODE))]
                 ELSE Tree
        end == InsertFrom(start, tokens, blocks, root, 0, 1)
    IN /\ nodes' = end.nodes
       /\ block_node_index' = end.index
       /\ namespace_roots' = [namespace_roots EXCEPT ![ctx] = root]

-----------------------------------------------------------------------------
(* remove *)

\* Mutant: the parents that become empty stay linked.
pruneIfEmpty_once(ns, n) ==
    IF \/ Children(ns, n) # {} \/ ns[n].terminal_block # NoId
       \/ ns[n].parent_idx = INVALID_NODE
    THEN ns
    ELSE [ns EXCEPT ![ns[n].parent_idx].children[ns[n].edge_tokens[1]] = INVALID_NODE]

RECURSIVE pruneIfEmpty(_, _)
pruneIfEmpty(ns, n) ==
    IF \/ Children(ns, n) # {} \/ ns[n].terminal_block # NoId
       \/ ns[n].parent_idx = INVALID_NODE
    THEN ns
    ELSE pruneIfEmpty([ns EXCEPT ![ns[n].parent_idx].children[ns[n].edge_tokens[1]]
                          = INVALID_NODE], ns[n].parent_idx)

remove(b) ==
    /\ LET n == block_node_index[b]
       IN nodes' = IF n = INVALID_NODE THEN nodes
                   ELSE pruneIfEmpty([nodes EXCEPT ![n].terminal_block = NoId], n)
    /\ block_node_index' = [block_node_index EXCEPT ![b] = INVALID_NODE]
    /\ UNCHANGED namespace_roots

-----------------------------------------------------------------------------
(* Counts for the eviction policies *)

\* Mutant: the children of the node are taken for its child blocks.
NodesAtDistance_children(n, left) == Children(nodes, n)

\* The nodes exactly `left` tokens below n; an edge that is longer is skipped.
RECURSIVE NodesAtDistance(_, _)
NodesAtDistance(n, left) ==
    IF left = 0 THEN {n}
    ELSE UNION {NodesAtDistance(m, left - Len(nodes[m].edge_tokens)) :
                   m \in {c \in Children(nodes, n) : Len(nodes[c].edge_tokens) <= left}}

RECURSIVE NodesBelow(_)
NodesBelow(n) ==
    Children(nodes, n) \cup UNION {NodesBelow(c) : c \in Children(nodes, n)}

WithBlock(ns) == Cardinality({n \in ns : nodes[n].terminal_block # NoId})

blockChildCount(b) ==
    IF block_node_index[b] = INVALID_NODE THEN 0
    ELSE WithBlock(NodesAtDistance(block_node_index[b], BlockSize))

blockDescendantCount(b) ==
    IF block_node_index[b] = INVALID_NODE THEN 0
    ELSE WithBlock(NodesBelow(block_node_index[b]))

-----------------------------------------------------------------------------
(* The callers, as in PrefixMap: admit appends a new block to a chain that *)
(* lookup found; makeSpace removes a block.                                *)

insertBlock(ctx, tokens, b) ==
    /\ Len(nodes) <= MaxNodes
    /\ block_node_index[b] = INVALID_NODE
    /\ LET existing == lookup(ctx, SubSeq(tokens, 1, Len(tokens) - BlockSize))
       IN /\ Len(existing) = (Len(tokens) \div BlockSize) - 1
          /\ Len(lookup(ctx, tokens)) = Len(existing)
          /\ insert(ctx, tokens, Append(existing, b))

Next ==
    \/ \E ctx \in Contexts, tokens \in Requests, b \in Ids : insertBlock(ctx, tokens, b)
    \/ \E b \in Ids : remove(b)

Spec == Init /\ [][Next]_vars

-----------------------------------------------------------------------------
(* The map the tree stands for *)

\* The tokens of a request as a path of PrefixMap: one element per block, with
\* the context in each.
Path(ctx, tokens) ==
    [i \in 1 .. Len(tokens) \div BlockSize |->
        <<ctx, SubSeq(tokens, (i - 1) * BlockSize + 1, i * BlockSize)>>]

Paths == UNION {{Path(ctx, SubSeq(r, 1, k * BlockSize)) : k \in 1 .. Len(r) \div BlockSize} :
                   <<ctx, r>> \in Contexts \X Requests}

RECURSIVE Flatten(_)
Flatten(p) == IF p = <<>> THEN <<>> ELSE Head(p)[2] \o Flatten(Tail(p))

\* The node that tokens lead to exactly, with or without blocks on the way
RECURSIVE NodeAt(_, _, _)
NodeAt(n, tokens, pos) ==
    IF n = INVALID_NODE \/ pos = Len(tokens) THEN n
    ELSE LET child == nodes[n].children[tokens[pos + 1]]
         IN IF child = INVALID_NODE \/ ~ EdgeMatches(child, tokens, pos) THEN INVALID_NODE
            ELSE NodeAt(child, tokens, pos + Len(nodes[child].edge_tokens))

TerminalAt(p) ==
    LET n == NodeAt(namespace_roots[p[1][1]], Flatten(p), 0)
    IN IF n = INVALID_NODE THEN NoId ELSE nodes[n].terminal_block

\* The tokens from the root to node n, and the root, found through parent_idx
RECURSIVE TokensTo(_)
TokensTo(n) ==
    IF nodes[n].parent_idx = INVALID_NODE THEN <<>>
    ELSE TokensTo(nodes[n].parent_idx) \o nodes[n].edge_tokens
RECURSIVE RootOf(_)
RootOf(n) == IF nodes[n].parent_idx = INVALID_NODE THEN n ELSE RootOf(nodes[n].parent_idx)

PathTo(n) ==
    LET ctx == CHOOSE c \in Contexts : namespace_roots[c] = RootOf(n)
    IN Path(ctx, TokensTo(n))

PM == INSTANCE PrefixMap WITH
        NoPath <- <<>>,
        terminals <- [p \in Paths |-> TerminalAt(p)],
        block_node <- [b \in Ids |-> IF block_node_index[b] = INVALID_NODE THEN <<>>
                                     ELSE PathTo(block_node_index[b])]

\* The tree, with its splits and prunings, behaves as the map: insert fills one
\* boundary and disturbs no other block, remove takes one block out and makes
\* no other unreachable, in its own context and in the others.
ImplementsPrefixMap == PM!Spec

\* lookup finds what the map finds, for whole blocks and for a request that ends
\* inside a block or diverges inside one.
LookupAgrees ==
    \A ctx \in Contexts, r \in Requests : \A k \in BlockSize .. Len(r) :
        lookup(ctx, SubSeq(r, 1, k)) = PM!lookup(Path(ctx, SubSeq(r, 1, k)))

\* The counts that drive prefix-aware eviction are the numbers of indexed blocks
\* one block below and anywhere below a block, however its edges are split.
CountsAgree ==
    \A b \in Ids : /\ blockChildCount(b) = PM!blockChildCount(b)
                   /\ blockDescendantCount(b) = PM!blockDescendantCount(b)

Linked(n) == nodes[n].parent_idx # INVALID_NODE /\ n \in Children(nodes, nodes[n].parent_idx)

\* The shape insert relies on: no edge crosses a block boundary, children are
\* filed under the first token of their edge, blocks sit at boundaries, and no
\* linked node is left without block and children.
TreeIsWellFormed ==
    \A n \in 1 .. Len(nodes) : Linked(n) =>
        LET end == Len(TokensTo(n))
            start == end - Len(nodes[n].edge_tokens)
        IN /\ start \div BlockSize = (end - 1) \div BlockSize
           /\ nodes[nodes[n].parent_idx].children[nodes[n].edge_tokens[1]] = n
           /\ nodes[n].terminal_block # NoId => end % BlockSize = 0
           /\ nodes[n].terminal_block # NoId \/ Children(nodes, n) # {}

=============================================================================
