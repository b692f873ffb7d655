----------------------------- MODULE Coordinator -----------------------------
(***************************************************************************)
(* The coordinator: GlobalIndex (content hash -> the references announced  *)
(* for it, oldest first), WorkerDirectory (the nodes that joined),         *)
(* StaleReferenceCleaner and CoordinatorService, which forwards to them.   *)
(* InprocCoordinatorClient calls the service directly, so every call is    *)
(* one action.  A WorkerInfo's address is never read and is left out.      *)
(***************************************************************************)
EXTENDS Integers, Sequences, FiniteSets

CONSTANTS
    Nodes,          \* NodeId
    BlockIds,       \* BlockId: slots of the workers' stores
    Hashes,         \* content hashes
    MaxGeneration   \* bound on the generations that are announced

ASSUME GenerationAssumption == MaxGeneration \in Nat

VARIABLES
    index,          \* GlobalIndex::index_; a hash without an entry has <<>>
    workers         \* WorkerDirectory::workers_

coordVars == <<index, workers>>

GlobalBlockRef ==
    [node_id : Nodes, block_id : BlockIds, generation : 1 .. MaxGeneration]

Elements(s) == {s[i] : i \in 1 .. Len(s)}

TypeOK ==
    /\ index \in [Hashes -> Seq(GlobalBlockRef)]
    /\ workers \subseteq Nodes

Init ==
    /\ index = [h \in Hashes |-> <<>>]
    /\ workers = {}

-----------------------------------------------------------------------------
(* GlobalIndex *)

\* Mutant: a reference that is known already is appended again.
announceRef_duplicates(hash, ref) ==
    index' = [index EXCEPT ![hash] = Append(@, ref)]

\* GlobalIndex::announce
announceRef(hash, ref) ==
    index' = IF ref \in Elements(index[hash]) THEN index
             ELSE [index EXCEPT ![hash] = Append(@, ref)]

query(hash) == index[hash]

\* refs.erase(std::remove_if(...)): the elements of s that are not in S, in their
\* order; the loop of remove_if as a recursive function.
remove_if(s, S) ==
    LET kept[i \in 0 .. Len(s)] ==
            IF i = 0 THEN <<>>
            ELSE IF s[i] \in S THEN kept[i - 1] ELSE Append(kept[i - 1], s[i])
    IN kept[Len(s)]

RefsTo(node) == {r \in GlobalBlockRef : r.node_id = node}

\* Mutant: only the first list that has the reference is cleaned.
invalidateRef_once(ref) ==
    \E hash \in Hashes :
        /\ ref \in Elements(index[hash])
        /\ index' = [index EXCEPT ![hash] = remove_if(@, {ref})]

\* GlobalIndex::invalidate
invalidateRef(ref) ==
    index' = [hash \in Hashes |-> remove_if(index[hash], {ref})]

\* Mutant: the references are cleared in their places instead of erased.
removeNode_blanks(node) ==
    index' = [hash \in Hashes |-> [i \in DOMAIN index[hash] |->
                 IF index[hash][i] \in RefsTo(node) THEN [index[hash][i] EXCEPT !.generation = 0]
                 ELSE index[hash][i]]]

removeNode(node) ==
    index' = [hash \in Hashes |-> remove_if(index[hash], RefsTo(node))]

-----------------------------------------------------------------------------
(* CoordinatorService *)

\* The directory is not consulted: any node may announce.
announce(hash, ref) ==
    /\ announceRef(hash, ref)
    /\ UNCHANGED workers

\* invalidate -> StaleReferenceCleaner::reportStaleFetch
invalidate(ref) ==
    /\ invalidateRef(ref)
    /\ UNCHANGED workers

nodeJoin(node) ==
    /\ workers' = workers \cup {node}
    /\ UNCHANGED index

\* Mutant: the node leaves the directory only.
nodeLeave_keepsRefs(node) ==
    /\ workers' = workers \ {node}
    /\ UNCHANGED index

\* StaleReferenceCleaner::cleanDeadNode, then WorkerDirectory::nodeLeave
nodeLeave(node) ==
    /\ removeNode(node)
    /\ workers' = workers \ {node}

Next ==
    \/ \E hash \in Hashes, ref \in GlobalBlockRef : announce(hash, ref)
    \/ \E ref \in GlobalBlockRef : invalidate(ref)
    \/ \E node \in Nodes : nodeJoin(node)
    \/ \E node \in Nodes : nodeLeave(node)

Spec == Init /\ [][Next]_coordVars

-----------------------------------------------------------------------------
(* Properties *)

\* A replica is listed at most once under a hash, in whatever order workers
\* announce again what they announced before.
ReplicasAreDistinct ==
    \A hash \in Hashes : \A i, j \in 1 .. Len(index[hash]) :
        index[hash][i] = index[hash][j] => i = j

\* A reference that a step drops is dropped under every hash: what a worker
\* reported as stale cannot come back through another list, and neither can a
\* reference to a node that left.
DroppedEverywhere ==
    [][\A hash \in Hashes : \A ref \in Elements(index[hash]) \ Elements(index'[hash]) :
          \A other \in Hashes : ref \notin Elements(index'[other])]_coordVars

\* When a node leaves the directory no list names it any more.
LeaveForgetsNode ==
    [][\A node \in workers \ workers' : \A hash \in Hashes :
          \A ref \in Elements(index'[hash]) : ref.node_id # node]_coordVars

=============================================================================
