------------------------------- MODULE Cluster -------------------------------
(***************************************************************************)
(* Two workers, a and b, and the coordinator: RequestPipeline with its     *)
(* stages, RemoteBlockFetcher over InprocTransport and WorkerService, and  *)
(* the request loop of kvcache_bench that admits and announces what the    *)
(* pipeline missed.                                                        *)
(*                                                                         *)
(* Each worker is an instance of LocalCache built as kvcache_bench builds  *)
(* it: without tiers and with a FakeClock that nobody advances.  All of it *)
(* runs in one thread, so one request runs at a time (the variable req);   *)
(* its steps are the steps of the LocalCache calls it makes, one step per  *)
(* block to resolve and one per announcement.  Between requests callers    *)
(* drop the handles of earlier results and nodes join and leave.           *)
(*                                                                         *)
(* A request is a path, a sequence of whole blocks: MissingBlockPlanner    *)
(* and the bench loop ignore the tokens after the last whole block.        *)
(***************************************************************************)
EXTENDS Integers, Sequences, FiniteSets

CONSTANTS
    Capacity, Handles, Paths, EvictionPolicy,   \* see LocalCache
    Workload        \* the requests in their order: the k-th one is any of Workload[k]

\* Different requests are finitely many; the rest is what LocalCache requires.
ASSUME WorkloadAssumption == Workload \in Seq(SUBSET Paths) /\ IsFiniteSet(Paths)
ASSUME CapacityAssumption == Capacity \in Nat
ASSUME HandlesAssumption == IsFiniteSet(Handles)
ASSUME PathsAssumption ==
    /\ Paths \subseteq Seq(UNION {{p[i] : i \in 1 .. Len(p)} : p \in Paths})
    /\ \A p \in Paths : Len(p) > 0
    /\ \A p \in Paths : \A i \in 1 .. Len(p) : SubSeq(p, 1, i) \in Paths
ASSUME PolicyAssumption == EvictionPolicy \in {"lru", "no_eviction", "any"}

VARIABLES
    \* worker a
    a_free_list, a_generations, a_in_use, a_records, a_handles,
    a_terminals, a_block_node, a_call, a_kv,
    \* worker b
    b_free_list, b_generations, b_in_use, b_records, b_handles,
    b_terminals, b_block_node, b_call, b_kv,
    \* of either worker: never changed without tiers and with a clock at rest
    now, tiers, rec_tier, rec_payload, payload_free,
    index, workers,     \* Coordinator
    req,                \* the request in progress
    requests            \* how many requests of the workload were routed

Nodes == {"a", "b"}

\* A request admits every block of its path at most twice, so that no slot gets
\* beyond this generation.
MaxGeneration == 2 * Len(Workload) * Cardinality(Paths) + 1

MaxTime == 0
WithTiers == FALSE
PinAncestors == FALSE
MaxPayloads == 0
MetadataOnly == TRUE
TierCapacity == [t \in {"GpuSim", "Host"} |-> 0]

A == INSTANCE LocalCache WITH
        free_list <- a_free_list, generations <- a_generations, in_use <- a_in_use,
        records <- a_records, handles <- a_handles, terminals <- a_terminals,
        block_node <- a_block_node, call <- a_call, kv <- a_kv
B == INSTANCE LocalCache WITH
        free_list <- b_free_list, generations <- b_generations, in_use <- b_in_use,
        records <- b_records, handles <- b_handles, terminals <- b_terminals,
        block_node <- b_block_node, call <- b_call, kv <- b_kv

Slots == 0 .. (Capacity - 1)
NoSlot == -1
Hashes == {A!contentHash(p) : p \in Paths}
C == INSTANCE Coordinator WITH BlockIds <- Slots

aVars == <<a_free_list, a_generations, a_in_use, a_records, a_handles,
           a_terminals, a_block_node, a_call, a_kv,
           now, tiers, rec_tier, rec_payload, payload_free>>
bVars == <<b_free_list, b_generations, b_in_use, b_records, b_handles,
           b_terminals, b_block_node, b_call, b_kv,
           now, tiers, rec_tier, rec_payload, payload_free>>
coordVars == <<index, workers>>
vars == <<a_free_list, a_generations, a_in_use, a_records, a_handles,
          a_terminals, a_block_node, a_call, a_kv,
          b_free_list, b_generations, b_in_use, b_records, b_handles,
          b_terminals, b_block_node, b_call, b_kv,
          now, tiers, rec_tier, rec_payload, payload_free, index, workers, req, requests>>

\* One of two values or actions, by node; the other worker stands still.
Of(node, x, y) == IF node = "a" THEN x ELSE y
At(node, onA, onB) ==
    \/ node = "a" /\ onA /\ UNCHANGED bVars
    \/ node = "b" /\ onB /\ UNCHANGED aVars

recordsOf(node) == Of(node, a_records, b_records)
callOf(node) == Of(node, a_call, b_call)
kvOf(node) == Of(node, a_kv, b_kv)
handlesOf(node) == Of(node, a_handles, b_handles)
found(node, p) == Of(node, A!PM!lookup(p), B!PM!lookup(p))
freeHandles(node) == Of(node, A!FreeHandles, B!FreeHandles)
admitStatus(node, p) == Of(node, A!admitStatus(p), B!admitStatus(p))

-----------------------------------------------------------------------------

NoRequest == [pc |-> "none"]
NoRef == [node_id |-> "none"]

\* local: the number of blocks the lookup stage found; fetched: of blocks the
\* resolution stage fetched after them; at: the block being admitted;
\* reusable: the records of the handles in the result so far; slot: the
\* computed block to announce; failed: the reference whose fetch ended the
\* resolution.
Requests ==
    {NoRequest}
    \cup [pc : {"lookup", "resolve", "remote", "computed", "announce"},
          node : Nodes, path : Paths, local : Nat, fetched : Nat, at : Nat,
          reusable : Seq(Slots), slot : Slots \cup {NoSlot},
          failed : C!GlobalBlockRef \cup {NoRef}]

TypeOK ==
    /\ A!BM!TypeOK /\ A!PM!TypeOK /\ a_call \in A!Calls
    /\ B!BM!TypeOK /\ B!PM!TypeOK /\ b_call \in B!Calls
    /\ C!TypeOK
    /\ req \in Requests
    /\ requests \in 0 .. Len(Workload)

\* runBench: every worker joins before the first request.
Init ==
    /\ A!Init
    /\ B!Init
    /\ index = [h \in Hashes |-> <<>>]
    /\ workers = Nodes
    /\ req = NoRequest
    /\ requests = 0

Path(i) == SubSeq(req.path, 1, i)
HashOf(i) == A!contentHash(Path(i))
CallEnds == Of(req.node, a_call' = A!Idle, b_call' = B!Idle)

-----------------------------------------------------------------------------
(* Routing and LookupStage *)

\* The routing policy may send a request to any node.  The handles that callers
\* have are bounded: a request starts when its result can have its own.
route(node, p) ==
    /\ req = NoRequest
    /\ requests < Len(Workload)
    /\ p \in Workload[requests + 1]
    /\ Cardinality(freeHandles(node)) >= Len(p)
    /\ requests' = requests + 1
    /\ req' = [pc |-> IF found(node, p) = <<>> THEN "resolve" ELSE "lookup",
               node |-> node, path |-> p, local |-> 0, fetched |-> 0, at |-> 0,
               reusable |-> <<>>, slot |-> NoSlot, failed |-> NoRef]
    /\ IF found(node, p) = <<>>
       THEN UNCHANGED <<aVars, bVars>>
       ELSE At(node, A!lookupPrefix(p), B!lookupPrefix(p))
    /\ UNCHANGED coordVars

lookupStep ==
    /\ req.pc = "lookup"
    /\ At(req.node, A!lookupStep, B!lookupStep)
    /\ LET slot == Head(callOf(req.node).todo)
           hit  == Of(req.node, A!BM!Acquirable(slot), B!BM!Acquirable(slot))
       IN req' = [req EXCEPT !.pc = IF CallEnds THEN "resolve" ELSE "lookup",
                             !.local = IF hit THEN @ + 1 ELSE @,
                             !.reusable = IF hit THEN Append(@, slot) ELSE @]
    /\ UNCHANGED <<coordVars, requests>>

-----------------------------------------------------------------------------
(* RemoteResolutionStage, with MissingBlockPlanner and RemoteBlockFetcher  *)

\* Mutant: the first missing block is skipped.
missing_skipsFirst == req.local + req.fetched + 2

\* The next missing block, 1-based
missing == req.local + req.fetched + 1

\* The references of the next missing block, if there is one
replicas == IF missing > Len(req.path) THEN <<>> ELSE C!query(HashOf(missing))

\* FirstReplicaPolicy::chooseReplica
chosen == replicas[1]

\* All missing blocks are fetched, or the next one has no reference.
resolved ==
    /\ req.pc = "resolve"
    /\ replicas = <<>>
    /\ req' = [req EXCEPT !.pc = "remote", !.at = req.local + 1]
    /\ UNCHANGED <<aVars, bVars, coordVars, requests>>

\* InprocTransport::fetchBlock: a worker is not registered with its own transport.
fetchStatus(node, ref, hash) ==
    LET served == Of(ref.node_id, A!BM!fetchLocalStatus(ref.block_id, ref.generation),
                                  B!BM!fetchLocalStatus(ref.block_id, ref.generation))
    IN IF ref.node_id = node THEN "TransportError"
       ELSE IF served # "Hit" THEN served
       ELSE IF recordsOf(ref.node_id)[ref.block_id].hash # hash THEN "HashMismatch"
       ELSE "Ok"

Fetching(status) ==
    /\ req.pc = "resolve"
    /\ replicas # <<>>
    /\ fetchStatus(req.node, chosen, HashOf(missing)) = status

fetch ==
    /\ Fetching("Ok")
    /\ At(chosen.node_id, A!serveBlockFetch(chosen.block_id, chosen.generation),
                          B!serveBlockFetch(chosen.block_id, chosen.generation))
    /\ req' = [req EXCEPT !.fetched = @ + 1]
    /\ UNCHANGED <<coordVars, requests>>

FetchFailed == req' = [req EXCEPT !.pc = "remote", !.at = req.local + 1, !.failed = chosen]

\* StaleGeneration is the one failure that is reported to the coordinator.
fetchStale ==
    /\ Fetching("StaleGeneration")
    /\ C!invalidate(chosen)
    /\ FetchFailed
    /\ UNCHANGED <<aVars, bVars, requests>>

\* NotFound, TransportError, HashMismatch: the resolution just stops.
fetchFails ==
    /\ \E status \in {"NotFound", "TransportError", "HashMismatch"} : Fetching(status)
    /\ FetchFailed
    /\ UNCHANGED <<aVars, bVars, coordVars, requests>>

-----------------------------------------------------------------------------
(* AdmissionStage::admitRemoteBlocks, then the admissions of the bench loop *)

Admitting == req.pc \in {"remote", "computed"} /\ callOf(req.node) = A!Idle
Last == IF req.pc = "remote" THEN req.local + req.fetched ELSE Len(req.path)

\* Mutant: the loop stays at a block that is not admitted.
admitSkipped_stays ==
    /\ Admitting
    /\ req.at <= Last
    /\ admitStatus(req.node, Path(req.at)) # "Proceed"
    /\ UNCHANGED vars

\* admitBlock of the next block: AlreadyPresent and InvalidBlock return at
\* once, without a handle.
admitSkipped ==
    /\ Admitting
    /\ req.at <= Last
    /\ admitStatus(req.node, Path(req.at)) # "Proceed"
    /\ req' = [req EXCEPT !.at = @ + 1]
    /\ UNCHANGED <<aVars, bVars, coordVars, requests>>

admitStart ==
    /\ Admitting
    /\ req.at <= Last
    /\ At(req.node, A!admit(Path(req.at)), B!admit(Path(req.at)))
    /\ UNCHANGED <<coordVars, req, requests>>

\* The steps of admit up to its result, and its CapacityExceeded
admitStep ==
    /\ req.pc \in {"remote", "computed"}
    /\ At(req.node,
          \/ A!insufficientCandidates
          \/ \E victim \in Slots : A!beginEvict(victim)
          \/ A!finishEvict \/ A!create \/ A!ready,
          \/ B!insufficientCandidates
          \/ \E victim \in Slots : B!beginEvict(victim)
          \/ B!finishEvict \/ B!create \/ B!ready)
    /\ req' = IF CallEnds THEN [req EXCEPT !.at = @ + 1] ELSE req
    /\ UNCHANGED <<coordVars, requests>>

\* Admitted: the handle of a fetched block goes into the result, that of a
\* computed block lives until the block is announced.
admitDone ==
    /\ req.pc \in {"remote", "computed"}
    /\ At(req.node, A!admitted, B!admitted)
    /\ req' = IF req.pc = "remote"
              THEN [req EXCEPT !.at = @ + 1,
                               !.reusable = Append(@, callOf(req.node).id)]
              ELSE [req EXCEPT !.pc = "announce", !.slot = callOf(req.node).id]
    /\ UNCHANGED <<coordVars, requests>>

\* ResultAssembler::assemble: the bench loop admits what comes after the
\* matched tokens, as many blocks as the result has handles.
assemble ==
    /\ Admitting
    /\ req.pc = "remote" /\ req.at > Last
    /\ req' = [req EXCEPT !.pc = "computed", !.at = Len(req.reusable) + 1]
    /\ UNCHANGED <<aVars, bVars, coordVars, requests>>

\* The handle of the admitted block is reset, the block is announced.
announce ==
    /\ req.pc = "announce"
    /\ \E h \in Handles :
          /\ handlesOf(req.node)[h] = req.slot
          /\ At(req.node, A!releaseHandle(h), B!releaseHandle(h))
    /\ C!announce(HashOf(req.at),
                  [node_id |-> req.node, block_id |-> req.slot,
                   generation |-> recordsOf(req.node)[req.slot].generation])
    /\ req' = [req EXCEPT !.pc = "computed", !.at = @ + 1]
    /\ UNCHANGED requests

\* The request is over; the caller may keep the result.
finish ==
    /\ Admitting
    /\ req.pc = "computed" /\ req.at > Last
    /\ req' = NoRequest
    /\ UNCHANGED <<aVars, bVars, coordVars, requests>>

-----------------------------------------------------------------------------
(* Between requests *)

dropHandle(node, h) ==
    /\ req = NoRequest
    /\ At(node, A!releaseHandle(h), B!releaseHandle(h))
    /\ UNCHANGED <<coordVars, req, requests>>

nodeJoin(node) ==
    /\ req = NoRequest
    /\ C!nodeJoin(node)
    /\ UNCHANGED <<aVars, bVars, req, requests>>

nodeLeave(node) ==
    /\ req = NoRequest
    /\ C!nodeLeave(node)
    /\ UNCHANGED <<aVars, bVars, req, requests>>

\* The next step of the request in progress
requestStep ==
    \/ lookupStep \/ resolved \/ fetch \/ fetchStale \/ fetchFails
    \/ admitSkipped \/ admitStart \/ admitStep \/ admitDone
    \/ assemble \/ announce \/ finish

Next ==
    \/ \E node \in Nodes, p \in Paths : route(node, p)
    \/ requestStep
    \/ \E node \in Nodes, h \in Handles : dropHandle(node, h)
    \/ \E node \in Nodes : nodeJoin(node)
    \/ \E node \in Nodes : nodeLeave(node)

\* A request that was routed runs on: nothing in the code waits.
Spec == Init /\ [][Next]_vars /\ WF_vars(requestStep)

-----------------------------------------------------------------------------
(* Properties *)

Assembled == req.pc \in {"computed", "announce"}

\* A reference in the global index may be out of date but never names another
\* block: its generation is not ahead of the worker's record, and as long as it
\* is the record's the record has the hash it was announced for.  So a fetch
\* ends in HashMismatch in no order of admissions, evictions and announcements.
ReferenceNamesItsBlock ==
    \A hash \in Hashes : \A ref \in C!Elements(index[hash]) :
        LET rec == recordsOf(ref.node_id)[ref.block_id]
        IN /\ ref.generation <= rec.generation
           /\ ref.generation = rec.generation => rec.hash = hash

\* The assembled result is the beginning of the request: its i-th block is the
\* request's i-th block, so matched_tokens tokens can be reused.
ResultIsContiguous ==
    Assembled => \A i \in 1 .. Len(req.reusable) :
        recordsOf(req.node)[req.reusable[i]].hash = HashOf(i)

\* BlockPool::free advances the generation, which starts at 1.
NothingEvicted == \A s \in Slots : a_generations[s] <= 1 /\ b_generations[s] <= 1

\* As long as nothing was evicted, the result is the beginning of the request
\* and has every block that the local lookup missed and the coordinator knew, up
\* to the first unknown one, unless the worker is full.
RemoteReuseIsComplete ==
    NothingEvicted =>
        /\ ResultIsContiguous
        /\ (Assembled /\ req.at = Len(req.reusable) + 1 /\ callOf(req.node) = A!Idle) =>
              \/ Len(req.reusable) = Len(req.path)
              \/ Of(req.node, a_free_list, b_free_list) = <<>>
              \/ index[HashOf(Len(req.reusable) + 1)] = <<>>

\* A fetch that succeeds brings the KV state of the request's own prefix, however
\* often the slot that the reference names was freed and used again since, where
\* the tokens of a block determine the tokens before it: the content hash that
\* is compared does not cover them.
FetchedStateIsOwn ==
    [][(req.pc = "resolve" /\ req'.pc = "resolve") =>
          kvOf(chosen.node_id)[chosen.block_id] = Path(missing)]_vars

\* A reference whose fetch failed is gone from the global index.
FailedFetchIsForgotten ==
    req # NoRequest /\ req.failed # NoRef =>
        \A hash \in Hashes : req.failed \notin C!Elements(index[hash])

\* Every request comes to its end: resolution, admission and announcements.
RequestReturns == req # NoRequest ~> req = NoRequest

=============================================================================
