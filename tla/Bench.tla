-------------------------------- MODULE Bench --------------------------------
(***************************************************************************)
(* kvcache_bench: runBench with its command line, workload generators,     *)
(* routing and eviction policies, counters and event stream, on the two    *)
(* workers of Cluster.  Requests run one after the other and the handles   *)
(* of a result are gone before the next request; no node joins or leaves.  *)
(*                                                                         *)
(* The workers of Cluster evict any victim; here the policy of the command *)
(* line picks it.  The clocks of the workers are never advanced, so every  *)
(* block is of age 0 and every last access is at 0.                        *)
(*                                                                         *)
(* A request is the sequence of its blocks.  The tokens of a block are     *)
(* drawn at random and stand for where they were drawn: that two draws of  *)
(* sixteen tokens are equal is left out.                                   *)
(***************************************************************************)
EXTENDS Cluster

CONSTANTS
    PrefixBlocks, FamilyPrefixBlocks, NumFamilies, ChurnBlocks, \* as in the code
    NumRequests,        \* args.num_requests
    Workloads           \* the values of args.workload

ASSUME BenchAssumption ==
    /\ {PrefixBlocks, FamilyPrefixBlocks, NumFamilies, ChurnBlocks} \subseteq Nat \ {0}
    /\ NumRequests \in Nat

VARIABLES
    args,               \* BenchArgs, and the hashes of first blocks modulo the workers
    access_count,       \* BlockRecord::access_count of each worker's slots
    admitted_count,     \* AdmissionOutcome::admitted_count of the request
    hits,               \* WorkerRig::local_hits and remote_hits
    counts,             \* CountingTeeEventSink of each worker
    streamed,           \* the objects in the JSONL stream of both workers, by type
    total_prefix_possible

benchVars == <<vars, args, access_count, admitted_count, hits, counts, streamed,
               total_prefix_possible>>

Ev == INSTANCE Events

-----------------------------------------------------------------------------
(* Workload generation *)

SuffixBlocks == 1

\* The i-th block of fresh tokens of request k, of the prompt that all requests
\* share, and of the prefix of a family
fresh(k, i) == <<"fresh", k, i>>
shared(i) == <<"shared", 0, i>>
ofFamily(family, i) == <<"family", family, i>>

generateSharedSystemPrompt(k) ==
    [i \in 1 .. PrefixBlocks + SuffixBlocks |->
        IF i <= PrefixBlocks THEN shared(i) ELSE fresh(k, i)]

generateFewShotFamilies(k) ==
    [i \in 1 .. FamilyPrefixBlocks + SuffixBlocks |->
        IF i <= FamilyPrefixBlocks THEN ofFamily((k - 1) % NumFamilies, i) ELSE fresh(k, i)]

generateAdversarialChurn(k) == [i \in 1 .. ChurnBlocks |-> fresh(k, i)]

generateWorkload(workload) ==
    [k \in 1 .. NumRequests |->
        CASE workload = "few_shot_families" -> generateFewShotFamilies(k)
          [] workload = "adversarial_churn" -> generateAdversarialChurn(k)
          [] OTHER                          -> generateSharedSystemPrompt(k)]

\* What Cluster is given
BenchWorkload == [k \in 1 .. NumRequests |-> {generateWorkload(w)[k] : w \in Workloads}]
BenchPaths ==
    UNION {{SubSeq(p, 1, i) : i \in 1 .. Len(p)} :
              p \in UNION {BenchWorkload[k] : k \in 1 .. NumRequests}}

\* The workers see the requests and their prefixes, and leave the choice of a
\* victim to the policy below.
ASSUME WorkloadIsGenerated == Workload = BenchWorkload /\ Paths = BenchPaths
ASSUME PolicyIsBelow == EvictionPolicy = "any"

-----------------------------------------------------------------------------

Workers == <<"a", "b">>

\* lo: first_block_hash.lo modulo the number of workers, of each first block.
BenchArgs ==
    [routing : {"hash_first_block", "random"}, eviction : {"lru", "prefix_aware"},
     workload : Workloads, lo : [{p[1] : p \in BenchPaths} -> 0 .. 1]]

StreamTypes ==
    {"block_admitted", "block_evicted", "remote_fetch_started", "remote_fetch_completed",
     "remote_fetch_failed"}

BenchTypeOK ==
    /\ TypeOK
    /\ args \in BenchArgs
    /\ access_count \in [Nodes -> [Slots -> Nat]]
    /\ admitted_count \in Nat
    /\ hits \in [Nodes -> [local_hits : Nat, remote_hits : Nat]]
    /\ counts \in [Nodes -> [admissions : Nat, evictions : Nat]]
    /\ streamed \in [StreamTypes -> Nat]
    /\ total_prefix_possible \in Nat

\* parseArgs, and the rigs with their counters at 0
BenchInit ==
    /\ Init
    /\ args \in BenchArgs
    /\ access_count = [node \in Nodes |-> [s \in Slots |-> 0]]
    /\ admitted_count = 0
    /\ hits = [node \in Nodes |-> [local_hits |-> 0, remote_hits |-> 0]]
    /\ counts = [node \in Nodes |-> [admissions |-> 0, evictions |-> 0]]
    /\ streamed = [type \in StreamTypes |-> 0]
    /\ total_prefix_possible = 0

-----------------------------------------------------------------------------
(* Routing and eviction policies *)

\* Mutant: the last block decides instead of the first one.
hashRouting_lastBlock(p) == Workers[(p[Len(p)][2] % 2) + 1]

\* HashFirstBlockRoutingPolicy::chooseNode
hashRouting(p) == Workers[args.lo[p[1]] + 1]

\* RandomRoutingPolicy::chooseNode: any node may come out of it.
randomRouting == Nodes

\* makeRoutingPolicy
chooseNode(p) ==
    IF args.routing = "hash_first_block" THEN {hashRouting(p)} ELSE randomRouting

candidates(node) == Of(node, A!candidates, B!candidates)

\* BlockFeatureBuilder::build
features(node, s) ==
    LET children == Of(node, A!PM!blockChildCount(s), B!PM!blockChildCount(s))
    IN [access_count           |-> access_count[node][s],
        prefix_child_count     |-> children,
        descendant_block_count |-> Of(node, A!PM!blockDescendantCount(s),
                                            B!PM!blockDescendantCount(s)),
        is_shared_prefix       |-> children > 0]

\* PrefixAwareEvictionPolicy::score; the pressure of age is 0.
score(f) ==
    f.access_count + 2 * f.prefix_child_count + (IF f.is_shared_prefix THEN 4 ELSE 0)
        + 2 * f.descendant_block_count

\* PrefixAwareEvictionPolicy::chooseVictim: the first of the lowest score
prefixAwareVictims(node) ==
    LET scoreOf == [s \in candidates(node) |-> score(features(node, s))]
    IN {s \in candidates(node) : \A o \in candidates(node) :
           \/ scoreOf[s] < scoreOf[o]
           \/ scoreOf[s] = scoreOf[o] /\ s <= o}

\* makeEvictionPolicy
chooseVictim(node) ==
    IF args.eviction = "prefix_aware" THEN prefixAwareVictims(node)
    ELSE Of(node, A!lruVictims, B!lruVictims)

-----------------------------------------------------------------------------
(* Counters *)

\* BlockStore::markAccessed
accessed(node, s) == access_count' = [access_count EXCEPT ![node][s] = @ + 1]

\* The worker's CountingTeeEventSink counts the events and hands them on to the
\* stream that all workers share.
recorded(node, events) ==
    /\ counts' = [counts EXCEPT ![node] = Ev!count(@, events)]
    /\ streamed' = [type \in StreamTypes |->
          streamed[type]
            + Cardinality({i \in 1 .. Len(events) :
                              Ev!serializeEvent(events[i]).type = type})]

\* AdmissionStage::admitRemoteBlocks: AlreadyPresent counts as admitted.
countAdmitted(status) ==
    admitted_count' = IF req.pc = "remote" /\ status \in {"Admitted", "AlreadyPresent"}
                      THEN admitted_count + 1 ELSE admitted_count

-----------------------------------------------------------------------------
(* The request loop *)

benchRoute ==
    /\ \A node \in Nodes : freeHandles(node) = Handles
    /\ requests < NumRequests
    /\ LET p == generateWorkload(args.workload)[requests + 1]
       IN /\ \E node \in chooseNode(p) : route(node, p)
          /\ total_prefix_possible' = total_prefix_possible + Len(p) - 1
    /\ admitted_count' = 0
    /\ UNCHANGED <<args, access_count, hits, counts, streamed>>

benchLookup ==
    /\ lookupStep
    /\ LET slot == Head(callOf(req.node).todo)
       IN IF Of(req.node, A!BM!Acquirable(slot), B!BM!Acquirable(slot))
          THEN accessed(req.node, slot) ELSE UNCHANGED access_count
    /\ UNCHANGED <<args, admitted_count, hits, counts, streamed, total_prefix_possible>>

benchFetch ==
    /\ fetch
    /\ accessed(chosen.node_id, chosen.block_id)
    /\ recorded(req.node, <<Ev!RemoteFetchStarted(HashOf(missing), chosen.node_id),
                            Ev!RemoteFetchCompleted(HashOf(missing), chosen.node_id)>>)
    /\ UNCHANGED <<args, admitted_count, hits, total_prefix_possible>>

\* The coordinator's stale reference is an event too, but of a NullEventSink.
benchFetchFails ==
    /\ fetchStale \/ fetchFails
    /\ recorded(req.node,
                <<Ev!RemoteFetchStarted(HashOf(missing), chosen.node_id),
                  Ev!RemoteFetchFailed(HashOf(missing), chosen.node_id,
                                       fetchStatus(req.node, chosen, HashOf(missing)))>>)
    /\ UNCHANGED <<args, access_count, admitted_count, hits, total_prefix_possible>>

benchSkip ==
    /\ admitSkipped
    /\ countAdmitted(admitStatus(req.node, Path(req.at)))
    /\ UNCHANGED <<args, access_count, hits, counts, streamed, total_prefix_possible>>

\* makeSpace: the policy picks among the candidates, if there are any.
benchMakeSpace ==
    /\ req # NoRequest /\ callOf(req.node).pc = "space"
    /\ admitStep
    /\ LET next == Of(req.node, a_call', b_call')
       IN IF candidates(req.node) = {} THEN next = A!Idle
          ELSE next.pc = "evict" /\ next.victim \in chooseVictim(req.node)
    /\ UNCHANGED <<args, access_count, admitted_count, hits, counts, streamed,
                   total_prefix_possible>>

benchEvict ==
    /\ req # NoRequest /\ callOf(req.node).pc = "evict"
    /\ admitStep
    /\ recorded(req.node, <<Ev!BlockEvicted(callOf(req.node).victim)>>)
    /\ UNCHANGED <<args, access_count, admitted_count, hits, total_prefix_possible>>

\* BlockStore::initialize resets the count of accesses.
benchCreate ==
    /\ req # NoRequest /\ callOf(req.node).pc = "create"
    /\ admitStep
    /\ LET slot == Of(req.node, A!BM!allocated, B!BM!allocated)
       IN access_count' = [access_count EXCEPT ![req.node][slot] = 0]
    /\ UNCHANGED <<args, admitted_count, hits, counts, streamed, total_prefix_possible>>

benchReady ==
    /\ req # NoRequest /\ callOf(req.node).pc = "ready"
    /\ admitStep
    /\ recorded(req.node,
                <<Ev!BlockAdmitted(callOf(req.node).id, "GpuSim",
                      IF req.pc = "remote" THEN "RemoteFetch" ELSE "LocallyComputed")>>)
    /\ UNCHANGED <<args, access_count, admitted_count, hits, total_prefix_possible>>

benchAdmitted ==
    /\ admitDone
    /\ accessed(req.node, callOf(req.node).id)
    /\ countAdmitted("Admitted")
    /\ UNCHANGED <<args, hits, counts, streamed, total_prefix_possible>>

\* ResultAssembler::assemble and the sums of runBench
benchAssemble ==
    /\ assemble
    /\ hits' = [hits EXCEPT ![req.node].local_hits = @ + req.local,
                            ![req.node].remote_hits = @ + admitted_count]
    /\ UNCHANGED <<args, access_count, admitted_count, counts, streamed,
                   total_prefix_possible>>

\* The other steps count nothing.
benchUncounted ==
    /\ \/ resolved \/ admitStart \/ announce \/ finish
       \/ \E node \in Nodes, h \in Handles : dropHandle(node, h)
    /\ UNCHANGED <<args, access_count, admitted_count, hits, counts, streamed,
                   total_prefix_possible>>

\* writeJsonOutput, and the end of the process
Done ==
    /\ req = NoRequest /\ requests = NumRequests
    /\ \A node \in Nodes : freeHandles(node) = Handles
    /\ UNCHANGED benchVars

BenchNext ==
    \/ benchRoute \/ benchLookup \/ benchFetch \/ benchFetchFails \/ benchSkip
    \/ benchMakeSpace \/ benchEvict \/ benchCreate \/ benchReady \/ benchAdmitted
    \/ benchAssemble \/ benchUncounted \/ Done

BenchSpec == BenchInit /\ [][BenchNext]_benchVars

-----------------------------------------------------------------------------
(* Properties *)

\* The totals that writeJsonOutput writes
results ==
    [local_hits  |-> hits["a"].local_hits + hits["b"].local_hits,
     remote_hits |-> hits["a"].remote_hits + hits["b"].remote_hits,
     evictions   |-> counts["a"].evictions + counts["b"].evictions,
     admissions  |-> counts["a"].admissions + counts["b"].admissions]

terminalsOf(node) == Of(node, a_terminals, b_terminals)

\* "All requests with the same first block should map to the same node": hash
\* routing keeps a prefix on one worker, so nothing is ever fetched from another
\* one and no worker has a block of a request that is routed elsewhere.
HashRoutingStaysLocal ==
    args.routing = "hash_first_block" =>
        /\ results.remote_hits = 0
        /\ streamed["remote_fetch_completed"] = 0
        /\ \A node \in Nodes, p \in Paths :
              terminalsOf(node)[p] # NoSlot => node \in chooseNode(p)

\* The hit rate that is reported never exceeds 1.  With a shared prompt, and room
\* for one request on each worker, it is exactly that of a cache that computes
\* the prefix once: every later request finds all of the prefix, on its own
\* worker or on the other one, whatever is evicted in between.
HitsAreExact ==
    req = NoRequest =>
        LET total == results.local_hits + results.remote_hits
        IN /\ total <= total_prefix_possible
           /\ (/\ args.workload = "shared_system_prompt"
               /\ Capacity >= PrefixBlocks + SuffixBlocks
               /\ requests > 0) => total = total_prefix_possible - PrefixBlocks

\* "prefix blocks stay warm": the blocks of a shared prompt stay where they are
\* once a worker has them, under either eviction policy, although the clock
\* stands still and LRU cannot tell them from the blocks that are used once.
SharedPrefixStays ==
    [][(/\ args.workload = "shared_system_prompt"
        /\ Capacity >= PrefixBlocks + SuffixBlocks) =>
          \A i \in 1 .. PrefixBlocks :
              LET prefix == [j \in 1 .. i |-> shared(j)]
              IN /\ a_terminals[prefix] # NoSlot => a_terminals'[prefix] = a_terminals[prefix]
                 /\ b_terminals[prefix] # NoSlot => b_terminals'[prefix] = b_terminals[prefix]
      ]_benchVars

\* The counters, the stream and the caches tell the same story: between requests
\* a worker holds as many blocks as were admitted and not evicted, the stream has
\* one object for each of these, every fetch that was started ended, and no more
\* remote hits are reported than blocks were fetched.
CountersAgree ==
    req = NoRequest =>
        /\ \A node \in Nodes :
              counts[node].admissions - counts[node].evictions
                = Cardinality({s \in Slots : recordsOf(node)[s].state = "Ready"})
        /\ streamed["block_admitted"] = results.admissions
        /\ streamed["block_evicted"] = results.evictions
        /\ streamed["remote_fetch_started"]
             = streamed["remote_fetch_completed"] + streamed["remote_fetch_failed"]
        /\ results.remote_hits <= streamed["remote_fetch_completed"]

\* The block that a worker finds for a prefix was admitted for this prefix.
LookupsReturnOwnBlocks == A!LookupReturnsOwnBlock /\ B!LookupReturnsOwnBlock

=============================================================================
