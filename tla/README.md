# TLA+ models of the distributed KV cache

This directory holds TLA+ specifications of the block-based KV cache of this
repository, the TLC configurations that check them on small instances, and
TLAPS proofs. Paths of source files are relative to the library's own
directory (`core/`, `prefix/`, `tier/`, ...) unless they start with `apps/` or
`tests/`. `PROJECT.json` maps every definition to the lines it translates.

## 1. Inventory

The program simulates a distributed cache of LLM key/value blocks. A request is
a context and a sequence of tokens; the tokens are cut into blocks of
`block_size`, and a block can be reused when every block before it was found
too. Each worker owns a `LocalCache`; a coordinator knows which worker announced
which content hash; a request pipeline looks up locally, fetches what is missing
from other workers and admits it.

Everything runs in one thread and one process. Nothing is persisted and no
message is lost or reordered: a "remote" call is a C++ call. What interleaves
are *calls*: requests to several workers, announcements, scans, and the
`BlockHandle`s that callers keep from one call to the next.

| Component | State | Operations | Interacts with |
| --- | --- | --- | --- |
| `BlockPool` | free list, generation and in-use flag per slot | allocate, free | called by `BlockManager` |
| `BlockStore`, `BlockHandle` | one `BlockRecord` per slot, reference counts | initialize, markAccessed, createHandle; move, destroy | handles point into the store |
| `BlockManager` | none of its own | createBlock, acquire, fetchLocal, transitionState, freeBlock | pool, store, clock |
| `PrefixIndex` | a radix tree of tokens per context, block -> node map | lookup, insert, remove, child and descendant counts | called by the lookup engine, feature builder |
| `PrefixLookupEngine` | none | lookup: index, then acquire block by block | index, manager |
| `TierManager`, `TierStore`, `PayloadStore` | block ids per tier, payload buffers | place, promote, demote, remove | writes tier and payload of records |
| `AdmissionController` | none | admit | engine, eviction, manager, tiers, policies |
| `EvictionController`, `SafeCandidateFinder` | none | makeSpace | manager, engine, tiers, policy |
| `PromotionController`, `DemotionController` | none | runScan | tiers, policy |
| `LocalCache` | owns the above for one worker | lookupPrefix, admitBlock, getBlock, serveBlockFetch | - |
| `GlobalIndex`, `StaleReferenceCleaner`, `WorkerDirectory`, `CoordinatorService` | content hash -> references; joined nodes | announce, query, invalidate, nodeJoin, nodeLeave | called through `CoordinatorClient` |
| request pipeline (`LookupStage`, `MissingBlockPlanner`, `RemoteResolutionStage`, `RemoteBlockFetcher`, `AdmissionStage`, `ResultAssembler`) | none | run | cache, coordinator, transport |
| `InprocTransport`, `WorkerService` | registered workers | fetchBlock, serveBlockFetch | other workers' caches |
| policies (admission, eviction, placement, routing, replica, promotion, demotion, prefetch, latency) | small | one decision each | called by controllers |
| event sinks, decision loggers | the events or decisions so far, or a JSONL stream | record, log | called by the controllers and the fetcher; the streams are read by other programs |
| `apps/kvcache_bench` | arguments, hit counters, event counters of each worker | generate a workload, the request loop, report | owns workers and coordinator |
| configuration, policy registry | - | parsing, a table of names | used by tests only |

What is hard, and the properties that make each part correct:

* **Slots are re-used.** A reference to a block is a slot and a generation, kept
  by other workers and the coordinator for any length of time. Correct means: a
  reference never leads to another block (`GenerationNamesBlock`,
  `ReferenceNamesItsBlock`).
* **Handles pin blocks across calls.** Correct means: a reference count is the
  number of live handles, and no admission of another caller evicts, moves the
  state of, or overwrites a pinned block (`RefcountIsHandleCount`,
  `HandlePinsBlock`).
* **Several structures describe the same block**: pool, store, index, tier
  store, payload store. Correct means they agree between calls, also after every
  failing path (`PoolMatchesStore`, `IndexMatchesStore`,
  `TiersMatchStore`, `TierOfRecordIsTierOfStore`, `PayloadHasOneOwner`,
  `NothingLeftHalfDone`).
* **The radix tree** splits and prunes edges; correct means it is a map from
  block-aligned prefixes to blocks (`ImplementsPrefixMap`, `LookupAgrees`,
  `CountsAgree`, `TreeIsWellFormed`).
* **Admission reads the chain, makes space, then inserts the chain it read.**
  Correct means a lookup finds the block that was admitted for the prefix
  (`LookupReturnsOwnBlock`) and the admitted chain is whole
  (`AdmittedChainIsWhole`).
* **References go stale silently**; fetches fail in four ways. Correct means a
  result is a gapless beginning of the request (`ResultIsContiguous`), what is
  known and fits is reused (`RemoteReuseIsComplete`), what is fetched is the
  state of the request's own prefix (`FetchedStateIsOwn`), and failed references
  disappear (`FailedFetchIsForgotten`).
* **Payload buffers are handed on uncleared.** Correct means a block reads back
  the bytes it was placed with (`PayloadReadsBack`).
* **Others watch through events.** The stream names blocks by slot. Correct means
  a reader of nothing but the stream knows where every block is
  (`StreamTellsResidency`), and the decision log explains each change
  (`DecisionsExplainEvents`).
* **The benchmark reports numbers** that are sums over several components.
  Correct means they agree with each other and with the caches (`CountersAgree`),
  with what a cache of that size can reach (`HitsAreExact`), and that the
  policies do what they are for (`HashRoutingStaysLocal`, `SharedPrefixStays`).
* **Making space** must end, with a victim or without one (`CallReturns`); the
  stages of a request then end too (`RequestReturns`).

`PROJECT.json` lists the hazards one by one with their lines.

## 2. Modules

| Module | Models | Uses |
| --- | --- | --- |
| `BlockManager` | `BlockPool`, `BlockStore`, `BlockHandle`, `BlockManager` | - |
| `BlockManagerProofs` | theorems about it | `BlockManager`, TLAPS |
| `PrefixMap` | what `PrefixIndex` promises: prefixes -> blocks | - |
| `PrefixIndex` | the radix tree | implements `PrefixMap` |
| `TierManager` | `TierManager`, `TierStore`, `PayloadStore`, the scans | - |
| `TierStorage` | the same with the bytes in the buffers, the results of the calls and the latency models | extends `TierManager` |
| `LocalCache` | the controllers and the public calls of one worker | instances of `BlockManager`, `PrefixMap`, `TierManager` |
| `Events` | events, decisions and the JSON written for them | - |
| `EventStream` | a cache with the events and decisions it writes, and `snapshot` | extends `LocalCache`, an instance of `Events` |
| `Coordinator` | global index, directory, cleaner, service | - |
| `Cluster` | pipeline, transport, request loop of the benchmark | two instances of `LocalCache`, one of `Coordinator` |
| `Bench` | `kvcache_bench`: arguments, workloads, policies, counters | extends `Cluster`, an instance of `Events` |
| `MC...` | constants for TLC | the module it is named after |
| `PrefixMapProofs`, `TierManagerProofs`, `TierStorageProofs`, `CoordinatorProofs` | theorems about these modules | the module, TLAPS; `TierStorageProofs` an instance of `TierManagerProofs` |
| `LocalCacheProofs` | theorems about every cache and about caches whose callers pin | `LocalCache`, instances of the proofs of its three parts |
| `EventStreamProofs` | theorems about the events and decisions | `EventStream`, `LocalCacheProofs` |
| `ClusterProofs` | theorems about the cluster and the benchmark | `Bench`, instances of `LocalCacheProofs` (one per worker) and `CoordinatorProofs` |

Conventions. Variables and actions have the names of the fields and functions
they model. A call that returns or throws before it changes anything is a
stuttering step. Definitions whose comment starts with "Mutant" are plausible
bugs of the definition that follows them; no specification uses them, they show
that a property would notice the bug.

**BlockManager.** `free_list`, `generations`, `in_use` are the pool's vectors,
`records` the store, `handles` the record each live `BlockHandle` points to.
`allocate` pops the back of the free list as the code does, so slots are re-used
last-in first-out. `initialize` overwrites the whole record, its reference count
included. `isLegalTransition` is the table of `core/block_manager.cc`; as every
caller does, the model leaves `Free` through `createBlock` only. The clock is
`advanceNs`. Left out: `access_count` (a statistic that only the prefix-aware
policy reads), `block_index` and `token_count` (inputs of the hash).

**PrefixMap / PrefixIndex.** The map keeps `terminals` (prefix -> block) and
`block_node` (block -> prefix). `insert` fills every gap along the path with the
blocks it is given and leaves present ones alone, which is what the tree does.
The tree keeps nodes with edges, children, parents, terminal blocks and depths;
`insert` adds leaves and splits edges, `remove` prunes empty nodes upwards.
Pruned nodes stay in the vector, as in the code, so the number of nodes bounds
a run.

**TierManager.** `tiers` are the id sets of the stores, `rec_tier` and
`rec_payload` the record fields, `payload_free` the stack of payload buffers. A
scan moves blocks one after the other, each only if the target has room for it after
those before it (`iterations`); which ones is the policy's choice.

**TierStorage** adds `buffers`, whose contents survive their owner, `result`, the
`TierOpResult` of the last call with the tiers it was about, and the calls that
are refused. `put` copies as many bytes as it is given and fit; `getPayload`
returns the whole buffer. `Latency` is one of the two models; a bandwidth is a
fraction, so that truncation is the code's. `placed` is a history variable.

**LocalCache.** One call at a time; `call` says where it is. `admit` is cut at
every `BlockManager` call: decide -> (begin, finish eviction) -> create, place
and insert -> ready -> acquire. `existing` is the chain read before space was
made and is inserted afterwards, exactly as `all_blocks` in
`controller/admission_controller.cc`. When `place` would fail the code throws
with the block still `Admitting`; the model does the same, and
`NothingLeftHalfDone` shows this is never reached. `EvictionPolicy` is LRU, no
eviction, or any victim at all, which includes the prefix-aware policy.
`PinAncestors` says whether callers hold handles on the ancestors of the block
they admit. `kv` is a history variable: the prefix each slot was created for.

**Events, EventStream.** `Events` has a constructor for each kind of event that
is recorded and `serializeEvent` as `sim/event_sink.cc` has it. A stream grows for
ever, so `EventStream` folds it: `view` is what someone knows who reads the JSON
objects one by one and nothing else, with a value for "this cannot follow what
came before". Each step of `LocalCache` appears with what it writes; steps that
write nothing say so. `log` has the decisions of the call in progress.

**Coordinator.** `index` maps a hash to its references, oldest first; `workers`
is the directory. `announce` does not consult the directory, as in the code.
`remove_if` is the loop of `std::remove_if` as a recursive function.

**Cluster.** Workers `a` and `b` are built as `apps/kvcache_bench.cc` builds
them: no tiers, a clock nobody advances, first-replica selection, and a
transport that knows every worker but its own. `req` is the request in progress:
route -> lookup -> resolve block by block -> admit what was fetched -> assemble
-> admit and announce what was missed -> finish. The routing policy may choose
any node (random routing; hash routing is a special case). Between requests
callers drop handles one at a time, so results may be kept across requests, and
nodes join and leave. `Workload` bounds a run: its k-th element is the set of
requests that may come k-th.

**Bench.** `runBench` on the cluster. `args` is chosen at the start: routing,
eviction, workload, and for each first block the node that its hash falls to,
since any value is possible. The workload generators are functions of the
request's number; a block of fresh random tokens is named by the request and its
position, so it occurs nowhere else.
`Cluster` evicts any victim; `Bench` keeps the steps whose victim is the one the
chosen policy takes, with `features` and `score` as in the code (the clocks of the
benchmark stand still, so the age term is 0 and LRU decides by slot order).
`access_count`, `admitted_count`, `hits`, `counts` and `streamed` are the
counters of the record, the admission stage, the rig, the tee sink and the stream.
Handles of a result are gone before the next request, as in the loop.

## 3. Runs

| Run | Instance | Shows |
| --- | --- | --- |
| `block_manager` | 2 slots, 2 handles, 2 hashes, 2 generations, 2 times | pool, store and handles agree; pins and generations protect identity |
| `prefix_map` | 4 prefixes, 4 blocks | the two maps stay inverse |
| `prefix_index` | 2 contexts, blocks of 3 tokens, requests that diverge inside a block, 5 nodes, 3 blocks | the tree implements the map; lookups and counts agree |
| `tier_storage` | 3 blocks, 3 buffers of 2 bytes, payloads of 1 and 3 bytes, tiers of 2 and 2 (a scan moves two blocks, or stops after the first), bandwidths 2 and 2/3 | tiers, records and buffers agree; blocks read back their bytes; migrations cost what the slower tier costs |
| `cache_events` | 4 slots (tiers are full before the pool is), tiers of 1 and 2, 3 buffers, LRU, chain of 3 and another block | index, store and tiers agree; the cache uses its parts as they allow; the stream tells residency |
| `cache_any_policy` | 3 slots, tiers of 1 and 2, 2 times, any victim | lookups, admitted chains, calls that fail with the pool exhausted leave nothing half done, termination |
| `coordinator` | 2 nodes, 2 hashes, 2 generations | no duplicates; what is dropped is dropped everywhere |
| `cluster` | 2 slots per worker, any victim, 3 requests of up to 2 blocks | references never name another block; fetched state is the request's own; results are complete before the first eviction; requests end |
| `cluster_torn` | 3 slots, LRU, a chain of 3 blocks | **violation**, finding 2 |
| `cluster_stale` | 1 slot, LRU, 3 requests | **violation**, finding 3 |
| `bench` | 4 slots per worker, prefixes of 2 blocks, 2 families, 6 requests, both routings, both evictions, two workloads | counters, stream and caches agree; hash routing stays local; a shared prompt is computed once and stays |
| `bench_churn` | 3 slots per worker, 3 requests of 3 fresh blocks | **violation**, finding 1 |

*Bounds and why they are enough.* Pools are smaller than the working set, so
every run that evicts fills its pool, evicts and re-uses slots; two or three
generations show one or two re-uses of a slot, and each further one repeats the
same steps (the proofs of section 5 cover all of them). Two handles
per worker suffice for a caller that keeps a block and another that works; three
where a chain of three is held. Blocks of three tokens are the smallest that an
edge can be split in twice inside one block. Two contexts show that trees do not
mix. Workloads of three requests allow: announce, evict, look up again from
either worker, with results kept or dropped in between.
The benchmark's constants are scaled down: prefixes of 2 blocks for 4 and 3,
2 families for 4, pools of 4 for 12. What matters is kept: a pool has room for
one request and not for the suffixes of all of them nor for both families, and six
requests fill both pools, evict, tear chains apart and meet stale references.
`HitsAreExact` and `SharedPrefixStays` state the room they need (`Capacity >=
PrefixBlocks + SuffixBlocks`).
Handles, nodes and blocks that are interchangeable are symmetric; the runs with
liveness properties use no symmetry.

*Fairness.* `LocalCache` and `Cluster` assume weak fairness of the steps of the
call or request in progress. The code runs such a call to its end in one thread
without waiting for anything, so a started call takes its next step. No fairness
is assumed of callers: nobody has to start a call, drop a handle, run a scan or
advance the clock.

## 4. Findings

1. `bench_churn`: `AdmissionController::admit` reads the ancestors, makes
   space, and then inserts the ancestors it read. If making space evicts one of
   them (no caller pins it), the pool gives its slot to the new block, and the
   index maps the ancestor's prefix to the new block. The loop of the benchmark
   resets each handle before it admits the next block, so its
   `adversarial_churn` workload gets there as soon as a pool is full. With pinned
   ancestors (`cache_any_policy`) the property holds under any eviction policy.
2. `cluster_torn`: a fetched block that is already present locally, because it
   outlived its parent, yields no handle. The result then has a hole, but
   `matched_tokens` counts from token 0. Before the first eviction results are
   contiguous (`RemoteReuseIsComplete`, whose condition `NothingEvicted` is there
   because of findings 1 and 2).
3. `cluster_stale`: only `StaleGeneration` removes a reference. After `NotFound`
   or `TransportError` the reference stays first in its list and hides the others.

Also seen while modelling, and not stated as properties because no text in the
repository says otherwise: the content hash does not cover the block's prefix
(`FetchedStateIsOwn` is checked on requests where a block's tokens determine
those before it); announcements are accepted from nodes that left; nodes of the radix tree are
never re-used; a short payload leaves the previous occupant's bytes in the
buffer; `core/block_candidate.h` describes `tokens` by the context's block size
while `admit` uses the cache's; the events of all workers go into one stream and
carry no node, so with several workers only counts can be read off it.

## 5. Proofs

TLC checks one small instance; the theorems hold for every value of the constants
that meets the named assumptions. Each proof module ends with its theorems; what
comes before are the inductive invariant, one lemma per action and the lemmas about
operators.

| Theorem | Establishes | Needs |
| --- | --- | --- |
| **BlockManagerProofs** `TypeCorrect` | `TypeOK`; no reference count goes below 0 | - |
| `PoolAndStoreAgree` | `PoolMatchesStore` | - |
| `RefcountsAreExact` | `RefcountIsHandleCount`, `PinnedOnlyWhenResident` | - |
| `HandlesPinBlocks` | `HandlePinsBlock` (action property) | - |
| `GenerationsNameBlocks` | `GenerationNamesBlock` (action property) | - |
| **PrefixMapProofs** `MapsStayInverse` | `MapsAreInverse` | - |
| **TierManagerProofs** `RecordsNameTheirTier` | `TierOfRecordIsTierOfStore` | - |
| `TiersStayWithinCapacity` | `WithinCapacity` | - |
| `PayloadsHaveOneOwner` | `PayloadHasOneOwner` | - |
| `PutNeverThrows` | `PayloadStore::put` has a buffer whenever `place` calls it | as many buffers as the tiers have room for |
| **TierStorageProofs** `StorageTypeCorrect` | `StorageTypeOK` | - |
| `PayloadsReadBack` | `PayloadReadsBack` | - |
| `MigrationsAreBottlenecked` | `MigrationIsBottleneck` | - |
| `StorageImplementsTiers` | every step is a step of `TierManager` or none | - |
| **CoordinatorProofs** `TypeCorrect` | `TypeOK` | - |
| `ReplicasStayDistinct` | `ReplicasAreDistinct` | - |
| `DropsAreComplete` | `DroppedEverywhere` (action property) | - |
| `LeavingForgets` | `LeaveForgetsNode` (action property) | - |
| **LocalCacheProofs** `TypeCorrect` | `TypeOK` | - |
| `CacheUsesBlockManager` | `UsesBlockManager`: the cache implements `BlockManager` | - |
| `TiersStayWithStore` | `TiersMatchStore` | - |
| `NoBlockLeftHalfDone` | `NothingLeftHalfDone` | `EnoughPayloads` |
| `CacheUsesTierManager` | `UsesTierManager` | `EnoughPayloads` |
| `IndexStaysWithStore` | `IndexMatchesStore` | `PinAncestors` |
| `LookupsReturnOwnBlock` | `LookupReturnsOwnBlock` | `PinAncestors` |
| `AdmittedChainsAreWhole` | `AdmittedChainIsWhole` | `PinAncestors` |
| `CacheUsesPrefixMap` | `UsesPrefixMap` | `PinAncestors` |
| **EventStreamProofs** `StreamTypeCorrect` | `StreamTypeOK` | - |
| `StreamTells` | `StreamTellsResidency` | `EnoughPayloads` |
| `DecisionsExplain` | `DecisionsExplainEvents` (action property) | - |
| `RecordingCacheUsesItsParts` | `UsesItsParts` | both |
| `StreamImplementsCache` | recording changes nothing of what the cache does | - |
| **ClusterProofs** `ReferencesNameTheirBlock` | `ReferenceNamesItsBlock` | - |
| `FetchesBringOwnState` | `FetchedStateIsOwn` (action property) | content hashes tell the prefixes apart |
| `FetchesNeverMismatch` | the hash comparison of `RemoteBlockFetcher` never fails | - |
| `ClusterUsesItsParts` | every step is, to each worker, a step of `LocalCache` or none, and to the coordinator one of its calls or none | - |
| `RemoteReuseAlwaysComplete` | `RemoteReuseIsComplete` | content hashes tell the prefixes apart |
| `BenchImplementsCluster` | the benchmark only chooses among what the cluster leaves open | - |
| `BenchTypesCorrect` | `BenchTypeOK` | - |
| `CountersAlwaysAgree` | `CountersAgree` | - |
| `HitRateIsAtMostOne` | the first part of `HitsAreExact`: no more hits than possible ones | - |
| `HitsAlwaysExact` | `HitsAreExact` | - |
| `SharedPrefixAlwaysStays` | `SharedPrefixStays` (action property) | - |
| `HashRoutingIsLocal` | `HashRoutingStaysLocal` | - |
| `BenchReferencesNameTheirBlock` | `ReferenceNamesItsBlock` and no hash mismatch, in the benchmark | - |

*Assumptions.* The `ASSUME`s of the modules say: capacities, bounds, latencies are
numbers; handles and blocks are finite sets; paths are not empty and closed under
prefixes (a request has whole blocks, each with the blocks before it); the hash of
an empty record is no block's hash; the benchmark's `Workload` lets its k-th request be
any that a generator produces k-th, and its cluster evicts any victim. Every one is evaluated by TLC in a run. Three
theorem hypotheses go further and are stated where they are used:

* `PinAncestors`: callers hold handles on the chain they extend. The code does not
  enforce it; finding 1 shows what happens without it, and the theorems show that
  nothing else is needed, under any eviction policy.
* `EnoughPayloads`: payloads are metadata only, or there is a buffer for each place
  in the tiers or for each slot of the pool. Otherwise `PayloadStore::put` throws in the middle of
  `admit`, and the block stays `Admitting`.
* Content hashes that tell prefixes apart (`FetchesBringOwnState`,
  `RemoteReuseAlwaysComplete`): the hash covers a block's index and tokens and not the
  blocks before it, so a fetch may bring the state of another prefix, which is then
  admitted under this one.

*BlockManager.* None of the invariants is inductive alone. That `initialize` may
clear a reference count needs that the slot on the free list is held by nobody;
that needs a free record to be unpinned, which needs the count to be exact when
`transitionState` checks it, and that the free list holds exactly the slots whose
record is `Free`, each once. So the inductive invariant `IInv` is the conjunction
of all of them. Counting handles is isolated in lemmas about the cardinality of
`Holders`. The two action properties follow from `IInv` and one step
(`KeepsIdentity`).

*PrefixMap.* `insert` fills gaps, `remove` empties one entry; a block that is
inserted is new (the precondition of the callers, part of the action).

*TierManager, TierStorage.* The inductive invariant is the three properties and the
types together: a `remove` returns a buffer that is on the free stack once only
because its block was the sole owner. With every buffer either free or owned by a
resident block, an empty free stack means at least as many resident blocks as
buffers, hence `PutNeverThrows`. A scan moves a whole set of blocks in one step; its
effect is restated per block and per tier. That the target stays within its capacity
follows from the check of the last iteration, which counts all the blocks moved before
(`ScanFits`), so no induction over the set is needed.
`PayloadReadsBack` needs single ownership: otherwise one block's `put` writes into
another's bytes.

*Coordinator.* The work is in `remove_if`: that it returns a sequence of the
elements that stay, and keeps them distinct, by induction on the positions.

*LocalCache.* The parts' theorems are used through instances of their proof modules:
a step of the cache is shown to be a step of the part, and the part's invariant
carries over. Four layers:

1. `BaseInv`, of every cache: types, `BlockManager`'s invariant, and the lengths
   that tie the chain in `call` to the path.
2. `NamesInv`, of every cache: a slot that was ever used holds the block of one
   prefix (`kv`) with that prefix's hash, and each step either keeps this for a slot
   or moves it to a later generation (`NamesKept`). The cluster needs this one.
3. `TierPart`, of every cache: apart from the block that the call in progress works
   on, the tiers hold the `Ready` blocks; a victim leaves before its slot does.
4. `IndexPart`, with `PinAncestors`: the chain in `call.existing` is what the index
   holds for the ancestors, and each of them has a handle. `candidates` are
   unpinned, so no victim is of the chain, and the chain inserted afterwards is the
   chain that is there: `insert` adds exactly one entry (`InsertIsOneEntry`).

*EventStream.* `StreamInv` adds to the first three layers that the reader's view is
the residency of the store (`ViewTells`: the tier of record while a block is `Ready`
or `Evicting`, so a victim is seen until it is freed), and that the log begins with
the decision of the call in progress.

*Cluster.* `ReqInv` says which call the request has in progress, on which worker and
for which of its blocks, that its counters stay within its path, and that the block
about to be announced was created for the prefix it is announced for. With it every
step is one that the workers and the coordinator allow (`EveryStep`); what comes to
the index names its block, and `NamesKept` of both workers keeps it so.

*Cluster before the first eviction.* `IndexPart` of a cache needs `PinAncestors`, which
the benchmark's callers do not grant. Before the first eviction nobody needs it: an
admission in progress extends a chain that cannot lose a block, so the index of each
worker is exact (`AIndexed`, `BIndexed`). On top of that stands `Unevicted`: with a
prefix a worker has all shorter ones (`Closed`), a reference leads to a block that is
there (`RefsLead`), space is made only when the pool is full (`SpaceIsNeeded`), and
`ResultGrows`, which follows the request: the result so far is what the worker has under
the beginning of the path, nothing of the path behind it is present before it is
computed, what was fetched is admitted in order unless the pool is full, and the
coordinator does not know what comes after the fetched ones. `RefsLead` makes every fetch
succeed (`FetchNeverFails`); that nothing was evicted at the end of a step means that
the step evicts nothing (`NoEviction`, from the generations).

*Bench.* A step of the benchmark is a step of the cluster with a choice of policy and
changes of counters (`BenchStep` reduces the actions to a few kinds of steps: a request
is routed, one of the steps of the request in progress, a result is dropped, nothing;
each with what happens to counters and totals). The inductive invariant is
`BenchInv`, that of the cluster with `BenchPart`:

* `RequestInv`: the request is the last one generated, on a worker that the routing
  policy chose;
* `ResidentsCounted`, `StreamCounted`: admissions without evictions are the resident
  blocks, where a victim counts until `BlockEvicted` is recorded; the stream has what the
  workers counted;
* `LastBlockIsNew`: the last block of a request, fresh by the generator, is in no cache
  and in no list of the coordinator before its request computes it; therefore
  `LastBlockIsMissed`, and the hits of a request are fewer than its blocks;
* `HitsCounted`: what was admitted of the fetched blocks is at most what was fetched,
  and what is not yet added to the totals still fits below the possible ones;
* `Routed`: each block and each reference comes from a request that was routed to its
  worker. With hash routing this decides the worker from the first block alone, so the
  worker of a request is the only one that can have a block of it.

*Bench with a shared prompt.* `HitsAreExact` and `SharedPrefixStays` say which blocks
survive evictions, in runs where blocks are evicted and nobody promises `PinAncestors`.
`SharedInv` adds to `BenchInv`, for the shared prompt and pools with room for one request:

* the index of each worker matches its store (`AIndexed`, `BIndexed`);
* `Steady`: a worker without a request has all blocks of the prompt, or none of them and
  none of a single request either;
* `Announced`: the coordinator knows the blocks of the prompt that the first request has
  announced, and its references to them lead to the block;
* `Staged`: where the request in progress is. It finds the whole prompt, or fetches and
  admits it block by block, and the first request computes it; its result holds what it
  has of the prompt so far;
* `HitsExact`: the totals, with the prompt of the first request and that of the request
  not yet assembled, are the possible hits.

The argument is independent of the eviction policy. A worker that has to bring in the
prompt begins with an empty pool, which has room for all of it (`Capacity >= PrefixBlocks +
SuffixBlocks`), so space is made only for a suffix; by then the result of the request pins
the prompt, so the victim is no block of it (`VictimOffPrompt`) and none of the chain
that the admission extends: the index keeps matching the store, which is what
`PinAncestors` grants elsewhere. The blocks of the prompt thus stay, the references lead to them, and
every fetch of one succeeds (`SharedFetchNeverFails`).

*How induction over data is done.* The induction theorems of the library take an
operator, which no backend instantiates. Where a fact about all positions or lengths
is needed (`remove_if`, `matchedBlocks`) it is stated about the set of numbers for
which it fails, whose least element gives the contradiction (`NatSetInduction` in
`CoordinatorProofs`, `MatchedFacts` and `LastPosition` in `PrefixMapProofs`).

*Model-checked only.*

* Liveness: `CallReturns`, `RequestReturns`. Fairness is outside of what is proved.
* `PrefixIndex` (`TypeOK`, `TreeIsWellFormed`, `LookupAgrees`, `CountsAgree`,
  `ImplementsPrefixMap`): the descents of the tree are recursive operators, which
  the prover does not take.
* The findings: they are counterexamples.

## 6. Not modelled

* Configuration (`config/`) and the policy registry: parsing and a table of names,
  used by tests only. The benchmark has its own command line, which is modelled.
* `localLookupNs` (no caller) and `networkFetchNs` (its caller ignores the value).
* The age term of prefix-aware eviction: it needs fractions of seconds of a clock
  that the benchmark never advances. Under an advancing clock the policy is covered
  as "any victim".
* Events that no code records (`LookupHit`, `LookupMiss`,
  `NonContiguousLocalBlocks`), `CoordinatorStaleRef`, which goes to a null sink,
  timestamps, in-memory sinks, files.
* The older single-node comparison of the benchmark, and printing.
* The bit mixing of the hashes (only which inputs they cover); prefetch, which no
  code calls; promotion and demotion policies beyond "any choice".
* The atomic reference count is modelled as a counter: there is one thread.

## 7. Plan

Done: the block life cycle, the prefix index and its map, tiers with payloads and
latencies, the cache of a worker with its event stream, the coordinator, the
cluster, the benchmark with its policies; proofs of the safety properties of all of
them but the radix tree. What could follow:

1. `TreeIsWellFormed` of `PrefixIndex`, if the descent can be written as a function.
