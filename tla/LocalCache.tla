------------------------------ MODULE LocalCache ------------------------------
(***************************************************************************)
(* LocalCache: the block cache of one worker, composed of BlockManager,    *)
(* the prefix index (as the map PrefixMap) and TierManager, with the       *)
(* controllers that drive them: AdmissionController, EvictionController    *)
(* with SafeCandidateFinder, and PrefixLookupEngine.                       *)
(*                                                                         *)
(* The code is single-threaded: one call runs at a time, and the variable  *)
(* call says where it is.  A call is cut into steps so that each of them   *)
(* makes at most one BlockManager call; between two steps of a call no     *)
(* other call can start.  What stays between calls are the handles that    *)
(* callers keep.  A call that returns without having changed anything      *)
(* (AlreadyPresent, InvalidBlock, Rejected, a miss) is a stuttering step.  *)
(***************************************************************************)
EXTENDS Integers, Sequences, FiniteSets

CONSTANTS
    Capacity, Handles, MaxGeneration, MaxTime,  \* see BlockManager
    Paths,                                      \* see PrefixMap
    WithTiers,          \* the cache was built with a TierManager
    TierCapacity, MaxPayloads, MetadataOnly,    \* see TierManager
    EvictionPolicy,     \* "lru", "no_eviction", or "any" victim whatsoever
    PinAncestors        \* callers keep handles on the ancestors of the block
                        \* they admit, from lookupPrefix or from admitBlock

VARIABLES
    free_list, generations, in_use, records, handles, now,  \* BlockManager
    terminals, block_node,                                  \* PrefixMap
    tiers, rec_tier, rec_payload, payload_free,             \* TierManager
    call,       \* the call in progress
    kv          \* history: the path whose KV state each slot was created for

Slots == 0 .. (Capacity - 1)
NoSlot == -1
NoPath == <<>>

\* Mutant: the tokens do not go into the hash.
contentHash_noTokens(p) == <<Len(p), "none">>

\* computeContentHash covers the block's index and its own tokens only.
contentHash(p) == <<Len(p), p[Len(p)]>>
Hashes == {contentHash(p) : p \in Paths}
NoHash == <<0, 0>>

BM == INSTANCE BlockManager
PM == INSTANCE PrefixMap WITH Ids <- Slots, NoId <- NoSlot
TM == INSTANCE TierManager WITH Blocks <- Slots

bmVars == <<free_list, generations, in_use, records, handles, now>>
pmVars == <<terminals, block_node>>
tmVars == <<tiers, rec_tier, rec_payload, payload_free>>
vars == <<free_list, generations, in_use, records, handles, now,
          terminals, block_node, tiers, rec_tier, rec_payload, payload_free, call, kv>>

\* What the parts require of their parameters
ASSUME CapacityAssumption == Capacity \in Nat
ASSUME HandlesAssumption == IsFiniteSet(Handles)
ASSUME BoundsAssumption == MaxGeneration \in Nat /\ MaxTime \in Nat
ASSUME PathsAssumption ==
    /\ Paths \subseteq Seq(UNION {{p[i] : i \in 1 .. Len(p)} : p \in Paths})
    /\ \A p \in Paths : Len(p) > 0
    /\ \A p \in Paths : \A i \in 1 .. Len(p) : SubSeq(p, 1, i) \in Paths
ASSUME TiersAssumption ==
    /\ TierCapacity \in [TM!Tiers -> Nat]
    /\ MaxPayloads \in Nat
    /\ MetadataOnly \in BOOLEAN
ASSUME PolicyAssumption == EvictionPolicy \in {"lru", "no_eviction", "any"}
ASSUME SwitchesAssumption == WithTiers \in BOOLEAN /\ PinAncestors \in BOOLEAN

-----------------------------------------------------------------------------

Idle == [pc |-> "idle"]

Calls ==
    {Idle}
    \cup [pc : {"lookup"}, todo : Seq(Slots) \ {<<>>}]
    \cup [pc : {"space", "create"}, path : Paths, existing : Seq(Slots), tier : TM!Tiers]
    \cup [pc : {"evict"}, path : Paths, existing : Seq(Slots), tier : TM!Tiers,
          victim : Slots]
    \cup [pc : {"ready", "acquire"}, path : Paths, id : Slots]

TypeOK ==
    /\ BM!TypeOK
    /\ PM!TypeOK
    /\ TM!TypeOK
    /\ call \in Calls
    /\ kv \in [Slots -> Paths \cup {NoPath}]

Init ==
    /\ BM!Init
    /\ PM!Init
    /\ TM!Init
    /\ call = Idle
    /\ kv = [s \in Slots |-> NoPath]

FreeHandles == {h \in Handles : handles[h] = NoSlot}

-----------------------------------------------------------------------------
(* PrefixLookupEngine::lookup, called by LocalCache::lookupPrefix: acquire *)
(* the indexed blocks one after the other, stop at the first that fails.   *)

lookupPrefix(p) ==
    /\ call = Idle
    /\ PM!lookup(p) # <<>>
    /\ Cardinality(FreeHandles) >= Len(PM!lookup(p))
    /\ call' = [pc |-> "lookup", todo |-> PM!lookup(p)]
    /\ UNCHANGED <<bmVars, pmVars, tmVars, kv>>

\* Mutant: the loop does not notice its end.
lookupStep_noEnd ==
    /\ call.pc = "lookup"
    /\ \E h \in FreeHandles : BM!acquire(h, Head(call.todo))
    /\ call' = [call EXCEPT !.todo = Tail(@)]
    /\ UNCHANGED <<pmVars, tmVars, kv>>

\* Mutant: the blocks that were found are not pinned.
lookupStep_unpinned ==
    /\ call.pc = "lookup"
    /\ BM!markAccessed(Head(call.todo))
    /\ call' = IF Len(call.todo) = 1 THEN Idle ELSE [call EXCEPT !.todo = Tail(@)]
    /\ UNCHANGED <<pmVars, tmVars, kv>>

lookupStep ==
    /\ call.pc = "lookup"
    /\ IF BM!Acquirable(Head(call.todo))
       THEN /\ \E h \in FreeHandles : BM!acquire(h, Head(call.todo))
            /\ call' = IF Len(call.todo) = 1 THEN Idle
                       ELSE [call EXCEPT !.todo = Tail(@)]
       ELSE /\ call' = Idle
            /\ UNCHANGED bmVars
    /\ UNCHANGED <<pmVars, tmVars, kv>>

-----------------------------------------------------------------------------
(* AdmissionController::admit *)

\* The early returns of admit, in their order; "Proceed" is none of them.
\* The admission policy may still reject the block.
admitStatus(p) ==
    IF Len(PM!lookup(p)) = Len(p) THEN "AlreadyPresent"
    ELSE IF Len(p) > 1 /\ Len(PM!lookup(PM!Parent(p))) # Len(p) - 1 THEN "InvalidBlock"
    ELSE "Proceed"

existingBlocks(p) == IF Len(p) = 1 THEN <<>> ELSE PM!lookup(PM!Parent(p))

\* GpuFirstPlacementPolicy::chooseTier; without TierManager blocks are in GpuSim.
chooseTier ==
    IF WithTiers /\ Cardinality(tiers["GpuSim"]) >= TierCapacity["GpuSim"]
    THEN "Host"
    ELSE "GpuSim"

spaceNeeded(t) == BM!available = 0 \/ (WithTiers /\ ~ TM!hasCapacity(t))

\* The caller keeps a handle on each block of the chain it extends.
AncestorsPinned(p) ==
    \A i \in 1 .. Len(p) - 1 : BM!Holders(terminals[PM!Prefix(p, i)]) # {}

\* Up to the decision whether to make space.  The last two conjuncts bound the
\* run: no slot may run out of generations, and the result needs a handle.
admit(p) ==
    /\ call = Idle
    /\ admitStatus(p) = "Proceed"
    /\ PinAncestors => AncestorsPinned(p)
    /\ call' = [pc |-> IF spaceNeeded(chooseTier) THEN "space" ELSE "create",
                path |-> p, existing |-> existingBlocks(p), tier |-> chooseTier]
    /\ UNCHANGED <<bmVars, pmVars, tmVars, kv>>
    /\ \A s \in Slots : generations[s] < MaxGeneration
    /\ FreeHandles # {}

\* Mutant: makeSpace does not filter by tier.
candidates_anyTier ==
    {s \in Slots : records[s].state = "Ready" /\ records[s].refcount = 0}

\* SafeCandidateFinder::find, then the tier filter of makeSpace
candidates ==
    {s \in Slots : /\ records[s].state = "Ready"
                   /\ records[s].refcount = 0
                   /\ rec_tier[s] = call.tier}

\* LruEvictionPolicy: the first of the least recently accessed, in slot order
lruVictims ==
    {s \in candidates : \A o \in candidates :
        \/ records[s].last_access_ns < records[o].last_access_ns
        \/ records[s].last_access_ns = records[o].last_access_ns /\ s <= o}

chooseVictim ==
    CASE EvictionPolicy = "lru" -> lruVictims
      [] EvictionPolicy = "any" -> candidates
      [] EvictionPolicy = "no_eviction" -> {}

\* Mutant: makeSpace looks for a victim again instead of giving up.
insufficientCandidates_retry ==
    /\ call.pc = "space"
    /\ chooseVictim = {} \/ EvictionPolicy = "any"
    /\ UNCHANGED vars

\* makeSpace(1) without a victim: admit returns CapacityExceeded.
insufficientCandidates ==
    /\ call.pc = "space"
    /\ chooseVictim = {} \/ EvictionPolicy = "any"
    /\ call' = Idle
    /\ UNCHANGED <<bmVars, pmVars, tmVars, kv>>

\* makeSpace: the victim leaves Ready ...
beginEvict(victim) ==
    /\ call.pc = "space"
    /\ victim \in chooseVictim
    /\ BM!transitionState(victim, "Ready", "Evicting")
    /\ call' = [pc |-> "evict", path |-> call.path, existing |-> call.existing,
                tier |-> call.tier, victim |-> victim]
    /\ UNCHANGED <<pmVars, tmVars, kv>>

\* Mutants: the victim stays in the index; it stays in its tier; its payload
\* buffer is not released.
finishEvict_keepsIndex ==
    /\ call.pc = "evict"
    /\ IF WithTiers THEN TM!remove(call.victim) ELSE UNCHANGED tmVars
    /\ BM!freeBlock(call.victim)
    /\ call' = [pc |-> "create", path |-> call.path, existing |-> call.existing,
                tier |-> call.tier]
    /\ UNCHANGED <<pmVars, kv>>

finishEvict_keepsTier ==
    /\ call.pc = "evict"
    /\ PM!remove(call.victim)
    /\ BM!freeBlock(call.victim)
    /\ call' = [pc |-> "create", path |-> call.path, existing |-> call.existing,
                tier |-> call.tier]
    /\ UNCHANGED <<tmVars, kv>>

finishEvict_leaksPayload ==
    /\ call.pc = "evict"
    /\ PM!remove(call.victim)
    /\ tiers' = [t \in TM!Tiers |-> tiers[t] \ {call.victim}]
    /\ BM!freeBlock(call.victim)
    /\ call' = [pc |-> "create", path |-> call.path, existing |-> call.existing,
                tier |-> call.tier]
    /\ UNCHANGED <<rec_tier, rec_payload, payload_free, kv>>

\* ... leaves the index and its tier, and its slot is freed.
finishEvict ==
    /\ call.pc = "evict"
    /\ PM!remove(call.victim)
    /\ IF WithTiers THEN TM!remove(call.victim) ELSE UNCHANGED tmVars
    /\ BM!freeBlock(call.victim)
    /\ call' = [pc |-> "create", path |-> call.path, existing |-> call.existing,
                tier |-> call.tier]
    /\ UNCHANGED kv

\* createBlock, place and insertFullBlocks.  The index gets the chain that
\* admit read before it made space.  Without a free slot admit returns
\* CapacityExceeded; a place that fails ends in an exception (freeBlock on an
\* Admitting block, or PayloadStore::put), with the block left as it is.
placeFits == ~ WithTiers \/ (TM!hasCapacity(call.tier) /\ TM!canPut)

\* Mutant: the new block is put in front of its ancestors.
allBlocks_swapped == <<BM!allocated>> \o call.existing

\* all_blocks
allBlocks == Append(call.existing, BM!allocated)

create ==
    /\ call.pc = "create"
    /\ IF BM!available = 0
       THEN call' = Idle /\ UNCHANGED <<bmVars, pmVars, tmVars, kv>>
       ELSE /\ BM!createBlock(contentHash(call.path))
            /\ kv' = [kv EXCEPT ![BM!allocated] = call.path]
            /\ IF placeFits
               THEN /\ IF WithTiers THEN TM!place(BM!allocated, call.tier)
                                    ELSE UNCHANGED tmVars
                    /\ PM!insert(call.path, allBlocks)
                    /\ call' = [pc |-> "ready", path |-> call.path, id |-> BM!allocated]
               ELSE /\ rec_tier' = [rec_tier EXCEPT ![BM!allocated] = call.tier]
                    /\ rec_payload' = [rec_payload EXCEPT ![BM!allocated] = TM!INVALID]
                    /\ call' = Idle
                    /\ UNCHANGED <<pmVars, tiers, payload_free>>

ready ==
    /\ call.pc = "ready"
    /\ BM!transitionState(call.id, "Admitting", "Ready")
    /\ call' = [call EXCEPT !.pc = "acquire"]
    /\ UNCHANGED <<pmVars, tmVars, kv>>

\* The result carries a handle on the new block.
admitted ==
    /\ call.pc = "acquire"
    /\ \E h \in FreeHandles : BM!acquire(h, call.id)
    /\ call' = Idle
    /\ UNCHANGED <<pmVars, tmVars, kv>>

-----------------------------------------------------------------------------
(* The other calls take one step *)

getBlock(h, s, g) ==
    /\ call = Idle
    /\ BM!fetchLocal(h, s, g)
    /\ UNCHANGED <<pmVars, tmVars, call, kv>>

\* fetchLocal whose handle is gone again when the payload has been copied
serveBlockFetch(s, g) ==
    /\ call = Idle
    /\ BM!fetchLocalStatus(s, g) = "Hit"
    /\ BM!markAccessed(s)
    /\ UNCHANGED <<pmVars, tmVars, call, kv>>

releaseHandle(h) ==
    /\ call = Idle
    /\ BM!releaseHandle(h)
    /\ UNCHANGED <<pmVars, tmVars, call, kv>>

promotionScan(moved) ==
    /\ call = Idle /\ WithTiers
    /\ TM!promotionScan(moved)
    /\ UNCHANGED <<bmVars, pmVars, call, kv>>

demotionScan(moved) ==
    /\ call = Idle /\ WithTiers
    /\ TM!demotionScan(moved)
    /\ UNCHANGED <<bmVars, pmVars, call, kv>>

advanceNs ==
    /\ BM!advanceNs
    /\ UNCHANGED <<pmVars, tmVars, call, kv>>

-----------------------------------------------------------------------------

\* The next step of the call in progress
callStep ==
    \/ lookupStep
    \/ insufficientCandidates
    \/ \E victim \in Slots : beginEvict(victim)
    \/ finishEvict
    \/ create
    \/ ready
    \/ admitted

Next ==
    \/ \E p \in Paths : lookupPrefix(p)
    \/ \E p \in Paths : admit(p)
    \/ callStep
    \/ \E h \in Handles, s \in Slots, g \in 1 .. MaxGeneration : getBlock(h, s, g)
    \/ \E s \in Slots, g \in 1 .. MaxGeneration : serveBlockFetch(s, g)
    \/ \E h \in Handles : releaseHandle(h)
    \/ \E moved \in SUBSET Slots : promotionScan(moved)
    \/ \E moved \in SUBSET Slots : demotionScan(moved)
    \/ advanceNs

\* A call that has started runs on: nothing in the code waits for another caller.
Spec == Init /\ [][Next]_vars /\ WF_vars(callStep)

-----------------------------------------------------------------------------
(* Properties *)

\* The index knows exactly the blocks that are resident: a Ready block can be
\* found (and evicted) through the index, and the index leads to no slot that
\* was evicted, re-used or never finished.  Only the block that the call in
\* progress is publishing or evicting is between the two.
IndexMatchesStore ==
    \A s \in Slots :
        block_node[s] # NoPath <=>
            \/ records[s].state = "Ready"
            \/ call.pc = "ready" /\ s = call.id
            \/ call.pc = "evict" /\ s = call.victim

\* The block found for a prefix is the block that was admitted for this prefix,
\* so that lookupPrefix hands out KV state of the tokens that were asked for.
LookupReturnsOwnBlock ==
    \A p \in Paths : terminals[p] # NoSlot => kv[terminals[p]] = p

\* When admit is about to return Admitted, the whole chain up to the new block
\* can be looked up: making space has not torn a hole into it.
AdmittedChainIsWhole ==
    call.pc = "acquire" =>
        LET found == PM!lookup(call.path)
        IN Len(found) = Len(call.path) /\ found[Len(found)] = call.id

\* Between calls every slot is Free or Ready: no path through admit or makeSpace,
\* the failing ones included, leaves a block half admitted or half evicted.
NothingLeftHalfDone ==
    call = Idle => \A s \in Slots : records[s].state \in {"Free", "Ready"}

\* With a TierManager the resident blocks are the Ready ones, each with the
\* payload buffer it got at admission.
TiersMatchStore ==
    WithTiers /\ call = Idle => TM!Resident = {s \in Slots : records[s].state = "Ready"}

\* The cache uses its parts as they require: every step of it is a step (or no
\* step) of BlockManager, of PrefixMap and of TierManager.
UsesBlockManager == BM!Spec
UsesPrefixMap == PM!Spec
UsesTierManager == TM!Spec

\* Every call returns: makeSpace and the acquire loop end.
CallReturns == call # Idle ~> call = Idle

=============================================================================
