----------------------------- MODULE TierManager -----------------------------
(***************************************************************************)
(* The tier bookkeeping of one worker: TierManager over one TierStore per  *)
(* tier (the ids resident in the tier, up to its capacity) and one         *)
(* PayloadStore (a pool of payload buffers), together with the two fields  *)
(* of BlockRecord that TierManager writes, tier and payload.  Which buffer *)
(* belongs to which block is kept here; the bytes in the buffers and the   *)
(* results of the calls are in TierStorage.                                *)
(***************************************************************************)
EXTENDS Integers, Sequences, FiniteSets

CONSTANTS
    Blocks,         \* the block ids (slots) of the worker's store
    TierCapacity,   \* TierStore::capacity_blocks_ of "GpuSim" and "Host"
    MaxPayloads,    \* PayloadStore::max_blocks_
    MetadataOnly    \* PayloadStore::bytes_per_block_ = 0

Tiers == {"GpuSim", "Host"}

ASSUME TierCapacityAssumption == TierCapacity \in [Tiers -> Nat]
ASSUME MaxPayloadsAssumption == MaxPayloads \in Nat
ASSUME MetadataOnlyAssumption == MetadataOnly \in BOOLEAN
ASSUME BlocksAssumption == IsFiniteSet(Blocks)

VARIABLES
    tiers,          \* TierStore::block_ids_ of each tier
    rec_tier,       \* BlockRecord::tier
    rec_payload,    \* BlockRecord::payload
    payload_free    \* PayloadStore::free_list_, a stack

tmVars == <<tiers, rec_tier, rec_payload, payload_free>>

Payloads == 0 .. (MaxPayloads - 1)
INVALID == -1       \* PayloadRef::INVALID

TypeOK ==
    /\ tiers \in [Tiers -> SUBSET Blocks]
    /\ rec_tier \in [Blocks -> Tiers]
    /\ rec_payload \in [Blocks -> Payloads \cup {INVALID}]
    /\ payload_free \in Seq(Payloads)

\* Mutant: the free list is filled with slot numbers that are one too high.
initialFreeList_shifted ==
    IF MetadataOnly THEN <<>> ELSE [i \in 1 .. MaxPayloads |-> MaxPayloads + 1 - i]

\* The constructor of PayloadStore
initialFreeList ==
    IF MetadataOnly THEN <<>> ELSE [i \in 1 .. MaxPayloads |-> MaxPayloads - i]

Init ==
    /\ tiers = [t \in Tiers |-> {}]
    /\ rec_tier = [b \in Blocks |-> "GpuSim"]
    /\ rec_payload = [b \in Blocks |-> INVALID]
    /\ payload_free = initialFreeList

-----------------------------------------------------------------------------
(* TierStore and PayloadStore *)

hasCapacity(t) == Cardinality(tiers[t]) < TierCapacity[t]

\* PayloadStore::put throws when this is false.
canPut == MetadataOnly \/ payload_free # <<>>

putRef == IF MetadataOnly THEN INVALID ELSE payload_free[Len(payload_free)]
put ==
    /\ canPut
    /\ payload_free' = IF MetadataOnly THEN payload_free
                       ELSE SubSeq(payload_free, 1, Len(payload_free) - 1)

\* PayloadStore::remove; there is no check that the buffer is in use.
removePayload(ref) ==
    payload_free' = IF ref = INVALID \/ MetadataOnly THEN payload_free
                    ELSE Append(payload_free, ref)

-----------------------------------------------------------------------------
(* TierManager.  Every call that returns CapacityExceeded or BlockNotFound *)
(* changes nothing.                                                        *)

place(b, target) ==
    /\ hasCapacity(target)
    /\ put
    /\ tiers' = [tiers EXCEPT ![target] = @ \cup {b}]
    /\ rec_tier' = [rec_tier EXCEPT ![b] = target]
    /\ rec_payload' = [rec_payload EXCEPT ![b] = putRef]

\* Mutant: setTier is forgotten.
migrate_keepsTier(b, target) ==
    /\ b \in tiers[rec_tier[b]]
    /\ hasCapacity(target)
    /\ tiers' = [[tiers EXCEPT ![rec_tier[b]] = @ \ {b}]
                    EXCEPT ![target] = @ \cup {b}]
    /\ UNCHANGED <<rec_tier, rec_payload, payload_free>>

\* promote(id, target) and demote(id, target) have the same body.
migrate(b, target) ==
    /\ b \in tiers[rec_tier[b]]
    /\ hasCapacity(target)
    /\ tiers' = [[tiers EXCEPT ![rec_tier[b]] = @ \ {b}]
                    EXCEPT ![target] = @ \cup {b}]
    /\ rec_tier' = [rec_tier EXCEPT ![b] = target]
    /\ UNCHANGED <<rec_payload, payload_free>>

\* Mutant: the payload is released although no tier has the block.
remove_unchecked(b) ==
    /\ tiers' = [t \in Tiers |-> tiers[t] \ {b}]
    /\ removePayload(rec_payload[b])
    /\ UNCHANGED <<rec_tier, rec_payload>>

\* Out of the tier that has b; the record keeps its tier and its PayloadRef.
remove(b) ==
    /\ tiers' = [t \in Tiers |-> tiers[t] \ {b}]
    /\ IF \E t \in Tiers : b \in tiers[t]
       THEN removePayload(rec_payload[b])
       ELSE UNCHANGED payload_free
    /\ UNCHANGED <<rec_tier, rec_payload>>

\* Mutant: each iteration asks the stats from before the loop.
iterations_stale(target, moved) ==
    \E order \in [1 .. Cardinality(moved) -> moved] :
        /\ moved = {order[i] : i \in DOMAIN order}
        /\ \A i \in DOMAIN order : hasCapacity(target)

\* The loop of a scan: the blocks move one after the other, in the order of the
\* snapshot, and each finds room in what the target has after those before it.
\* What the policy refuses, or what comes after the target was full, is not moved.
iterations(target, moved) ==
    \E order \in [1 .. Cardinality(moved) -> moved] :
        /\ moved = {order[i] : i \in DOMAIN order}
        /\ \A i \in DOMAIN order :
              Cardinality(tiers[target] \cup {order[j] : j \in 1 .. i - 1}) < TierCapacity[target]

\* What a scan may move: a policy chooses among the blocks of the source tier.
scan(source, target, moved) ==
    /\ moved \subseteq tiers[source]
    /\ \A b \in moved : rec_tier[b] = source
    /\ iterations(target, moved)
    /\ tiers' = [tiers EXCEPT ![source] = @ \ moved, ![target] = @ \cup moved]
    /\ rec_tier' = [b \in Blocks |-> IF b \in moved THEN target ELSE rec_tier[b]]
    /\ UNCHANGED <<rec_payload, payload_free>>

\* PromotionController::runScan and DemotionController::runScan
promotionScan(moved) == scan("Host", "GpuSim", moved)
demotionScan(moved) == scan("GpuSim", "Host", moved)

-----------------------------------------------------------------------------
(* The callers place a block that has no tier: the one just created.       *)

Resident == UNION {tiers[t] : t \in Tiers}

Next ==
    \/ \E b \in Blocks \ Resident, t \in Tiers : place(b, t)
    \/ \E b \in Blocks, t \in Tiers : migrate(b, t)
    \/ \E b \in Blocks : remove(b)
    \/ \E moved \in SUBSET Blocks : promotionScan(moved)
    \/ \E moved \in SUBSET Blocks : demotionScan(moved)

Spec == Init /\ [][Next]_tmVars

-----------------------------------------------------------------------------
(* Properties *)

\* A resident block is in exactly one tier, the one its record names, so the
\* tier that eviction filters by is the tier that remove takes it out of.
TierOfRecordIsTierOfStore ==
    \A b \in Blocks, t \in Tiers : b \in tiers[t] => rec_tier[b] = t

\* No tier is ever over its capacity, whatever the order of placements,
\* promotions and demotions.
WithinCapacity == \A t \in Tiers : Cardinality(tiers[t]) <= TierCapacity[t]

\* Every payload buffer has one owner: it is on the free list once, or it is
\* the payload of one resident block, never both, never of two blocks and never
\* lost.
PayloadHasOneOwner ==
    ~ MetadataOnly =>
        /\ \A ref \in Payloads :
              \/ \E i \in 1 .. Len(payload_free) : payload_free[i] = ref
              \/ \E b \in Resident : rec_payload[b] = ref
        /\ \A i, j \in 1 .. Len(payload_free) : payload_free[i] = payload_free[j] => i = j
        /\ \A b \in Resident :
              /\ rec_payload[b] # INVALID
              /\ \A i \in 1 .. Len(payload_free) : payload_free[i] # rec_payload[b]
              /\ \A c \in Resident \ {b} : rec_payload[c] # rec_payload[b]

=============================================================================
