-------------------------- MODULE LocalCacheProofs --------------------------
(***************************************************************************)
(* Proofs about LocalCache, from the theorems about its parts, for every   *)
(* pool size, every set of paths, every eviction policy and any tiers.     *)
(*                                                                         *)
(* First what holds of every cache: it calls BlockManager as BlockManager  *)
(* requires (BaseInv), a slot with a generation is one block of one prefix *)
(* (NamesInv), and the tiers hold what the store says (TierPart).  Then    *)
(* what holds when callers keep handles on the chain they extend           *)
(* (PinAncestors): eviction never takes a block of that chain, because     *)
(* pinned blocks are counted, so that the chain which admit read before it *)
(* made space is still there when the block is inserted (IndexPart).       *)
(***************************************************************************)
EXTENDS LocalCache, FiniteSetTheorems, SequenceTheorems, TLAPS

BMP == INSTANCE BlockManagerProofs
PMP == INSTANCE PrefixMapProofs WITH Ids <- Slots, NoId <- NoSlot
TMP == INSTANCE TierManagerProofs WITH Blocks <- Slots

-----------------------------------------------------------------------------
(* The parts: their names here, and what was proved about them *)

\* The parts have the same slots, the same null values and count in the same way.
LEMMA Names ==
    /\ BM!Slots = Slots /\ BMP!Slots = Slots
    /\ BM!NoSlot = NoSlot /\ BMP!NoSlot = NoSlot
    /\ TMP!Tiers = TM!Tiers /\ TM!Tiers = {"GpuSim", "Host"}
    /\ \A S : BMP!IsFiniteSet(S) <=> IsFiniteSet(S)
    /\ \A S : TMP!IsFiniteSet(S) <=> IsFiniteSet(S)
    /\ \A S : TM!Cardinality(S) = Cardinality(S)
    /\ \A S : TMP!Cardinality(S) = Cardinality(S)
  BY DEF Slots, NoSlot, BM!Slots, BMP!Slots, BM!NoSlot, BMP!NoSlot, TM!Tiers, TMP!Tiers,
         IsFiniteSet, BMP!IsFiniteSet, TMP!IsFiniteSet,
         Cardinality, TM!Cardinality, TMP!Cardinality

\* The slots are finitely many numbers, none of which is the null value.
LEMMA SlotFacts ==
    /\ IsFiniteSet(Slots) /\ Slots \subseteq Nat /\ NoSlot \notin Slots
    /\ Cardinality(Slots) = Capacity
<1>1. IsFiniteSet(0 .. Capacity - 1) /\ Cardinality(0 .. Capacity - 1) = Capacity
  BY CapacityAssumption, FS_Interval
<1> QED
  BY <1>1, CapacityAssumption DEF Slots, NoSlot

\* What BlockManager requires of its constants
LEMMA BlockManagerConstants ==
    /\ Capacity \in Nat
    /\ BMP!IsFiniteSet(Handles)
    /\ NoHash \notin Hashes
    /\ MaxGeneration \in Nat /\ MaxTime \in Nat
<1>1. NoHash \notin Hashes
  BY PathsAssumption DEF NoHash, Hashes, contentHash
<1> QED
  BY <1>1, CapacityAssumption, HandlesAssumption, BoundsAssumption, Names

\* What PrefixMap requires of its constants
LEMMA PrefixMapConstants ==
    /\ Paths \subseteq Seq(UNION {{p[i] : i \in 1 .. Len(p)} : p \in Paths})
    /\ \A p \in Paths : Len(p) > 0
    /\ \A p \in Paths : \A i \in 1 .. Len(p) : SubSeq(p, 1, i) \in Paths
    /\ NoSlot \notin Slots /\ NoPath \notin Paths
<1>1. NoPath \notin Paths
  BY PathsAssumption DEF NoPath
<1> QED
  BY <1>1, PathsAssumption, SlotFacts

\* What TierManager requires of its constants
LEMMA TierManagerConstants ==
    /\ TierCapacity \in [TMP!Tiers -> Nat]
    /\ MaxPayloads \in Nat
    /\ MetadataOnly \in BOOLEAN
    /\ TMP!IsFiniteSet(Slots)
  BY TiersAssumption, Names, SlotFacts

\* A step of BlockManager, as the module BlockManager or as its proofs name it
LEMMA SameBlockManager == (BM!Init <=> BMP!Init) /\ (BM!Next <=> BMP!Next)
  BY DEF BM!Init, BMP!Init, BM!poolInit, BMP!poolInit, BM!storeInit, BMP!storeInit,
         BM!Next, BMP!Next, BM!createBlock, BMP!createBlock, BM!acquire, BMP!acquire,
         BM!fetchLocal, BMP!fetchLocal, BM!releaseHandle, BMP!releaseHandle,
         BM!moveHandle, BMP!moveHandle, BM!markAccessed, BMP!markAccessed,
         BM!transitionState, BMP!transitionState, BM!freeBlock, BMP!freeBlock,
         BM!advanceNs, BMP!advanceNs, BM!Slots, BMP!Slots, BM!States, BMP!States,
         BM!allocate, BMP!allocate, BM!allocated, BMP!allocated,
         BM!allocatedGeneration, BMP!allocatedGeneration, BM!initialize, BMP!initialize,
         BM!Acquirable, BMP!Acquirable, BM!pinInto, BMP!pinInto, BM!NoSlot, BMP!NoSlot,
         BM!Touched, BMP!Touched, BM!fetchLocalStatus, BMP!fetchLocalStatus,
         BM!transitionAllowed, BMP!transitionAllowed,
         BM!isLegalTransition, BMP!isLegalTransition, BM!free, BMP!free

\* The invariant of BlockManager holds of a new one and is kept by its steps.
LEMMA BlockManagerInvariant ==
    /\ BM!Init => BMP!IInv
    /\ BMP!IInv /\ [BM!Next]_bmVars => BMP!IInv'
<1>1. BMP!Init => BMP!IInv
  BY BMP!InitIInv, BlockManagerConstants
<1>2. BMP!IInv /\ [BMP!Next]_(BMP!bmVars) => BMP!IInv'
  BY BMP!NextIInv, BlockManagerConstants
<1> QED
  BY <1>1, <1>2, SameBlockManager DEF bmVars, BMP!bmVars

\* What of the invariant of BlockManager is used here
LEMMA BlockManagerFacts ==
    ASSUME BMP!IInv
    PROVE  /\ BM!TypeOK
           /\ BM!PoolMatchesStore
           /\ \A h \in Handles : handles[h] # NoSlot =>
                 /\ handles[h] \in Slots
                 /\ records[handles[h]].refcount > 0
                 /\ records[handles[h]].state \in {"Ready", "Migrating"}
<1>1. BM!TypeOK
  BY DEF BMP!IInv, BMP!TypeOK, BM!TypeOK, BMP!Slots, BM!Slots, BMP!NoSlot, BM!NoSlot,
         BMP!BlockRecord, BM!BlockRecord, BMP!States, BM!States
<1>2. BM!PoolMatchesStore
  BY DEF BMP!IInv, BMP!PoolMatchesStore, BM!PoolMatchesStore, BMP!Slots, BM!Slots
<1>3. BMP!TypeOK /\ BMP!RefcountIsHandleCount /\ BMP!PinnedOnlyWhenResident
  BY DEF BMP!IInv
<1>4. ASSUME NEW h \in Handles, handles[h] # NoSlot
      PROVE  /\ handles[h] \in Slots
             /\ records[handles[h]].refcount > 0
             /\ records[handles[h]].state \in {"Ready", "Migrating"}
  <2>1. handles[h] # BMP!NoSlot
    BY <1>4, Names
  <2>2. handles[h] \in BMP!Slots /\ records[handles[h]].refcount > 0
    BY <1>3, <2>1, BMP!HeldIsCounted, BlockManagerConstants
  <2> QED
    BY <1>3, <2>1, <2>2, Names DEF BMP!PinnedOnlyWhenResident
<1> QED
  BY <1>1, <1>2, <1>4

\* A path is a nonempty sequence whose prefixes are paths of their length; the
\* chain of a block is that of its parent.
LEMMA PathFacts ==
    ASSUME NEW p \in Paths
    PROVE  /\ Len(p) \in Nat \ {0}
           /\ PM!Prefix(p, Len(p)) = p
           /\ \A i \in 1 .. Len(p) : PM!Prefix(p, i) \in Paths /\ Len(PM!Prefix(p, i)) = i
           /\ Len(p) > 1 =>
                /\ PM!Parent(p) \in Paths /\ Len(PM!Parent(p)) = Len(p) - 1
                /\ \A i \in 1 .. Len(p) - 1 : PM!Prefix(PM!Parent(p), i) = PM!Prefix(p, i)
<1>1. /\ Len(p) \in Nat \ {0}
      /\ PMP!Prefix(p, Len(p)) = p
      /\ \A i \in 1 .. Len(p) : PMP!Prefix(p, i) \in Paths /\ Len(PMP!Prefix(p, i)) = i
  BY PMP!PathFacts, PrefixMapConstants
<1>2. Len(p) > 1 =>
        /\ PMP!Parent(p) \in Paths /\ Len(PMP!Parent(p)) = Len(p) - 1
        /\ \A i \in 1 .. Len(p) - 1 : PMP!Prefix(PMP!Parent(p), i) = PMP!Prefix(p, i)
  BY PMP!ParentFacts, PrefixMapConstants
<1> QED
  BY <1>1, <1>2 DEF PM!Prefix, PMP!Prefix, PM!Parent, PMP!Parent

\* lookup returns the blocks of the longest gapless prefix.
LEMMA LookupFacts ==
    ASSUME PM!TypeOK, NEW p \in Paths
    PROVE  /\ PM!lookup(p) \in Seq(Slots)
           /\ Len(PM!lookup(p)) \in 0 .. Len(p)
           /\ PM!Contiguous(p, Len(PM!lookup(p)))
           /\ \A i \in 1 .. Len(PM!lookup(p)) : PM!lookup(p)[i] = terminals[PM!Prefix(p, i)]
           /\ \A i \in 0 .. Len(p) : PM!Contiguous(p, i) => i <= Len(PM!lookup(p))
<1>1. PMP!TypeOK
  BY DEF PM!TypeOK, PMP!TypeOK
<1>2. /\ PMP!lookup(p) \in Seq(Slots)
      /\ Len(PMP!lookup(p)) \in 0 .. Len(p)
      /\ PMP!Contiguous(p, Len(PMP!lookup(p)))
      /\ \A i \in 1 .. Len(PMP!lookup(p)) : PMP!lookup(p)[i] = terminals[PMP!Prefix(p, i)]
      /\ \A i \in 0 .. Len(p) : PMP!Contiguous(p, i) => i <= Len(PMP!lookup(p))
  BY <1>1, PMP!LookupFacts, PrefixMapConstants
<1>3. PM!lookup(p) = PMP!lookup(p)
  BY DEF PM!lookup, PMP!lookup, PM!matchedBlocks, PMP!matchedBlocks,
         PM!Contiguous, PMP!Contiguous, PM!Prefix, PMP!Prefix
<1> QED
  BY <1>2, <1>3 DEF PM!Contiguous, PMP!Contiguous, PM!Prefix, PMP!Prefix

\* The invariant of the index holds of a new one and is kept by its steps.
IndexInv == PM!TypeOK /\ PM!MapsAreInverse
LEMMA PrefixMapInvariant ==
    /\ PM!Init => IndexInv
    /\ IndexInv /\ [PM!Next]_pmVars => IndexInv'
<1>1. PMP!Init => PMP!IInv
  BY PMP!InitIInv, PrefixMapConstants
<1>2. PMP!IInv /\ [PMP!Next]_(PMP!pmVars) => PMP!IInv'
  BY PMP!NextIInv, PrefixMapConstants
<1>3. /\ PM!Init <=> PMP!Init
      /\ IndexInv <=> PMP!IInv
  BY DEF PM!Init, PMP!Init, IndexInv, PM!TypeOK, PM!MapsAreInverse,
         PMP!IInv, PMP!TypeOK, PMP!MapsAreInverse
<1>4. IndexInv' <=> PMP!IInv'
  BY DEF IndexInv, PM!TypeOK, PM!MapsAreInverse, PMP!IInv, PMP!TypeOK, PMP!MapsAreInverse
<1>5. PM!Next <=> PMP!Next
  BY DEF PM!Next, PMP!Next, PM!insertBlock, PMP!insertBlock, PM!remove, PMP!remove,
         PM!insert, PMP!insert, PM!Contiguous, PMP!Contiguous, PM!Gaps, PMP!Gaps,
         PM!Prefix, PMP!Prefix
<1> QED
  BY <1>1, <1>2, <1>3, <1>4, <1>5 DEF pmVars, PMP!pmVars

\* Inserting a block below its chain adds one entry to each map.
LEMMA InsertIsOneEntry ==
    ASSUME PM!TypeOK, NEW p \in Paths, NEW b \in Slots, PM!insertBlock(p, b)
    PROVE  /\ terminals' = [terminals EXCEPT ![p] = b]
           /\ block_node' = [block_node EXCEPT ![b] = p]
<1>1. PMP!TypeOK
  BY DEF PM!TypeOK, PMP!TypeOK
<1>2. PMP!insertBlock(p, b)
  BY DEF PM!insertBlock, PMP!insertBlock, PM!insert, PMP!insert,
         PM!Contiguous, PMP!Contiguous, PM!Gaps, PMP!Gaps, PM!Prefix, PMP!Prefix
<1> QED
  BY <1>1, <1>2, PMP!InsertBlockIsOneEntry, PrefixMapConstants

\* The invariant of the tiers holds of new ones and is kept by the steps of
\* TierManager.
TiersInv ==
    /\ TM!TypeOK
    /\ TM!TierOfRecordIsTierOfStore
    /\ TM!WithinCapacity
    /\ TM!PayloadHasOneOwner
LEMMA SameTiers == (TM!Init <=> TMP!Init) /\ (TM!Next <=> TMP!Next) /\ (TiersInv <=> TMP!IInv)
<1>1. TM!Init <=> TMP!Init
  BY DEF TM!Init, TMP!Init, TM!Tiers, TMP!Tiers, TM!INVALID, TMP!INVALID,
         TM!initialFreeList, TMP!initialFreeList
<1>2. /\ TM!Payloads = TMP!Payloads /\ TM!INVALID = TMP!INVALID /\ TM!Tiers = TMP!Tiers
      /\ TM!Resident = TMP!Resident
  BY DEF TM!Payloads, TMP!Payloads, TM!INVALID, TMP!INVALID, TM!Resident, TMP!Resident,
         TM!Tiers, TMP!Tiers
<1>3. \A S : TM!Cardinality(S) = TMP!Cardinality(S)
  BY Names
<1>4. \A t : TM!hasCapacity(t) <=> TMP!hasCapacity(t)
  BY <1>3 DEF TM!hasCapacity, TMP!hasCapacity
<1>5. \A b, t : TM!place(b, t) <=> TMP!place(b, t)
  BY <1>2, <1>4 DEF TM!place, TMP!place, TM!put, TMP!put, TM!canPut, TMP!canPut,
                    TM!putRef, TMP!putRef
<1>6. \A b, t : TM!migrate(b, t) <=> TMP!migrate(b, t)
  BY <1>2, <1>4 DEF TM!migrate, TMP!migrate
<1>7. \A b : TM!remove(b) <=> TMP!remove(b)
  BY <1>2 DEF TM!remove, TMP!remove, TM!removePayload, TMP!removePayload
<1>8. \A moved : /\ TM!promotionScan(moved) <=> TMP!promotionScan(moved)
                 /\ TM!demotionScan(moved) <=> TMP!demotionScan(moved)
  BY <1>3 DEF TM!promotionScan, TMP!promotionScan, TM!demotionScan, TMP!demotionScan,
              TM!scan, TMP!scan, TM!iterations, TMP!iterations
<1>9. TiersInv <=> TMP!IInv
  BY <1>2, <1>3 DEF TiersInv, TMP!IInv, TM!TypeOK, TMP!TypeOK,
        TM!TierOfRecordIsTierOfStore, TMP!TierOfRecordIsTierOfStore,
        TM!WithinCapacity, TMP!WithinCapacity,
        TM!PayloadHasOneOwner, TMP!PayloadHasOneOwner
<1> QED
  BY <1>1, <1>2, <1>5, <1>6, <1>7, <1>8, <1>9 DEF TM!Next, TMP!Next

LEMMA SameTiersNext == TiersInv' <=> TMP!IInv'
<1>1. /\ TM!Payloads = TMP!Payloads /\ TM!INVALID = TMP!INVALID /\ TM!Tiers = TMP!Tiers
      /\ TM!Resident' = TMP!Resident'
  BY DEF TM!Payloads, TMP!Payloads, TM!INVALID, TMP!INVALID, TM!Resident, TMP!Resident,
         TM!Tiers, TMP!Tiers
<1>2. \A S : TM!Cardinality(S) = TMP!Cardinality(S)
  BY Names
<1> QED
  BY <1>1, <1>2 DEF TiersInv, TMP!IInv, TM!TypeOK, TMP!TypeOK,
        TM!TierOfRecordIsTierOfStore, TMP!TierOfRecordIsTierOfStore,
        TM!WithinCapacity, TMP!WithinCapacity,
        TM!PayloadHasOneOwner, TMP!PayloadHasOneOwner

\* The invariant of the tiers, and what removing a block or the size of the
\* payload store gives: room in the tier, and a payload buffer.
LEMMA TierManagerInvariant ==
    /\ TM!Init => TiersInv
    /\ TiersInv /\ [TM!Next]_tmVars => TiersInv'
<1>1. TMP!Init => TMP!IInv
  BY TMP!InitIInv, TierManagerConstants
<1>2. TMP!IInv /\ [TMP!Next]_(TMP!tmVars) => TMP!IInv'
  BY TMP!NextIInv, TierManagerConstants
<1> QED
  BY <1>1, <1>2, SameTiers, SameTiersNext DEF tmVars, TMP!tmVars

LEMMA RemoveMakesRoom ==
    ASSUME TiersInv, NEW b \in Slots, NEW t \in TM!Tiers, b \in tiers[t], TM!remove(b)
    PROVE  TM!hasCapacity(t)'
<1>1. TMP!IInv /\ TMP!remove(b) /\ t \in TMP!Tiers
  BY SameTiers, Names DEF TM!remove, TMP!remove, TM!removePayload, TMP!removePayload,
         TM!Tiers, TMP!Tiers, TM!INVALID, TMP!INVALID
<1>2. TMP!hasCapacity(t)'
  BY <1>1, TMP!RemoveMakesRoom, TierManagerConstants
<1> QED
  BY <1>2, Names DEF TM!hasCapacity, TMP!hasCapacity

\* The payload store is large enough for the tiers, or for the pool, or has no
\* buffers at all: then a block that fits into its tier can be put.
EnoughPayloads ==
    \/ MetadataOnly
    \/ TierCapacity["GpuSim"] + TierCapacity["Host"] <= MaxPayloads
    \/ Capacity <= MaxPayloads
LEMMA RoomMeansPayload ==
    ASSUME TiersInv, EnoughPayloads, NEW t \in TM!Tiers, TM!hasCapacity(t),
           NEW b \in Slots, b \notin TM!Resident
    PROVE  TM!canPut
<1>1. TMP!IInv /\ t \in TMP!Tiers /\ TMP!hasCapacity(t) /\ TMP!Resident = TM!Resident
  BY SameTiers, Names DEF TM!hasCapacity, TMP!hasCapacity, TM!Resident, TMP!Resident
<1>2. CASE TierCapacity["GpuSim"] + TierCapacity["Host"] <= MaxPayloads
  <2>1. TMP!canPut
    BY <1>1, <1>2, TMP!RoomMeansPayload, TierManagerConstants
  <2> QED
    BY <2>1 DEF TM!canPut, TMP!canPut
<1>3. CASE Capacity <= MaxPayloads
  <2>1. TM!Resident \subseteq Slots \ {b}
    BY DEF TiersInv, TM!TypeOK, TM!Resident
  <2>2. /\ IsFiniteSet(Slots \ {b}) /\ Cardinality(Slots \ {b}) = Capacity - 1
    BY SlotFacts, FS_RemoveElement
  <2>3. Cardinality(TM!Resident) \in Nat /\ Cardinality(TM!Resident) <= Capacity - 1
    BY <2>1, <2>2, FS_Subset, FS_CardinalityType
  <2>4. TMP!Cardinality(TMP!Resident) < MaxPayloads
    BY <1>1, <1>3, <2>3, Names, CapacityAssumption, TiersAssumption
  <2>5. TMP!canPut
    BY <1>1, <2>4, TMP!FewerBlocksThanPayloads, TierManagerConstants
  <2> QED
    BY <2>5 DEF TM!canPut, TMP!canPut
<1>4. CASE MetadataOnly
  BY <1>4 DEF TM!canPut
<1> QED
  BY <1>2, <1>3, <1>4 DEF EnoughPayloads

-----------------------------------------------------------------------------
(* The call in progress, and what the steps of it do to BlockManager *)

\* The fields that call has at each pc
LEMMA CallFacts ==
    ASSUME call \in Calls
    PROVE  /\ call = Idle <=> call.pc = "idle"
           /\ call.pc = "lookup" => call.todo \in Seq(Slots) \ {<<>>}
           /\ call.pc \in {"space", "create", "evict"} =>
                /\ call.path \in Paths
                /\ call.existing \in Seq(Slots)
                /\ call.tier \in TM!Tiers
           /\ call.pc = "evict" => call.victim \in Slots
           /\ call.pc \in {"ready", "acquire"} => call.path \in Paths /\ call.id \in Slots
<1>1. CASE call = Idle
  BY <1>1 DEF Idle
<1>2. CASE call \in [pc : {"lookup"}, todo : Seq(Slots) \ {<<>>}]
  BY <1>2 DEF Idle
<1>3. CASE call \in [pc : {"space", "create"}, path : Paths, existing : Seq(Slots),
                     tier : TM!Tiers]
  BY <1>3 DEF Idle
<1>4. CASE call \in [pc : {"evict"}, path : Paths, existing : Seq(Slots), tier : TM!Tiers,
                     victim : Slots]
  BY <1>4 DEF Idle
<1>5. CASE call \in [pc : {"ready", "acquire"}, path : Paths, id : Slots]
  BY <1>5 DEF Idle
<1> QED
  BY <1>1, <1>2, <1>3, <1>4, <1>5 DEF Calls

\* Every step of the cache is a step of BlockManager, or none.
LEMMA StepOfBlockManager ==
    ASSUME TypeOK, Next
    PROVE  [BM!Next]_bmVars
<1> USE DEF BM!Next
<1>0. BM!Slots = Slots /\ call \in Calls
  BY Names DEF TypeOK
<1>1. CASE \E p \in Paths : lookupPrefix(p) \/ admit(p)
  BY <1>1 DEF lookupPrefix, admit
<1>2. CASE lookupStep
  <2>1. Head(call.todo) \in Slots
    BY <1>0, <1>2, CallFacts DEF lookupStep
  <2> QED
    BY <1>0, <1>2, <2>1 DEF lookupStep, FreeHandles
<1>3. CASE insufficientCandidates
  BY <1>3 DEF insufficientCandidates
<1>4. CASE \E victim \in Slots : beginEvict(victim)
  BY <1>0, <1>4 DEF beginEvict, BM!States
<1>5. CASE finishEvict
  BY <1>0, <1>5, CallFacts DEF finishEvict
<1>6. CASE create
  <2>1. contentHash(call.path) \in Hashes
    BY <1>0, <1>6, CallFacts DEF create, Hashes
  <2> QED
    BY <1>6, <2>1 DEF create
<1>7. CASE ready
  BY <1>0, <1>7, CallFacts DEF ready, BM!States
<1>8. CASE admitted
  BY <1>0, <1>8, CallFacts DEF admitted, FreeHandles
<1>9. CASE \E h \in Handles, s \in Slots, g \in 1 .. MaxGeneration : getBlock(h, s, g)
  BY <1>0, <1>9 DEF getBlock
<1>10. CASE \E s \in Slots, g \in 1 .. MaxGeneration : serveBlockFetch(s, g)
  BY <1>0, <1>10 DEF serveBlockFetch
<1>11. CASE \E h \in Handles : releaseHandle(h)
  BY <1>11 DEF releaseHandle
<1>12. CASE \E moved \in SUBSET Slots : promotionScan(moved) \/ demotionScan(moved)
  BY <1>12 DEF promotionScan, demotionScan
<1>13. CASE advanceNs
  BY <1>13 DEF advanceNs
<1> QED
  BY <1>1, <1>2, <1>3, <1>4, <1>5, <1>6, <1>7, <1>8, <1>9, <1>10, <1>11, <1>12, <1>13
     DEF Next, callStep

-----------------------------------------------------------------------------
(* What holds of every cache: the types, and that the parts are used with  *)
(* arguments they accept                                                   *)

\* The chain that admit read has one block for each ancestor.
ChainLength ==
    call.pc \in {"space", "evict", "create"} => Len(call.existing) = Len(call.path) - 1

BaseInv == BMP!IInv /\ TypeOK /\ ChainLength

LEMMA BlockManagerTypeNext == BMP!IInv' => BM!TypeOK'
<1>1. BMP!IInv => BM!TypeOK
  BY BlockManagerFacts
<1> QED
  BY <1>1, PTL

LEMMA InsertTypeOK ==
    ASSUME PM!TypeOK, NEW p \in Paths, NEW blocks \in Seq(Slots), Len(blocks) = Len(p),
           PM!insert(p, blocks)
    PROVE  PM!TypeOK'
<1>1. PMP!TypeOK /\ PMP!insert(p, blocks)
  BY DEF PM!TypeOK, PMP!TypeOK, PM!insert, PMP!insert, PM!Gaps, PMP!Gaps, PM!Prefix, PMP!Prefix
<1>2. PMP!TypeOK'
  BY <1>1, PMP!InsertTypeOK, PrefixMapConstants
<1> QED
  BY <1>2 DEF PM!TypeOK, PMP!TypeOK

\* The slot that BlockPool::allocate hands out is a free one.
LEMMA AllocatedFacts ==
    ASSUME BM!TypeOK, BM!available # 0
    PROVE  /\ BM!allocated \in Slots
           /\ BM!PoolMatchesStore => records[BM!allocated].state = "Free"
<1>1. free_list \in Seq(Slots) /\ Len(free_list) # 0
  BY Names DEF BM!TypeOK, BM!available
<1>2. Len(free_list) \in 1 .. Len(free_list) /\ BM!allocated \in Slots
  BY <1>1 DEF BM!allocated
<1> QED
  BY <1>2, Names DEF BM!PoolMatchesStore, BM!allocated

\* The chain that admit passes on when none of its early returns applies
LEMMA ExistingFacts ==
    ASSUME PM!TypeOK, NEW p \in Paths, admitStatus(p) = "Proceed"
    PROVE  /\ existingBlocks(p) \in Seq(Slots)
           /\ Len(existingBlocks(p)) = Len(p) - 1
           /\ \A i \in 1 .. Len(p) - 1 : existingBlocks(p)[i] = terminals[PM!Prefix(p, i)]
           /\ PM!Contiguous(p, Len(p) - 1)
           /\ terminals[p] = NoSlot
<1>0. Len(p) \in Nat /\ (Len(p) = 1 \/ Len(p) > 1)
  <2>1. Len(p) \in Nat \ {0}
    BY PathFacts
  <2> QED
    BY <2>1
<1>1. /\ Len(p) \in Nat \ {0} /\ PM!Prefix(p, Len(p)) = p
      /\ Len(PM!lookup(p)) # Len(p) /\ Len(PM!lookup(p)) \in 0 .. Len(p)
  BY PathFacts, LookupFacts DEF admitStatus
<1>2. /\ existingBlocks(p) \in Seq(Slots)
      /\ Len(existingBlocks(p)) = Len(p) - 1
      /\ \A i \in 1 .. Len(p) - 1 : existingBlocks(p)[i] = terminals[PM!Prefix(p, i)]
      /\ PM!Contiguous(p, Len(p) - 1)
  <2>1. CASE Len(p) = 1
    BY <2>1 DEF existingBlocks, PM!Contiguous
  <2>2. CASE Len(p) # 1
    <3> DEFINE q == PM!Parent(p)
    <3>0. Len(p) > 1
      BY <1>0, <2>2
    <3>1. /\ Len(p) > 1 /\ q \in Paths
          /\ \A i \in 1 .. Len(p) - 1 : PM!Prefix(q, i) = PM!Prefix(p, i)
      BY <3>0, PathFacts, Zenon
    <3>2. existingBlocks(p) = PM!lookup(q) /\ Len(PM!lookup(q)) = Len(p) - 1
      BY <1>1, <2>2, <3>1 DEF existingBlocks, admitStatus
    <3> HIDE DEF q
    <3>3. /\ PM!lookup(q) \in Seq(Slots)
          /\ PM!Contiguous(q, Len(PM!lookup(q)))
          /\ \A i \in 1 .. Len(PM!lookup(q)) : PM!lookup(q)[i] = terminals[PM!Prefix(q, i)]
      BY <3>1, LookupFacts
    <3> QED
      BY <3>1, <3>2, <3>3 DEF PM!Contiguous
  <2> QED
    BY <2>1, <2>2
<1>3. terminals[p] = NoSlot
  <2>1. ~ PM!Contiguous(p, Len(p))
    BY <1>1, LookupFacts
  <2>2. PICK i \in 1 .. Len(p) : terminals[PM!Prefix(p, i)] = NoSlot
    BY <2>1 DEF PM!Contiguous
  <2>3. i = Len(p)
    BY <1>1, <1>2, <2>2 DEF PM!Contiguous
  <2> QED
    BY <1>1, <2>2, <2>3
<1> QED
  BY <1>2, <1>3

\* A new cache has the types.
LEMMA BaseInit == Init => BaseInv
<1> SUFFICES ASSUME Init
             PROVE  BaseInv
  OBVIOUS
<1>1. BMP!IInv /\ BM!TypeOK
  BY BlockManagerInvariant, BlockManagerFacts DEF Init
<1>2. IndexInv /\ TiersInv
  BY PrefixMapInvariant, TierManagerInvariant DEF Init
<1>3. call \in Calls /\ kv \in [Slots -> Paths \cup {NoPath}] /\ ChainLength
  BY DEF Init, Calls, Idle, ChainLength
<1> QED
  BY <1>1, <1>2, <1>3 DEF BaseInv, TypeOK, IndexInv, TiersInv

\* The shapes that a step can give to the call
LEMMA CallShapes ==
    /\ Idle \in Calls
    /\ \A todo \in Seq(Slots) : todo # <<>> => [pc |-> "lookup", todo |-> todo] \in Calls
    /\ \A pc \in {"space", "create"}, p \in Paths, ex \in Seq(Slots), t \in TM!Tiers :
          [pc |-> pc, path |-> p, existing |-> ex, tier |-> t] \in Calls
    /\ \A p \in Paths, ex \in Seq(Slots), t \in TM!Tiers, v \in Slots :
          [pc |-> "evict", path |-> p, existing |-> ex, tier |-> t, victim |-> v] \in Calls
    /\ \A pc \in {"ready", "acquire"}, p \in Paths, s \in Slots :
          [pc |-> pc, path |-> p, id |-> s] \in Calls
  BY DEF Calls

\* The call after each step of it
LEMMA LookupStepCall ==
    ASSUME call \in Calls, lookupStep
    PROVE  call' \in Calls /\ (call' = Idle \/ call'.pc = "lookup")
<1>1. call \in [pc : {"lookup"}, todo : Seq(Slots) \ {<<>>}]
  BY DEF lookupStep, Calls, Idle
<1>2. CASE call' = Idle
  BY <1>2, CallShapes
<1>3. CASE Len(call.todo) # 1 /\ call' = [call EXCEPT !.todo = Tail(@)]
  <2>0. call.todo \in Seq(Slots) /\ call.todo # <<>> /\ Len(call.todo) # 1
    BY <1>1, <1>3
  <2>1. Tail(call.todo) \in Seq(Slots) /\ Tail(call.todo) # <<>>
    <3>1. Tail(call.todo) \in Seq(Slots) /\ Len(Tail(call.todo)) = Len(call.todo) - 1
      BY <2>0, HeadTailProperties
    <3>2. Len(call.todo) \in Nat \ {0, 1}
      BY <2>0
    <3>3. Len(Tail(call.todo)) # 0 /\ Len(<<>>) = 0
      BY <3>1, <3>2
    <3> QED
      BY <3>1, <3>3, Zenon
  <2>2. call' = [pc |-> "lookup", todo |-> Tail(call.todo)]
    BY <1>1, <1>3
  <2> QED
    BY <2>1, <2>2, CallShapes
<1> QED
  BY <1>2, <1>3 DEF lookupStep

LEMMA ReadyCall ==
    ASSUME call \in Calls, ready
    PROVE  call' = [pc |-> "acquire", path |-> call.path, id |-> call.id]
<1>1. call \in [pc : {"ready", "acquire"}, path : Paths, id : Slots]
  BY DEF ready, Calls, Idle
<1> QED
  BY <1>1 DEF ready

\* The parts of the types that no other module looks after
RestType ==
    /\ PM!TypeOK
    /\ TM!TypeOK
    /\ call \in Calls
    /\ kv \in [Slots -> Paths \cup {NoPath}]
    /\ ChainLength

LEMMA RestUnchanged ==
    ASSUME BaseInv, UNCHANGED <<pmVars, tmVars, kv>>, call' \in Calls, ChainLength'
    PROVE  RestType'
  BY DEF BaseInv, TypeOK, RestType, PM!TypeOK, TM!TypeOK, pmVars, tmVars

\* finishEvict: the victim leaves the index and its tier.
LEMMA FinishEvictType ==
    ASSUME BaseInv, finishEvict
    PROVE  RestType'
<1>1. /\ call.path \in Paths /\ call.existing \in Seq(Slots)
      /\ call.tier \in TM!Tiers /\ call.victim \in Slots
      /\ Len(call.existing) = Len(call.path) - 1
  BY CallFacts DEF BaseInv, TypeOK, ChainLength, finishEvict
<1>2. PM!TypeOK'
  BY <1>1 DEF BaseInv, TypeOK, finishEvict, PM!TypeOK, PM!remove
<1>3. TM!TypeOK'
  <2>1. CASE ~ WithTiers
    BY <2>1 DEF BaseInv, TypeOK, finishEvict, tmVars, TM!TypeOK
  <2>2. CASE WithTiers
    <3>1. TM!TypeOK /\ TM!remove(call.victim)
      BY <2>2 DEF BaseInv, TypeOK, finishEvict
    <3>2. payload_free' \in Seq(TM!Payloads)
      BY <1>1, <3>1 DEF TM!TypeOK, TM!remove, TM!removePayload
    <3> QED
      BY <3>1, <3>2 DEF TM!TypeOK, TM!remove
  <2> QED
    BY <2>1, <2>2
<1>4. call' \in Calls /\ ChainLength'
  BY <1>1, CallShapes DEF finishEvict, ChainLength
<1> QED
  BY <1>2, <1>3, <1>4 DEF RestType, finishEvict, BaseInv, TypeOK

\* create: a block is placed and inserted, or left as it is.
LEMMA CreateType ==
    ASSUME BaseInv, create, BM!available # 0
    PROVE  RestType'
<1> DEFINE new == BM!allocated
<1>1. /\ call.path \in Paths /\ call.existing \in Seq(Slots) /\ call.tier \in TM!Tiers
      /\ Len(call.existing) = Len(call.path) - 1
      /\ new \in Slots
  BY CallFacts, AllocatedFacts DEF BaseInv, TypeOK, ChainLength, create
<1>2. PM!TypeOK /\ TM!TypeOK /\ kv \in [Slots -> Paths \cup {NoPath}]
  BY DEF BaseInv, TypeOK
<1>3. kv' = [kv EXCEPT ![new] = call.path]
  BY DEF create
<1>4. CASE placeFits
  <2>1. /\ PM!insert(call.path, allBlocks)
        /\ call' = [pc |-> "ready", path |-> call.path, id |-> new]
        /\ IF WithTiers THEN TM!place(new, call.tier) ELSE UNCHANGED tmVars
    BY <1>4 DEF create
  <2> HIDE DEF new
  <2>2. allBlocks \in Seq(Slots) /\ Len(allBlocks) = Len(call.path)
    <3>1. Len(call.path) \in Nat \ {0}
      BY <1>1, PathFacts
    <3>2. allBlocks = Append(call.existing, new)
      BY DEF allBlocks, new
    <3> QED
      BY <1>1, <3>1, <3>2
  <2>3. PM!TypeOK'
    BY <1>1, <1>2, <2>1, <2>2, InsertTypeOK
  <2>4. TM!TypeOK'
    <3>1. CASE ~ WithTiers
      BY <1>2, <2>1, <3>1 DEF tmVars, TM!TypeOK
    <3>2. CASE WithTiers
      <4>1. TM!place(new, call.tier)
        BY <2>1, <3>2
      <4>2. TM!putRef \in TM!Payloads \cup {TM!INVALID} /\ payload_free' \in Seq(TM!Payloads)
        BY <1>2, <4>1, TiersAssumption
           DEF TM!TypeOK, TM!place, TM!put, TM!canPut, TM!putRef
      <4> QED
        BY <1>1, <1>2, <4>1, <4>2 DEF TM!TypeOK, TM!place
    <3> QED
      BY <3>1, <3>2
  <2>5. call' \in Calls /\ ChainLength'
    BY <1>1, <2>1, CallShapes DEF ChainLength
  <2> QED
    BY <1>1, <1>2, <1>3, <2>3, <2>4, <2>5 DEF RestType
<1>5. CASE ~ placeFits
  <2>1. /\ rec_tier' = [rec_tier EXCEPT ![new] = call.tier]
        /\ rec_payload' = [rec_payload EXCEPT ![new] = TM!INVALID]
        /\ call' = Idle
        /\ UNCHANGED <<pmVars, tiers, payload_free>>
    BY <1>5 DEF create
  <2> HIDE DEF new
  <2>2. PM!TypeOK' /\ TM!TypeOK'
    BY <1>1, <1>2, <2>1 DEF PM!TypeOK, TM!TypeOK, pmVars
  <2>3. call' \in Calls /\ ChainLength'
    BY <2>1, CallShapes DEF ChainLength, Idle
  <2> QED
    BY <1>1, <1>2, <1>3, <2>2, <2>3 DEF RestType
<1> QED
  BY <1>4, <1>5

\* Every step keeps the types.
LEMMA BaseNext == BaseInv /\ [Next]_vars => BaseInv'
<1> SUFFICES ASSUME BaseInv, [Next]_vars
             PROVE  BaseInv'
  OBVIOUS
<1>a. TypeOK /\ call \in Calls /\ PM!TypeOK /\ TM!TypeOK
  BY DEF BaseInv, TypeOK
<1>b. BMP!IInv' /\ BM!TypeOK'
  <2>1. [BM!Next]_bmVars
    BY <1>a, StepOfBlockManager DEF vars, bmVars
  <2> QED
    BY <2>1, BlockManagerInvariant, BlockManagerTypeNext DEF BaseInv
<1>c. ASSUME call' \in Calls, call'.pc \notin {"space", "evict", "create"},
             UNCHANGED <<pmVars, tmVars, kv>>
      PROVE  RestType'
  BY <1>c, RestUnchanged DEF ChainLength
<1>d. Idle \in Calls /\ Idle.pc = "idle"
  BY CallShapes DEF Idle
<1>e. SUFFICES RestType'
  BY <1>b DEF RestType, BaseInv, TypeOK
<1>1. CASE \E p \in Paths : lookupPrefix(p)
  <2>1. PICK p \in Paths : lookupPrefix(p)
    BY <1>1
  <2>2. PM!lookup(p) \in Seq(Slots)
    BY <1>a, LookupFacts
  <2>3. call' \in Calls /\ call'.pc = "lookup"
    BY <2>1, <2>2, CallShapes DEF lookupPrefix
  <2> QED
    BY <1>c, <2>1, <2>3 DEF lookupPrefix
<1>2. CASE \E p \in Paths : admit(p)
  <2>1. PICK p \in Paths : admit(p)
    BY <1>2
  <2>2. existingBlocks(p) \in Seq(Slots) /\ Len(existingBlocks(p)) = Len(p) - 1
    BY <1>a, <2>1, ExistingFacts DEF admit
  <2>3. chooseTier \in TM!Tiers
    BY DEF chooseTier, TM!Tiers
  <2>4. call' \in Calls /\ ChainLength'
    BY <2>1, <2>2, <2>3, CallShapes DEF admit, ChainLength
  <2> QED
    BY <2>1, <2>4, RestUnchanged DEF admit
<1>3. CASE lookupStep
  <2>1. call' \in Calls /\ call'.pc \in {"idle", "lookup"}
    BY <1>3, <1>a, <1>d, LookupStepCall
  <2> QED
    BY <1>3, <1>c, <2>1 DEF lookupStep
<1>4. CASE insufficientCandidates \/ admitted
  BY <1>4, <1>c, <1>d DEF insufficientCandidates, admitted
<1>5. CASE \E victim \in Slots : beginEvict(victim)
  <2>1. PICK victim \in Slots : beginEvict(victim)
    BY <1>5
  <2>2. /\ call.path \in Paths /\ call.existing \in Seq(Slots) /\ call.tier \in TM!Tiers
        /\ Len(call.existing) = Len(call.path) - 1
    BY <1>a, <2>1, CallFacts DEF BaseInv, ChainLength, beginEvict
  <2>3. call' \in Calls /\ ChainLength'
    BY <2>1, <2>2, CallShapes DEF beginEvict, ChainLength
  <2> QED
    BY <2>1, <2>3, RestUnchanged DEF beginEvict
<1>6. CASE finishEvict
  BY <1>6, FinishEvictType
<1>7. CASE create
  <2>1. CASE BM!available = 0
    BY <1>7, <1>c, <1>d, <2>1 DEF create
  <2> QED
    BY <1>7, <2>1, CreateType
<1>8. CASE ready
  <2>1. call' = [pc |-> "acquire", path |-> call.path, id |-> call.id]
    BY <1>8, <1>a, ReadyCall
  <2>2. call.path \in Paths /\ call.id \in Slots
    BY <1>8, <1>a, CallFacts DEF ready
  <2>3. call' \in Calls /\ call'.pc = "acquire"
    BY <2>1, <2>2, CallShapes
  <2> QED
    BY <1>8, <1>c, <2>3 DEF ready
<1>9. CASE \E moved \in SUBSET Slots : promotionScan(moved) \/ demotionScan(moved)
  <2>1. PICK moved \in SUBSET Slots : promotionScan(moved) \/ demotionScan(moved)
    BY <1>9
  <2>2. TM!TypeOK'
    BY <1>a, <2>1 DEF promotionScan, demotionScan, TM!promotionScan, TM!demotionScan,
                      TM!scan, TM!TypeOK, TM!Tiers
  <2> QED
    BY <2>1, <2>2, <1>a DEF promotionScan, demotionScan, RestType, BaseInv, TypeOK,
                            PM!TypeOK, pmVars, ChainLength
<1>10. CASE UNCHANGED <<pmVars, tmVars, call, kv>>
  BY <1>10, <1>a, RestUnchanged DEF BaseInv, ChainLength
<1> QED
  BY <1>1, <1>2, <1>3, <1>4, <1>5, <1>6, <1>7, <1>8, <1>9, <1>10
     DEF Next, callStep, getBlock, serveBlockFetch, releaseHandle, advanceNs,
         vars, pmVars, tmVars

\* The types, for every cache: no call in progress, chain, tier or path is ever
\* outside what the controllers handle.
THEOREM TypeCorrect == Spec => []TypeOK
<1>1. BaseInv => TypeOK
  BY DEF BaseInv
<1> QED
  BY <1>1, BaseInit, BaseNext, PTL DEF Spec

\* Whatever the callers, the eviction policy and the tiers do, the controllers
\* call BlockManager as it requires: a block is created in a free slot, evicted
\* from Ready and unpinned, freed from Evicting, made Ready from Admitting, and
\* acquired only when it is Ready.  So all that is proved of BlockManager (pins,
\* refcounts, generations) holds of every cache.
THEOREM CacheUsesBlockManager == Spec => UsesBlockManager
<1>1. Init => BM!Init
  BY DEF Init
<1>2. BaseInv /\ [Next]_vars => [BM!Next]_(BM!bmVars)
  BY StepOfBlockManager DEF BaseInv, vars, bmVars, BM!bmVars
<1> QED
  BY <1>1, <1>2, BaseInit, BaseNext, PTL DEF Spec, UsesBlockManager, BM!Spec

-----------------------------------------------------------------------------
(* What the steps of BlockManager do to the states of the records *)

SameStates == \A s \in Slots : records'[s].state = records[s].state

LEMMA PinKeepsStates ==
    ASSUME BM!TypeOK, NEW h \in Handles, NEW s \in Slots,
           \/ BM!pinInto(h, s)
           \/ BM!markAccessed(s)
           \/ BM!releaseHandle(h)
           \/ UNCHANGED records
    PROVE  SameStates
<1>1. records \in [Slots -> BM!BlockRecord]
  BY Names DEF BM!TypeOK
<1>2. CASE BM!pinInto(h, s)
  BY <1>1, <1>2 DEF BM!pinInto, BM!Touched, BM!BlockRecord, SameStates
<1>3. CASE BM!markAccessed(s)
  BY <1>1, <1>3 DEF BM!markAccessed, BM!Touched, BM!BlockRecord, SameStates
<1>4. CASE BM!releaseHandle(h)
  BY <1>1, <1>4 DEF BM!releaseHandle, BM!BlockRecord, SameStates
<1>5. CASE UNCHANGED records
  BY <1>5 DEF SameStates
<1> QED
  BY <1>2, <1>3, <1>4, <1>5

LEMMA TransitionEffect ==
    ASSUME BM!TypeOK, NEW v \in Slots, NEW from, NEW to, BM!transitionState(v, from, to)
    PROVE  /\ records[v].state = from
           /\ \A s \in Slots : records'[s].state = IF s = v THEN to ELSE records[s].state
           /\ handles' = handles
<1>1. records \in [Slots -> BM!BlockRecord]
  BY Names DEF BM!TypeOK
<1> QED
  BY <1>1 DEF BM!transitionState, BM!transitionAllowed, BM!BlockRecord

LEMMA CreateEffect ==
    ASSUME BM!TypeOK, BM!available # 0, NEW hash, BM!createBlock(hash)
    PROVE  /\ \A s \in Slots : records'[s].state =
                 IF s = BM!allocated THEN "Admitting" ELSE records[s].state
           /\ handles' = handles
<1>1. records \in [Slots -> BM!BlockRecord] /\ BM!allocated \in Slots
  BY Names, AllocatedFacts DEF BM!TypeOK
<1> QED
  BY <1>1 DEF BM!createBlock, BM!initialize, BM!BlockRecord

-----------------------------------------------------------------------------
(* What a slot and a generation name, for every cache *)

\* The slot is no other block after the step.
SameBlock(s) ==
    /\ records'[s].generation = records[s].generation
    /\ records'[s].hash = records[s].hash

\* createBlock gives the slot a later generation, every other step leaves the
\* generation and the hash alone.
NamesKept == \A s \in Slots : records'[s].generation > records[s].generation \/ SameBlock(s)

LEMMA BlocksKept ==
    ASSUME BM!TypeOK,
           \/ \E h \in Handles, s \in Slots : BM!pinInto(h, s)
           \/ \E h \in Handles : BM!releaseHandle(h)
           \/ \E s \in Slots : BM!markAccessed(s)
           \/ \E s \in Slots : \E from, to : BM!transitionState(s, from, to)
           \/ UNCHANGED records
    PROVE  \A t \in Slots : SameBlock(t)
<1>1. records \in [Slots -> BM!BlockRecord]
  BY Names DEF BM!TypeOK
<1>2. CASE \E h \in Handles, s \in Slots : BM!pinInto(h, s)
  <2>1. PICK h \in Handles, s \in Slots : BM!pinInto(h, s)
    BY <1>2
  <2> QED
    BY <1>1, <2>1 DEF BM!pinInto, BM!Touched, BM!BlockRecord, SameBlock
<1>3. CASE \E h \in Handles : BM!releaseHandle(h)
  BY <1>1, <1>3 DEF BM!releaseHandle, BM!BlockRecord, SameBlock
<1>4. CASE \E s \in Slots : BM!markAccessed(s)
  BY <1>1, <1>4 DEF BM!markAccessed, BM!Touched, BM!BlockRecord, SameBlock
<1>5. CASE \E s \in Slots : \E from, to : BM!transitionState(s, from, to)
  BY <1>1, <1>5 DEF BM!transitionState, BM!BlockRecord, SameBlock
<1>6. CASE UNCHANGED records
  BY <1>6 DEF SameBlock
<1> QED
  BY <1>2, <1>3, <1>4, <1>5, <1>6

\* A block has the hash of the path it was created for, which is the path of the
\* admission as long as that is in progress.
NamesInv ==
    /\ \A s \in Slots :
          /\ records[s].generation <= MaxGeneration
          /\ records[s].generation # 0 =>
                kv[s] \in Paths /\ records[s].hash = contentHash(kv[s])
    /\ call.pc \in {"ready", "acquire"} =>
          records[call.id].generation # 0 /\ kv[call.id] = call.path

LEMMA NamesInit == Init => NamesInv
<1> SUFFICES ASSUME Init
             PROVE  NamesInv
  OBVIOUS
<1>1. \A s \in Slots : records[s].generation = 0
  BY Names DEF Init, BM!Init, BM!storeInit
<1> QED
  BY <1>1, BoundsAssumption DEF Init, Idle, NamesInv

\* The step that creates a block
LEMMA CreateNames ==
    ASSUME BaseInv, NamesInv, create, BM!available # 0
    PROVE  NamesInv' /\ NamesKept
<1> DEFINE new == BM!allocated
           generation == BM!allocatedGeneration
<1>1. /\ call.path \in Paths /\ new \in Slots
      /\ records \in [Slots -> BM!BlockRecord]
      /\ kv \in [Slots -> Paths \cup {NoPath}]
  BY Names, CallFacts, AllocatedFacts DEF BaseInv, TypeOK, create, BM!TypeOK
<1>2. /\ kv' = [kv EXCEPT ![new] = call.path]
      /\ records' = [records EXCEPT ![new] =
                        [generation |-> generation, hash |-> contentHash(call.path),
                         refcount |-> 0, last_access_ns |-> 0, state |-> "Admitting"]]
      /\ generation <= MaxGeneration
      /\ call'.pc \in {"ready", "acquire"} => call'.path = call.path /\ call'.id = new
  BY DEF create, BM!createBlock, BM!allocate, BM!initialize, Idle
<1>3. generation > records[new].generation
  <2>1. BMP!IInv /\ free_list # <<>>
    BY DEF BaseInv, BM!available
  <2>2. BMP!allocatedGeneration > records[BMP!allocated].generation
    BY <2>1, BMP!NewGeneration, BlockManagerConstants
  <2> QED
    BY <2>2 DEF BM!allocatedGeneration, BMP!allocatedGeneration, BM!allocated, BMP!allocated
<1> HIDE DEF new, generation
<1>4. generation # 0
  BY <1>1, <1>3 DEF BM!BlockRecord
<1>5. NamesKept
  BY <1>1, <1>2, <1>3 DEF NamesKept, SameBlock
<1> QED
  BY <1>1, <1>2, <1>4, <1>5 DEF NamesInv

\* Every step keeps the names.
LEMMA NamesNext ==
    ASSUME BaseInv, NamesInv, [Next]_vars
    PROVE  NamesInv' /\ NamesKept
<1>a. BM!TypeOK /\ call \in Calls /\ MaxGeneration \in Nat
  BY BoundsAssumption DEF BaseInv, TypeOK
<1>b. ASSUME \A t \in Slots : SameBlock(t), kv' = kv,
             \/ call'.pc \notin {"ready", "acquire"}
             \/ /\ call.pc \in {"ready", "acquire"} /\ call.id \in Slots
                /\ call'.id = call.id /\ call'.path = call.path
      PROVE  NamesInv' /\ NamesKept
  BY <1>b DEF NamesInv, NamesKept, SameBlock
<1>1. CASE \E p \in Paths : lookupPrefix(p) \/ admit(p)
  BY <1>1, <1>b DEF lookupPrefix, admit, bmVars, SameBlock
<1>2. CASE lookupStep
  <2>1. Head(call.todo) \in Slots
    BY <1>2, <1>a, CallFacts DEF lookupStep
  <2>2. \A t \in Slots : SameBlock(t)
    BY <1>2, <1>a, <2>1, BlocksKept DEF lookupStep, FreeHandles, BM!acquire, bmVars
  <2>3. call'.pc \notin {"ready", "acquire"}
    BY <1>2, <1>a, LookupStepCall DEF Idle
  <2> QED
    BY <1>2, <1>b, <2>2, <2>3 DEF lookupStep
<1>3. CASE insufficientCandidates
  BY <1>3, <1>b DEF insufficientCandidates, bmVars, SameBlock, Idle
<1>4. CASE \E victim \in Slots : beginEvict(victim)
  <2>1. \A t \in Slots : SameBlock(t)
    BY <1>4, <1>a, BlocksKept DEF beginEvict
  <2> QED
    BY <1>4, <1>b, <2>1 DEF beginEvict
<1>5. CASE finishEvict
  <2>1. \A t \in Slots : SameBlock(t)
    BY <1>5, <1>a, CallFacts, BlocksKept DEF finishEvict, BM!freeBlock
  <2> QED
    BY <1>5, <1>b, <2>1 DEF finishEvict
<1>6. CASE create
  <2>1. CASE BM!available = 0
    BY <1>6, <1>b, <2>1 DEF create, bmVars, SameBlock, Idle
  <2> QED
    BY <1>6, <2>1, CreateNames
<1>7. CASE ready
  <2>1. call.id \in Slots /\ call.pc = "ready"
    BY <1>7, <1>a, CallFacts DEF ready
  <2>2. \A t \in Slots : SameBlock(t)
    BY <1>7, <1>a, <2>1, BlocksKept DEF ready
  <2>3. call'.id = call.id /\ call'.path = call.path
    BY <1>7, <1>a, ReadyCall
  <2> QED
    BY <1>7, <1>b, <2>1, <2>2, <2>3 DEF ready
<1>8. CASE admitted
  <2>1. call.id \in Slots
    BY <1>8, <1>a, CallFacts DEF admitted
  <2>2. \A t \in Slots : SameBlock(t)
    BY <1>8, <1>a, <2>1, BlocksKept DEF admitted, FreeHandles, BM!acquire
  <2> QED
    BY <1>8, <1>b, <2>2 DEF admitted, Idle
<1>9. CASE \/ \E h \in Handles, s \in Slots, g \in 1 .. MaxGeneration : getBlock(h, s, g)
           \/ \E s \in Slots, g \in 1 .. MaxGeneration : serveBlockFetch(s, g)
           \/ \E h \in Handles : releaseHandle(h)
           \/ \E moved \in SUBSET Slots : promotionScan(moved) \/ demotionScan(moved)
  <2>1. \A t \in Slots : SameBlock(t)
    BY <1>9, <1>a, BlocksKept DEF getBlock, serveBlockFetch, releaseHandle, promotionScan,
                                 demotionScan, BM!fetchLocal, bmVars
  <2> QED
    BY <1>9, <1>b, <2>1 DEF getBlock, serveBlockFetch, releaseHandle, promotionScan,
                            demotionScan, Idle
<1>10. CASE advanceNs \/ UNCHANGED vars
  BY <1>10 DEF advanceNs, BM!advanceNs, vars, NamesInv, NamesKept, SameBlock
<1> QED
  BY <1>1, <1>2, <1>3, <1>4, <1>5, <1>6, <1>7, <1>8, <1>9, <1>10 DEF Next, callStep

\* What another module needs to know of a cache: NamesInv, and the types of what
\* it speaks about
LEMMA NamesFacts ==
    ASSUME BaseInv, NamesInv
    PROVE  /\ call \in Calls
           /\ \A s \in Slots :
                 /\ records[s].generation \in 0 .. MaxGeneration
                 /\ records[s].generation # 0 =>
                       kv[s] \in Paths /\ records[s].hash = contentHash(kv[s])
           /\ call.pc \in {"ready", "acquire"} =>
                 /\ call.id \in Slots
                 /\ records[call.id].generation # 0 /\ kv[call.id] = call.path
           /\ PM!TypeOK
<1>1. \A s \in Slots : records[s].generation \in Nat
  BY Names DEF BaseInv, TypeOK, BM!TypeOK, BM!BlockRecord
<1>2. call \in Calls /\ PM!TypeOK
  BY DEF BaseInv, TypeOK
<1> QED
  BY <1>1, <1>2, CallFacts, BoundsAssumption DEF NamesInv

-----------------------------------------------------------------------------
(* The tiers and the store, for every cache: a block is resident exactly   *)
(* while it is published, and when a block is created there is room for it *)

\* The blocks that have been admitted and not yet freed
Published ==
    {s \in Slots : \/ records[s].state = "Ready"
                   \/ call.pc = "ready" /\ s = call.id
                   \/ call.pc = "evict" /\ s = call.victim}

ResidentIsPublished == WithTiers => TM!Resident = Published

\* The victim has left Ready and is in the tier that needs space.
VictimLeaves ==
    call.pc = "evict" =>
        /\ records[call.victim].state = "Evicting"
        /\ rec_tier[call.victim] = call.tier

\* When the block is created there is a slot for it and room in its tier.
SpaceMade ==
    call.pc = "create" => BM!available # 0 /\ (WithTiers => TM!hasCapacity(call.tier))

\* The new block is Admitting until it is made Ready.
NewBlockState ==
    call.pc \in {"ready", "acquire"} =>
        records[call.id].state = IF call.pc = "ready" THEN "Admitting" ELSE "Ready"

TierPart ==
    /\ TiersInv
    /\ ResidentIsPublished
    /\ VictimLeaves
    /\ SpaceMade
    /\ NewBlockState

\* A new cache is empty.
LEMMA TierInit == Init => TierPart
<1> SUFFICES ASSUME Init
             PROVE  TierPart
  OBVIOUS
<1>1. TiersInv
  BY TierManagerInvariant DEF Init
<1>2. call.pc = "idle" /\ tiers = [t \in TM!Tiers |-> {}]
  BY DEF Init, Idle, TM!Init
<1>3. \A s \in Slots : records[s].state = "Free"
  BY Names DEF Init, BM!Init, BM!storeInit
<1>4. ResidentIsPublished
  BY <1>2, <1>3 DEF ResidentIsPublished, Published, TM!Resident
<1> QED
  BY <1>1, <1>2, <1>4 DEF TierPart, VictimLeaves, SpaceMade, NewBlockState

\* A step that only pins, unpins or looks at blocks, and ends or begins a call
LEMMA TierQuiet ==
    ASSUME TierPart, UNCHANGED tmVars, SameStates,
           call.pc \notin {"ready", "evict"}, call'.pc \in {"idle", "lookup"}
    PROVE  TierPart'
<1>1. TiersInv'
  BY TierManagerInvariant DEF TierPart
<1>2. ResidentIsPublished'
  BY DEF TierPart, ResidentIsPublished, Published, SameStates, TM!Resident, tmVars
<1> QED
  BY <1>1, <1>2 DEF TierPart, VictimLeaves, SpaceMade, NewBlockState

\* Time passes in the middle of a call, or nothing happens.
LEMMA TierTime ==
    ASSUME TierPart, UNCHANGED <<free_list, records, tmVars, call>>
    PROVE  TierPart'
<1>1. TiersInv'
  BY TierManagerInvariant DEF TierPart
<1>2. ResidentIsPublished'
  BY DEF TierPart, ResidentIsPublished, Published, TM!Resident, tmVars
<1> QED
  BY <1>1, <1>2 DEF TierPart, VictimLeaves, SpaceMade, NewBlockState, BM!available,
                    TM!hasCapacity, tmVars

\* admit finds a slot and room in the tier, or makes space.
LEMMA TierAdmit ==
    ASSUME TierPart, NEW p \in Paths, admit(p)
    PROVE  TierPart'
<1>0. /\ UNCHANGED <<free_list, records, tmVars>>
      /\ call.pc = "idle" /\ call'.tier = chooseTier
      /\ call'.pc = IF spaceNeeded(chooseTier) THEN "space" ELSE "create"
  BY DEF admit, bmVars, Idle
<1>1. TiersInv'
  BY <1>0, TierManagerInvariant DEF TierPart
<1>2. ResidentIsPublished'
  BY <1>0 DEF TierPart, ResidentIsPublished, Published, TM!Resident, tmVars
<1>3. SpaceMade'
  BY <1>0 DEF SpaceMade, spaceNeeded, BM!available, TM!hasCapacity, tmVars
<1> QED
  BY <1>0, <1>1, <1>2, <1>3 DEF TierPart, VictimLeaves, NewBlockState

\* makeSpace takes a Ready block of the tier out of Ready.
LEMMA TierBeginEvict ==
    ASSUME BaseInv, TierPart, NEW v \in Slots, beginEvict(v)
    PROVE  TierPart'
<1>0. /\ call.pc = "space" /\ UNCHANGED tmVars
      /\ call'.pc = "evict" /\ call'.tier = call.tier /\ call'.victim = v
  BY DEF beginEvict
<1>1. /\ records[v].state = "Ready"
      /\ \A s \in Slots : records'[s].state = IF s = v THEN "Evicting" ELSE records[s].state
  BY TransitionEffect DEF BaseInv, TypeOK, beginEvict
<1>2. rec_tier[v] = call.tier
  BY PolicyAssumption DEF beginEvict, chooseVictim, lruVictims, candidates
<1>3. TiersInv'
  BY <1>0, TierManagerInvariant DEF TierPart
<1>4. ResidentIsPublished'
  BY <1>0, <1>1 DEF TierPart, ResidentIsPublished, Published, TM!Resident, tmVars
<1> QED
  BY <1>0, <1>1, <1>2, <1>3, <1>4 DEF TierPart, VictimLeaves, SpaceMade, NewBlockState, tmVars

\* freeBlock: the victim's slot is free again.
LEMMA FreeEffect ==
    ASSUME BaseInv, finishEvict
    PROVE  /\ call.victim \in Slots
           /\ \A s \in Slots : records'[s].state =
                 IF s = call.victim THEN "Free" ELSE records[s].state
           /\ handles' = handles
           /\ BM!available' # 0
<1> DEFINE v == call.victim
<1>1. v \in Slots
  BY CallFacts DEF BaseInv, TypeOK, finishEvict
<1>2. BM!TypeOK /\ BM!transitionState(v, "Evicting", "Free")
  BY DEF BaseInv, TypeOK, finishEvict, BM!freeBlock
<1>3. free_list \in Seq(Slots) /\ free_list' = Append(free_list, v)
  BY <1>2, Names DEF BM!transitionState, BM!free, BM!TypeOK
<1>4. BM!available' # 0
  BY <1>1, <1>3 DEF BM!available
<1> QED
  BY <1>1, <1>2, <1>4, TransitionEffect

\* The victim leaves its tier, which has room then.
LEMMA TierFinishEvict ==
    ASSUME BaseInv, TierPart, finishEvict
    PROVE  TierPart'
<1> DEFINE v == call.victim
<1>0. /\ call.pc = "evict" /\ v \in Slots /\ call.tier \in TM!Tiers
      /\ call'.pc = "create" /\ call'.tier = call.tier
      /\ IF WithTiers THEN TM!remove(v) ELSE UNCHANGED tmVars
  BY CallFacts DEF BaseInv, TypeOK, finishEvict
<1>1. /\ \A s \in Slots : records'[s].state = IF s = v THEN "Free" ELSE records[s].state
      /\ BM!available' # 0
  BY FreeEffect
<1>2. TiersInv'
  BY <1>0, TierManagerInvariant DEF TierPart, TM!Next
<1>3. ResidentIsPublished'
  <2> SUFFICES ASSUME WithTiers
               PROVE  TM!Resident' = Published'
    BY DEF ResidentIsPublished
  <2>1. TM!Resident' = TM!Resident \ {v}
    BY <1>0 DEF TM!remove, TM!Resident, TM!Tiers
  <2>2. Published' = Published \ {v}
    BY <1>0, <1>1 DEF Published
  <2> QED
    BY <2>1, <2>2 DEF TierPart, ResidentIsPublished
<1>4. SpaceMade'
  <2>1. ASSUME WithTiers
        PROVE  TM!hasCapacity(call.tier)'
    <3>1. v \in TM!Resident
      BY <1>0, <2>1 DEF TierPart, ResidentIsPublished, Published
    <3>2. rec_tier[v] = call.tier
      BY <1>0 DEF TierPart, VictimLeaves
    <3>3. v \in tiers[call.tier]
      BY <1>0, <3>1, <3>2 DEF TM!Resident, TierPart, TiersInv, TM!TierOfRecordIsTierOfStore
    <3>4. \A t \in TM!Tiers : v \in tiers[t] => TM!hasCapacity(t)'
      BY <1>0, <2>1, RemoveMakesRoom DEF TierPart
    <3> QED
      BY <1>0, <3>3, <3>4 DEF TM!hasCapacity
  <2> QED
    BY <1>0, <1>1, <2>1 DEF SpaceMade, TM!hasCapacity
<1> QED
  BY <1>0, <1>2, <1>3, <1>4 DEF TierPart, VictimLeaves, NewBlockState

\* The slot of the new block is free and in no tier.
LEMMA NewSlotFacts ==
    ASSUME BaseInv, TierPart, create
    PROVE  /\ call.pc = "create" /\ call.path \in Paths /\ call.tier \in TM!Tiers
           /\ BM!available # 0
           /\ BM!allocated \in Slots
           /\ records[BM!allocated].state = "Free"
           /\ WithTiers => BM!allocated \notin TM!Resident
           /\ \A s \in Slots : records'[s].state =
                 IF s = BM!allocated THEN "Admitting" ELSE records[s].state
           /\ handles' = handles
<1>1. /\ call.pc = "create" /\ call.path \in Paths /\ call.tier \in TM!Tiers
      /\ BM!available # 0
  BY CallFacts DEF BaseInv, TypeOK, TierPart, SpaceMade, create
<1>2. BM!TypeOK /\ BM!PoolMatchesStore
  BY BlockManagerFacts DEF BaseInv
<1>3. BM!allocated \in Slots /\ records[BM!allocated].state = "Free"
  BY <1>1, <1>2, AllocatedFacts
<1>4. WithTiers => BM!allocated \notin TM!Resident
  BY <1>1, <1>3 DEF TierPart, ResidentIsPublished, Published
<1>5. BM!createBlock(contentHash(call.path))
  BY <1>1 DEF create
<1> QED
  BY <1>1, <1>2, <1>3, <1>4, <1>5, CreateEffect

\* The new block gets its place and a buffer, or is left in its slot without.
LEMMA TierCreate ==
    ASSUME BaseInv, TierPart, create
    PROVE  TierPart'
<1> DEFINE new == BM!allocated
<1>1. /\ call.pc = "create" /\ call.tier \in TM!Tiers /\ BM!available # 0
      /\ new \in Slots /\ records[new].state = "Free"
      /\ WithTiers => new \notin TM!Resident
      /\ \A s \in Slots : records'[s].state = IF s = new THEN "Admitting" ELSE records[s].state
  BY NewSlotFacts
<1>2. RestType'
  BY <1>1, CreateType
<1>3. CASE placeFits
  <2>1. /\ call'.pc = "ready" /\ call'.id = new
        /\ IF WithTiers THEN TM!place(new, call.tier) ELSE UNCHANGED tmVars
    BY <1>1, <1>3 DEF create
  <2> HIDE DEF new
  <2>2. TiersInv'
    BY <1>1, <2>1, TierManagerInvariant DEF TierPart, TM!Next
  <2>3. ResidentIsPublished'
    <3> SUFFICES ASSUME WithTiers
                 PROVE  TM!Resident' = Published'
      BY DEF ResidentIsPublished
    <3>1. tiers \in [TM!Tiers -> SUBSET Slots]
      BY DEF TierPart, TiersInv, TM!TypeOK
    <3>2. TM!Resident' = TM!Resident \cup {new}
      BY <1>1, <2>1, <3>1 DEF TM!place, TM!Resident
    <3>3. Published' = Published \cup {new}
      BY <1>1, <2>1 DEF Published
    <3> QED
      BY <3>2, <3>3 DEF TierPart, ResidentIsPublished
  <2> QED
    BY <1>1, <2>1, <2>2, <2>3 DEF TierPart, VictimLeaves, SpaceMade, NewBlockState
<1>4. CASE ~ placeFits
  <2>1. /\ rec_tier' = [rec_tier EXCEPT ![new] = call.tier]
        /\ rec_payload' = [rec_payload EXCEPT ![new] = TM!INVALID]
        /\ call'.pc = "idle"
        /\ UNCHANGED <<tiers, payload_free>>
    BY <1>1, <1>4 DEF create, Idle
  <2>2. WithTiers /\ new \notin TM!Resident
    BY <1>1, <1>4 DEF placeFits
  <2> HIDE DEF new
  <2>3. TM!Resident' = TM!Resident
    BY <2>1 DEF TM!Resident
  <2>4. TiersInv'
    <3>1. /\ rec_tier \in [Slots -> TM!Tiers] /\ TM!Resident \subseteq Slots
          /\ rec_payload \in [Slots -> TM!Payloads \cup {TM!INVALID}]
      BY DEF TierPart, TiersInv, TM!TypeOK, TM!Resident
    <3>2. \A b \in TM!Resident : rec_tier'[b] = rec_tier[b] /\ rec_payload'[b] = rec_payload[b]
      BY <2>1, <2>2, <3>1
    <3>3. TM!TypeOK'
      BY <1>2 DEF RestType
    <3>4. TM!TierOfRecordIsTierOfStore'
      BY <2>1, <3>2 DEF TierPart, TiersInv, TM!TierOfRecordIsTierOfStore, TM!Resident
    <3>5. TM!WithinCapacity'
      BY <2>1 DEF TierPart, TiersInv, TM!WithinCapacity
    <3>6. TM!PayloadHasOneOwner'
      BY <2>1, <2>3, <3>2 DEF TierPart, TiersInv, TM!PayloadHasOneOwner
    <3> QED
      BY <3>3, <3>4, <3>5, <3>6 DEF TiersInv
  <2>5. ResidentIsPublished'
    BY <1>1, <2>1, <2>3 DEF TierPart, ResidentIsPublished, Published
  <2> QED
    BY <2>1, <2>4, <2>5 DEF TierPart, VictimLeaves, SpaceMade, NewBlockState
<1> QED
  BY <1>3, <1>4

\* The new block becomes Ready.
LEMMA ReadyEffect ==
    ASSUME BaseInv, ready
    PROVE  /\ call.id \in Slots
           /\ call'.pc = "acquire" /\ call'.path = call.path /\ call'.id = call.id
           /\ \A s \in Slots : records'[s].state =
                 IF s = call.id THEN "Ready" ELSE records[s].state
  BY ReadyCall, CallFacts, TransitionEffect DEF BaseInv, TypeOK, ready

LEMMA TierReady ==
    ASSUME BaseInv, TierPart, ready
    PROVE  TierPart'
<1>0. /\ call.pc = "ready" /\ UNCHANGED tmVars /\ call.id \in Slots
      /\ call'.pc = "acquire" /\ call'.id = call.id
      /\ \A s \in Slots : records'[s].state = IF s = call.id THEN "Ready" ELSE records[s].state
  BY ReadyEffect DEF ready
<1>1. TiersInv'
  BY <1>0, TierManagerInvariant DEF TierPart
<1>2. ResidentIsPublished'
  BY <1>0 DEF TierPart, ResidentIsPublished, Published, TM!Resident, tmVars
<1> QED
  BY <1>0, <1>1, <1>2 DEF TierPart, VictimLeaves, SpaceMade, NewBlockState

\* A scan moves blocks between the tiers and keeps them resident.
LEMMA TierScan ==
    ASSUME TierPart, NEW moved \in SUBSET Slots, promotionScan(moved) \/ demotionScan(moved)
    PROVE  TierPart'
<1>0. /\ call.pc = "idle" /\ UNCHANGED <<bmVars, call>>
      /\ TM!promotionScan(moved) \/ TM!demotionScan(moved)
  BY DEF promotionScan, demotionScan, Idle
<1>1. TiersInv'
  BY <1>0, TierManagerInvariant DEF TierPart, TM!Next
<1>2. TM!Resident' = TM!Resident
  <2>1. tiers \in [TM!Tiers -> SUBSET Slots]
    BY DEF TierPart, TiersInv, TM!TypeOK
  <2> QED
    BY <1>0, <2>1 DEF TM!promotionScan, TM!demotionScan, TM!scan, TM!Resident, TM!Tiers
<1>3. ResidentIsPublished'
  BY <1>0, <1>2 DEF TierPart, ResidentIsPublished, Published, bmVars
<1> QED
  BY <1>0, <1>1, <1>3 DEF TierPart, VictimLeaves, SpaceMade, NewBlockState

\* The steps that change no record's state and neither index nor tiers
QuietStep ==
    /\ UNCHANGED <<pmVars, tmVars, kv>>
    /\ SameStates
    /\ call.pc \notin {"ready", "evict"}
    /\ call'.pc \in {"idle", "lookup"}
LEMMA QuietSteps ==
    ASSUME BaseInv,
           \/ \E p \in Paths : lookupPrefix(p)
           \/ lookupStep
           \/ insufficientCandidates
           \/ admitted
           \/ \E h \in Handles, s \in Slots, g \in 1 .. MaxGeneration : getBlock(h, s, g)
           \/ \E s \in Slots, g \in 1 .. MaxGeneration : serveBlockFetch(s, g)
           \/ \E h \in Handles : releaseHandle(h)
    PROVE  QuietStep
<1>a. BM!TypeOK /\ call \in Calls
  BY DEF BaseInv, TypeOK
<1>b. Idle.pc = "idle"
  BY DEF Idle
<1>c. UNCHANGED records => SameStates
  BY DEF SameStates
<1>d. ASSUME NEW h \in Handles, NEW s \in Slots,
             BM!pinInto(h, s) \/ BM!markAccessed(s) \/ BM!releaseHandle(h)
      PROVE  SameStates
  BY <1>a, <1>d, PinKeepsStates
<1>1. CASE \E p \in Paths : lookupPrefix(p)
  BY <1>1, <1>b, <1>c DEF lookupPrefix, QuietStep, bmVars
<1>2. CASE lookupStep
  <2>1. call.pc = "lookup" /\ Head(call.todo) \in Slots
    BY <1>2, <1>a, CallFacts DEF lookupStep
  <2>2. call'.pc \in {"idle", "lookup"}
    BY <1>2, <1>a, <1>b, LookupStepCall
  <2>3. SameStates
    BY <1>2, <1>c, <1>d, <2>1 DEF lookupStep, BM!acquire, bmVars, FreeHandles
  <2> QED
    BY <1>2, <2>1, <2>2, <2>3 DEF lookupStep, QuietStep
<1>3. CASE insufficientCandidates
  BY <1>3, <1>b, <1>c DEF insufficientCandidates, QuietStep, bmVars
<1>4. CASE admitted
  <2>1. call.pc = "acquire" /\ call.id \in Slots
    BY <1>4, <1>a, CallFacts DEF admitted
  <2>2. SameStates
    BY <1>4, <1>d, <2>1 DEF admitted, BM!acquire, FreeHandles
  <2> QED
    BY <1>4, <1>b, <2>1, <2>2 DEF admitted, QuietStep
<1>5. CASE \E h \in Handles, s \in Slots, g \in 1 .. MaxGeneration : getBlock(h, s, g)
  BY <1>5, <1>b, <1>d DEF getBlock, BM!fetchLocal, QuietStep
<1>6. CASE \E s \in Slots, g \in 1 .. MaxGeneration : serveBlockFetch(s, g)
  <2>1. SameStates
    BY <1>6, <1>a DEF serveBlockFetch, BM!markAccessed, BM!Touched, BM!TypeOK, BM!Slots, Slots,
                      BM!BlockRecord, SameStates
  <2> QED
    BY <1>6, <1>b, <2>1 DEF serveBlockFetch, QuietStep
<1>7. CASE \E h \in Handles : releaseHandle(h)
  <2>1. SameStates
    BY <1>7, <1>a DEF releaseHandle, BM!releaseHandle, BM!TypeOK, BM!Slots, Slots,
                      BM!BlockRecord, SameStates
  <2> QED
    BY <1>7, <1>b, <2>1 DEF releaseHandle, QuietStep
<1> QED
  BY <1>1, <1>2, <1>3, <1>4, <1>5, <1>6, <1>7

\* Every step keeps the tiers and the store together.
LEMMA TierNext ==
    ASSUME BaseInv, TierPart, [Next]_vars
    PROVE  TierPart'
<1>1. CASE QuietStep
  BY <1>1, TierQuiet DEF QuietStep
<1>2. CASE advanceNs \/ UNCHANGED vars
  BY <1>2, TierTime DEF advanceNs, BM!advanceNs, vars, tmVars
<1>3. CASE \E p \in Paths : admit(p)
  BY <1>3, TierAdmit
<1>4. CASE \E victim \in Slots : beginEvict(victim)
  BY <1>4, TierBeginEvict
<1>5. CASE finishEvict
  BY <1>5, TierFinishEvict
<1>6. CASE create
  BY <1>6, TierCreate
<1>7. CASE ready
  BY <1>7, TierReady
<1>8. CASE \E moved \in SUBSET Slots : promotionScan(moved) \/ demotionScan(moved)
  BY <1>8, TierScan
<1> QED
  BY <1>1, <1>2, <1>3, <1>4, <1>5, <1>6, <1>7, <1>8, QuietSteps DEF Next, callStep

\* With a large enough payload store, placing a block never fails: makeSpace has
\* made room in the tier, and as many buffers are free as places.
LEMMA PlaceFits ==
    ASSUME EnoughPayloads, BaseInv, TierPart, create
    PROVE  placeFits
<1>1. /\ call.pc = "create" /\ call.tier \in TM!Tiers /\ BM!allocated \in Slots
      /\ WithTiers => BM!allocated \notin TM!Resident
  BY NewSlotFacts
<1>2. WithTiers => TM!hasCapacity(call.tier)
  BY <1>1 DEF TierPart, SpaceMade
<1>3. WithTiers => TM!canPut
  BY <1>1, <1>2, RoomMeansPayload DEF TierPart
<1> QED
  BY <1>2, <1>3 DEF placeFits

\* Only the block of the call in progress is between Free and Ready.
OnlyTheCall == \A s \in Slots : records[s].state \in {"Free", "Ready"} \/ s \in Published

LEMMA OnlyTheCallInit == Init => OnlyTheCall
  BY Names DEF Init, BM!Init, BM!storeInit, OnlyTheCall

LEMMA OnlyTheCallNext ==
    ASSUME EnoughPayloads, BaseInv, TierPart, OnlyTheCall, [Next]_vars
    PROVE  OnlyTheCall'
<1>1. CASE QuietStep
  BY <1>1 DEF QuietStep, SameStates, OnlyTheCall, Published
<1>2. CASE advanceNs \/ UNCHANGED vars
  BY <1>2 DEF advanceNs, BM!advanceNs, vars, OnlyTheCall, Published
<1>3. CASE \E p \in Paths : admit(p)
  BY <1>3 DEF admit, bmVars, Idle, OnlyTheCall, Published
<1>4. CASE \E victim \in Slots : beginEvict(victim)
  <2>1. PICK v \in Slots : beginEvict(v)
    BY <1>4
  <2>2. \A s \in Slots : records'[s].state = IF s = v THEN "Evicting" ELSE records[s].state
    BY <2>1, TransitionEffect DEF BaseInv, TypeOK, beginEvict
  <2>3. call.pc = "space" /\ call'.pc = "evict" /\ call'.victim = v
    BY <2>1 DEF beginEvict
  <2> QED
    BY <2>2, <2>3 DEF OnlyTheCall, Published
<1>5. CASE finishEvict
  <2>1. call.pc = "evict" /\ call'.pc = "create"
    BY <1>5 DEF finishEvict
  <2> QED
    BY <1>5, <2>1, FreeEffect DEF OnlyTheCall, Published
<1>6. CASE create
  <2>1. placeFits
    BY <1>6, PlaceFits
  <2>2. /\ call.pc = "create" /\ BM!available # 0
        /\ \A s \in Slots : records'[s].state =
              IF s = BM!allocated THEN "Admitting" ELSE records[s].state
    BY <1>6, NewSlotFacts
  <2>3. call'.pc = "ready" /\ call'.id = BM!allocated
    BY <1>6, <2>1, <2>2 DEF create
  <2> QED
    BY <2>2, <2>3 DEF OnlyTheCall, Published
<1>7. CASE ready
  <2>1. call.pc = "ready"
    BY <1>7 DEF ready
  <2> QED
    BY <1>7, <2>1, ReadyEffect DEF OnlyTheCall, Published
<1>8. CASE \E moved \in SUBSET Slots : promotionScan(moved) \/ demotionScan(moved)
  BY <1>8 DEF promotionScan, demotionScan, bmVars, OnlyTheCall, Published
<1> QED
  BY <1>1, <1>2, <1>3, <1>4, <1>5, <1>6, <1>7, <1>8, QuietSteps DEF Next, callStep

\* Every step is one of TierManager, or none.
LEMMA StepOfTierManager ==
    ASSUME EnoughPayloads, BaseInv, TierPart, [Next]_vars
    PROVE  [TM!Next]_tmVars
<1>1. CASE QuietStep
  BY <1>1 DEF QuietStep
<1>2. CASE advanceNs \/ UNCHANGED vars
  BY <1>2 DEF advanceNs, vars, tmVars
<1>3. CASE (\E p \in Paths : admit(p)) \/ (\E victim \in Slots : beginEvict(victim)) \/ ready
  BY <1>3 DEF admit, beginEvict, ready
<1>4. CASE finishEvict
  BY <1>4, FreeEffect DEF finishEvict, TM!Next
<1>5. CASE create
  <2>1. placeFits /\ BM!available # 0 /\ BM!allocated \in Slots /\ call.tier \in TM!Tiers
        /\ (WithTiers => BM!allocated \notin TM!Resident)
    BY <1>5, PlaceFits, NewSlotFacts
  <2> QED
    BY <1>5, <2>1 DEF create, TM!Next
<1>6. CASE \E moved \in SUBSET Slots : promotionScan(moved) \/ demotionScan(moved)
  BY <1>6 DEF promotionScan, demotionScan, TM!Next
<1> QED
  BY <1>1, <1>2, <1>3, <1>4, <1>5, <1>6, QuietSteps DEF Next, callStep

\* With a TierManager, between two calls the resident blocks are the Ready ones,
\* whatever is evicted, moved or left behind by a placement that failed.
THEOREM TiersStayWithStore == Spec => []TiersMatchStore
<1>1. BaseInv /\ TierPart => TiersMatchStore
  BY DEF TierPart, ResidentIsPublished, Published, TiersMatchStore, Idle
<1>2. BaseInv /\ TierPart /\ [Next]_vars => TierPart'
  BY TierNext
<1> QED
  BY <1>1, <1>2, BaseInit, BaseNext, TierInit, PTL DEF Spec

\* With a large enough payload store no path through admit or makeSpace leaves
\* a block half admitted or half evicted: the failing branch of place, whose
\* clean-up would throw, is never taken.
THEOREM NoBlockLeftHalfDone ==
    ASSUME EnoughPayloads
    PROVE  Spec => []NothingLeftHalfDone
<1>1. OnlyTheCall => NothingLeftHalfDone
  BY DEF OnlyTheCall, Published, NothingLeftHalfDone, Idle
<1>2. Init => OnlyTheCall
  BY OnlyTheCallInit
<1>3. BaseInv /\ TierPart /\ [Next]_vars => TierPart'
  BY TierNext
<1>4. BaseInv /\ TierPart /\ OnlyTheCall /\ [Next]_vars => OnlyTheCall'
  BY OnlyTheCallNext
<1> QED
  BY <1>1, <1>2, <1>3, <1>4, BaseInit, BaseNext, TierInit, PTL DEF Spec

\* With a large enough payload store the controllers use TierManager as it
\* requires: only a block that has no tier is placed.
THEOREM CacheUsesTierManager ==
    ASSUME EnoughPayloads
    PROVE  Spec => UsesTierManager
<1>1. Init => TM!Init
  BY DEF Init
<1>2. BaseInv /\ TierPart /\ [Next]_vars => TierPart'
  BY TierNext
<1>3. BaseInv /\ TierPart /\ [Next]_vars => [TM!Next]_(TM!tmVars)
  BY StepOfTierManager DEF tmVars, TM!tmVars
<1> QED
  BY <1>1, <1>2, <1>3, BaseInit, BaseNext, TierInit, PTL DEF Spec, UsesTierManager, TM!Spec

-----------------------------------------------------------------------------
(* The index and the store, as long as eviction takes no block of the chain *)
(* that is being extended: because callers keep handles on it, or because    *)
(* of what they do besides                                                   *)

\* While admit makes space, the chain it has read is still in the index, and its
\* path has no block yet.
ChainStands ==
    call.pc \in {"space", "evict", "create"} =>
        /\ PM!Contiguous(call.path, Len(call.path) - 1)
        /\ terminals[call.path] = NoSlot
        /\ \A i \in 1 .. Len(call.path) - 1 :
              call.existing[i] = terminals[PM!Prefix(call.path, i)]

\* The new block is at the end of a chain without a gap.
NewBlockIndexed ==
    call.pc \in {"ready", "acquire"} =>
        /\ terminals[call.path] = call.id
        /\ PM!Contiguous(call.path, Len(call.path))

IndexPart ==
    /\ IndexInv
    /\ IndexMatchesStore
    /\ LookupReturnsOwnBlock
    /\ ChainStands
    /\ NewBlockIndexed

IndexedInv == BaseInv /\ TierPart /\ IndexPart

\* The victim is no block of the chain.
VictimOffChain ==
    call.pc = "evict" =>
        \A i \in 1 .. Len(call.path) - 1 :
            terminals[PM!Prefix(call.path, i)] # call.victim

LEMMA IndexInit == Init => IndexPart
<1> SUFFICES ASSUME Init
             PROVE  IndexPart
  OBVIOUS
<1>1. IndexInv
  BY PrefixMapInvariant DEF Init
<1>2. call.pc = "idle" /\ terminals = [p \in Paths |-> NoSlot]
      /\ block_node = [s \in Slots |-> NoPath]
  BY DEF Init, Idle, PM!Init
<1>3. \A s \in Slots : records[s].state = "Free"
  BY Names DEF Init, BM!Init, BM!storeInit
<1>4. IndexMatchesStore /\ LookupReturnsOwnBlock
  BY <1>2, <1>3 DEF IndexMatchesStore, LookupReturnsOwnBlock
<1> QED
  BY <1>1, <1>2, <1>4 DEF IndexPart, ChainStands, NewBlockIndexed

LEMMA IndexQuiet ==
    ASSUME IndexPart, QuietStep
    PROVE  IndexPart'
<1>1. IndexInv'
  BY PrefixMapInvariant DEF IndexPart, QuietStep
<1>2. IndexMatchesStore' /\ LookupReturnsOwnBlock'
  BY DEF IndexPart, IndexMatchesStore, LookupReturnsOwnBlock, QuietStep, SameStates, pmVars
<1> QED
  BY <1>1, <1>2 DEF IndexPart, ChainStands, NewBlockIndexed, QuietStep

LEMMA IndexTime ==
    ASSUME IndexPart, UNCHANGED <<records, handles, pmVars, call, kv>>
    PROVE  IndexPart'
<1>1. IndexInv'
  BY PrefixMapInvariant DEF IndexPart
<1>2. IndexMatchesStore' /\ LookupReturnsOwnBlock'
  BY DEF IndexPart, IndexMatchesStore, LookupReturnsOwnBlock, pmVars
<1>3. ChainStands' /\ NewBlockIndexed'
  BY DEF IndexPart, ChainStands, NewBlockIndexed, PM!Contiguous, pmVars
<1> QED
  BY <1>1, <1>2, <1>3 DEF IndexPart

\* admit reads the chain.
LEMMA IndexAdmit ==
    ASSUME IndexPart, NEW p \in Paths, admit(p)
    PROVE  IndexPart'
<1>0. /\ UNCHANGED <<records, handles, pmVars, kv>>
      /\ call.pc = "idle" /\ admitStatus(p) = "Proceed"
      /\ call'.pc \in {"space", "create"}
      /\ call'.path = p /\ call'.existing = existingBlocks(p)
  BY DEF admit, bmVars, Idle
<1>1. IndexInv'
  BY <1>0, PrefixMapInvariant DEF IndexPart
<1>2. IndexMatchesStore' /\ LookupReturnsOwnBlock'
  BY <1>0 DEF IndexPart, IndexMatchesStore, LookupReturnsOwnBlock, pmVars
<1>3. /\ \A i \in 1 .. Len(p) - 1 : existingBlocks(p)[i] = terminals[PM!Prefix(p, i)]
      /\ PM!Contiguous(p, Len(p) - 1)
      /\ terminals[p] = NoSlot
  BY <1>0, ExistingFacts DEF IndexPart, IndexInv
<1>4. ChainStands'
  BY <1>0, <1>3 DEF ChainStands, PM!Contiguous, pmVars
<1> QED
  BY <1>0, <1>1, <1>2, <1>4 DEF IndexPart, NewBlockIndexed

\* makeSpace takes a Ready block out of Ready.
LEMMA IndexBeginEvict ==
    ASSUME BaseInv, IndexPart, NEW v \in Slots, beginEvict(v)
    PROVE  IndexPart'
<1>0. /\ call.pc = "space" /\ UNCHANGED <<pmVars, kv>>
      /\ call'.pc = "evict" /\ call'.path = call.path /\ call'.existing = call.existing
      /\ call'.victim = v
  BY DEF beginEvict
<1>1. /\ records[v].state = "Ready"
      /\ \A s \in Slots : records'[s].state = IF s = v THEN "Evicting" ELSE records[s].state
      /\ handles' = handles
  BY TransitionEffect DEF BaseInv, TypeOK, beginEvict
<1>2. IndexInv'
  BY <1>0, PrefixMapInvariant DEF IndexPart
<1>3. IndexMatchesStore' /\ LookupReturnsOwnBlock'
  BY <1>0, <1>1 DEF IndexPart, IndexMatchesStore, LookupReturnsOwnBlock, pmVars
<1>4. ChainStands'
  BY <1>0, <1>1 DEF IndexPart, ChainStands, PM!Contiguous, pmVars
<1> QED
  BY <1>0, <1>2, <1>3, <1>4 DEF IndexPart, NewBlockIndexed

LEMMA ChainSurvives ==
    ASSUME IndexedInv, VictimOffChain, finishEvict, NEW i \in 1 .. Len(call.path) - 1
    PROVE  /\ PM!Prefix(call.path, i) \in Paths
           /\ terminals'[PM!Prefix(call.path, i)] = terminals[PM!Prefix(call.path, i)]
<1> DEFINE q == PM!Prefix(call.path, i)
           v == call.victim
<1>1. call.pc = "evict" /\ call.path \in Paths /\ v \in Slots
  BY CallFacts DEF IndexedInv, BaseInv, TypeOK, finishEvict
<1>2. q \in Paths
  <2>1. /\ Len(call.path) \in Nat
        /\ \A j \in 1 .. Len(call.path) : PM!Prefix(call.path, j) \in Paths
    BY <1>1, PathFacts
  <2> QED
    BY <2>1
<1>7. terminals[q] # v
  BY <1>1 DEF VictimOffChain
<1>8. block_node[v] # NoPath => terminals[block_node[v]] = v
  BY <1>1 DEF IndexedInv, IndexPart, IndexInv, PM!MapsAreInverse
<1>9. terminals' = IF block_node[v] = NoPath THEN terminals
                   ELSE [terminals EXCEPT ![block_node[v]] = NoSlot]
  BY DEF finishEvict, PM!remove
<1> HIDE DEF q, v
<1>10. terminals'[q] = terminals[q]
  BY <1>2, <1>7, <1>8, <1>9 DEF IndexedInv, IndexPart, IndexInv, PM!TypeOK
<1> QED
  BY <1>2, <1>10 DEF q

\* The victim leaves the index; the chain stays.
LEMMA IndexFinishEvict ==
    ASSUME IndexedInv, VictimOffChain, finishEvict
    PROVE  IndexPart'
<1> DEFINE v == call.victim
<1>0. /\ call.pc = "evict" /\ call.path \in Paths /\ PM!remove(v)
      /\ call'.pc = "create" /\ call'.path = call.path /\ call'.existing = call.existing
      /\ kv' = kv
  BY CallFacts DEF IndexedInv, BaseInv, TypeOK, finishEvict
<1>1. /\ v \in Slots
      /\ \A s \in Slots : records'[s].state = IF s = v THEN "Free" ELSE records[s].state
      /\ handles' = handles
  BY FreeEffect DEF IndexedInv
<1>2. IndexInv'
  BY <1>0, <1>1, PrefixMapInvariant DEF IndexedInv, IndexPart, PM!Next
<1>3. /\ terminals \in [Paths -> Slots \cup {NoSlot}]
      /\ block_node \in [Slots -> Paths \cup {NoPath}]
      /\ block_node[v] # NoPath /\ block_node[v] \in Paths
  BY <1>0, <1>1 DEF IndexedInv, IndexPart, IndexMatchesStore, IndexInv, PM!TypeOK
<1>4. /\ terminals' = [terminals EXCEPT ![block_node[v]] = NoSlot]
      /\ block_node' = [block_node EXCEPT ![v] = NoPath]
  BY <1>0, <1>3 DEF PM!remove
<1>5. IndexMatchesStore'
  <2> HIDE DEF v
  <2>1. ASSUME NEW s \in Slots
        PROVE  block_node'[s] # NoPath <=> records'[s].state = "Ready"
    <3>1. CASE s = v
      BY <1>1, <1>3, <1>4, <3>1
    <3>2. CASE s # v
      BY <1>0, <1>1, <1>3, <1>4, <3>2 DEF IndexedInv, IndexPart, IndexMatchesStore, v
    <3> QED
      BY <3>1, <3>2
  <2> QED
    BY <1>0, <2>1 DEF IndexMatchesStore
<1>6. LookupReturnsOwnBlock'
  BY <1>0, <1>3, <1>4 DEF IndexedInv, IndexPart, LookupReturnsOwnBlock
<1>7. ChainStands'
  <2>1. \A i \in 1 .. Len(call.path) - 1 :
           terminals'[PM!Prefix(call.path, i)] = terminals[PM!Prefix(call.path, i)]
    BY ChainSurvives
  <2>2. terminals'[call.path] = NoSlot
    BY <1>0, <1>3, <1>4 DEF IndexedInv, IndexPart, ChainStands
  <2> QED
    BY <1>0, <1>1, <2>1, <2>2 DEF IndexedInv, IndexPart, ChainStands, PM!Contiguous
<1> QED
  BY <1>0, <1>2, <1>5, <1>6, <1>7 DEF IndexPart, NewBlockIndexed

\* What is inserted is one block, in no index yet, below the chain that admit
\* has read: the chain is still there.
LEMMA InsertsBelowChain ==
    ASSUME IndexedInv, create
    PROVE  /\ block_node[BM!allocated] = NoPath
           /\ \A q \in Paths : terminals[q] # BM!allocated
           /\ placeFits => PM!insertBlock(call.path, BM!allocated)
<1> DEFINE new == BM!allocated
           p == call.path
<1>1. /\ call.pc = "create" /\ p \in Paths /\ call.existing \in Seq(Slots)
      /\ Len(call.existing) = Len(p) - 1 /\ BM!available # 0
      /\ new \in Slots /\ records[new].state = "Free"
  BY CallFacts, NewSlotFacts DEF IndexedInv, BaseInv, TypeOK, ChainLength, create
<1>2. block_node[new] = NoPath
  BY <1>1 DEF IndexedInv, IndexPart, IndexMatchesStore
<1>3. ASSUME NEW q \in Paths
      PROVE  terminals[q] # new
  BY <1>1, <1>2, SlotFacts, PrefixMapConstants DEF IndexedInv, IndexPart, IndexInv, PM!MapsAreInverse
<1>4. ASSUME placeFits
      PROVE  PM!insertBlock(p, new)
  <2> DEFINE above == [i \in 1 .. Len(p) - 1 |-> terminals[PM!Prefix(p, i)]]
  <2>1. /\ terminals[p] = NoSlot /\ PM!Contiguous(p, Len(p) - 1)
        /\ \A i \in 1 .. Len(p) - 1 : call.existing[i] = terminals[PM!Prefix(p, i)]
    BY <1>1 DEF IndexedInv, IndexPart, ChainStands
  <2>2. call.existing = above
    BY <1>1, <2>1
  <2>3. PM!insert(p, Append(call.existing, new))
    BY <1>1, <1>4 DEF create, allBlocks
  <2> QED
    BY <1>2, <2>1, <2>2, <2>3 DEF PM!insertBlock
<1> QED
  BY <1>2, <1>3, <1>4

\* The new block is inserted, or is left out of the index.
LEMMA IndexCreate ==
    ASSUME IndexedInv, create
    PROVE  IndexPart'
<1> DEFINE new == BM!allocated
           p == call.path
<1>1. /\ block_node[new] = NoPath
      /\ \A q \in Paths : terminals[q] # new
      /\ placeFits => PM!insertBlock(p, new)
  BY InsertsBelowChain
<1>2. /\ call.pc = "create" /\ p \in Paths /\ BM!available # 0
      /\ new \in Slots /\ records[new].state = "Free"
      /\ \A s \in Slots : records'[s].state = IF s = new THEN "Admitting" ELSE records[s].state
  BY NewSlotFacts DEF IndexedInv
<1>3. /\ Len(p) \in Nat \ {0} /\ PM!Prefix(p, Len(p)) = p
      /\ \A i \in 1 .. Len(p) : PM!Prefix(p, i) \in Paths
  BY <1>2, PathFacts
<1>4. /\ kv' = [kv EXCEPT ![new] = p] /\ kv \in [Slots -> Paths \cup {NoPath}]
      /\ terminals \in [Paths -> Slots \cup {NoSlot}]
      /\ block_node \in [Slots -> Paths \cup {NoPath}]
      /\ PM!TypeOK
  BY <1>2 DEF IndexedInv, BaseInv, TypeOK, PM!TypeOK, create
<1>5. \A s \in Slots : block_node[s] # NoPath <=> records[s].state = "Ready"
  BY <1>2 DEF IndexedInv, IndexPart, IndexMatchesStore
<1>6. \A q \in Paths : terminals[q] # NoSlot => kv[terminals[q]] = q
  BY DEF IndexedInv, IndexPart, LookupReturnsOwnBlock
<1>7. CASE placeFits
  <2>1. call'.pc = "ready" /\ call'.path = p /\ call'.id = new
    BY <1>2, <1>7 DEF create
  <2> HIDE DEF new, p
  <2>2. PM!insertBlock(p, new)
    BY <1>1, <1>7
  <2>3. /\ terminals' = [terminals EXCEPT ![p] = new]
        /\ block_node' = [block_node EXCEPT ![new] = p]
    BY <1>2, <1>4, <2>2, InsertIsOneEntry
  <2>4. IndexInv'
    BY <1>2, <2>2, PrefixMapInvariant DEF IndexedInv, IndexPart, PM!Next
  <2>5. IndexMatchesStore'
    BY <1>1, <1>2, <1>4, <1>5, <2>1, <2>3, PrefixMapConstants DEF IndexMatchesStore
  <2>6. LookupReturnsOwnBlock'
    <3>1. ASSUME NEW q \in Paths, terminals'[q] # NoSlot
          PROVE  kv'[terminals'[q]] = q
      <4>1. CASE q = p
        BY <1>2, <1>4, <2>3, <4>1
      <4>2. CASE q # p
        <5>1. terminals'[q] = terminals[q] /\ terminals[q] \in Slots /\ terminals[q] # new
          BY <1>1, <1>2, <1>4, <2>3, <3>1, <4>2
        <5> QED
          BY <1>2, <1>4, <1>6, <3>1, <5>1
      <4> QED
        BY <4>1, <4>2
    <3> QED
      BY <3>1 DEF LookupReturnsOwnBlock
  <2>7. NewBlockIndexed'
    <3>1. terminals'[p] = new
      BY <1>2, <1>4, <2>3
    <3>2. PM!Contiguous(p, Len(p) - 1)
      BY <2>2 DEF PM!insertBlock
    <3>3. ASSUME NEW j \in 1 .. Len(p)
          PROVE  terminals'[PM!Prefix(p, j)] # NoSlot
      <4>1. CASE PM!Prefix(p, j) = p
        BY <1>2, <3>1, <4>1, SlotFacts
      <4>2. CASE PM!Prefix(p, j) # p
        <5>1. j \in 1 .. Len(p) - 1
          BY <1>3, <4>2
        <5> QED
          BY <1>3, <1>4, <2>3, <3>2, <4>2, <5>1 DEF PM!Contiguous
      <4> QED
        BY <4>1, <4>2
    <3> QED
      BY <2>1, <3>1, <3>3 DEF NewBlockIndexed, PM!Contiguous
  <2> QED
    BY <2>1, <2>4, <2>5, <2>6, <2>7 DEF IndexPart, ChainStands
<1>8. CASE ~ placeFits
  <2>1. call'.pc = "idle" /\ UNCHANGED pmVars
    BY <1>2, <1>8 DEF create, Idle
  <2> HIDE DEF new, p
  <2>2. IndexInv'
    BY <2>1, PrefixMapInvariant DEF IndexedInv, IndexPart
  <2>3. IndexMatchesStore'
    BY <1>2, <1>5, <2>1 DEF IndexMatchesStore, pmVars
  <2>4. LookupReturnsOwnBlock'
    BY <1>1, <1>2, <1>4, <1>6, <2>1 DEF LookupReturnsOwnBlock, pmVars
  <2> QED
    BY <2>1, <2>2, <2>3, <2>4 DEF IndexPart, ChainStands, NewBlockIndexed
<1> QED
  BY <1>7, <1>8

LEMMA IndexReady ==
    ASSUME BaseInv, IndexPart, ready
    PROVE  IndexPart'
<1>0. /\ call.pc = "ready" /\ UNCHANGED <<pmVars, kv>> /\ call.id \in Slots
      /\ call'.pc = "acquire" /\ call'.path = call.path /\ call'.id = call.id
      /\ \A s \in Slots : records'[s].state = IF s = call.id THEN "Ready" ELSE records[s].state
  BY ReadyEffect DEF ready
<1>1. IndexInv'
  BY <1>0, PrefixMapInvariant DEF IndexPart
<1>2. IndexMatchesStore' /\ LookupReturnsOwnBlock'
  BY <1>0 DEF IndexPart, IndexMatchesStore, LookupReturnsOwnBlock, pmVars
<1>3. ChainStands' /\ NewBlockIndexed'
  BY <1>0 DEF IndexPart, ChainStands, NewBlockIndexed, PM!Contiguous, pmVars
<1> QED
  BY <1>1, <1>2, <1>3 DEF IndexPart

\* Every step keeps the index and the store together.
LEMMA IndexNext ==
    ASSUME IndexedInv, finishEvict => VictimOffChain, [Next]_vars
    PROVE  IndexPart'
<1> USE DEF IndexedInv
<1>1. CASE QuietStep
  BY <1>1, IndexQuiet
<1>2. CASE advanceNs \/ UNCHANGED vars
  BY <1>2, IndexTime DEF advanceNs, BM!advanceNs, vars, pmVars
<1>3. CASE \E p \in Paths : admit(p)
  BY <1>3, IndexAdmit
<1>4. CASE \E victim \in Slots : beginEvict(victim)
  BY <1>4, IndexBeginEvict
<1>5. CASE finishEvict
  BY <1>5, IndexFinishEvict
<1>6. CASE create
  BY <1>6, IndexCreate
<1>7. CASE ready
  BY <1>7, IndexReady
<1>8. CASE \E moved \in SUBSET Slots : promotionScan(moved) \/ demotionScan(moved)
  BY <1>8, IndexTime DEF promotionScan, demotionScan, bmVars
<1> QED
  BY <1>1, <1>2, <1>3, <1>4, <1>5, <1>6, <1>7, <1>8, QuietSteps DEF Next, callStep

-----------------------------------------------------------------------------
(* A cache whose callers keep handles on the chain they extend *)

ChainPinned == call.pc \in {"space", "evict"} => AncestorsPinned(call.path)

IInv == BaseInv /\ TierPart /\ IndexPart /\ ChainPinned

\* A block of the chain is never the victim: its handle says that it is Ready.
LEMMA PinnedIsOffChain ==
    ASSUME IInv
    PROVE  VictimOffChain
<1> SUFFICES ASSUME call.pc = "evict", NEW i \in 1 .. Len(call.path) - 1
             PROVE  terminals[PM!Prefix(call.path, i)] # call.victim
  BY DEF VictimOffChain
<1> DEFINE q == PM!Prefix(call.path, i)
           v == call.victim
<1>1. call.path \in Paths /\ v \in Slots
  BY CallFacts DEF IInv, BaseInv, TypeOK
<1>2. q \in Paths
  <2>1. /\ Len(call.path) \in Nat
        /\ \A j \in 1 .. Len(call.path) : PM!Prefix(call.path, j) \in Paths
    BY <1>1, PathFacts
  <2> QED
    BY <2>1
<1>3. terminals[q] \in Slots
  BY <1>2 DEF IInv, IndexPart, IndexInv, PM!TypeOK, ChainStands, PM!Contiguous
<1>4. PICK h \in Handles : handles[h] = terminals[q]
  BY DEF IInv, ChainPinned, AncestorsPinned, BM!Holders
<1>5. records[terminals[q]].state \in {"Ready", "Migrating"}
  BY <1>3, <1>4, SlotFacts, BlockManagerFacts DEF IInv, BaseInv
<1>6. records[v].state = "Evicting"
  BY <1>1 DEF IInv, TierPart, VictimLeaves
<1> QED
  BY <1>5, <1>6

\* admit requires it, and no handle is released before it returns.
LEMMA PinnedNext ==
    ASSUME PinAncestors, IInv, [Next]_vars
    PROVE  ChainPinned'
<1>0. BaseInv /\ ChainPinned
  BY DEF IInv
<1>1. CASE QuietStep
  BY <1>1 DEF QuietStep, ChainPinned
<1>2. CASE advanceNs \/ UNCHANGED vars
  BY <1>0, <1>2 DEF advanceNs, BM!advanceNs, vars, pmVars, ChainPinned, AncestorsPinned, BM!Holders
<1>3. ASSUME NEW p \in Paths, admit(p)
      PROVE  ChainPinned'
  <2>1. UNCHANGED <<handles, pmVars>> /\ AncestorsPinned(p) /\ call'.path = p
    BY <1>3 DEF admit, bmVars
  <2> QED
    BY <2>1 DEF ChainPinned, AncestorsPinned, BM!Holders, pmVars
<1>4. ASSUME NEW victim \in Slots, beginEvict(victim)
      PROVE  ChainPinned'
  <2>1. call.pc = "space" /\ call'.path = call.path /\ UNCHANGED pmVars
    BY <1>4 DEF beginEvict
  <2>2. handles' = handles
    BY <1>0, <1>4, TransitionEffect DEF BaseInv, TypeOK, beginEvict
  <2> QED
    BY <1>0, <2>1, <2>2 DEF ChainPinned, AncestorsPinned, BM!Holders, pmVars
<1>5. CASE finishEvict
  BY <1>5 DEF finishEvict, ChainPinned
<1>6. CASE create
  BY <1>6 DEF create, ChainPinned, Idle
<1>7. CASE ready
  <2>1. call'.pc = "acquire"
    BY <1>0, <1>7, ReadyEffect DEF ready
  <2> QED
    BY <2>1 DEF ChainPinned
<1>8. CASE \E moved \in SUBSET Slots : promotionScan(moved) \/ demotionScan(moved)
  BY <1>0, <1>8 DEF promotionScan, demotionScan, bmVars, ChainPinned, AncestorsPinned, BM!Holders,
                    pmVars
<1> QED
  BY <1>0, <1>1, <1>2, <1>3, <1>4, <1>5, <1>6, <1>7, <1>8, QuietSteps DEF Next, callStep

LEMMA InitIInv == Init => IInv
<1>1. Init => ChainPinned
  BY DEF Init, Idle, ChainPinned
<1> QED
  BY <1>1, BaseInit, TierInit, IndexInit DEF IInv

LEMMA NextIInv ==
    ASSUME PinAncestors
    PROVE  IInv /\ [Next]_vars => IInv'
<1> SUFFICES ASSUME IInv, [Next]_vars
             PROVE  IInv'
  OBVIOUS
<1>1. IndexedInv /\ VictimOffChain
  BY PinnedIsOffChain DEF IInv, IndexedInv
<1>2. IndexPart'
  BY <1>1, IndexNext
<1> QED
  BY <1>2, BaseNext, TierNext, PinnedNext DEF IInv

\* Every step is one of the index, or none.
LEMMA StepOfPrefixMap ==
    ASSUME IInv, [Next]_vars
    PROVE  [PM!Next]_pmVars
<1>0. BaseInv /\ TierPart /\ IndexedInv
  BY DEF IInv, IndexedInv
<1>1. CASE QuietStep
  BY <1>1 DEF QuietStep
<1>2. CASE advanceNs \/ UNCHANGED vars
  BY <1>2 DEF advanceNs, vars, pmVars
<1>3. CASE (\E p \in Paths : admit(p)) \/ (\E victim \in Slots : beginEvict(victim)) \/ ready
  BY <1>3 DEF admit, beginEvict, ready
<1>4. CASE finishEvict
  BY <1>0, <1>4, FreeEffect DEF finishEvict, PM!Next
<1>5. CASE create
  <2>1. BM!available # 0 /\ BM!allocated \in Slots /\ call.path \in Paths
    BY <1>0, <1>5, NewSlotFacts
  <2> QED
    BY <1>0, <1>5, <2>1, InsertsBelowChain DEF create, PM!Next
<1>6. CASE \E moved \in SUBSET Slots : promotionScan(moved) \/ demotionScan(moved)
  BY <1>6 DEF promotionScan, demotionScan
<1> QED
  BY <1>0, <1>1, <1>2, <1>3, <1>4, <1>5, <1>6, QuietSteps DEF Next, callStep

\* The inductive invariant of a cache whose callers pin the chain they extend
THEOREM Invariance ==
    ASSUME PinAncestors
    PROVE  Spec => []IInv
<1> QED
  BY InitIInv, NextIInv, PTL DEF Spec

\* The index leads to exactly the blocks that are resident: to no slot that was
\* evicted, re-used or never finished, and to every one that could be reused.
THEOREM IndexStaysWithStore ==
    ASSUME PinAncestors
    PROVE  Spec => []IndexMatchesStore
<1>1. IInv => IndexMatchesStore
  BY DEF IInv, IndexPart
<1> QED
  BY <1>1, Invariance, PTL

\* lookupPrefix hands out the KV state of the tokens that were asked for: the
\* block found for a prefix is the one that was admitted for it.
THEOREM LookupsReturnOwnBlock ==
    ASSUME PinAncestors
    PROVE  Spec => []LookupReturnsOwnBlock
<1>1. IInv => LookupReturnsOwnBlock
  BY DEF IInv, IndexPart
<1> QED
  BY <1>1, Invariance, PTL

\* When admit returns Admitted, the whole chain up to the new block can be
\* looked up: making space has not torn a hole into it.
THEOREM AdmittedChainsAreWhole ==
    ASSUME PinAncestors
    PROVE  Spec => []AdmittedChainIsWhole
<1>1. IInv => AdmittedChainIsWhole
  <2> SUFFICES ASSUME IInv, call.pc = "acquire"
               PROVE  /\ Len(PM!lookup(call.path)) = Len(call.path)
                      /\ PM!lookup(call.path)[Len(call.path)] = call.id
    BY DEF AdmittedChainIsWhole
  <2>1. /\ call.path \in Paths /\ PM!TypeOK
        /\ terminals[call.path] = call.id
        /\ PM!Contiguous(call.path, Len(call.path))
    BY CallFacts DEF IInv, BaseInv, TypeOK, IndexPart, NewBlockIndexed
  <2>2. Len(call.path) \in Nat \ {0} /\ PM!Prefix(call.path, Len(call.path)) = call.path
    BY <2>1, PathFacts
  <2>3. Len(PM!lookup(call.path)) = Len(call.path)
    BY <2>1, <2>2, LookupFacts
  <2> QED
    BY <2>1, <2>2, <2>3, LookupFacts
<1> QED
  BY <1>1, Invariance, PTL

\* The controllers use the index as it requires: a block is inserted once, below
\* a chain without gaps, so the index keeps its two maps inverse.
THEOREM CacheUsesPrefixMap ==
    ASSUME PinAncestors
    PROVE  Spec => UsesPrefixMap
<1>1. Init => PM!Init
  BY DEF Init
<1>2. IInv /\ [Next]_vars => [PM!Next]_(PM!pmVars)
  BY StepOfPrefixMap DEF pmVars, PM!pmVars
<1> QED
  BY <1>1, <1>2, InitIInv, NextIInv, PTL DEF Spec, UsesPrefixMap, PM!Spec

-----------------------------------------------------------------------------
(* What the users of a cache rely on, in terms of its variables *)

LEMMA CacheFacts ==
    ASSUME BaseInv
    PROVE  /\ BM!TypeOK /\ PM!TypeOK
           /\ records \in [0 .. Capacity - 1 -> BM!BlockRecord]
           /\ handles \in [Handles -> (0 .. Capacity - 1) \cup {-1}]
           /\ terminals \in [Paths -> (0 .. Capacity - 1) \cup {-1}]
           /\ block_node \in [0 .. Capacity - 1 -> Paths \cup {<<>>}]
           /\ kv \in [0 .. Capacity - 1 -> Paths \cup {<<>>}]
           /\ free_list \in Seq(0 .. Capacity - 1)
           /\ generations \in [0 .. Capacity - 1 -> Nat]
           /\ \A i, j \in 1 .. Len(free_list) : free_list[i] = free_list[j] => i = j
           /\ \A s \in 0 .. Capacity - 1 :
                 /\ records[s].state = "Free" <=>
                       \E i \in 1 .. Len(free_list) : free_list[i] = s
                 /\ records[s].state # "Free" =>
                       records[s].generation = generations[s] /\ generations[s] > 0
           /\ \A h \in Handles : handles[h] # -1 => records[handles[h]].refcount > 0
           /\ \A p \in Paths :
                 /\ \A i \in 1 .. Len(PM!lookup(p)) :
                       /\ PM!lookup(p)[i] = terminals[SubSeq(p, 1, i)]
                       /\ terminals[SubSeq(p, 1, i)] # -1
                 /\ \A i \in 0 .. Len(p) :
                       (\A j \in 1 .. i : terminals[SubSeq(p, 1, j)] # -1) =>
                          i <= Len(PM!lookup(p))
<1>1. BMP!IInv /\ TypeOK
  BY DEF BaseInv
<1>2. /\ BM!TypeOK /\ BM!PoolMatchesStore
      /\ \A h \in Handles : handles[h] # -1 => records[handles[h]].refcount > 0
  BY <1>1, BlockManagerFacts DEF NoSlot
<1>3. PM!TypeOK /\ kv \in [0 .. Capacity - 1 -> Paths \cup {<<>>}]
  BY <1>1 DEF TypeOK, Slots, NoPath
<1>4. /\ records \in [0 .. Capacity - 1 -> BM!BlockRecord]
      /\ handles \in [Handles -> (0 .. Capacity - 1) \cup {-1}]
      /\ free_list \in Seq(0 .. Capacity - 1)
      /\ generations \in [0 .. Capacity - 1 -> Nat]
  BY <1>2 DEF BM!TypeOK, BM!Slots, BM!NoSlot
<1>5. /\ terminals \in [Paths -> (0 .. Capacity - 1) \cup {-1}]
      /\ block_node \in [0 .. Capacity - 1 -> Paths \cup {<<>>}]
  BY <1>3 DEF PM!TypeOK, Slots, NoSlot, NoPath
<1>6. /\ \A i, j \in 1 .. Len(free_list) : free_list[i] = free_list[j] => i = j
      /\ \A s \in 0 .. Capacity - 1 :
            records[s].state = "Free" <=> \E i \in 1 .. Len(free_list) : free_list[i] = s
  BY <1>2 DEF BM!PoolMatchesStore, BM!Slots
<1>7. \A s \in 0 .. Capacity - 1 : records[s].state # "Free" =>
         records[s].generation = generations[s] /\ generations[s] > 0
  BY <1>1 DEF BMP!IInv, BMP!PoolMatchesStore, BMP!GenerationsAgree, BMP!Slots
<1>8. ASSUME NEW p \in Paths
      PROVE  /\ \A i \in 1 .. Len(PM!lookup(p)) :
                   /\ PM!lookup(p)[i] = terminals[SubSeq(p, 1, i)]
                   /\ terminals[SubSeq(p, 1, i)] # -1
             /\ \A i \in 0 .. Len(p) :
                   (\A j \in 1 .. i : terminals[SubSeq(p, 1, j)] # -1) =>
                      i <= Len(PM!lookup(p))
  BY <1>3, LookupFacts DEF PM!Contiguous, PM!Prefix, NoSlot
<1> QED
  BY <1>2, <1>3, <1>4, <1>5, <1>6, <1>7, <1>8

LEMMA IndexFacts ==
    ASSUME BaseInv, TierPart, IndexPart, OnlyTheCall
    PROVE  /\ \A p \in Paths, s \in 0 .. Capacity - 1 : terminals[p] = s <=> block_node[s] = p
           /\ \A p \in Paths : terminals[p] # -1 => kv[terminals[p]] = p
           /\ \A s \in 0 .. Capacity - 1 :
                 block_node[s] # <<>> <=>
                     \/ records[s].state = "Ready"
                     \/ call.pc = "ready" /\ s = call.id
                     \/ call.pc = "evict" /\ s = call.victim
           /\ \A s \in 0 .. Capacity - 1 : records[s].state # "Free" => block_node[s] # <<>>
           /\ call.pc = "ready" => records[call.id].state = "Admitting"
           /\ call.pc = "evict" => records[call.victim].state = "Evicting"
           /\ call.pc \in {"space", "evict", "create"} =>
                 /\ terminals[call.path] = -1
                 /\ \A i \in 1 .. Len(call.path) - 1 :
                       terminals[SubSeq(call.path, 1, i)] # -1
           /\ call.pc \in {"ready", "acquire"} => terminals[call.path] = call.id
<1>1. \A p \in Paths, s \in 0 .. Capacity - 1 : terminals[p] = s <=> block_node[s] = p
  <2>1. PM!MapsAreInverse
    BY DEF IndexPart, IndexInv
  <2>2. NoPath \notin Paths /\ NoSlot \notin Slots
    BY SlotFacts, PathFacts DEF NoPath
  <2> QED
    BY <2>1, <2>2 DEF PM!MapsAreInverse, Slots
<1>2. \A p \in Paths : terminals[p] # -1 => kv[terminals[p]] = p
  BY DEF IndexPart, LookupReturnsOwnBlock, NoSlot
<1>3. \A s \in 0 .. Capacity - 1 :
         block_node[s] # <<>> <=>
             \/ records[s].state = "Ready"
             \/ call.pc = "ready" /\ s = call.id
             \/ call.pc = "evict" /\ s = call.victim
  BY DEF IndexPart, IndexMatchesStore, Slots, NoPath
<1>4. /\ call.pc = "ready" => records[call.id].state = "Admitting"
      /\ call.pc = "evict" => records[call.victim].state = "Evicting"
  BY DEF TierPart, NewBlockState, VictimLeaves
<1>5. call.pc \in {"space", "evict", "create"} =>
         /\ terminals[call.path] = -1
         /\ \A i \in 1 .. Len(call.path) - 1 : terminals[SubSeq(call.path, 1, i)] # -1
  BY DEF IndexPart, ChainStands, PM!Contiguous, PM!Prefix, NoSlot
<1>6. call.pc \in {"ready", "acquire"} => terminals[call.path] = call.id
  BY DEF IndexPart, NewBlockIndexed
<1>7. \A s \in 0 .. Capacity - 1 : records[s].state # "Free" => block_node[s] # <<>>
  BY <1>3 DEF OnlyTheCall, Published, Slots
<1> QED
  BY <1>1, <1>2, <1>3, <1>4, <1>5, <1>6, <1>7

=============================================================================
