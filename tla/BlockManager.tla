---------------------------- MODULE BlockManager ----------------------------
(***************************************************************************)
(* The block life cycle of one worker: BlockPool (free slots and their     *)
(* generations), BlockStore (one BlockRecord per slot), BlockHandle (the   *)
(* reference-counted pins that callers hold between calls) and             *)
(* BlockManager, which ties them together.                                 *)
(*                                                                         *)
(* Every call is one action.  A call that returns nullopt or NotFound, or  *)
(* that throws before it has assigned anything, leaves the state alone and *)
(* is a stuttering step.  The record fields kept are the ones that decide  *)
(* something: block_index and token_count are inputs of the content hash   *)
(* (content_hash.cc), so hash stands for the three of them; tier and       *)
(* payload are written by TierManager only; access_count is a statistic.   *)
(***************************************************************************)
EXTENDS Integers, Sequences, FiniteSets

CONSTANTS
    Capacity,       \* number of slots of the pool and of the store
    Hashes,         \* content hashes of the blocks that callers create
    NoHash,         \* the hash {0, 0} of a record never initialised
    Handles,        \* the BlockHandle objects that callers can hold at once
    MaxGeneration,  \* bound: no block is created with a larger generation
    MaxTime         \* bound: the clock stops here

ASSUME CapacityAssumption == Capacity \in Nat
ASSUME HandlesAssumption == IsFiniteSet(Handles)
ASSUME HashesAssumption == NoHash \notin Hashes
ASSUME BoundsAssumption == MaxGeneration \in Nat /\ MaxTime \in Nat

VARIABLES
    free_list,      \* BlockPool::free_list_, a stack
    generations,    \* BlockPool::generations_
    in_use,         \* BlockPool::in_use_
    records,        \* BlockStore::records_
    handles,        \* BlockHandle::record_ of every handle, NoSlot for nullptr
    now             \* Clock::nowNs()

poolVars == <<free_list, generations, in_use>>
bmVars == <<free_list, generations, in_use, records, handles, now>>

Slots == 0 .. (Capacity - 1)
NoSlot == -1        \* nullptr

States == {"Free", "Admitting", "Ready", "Fetching", "Migrating", "Evicting"}

BlockRecord ==
    [generation : Nat,
     hash : Hashes \cup {NoHash},
     refcount : Nat,
     last_access_ns : Nat,
     state : States]

TypeOK ==
    /\ free_list \in Seq(Slots)
    /\ generations \in [Slots -> Nat]
    /\ in_use \in [Slots -> BOOLEAN]
    /\ records \in [Slots -> BlockRecord]
    /\ handles \in [Handles -> Slots \cup {NoSlot}]
    /\ now \in Nat

-----------------------------------------------------------------------------
(* Construction: the free list is filled from the highest slot down, so    *)
(* that slot 0 is at its back; every record is default-constructed.        *)

poolInit ==
    /\ free_list = [i \in 1 .. Capacity |-> Capacity - i]
    /\ generations = [s \in Slots |-> 0]
    /\ in_use = [s \in Slots |-> FALSE]

storeInit ==
    records = [s \in Slots |-> [generation |-> 0, hash |-> NoHash, refcount |-> 0,
                                last_access_ns |-> 0, state |-> "Free"]]

Init ==
    /\ poolInit
    /\ storeInit
    /\ handles = [h \in Handles |-> NoSlot]
    /\ now = 0

-----------------------------------------------------------------------------
(* BlockPool *)

available == Len(free_list)

\* allocate() pops the back of the free list; a slot's first generation is 1.
allocated == free_list[Len(free_list)]
allocatedGeneration ==
    IF generations[allocated] = 0 THEN 1 ELSE generations[allocated]

allocate ==
    /\ free_list # <<>>
    /\ allocatedGeneration <= MaxGeneration
    /\ free_list' = SubSeq(free_list, 1, Len(free_list) - 1)
    /\ generations' = [generations EXCEPT ![allocated] = allocatedGeneration]
    /\ in_use' = [in_use EXCEPT ![allocated] = TRUE]

\* Mutants: in_use_ is not cleared; the generation is not advanced.
free_keepsInUse(s) ==
    /\ in_use[s]
    /\ generations' = [generations EXCEPT ![s] = @ + 1]
    /\ free_list' = Append(free_list, s)
    /\ UNCHANGED in_use

free_sameGeneration(s) ==
    /\ in_use[s]
    /\ in_use' = [in_use EXCEPT ![s] = FALSE]
    /\ free_list' = Append(free_list, s)
    /\ UNCHANGED generations

\* free(id) throws on a double free, else advances the generation.
free(s) ==
    /\ in_use[s]
    /\ in_use' = [in_use EXCEPT ![s] = FALSE]
    /\ generations' = [generations EXCEPT ![s] = @ + 1]
    /\ free_list' = Append(free_list, s)

-----------------------------------------------------------------------------
(* BlockStore and BlockHandle *)

\* BlockStore::initialize overwrites the whole record, its refcount included.
initialize(s, generation, hash, state) ==
    records' = [records EXCEPT ![s] =
                   [generation |-> generation, hash |-> hash, refcount |-> 0,
                    last_access_ns |-> 0, state |-> state]]

\* BlockStore::markAccessed
Touched(rec) == [rec EXCEPT !.last_access_ns = now]

\* BlockStore::markAccessed, then createHandle into the handle h
pinInto(h, s) ==
    /\ handles[h] = NoSlot
    /\ records' = [records EXCEPT ![s] =
                      [Touched(records[s]) EXCEPT !.refcount = @ + 1]]
    /\ handles' = [handles EXCEPT ![h] = s]

\* ~BlockHandle of a handle that is not null
releaseHandle(h) ==
    /\ handles[h] # NoSlot
    /\ records' = [records EXCEPT ![handles[h]].refcount = @ - 1]
    /\ handles' = [handles EXCEPT ![h] = NoSlot]
    /\ UNCHANGED <<free_list, generations, in_use, now>>

\* Mutants of the move: source is not reset; what target pinned is not released.
moveHandle_keepsSource(target, source) ==
    /\ target # source
    /\ records' = IF handles[target] = NoSlot
                  THEN records
                  ELSE [records EXCEPT ![handles[target]].refcount = @ - 1]
    /\ handles' = [handles EXCEPT ![target] = handles[source]]
    /\ UNCHANGED <<free_list, generations, in_use, now>>

moveHandle_leaksTarget(target, source) ==
    /\ target # source
    /\ handles' = [handles EXCEPT ![target] = handles[source], ![source] = NoSlot]
    /\ UNCHANGED <<free_list, generations, in_use, records, now>>

\* BlockHandle::operator=(BlockHandle&&): target drops what it pins and
\* takes over source's record; assigning a handle to itself does nothing.
moveHandle(target, source) ==
    /\ target # source
    /\ records' = IF handles[target] = NoSlot
                  THEN records
                  ELSE [records EXCEPT ![handles[target]].refcount = @ - 1]
    /\ handles' = [handles EXCEPT ![target] = handles[source], ![source] = NoSlot]
    /\ UNCHANGED <<free_list, generations, in_use, now>>

-----------------------------------------------------------------------------
(* BlockManager *)

isLegalTransition(from, to) ==
    CASE from = "Free"      -> to \in {"Admitting", "Fetching"}
      [] from = "Admitting" -> to \in {"Ready", "Free"}
      [] from = "Fetching"  -> to \in {"Ready", "Free"}
      [] from = "Ready"     -> to \in {"Migrating", "Evicting"}
      [] from = "Migrating" -> to = "Ready"
      [] from = "Evicting"  -> to = "Free"

createBlock(hash) ==
    /\ allocate
    /\ initialize(allocated, allocatedGeneration, hash, "Admitting")
    /\ UNCHANGED <<handles, now>>

\* What acquire(id) requires of the record.
Acquirable(s) == records[s].generation # 0 /\ records[s].state = "Ready"

acquire(h, s) ==
    /\ Acquirable(s)
    /\ pinInto(h, s)
    /\ UNCHANGED <<free_list, generations, in_use, now>>

\* The Status fetchLocal(id, generation) returns; id may be out of range.
fetchLocalStatus(s, generation) ==
    IF s \notin Slots THEN "NotFound"
    ELSE IF records[s].generation = 0 THEN "NotFound"
    ELSE IF records[s].generation # generation THEN "StaleGeneration"
    ELSE IF records[s].state # "Ready" THEN "NotFound"
    ELSE "Hit"

fetchLocal(h, s, generation) ==
    /\ fetchLocalStatus(s, generation) = "Hit"
    /\ pinInto(h, s)
    /\ UNCHANGED <<free_list, generations, in_use, now>>

markAccessed(s) ==
    /\ records' = [records EXCEPT ![s] = Touched(@)]
    /\ UNCHANGED <<free_list, generations, in_use, handles, now>>

\* Mutant: a block with active handles may be evicted.
transitionAllowed_pinned(s, from, to) ==
    /\ records[s].state = from
    /\ isLegalTransition(from, to)

\* The checks of transitionState; each of them throws when it fails.
transitionAllowed(s, from, to) ==
    /\ records[s].state = from
    /\ isLegalTransition(from, to)
    /\ (from = "Ready" /\ to = "Evicting") => records[s].refcount = 0

transitionState(s, from, to) ==
    /\ transitionAllowed(s, from, to)
    /\ records' = [records EXCEPT ![s].state = to]
    /\ IF to = "Free" THEN free(s) ELSE UNCHANGED <<free_list, generations, in_use>>
    /\ UNCHANGED <<handles, now>>

freeBlock(s) == transitionState(s, "Evicting", "Free")

\* FakeClock::advanceNs, or steady time passing under RealClock
advanceNs ==
    /\ now < MaxTime
    /\ now' = now + 1
    /\ UNCHANGED <<free_list, generations, in_use, records, handles>>

-----------------------------------------------------------------------------
(* The callers.  A record leaves Free through createBlock only: no caller  *)
(* asks transitionState to leave Free, although isLegalTransition would    *)
(* let it, with the slot still on the free list.                           *)

Next ==
    \/ \E hash \in Hashes : createBlock(hash)
    \/ \E h \in Handles, s \in Slots : acquire(h, s)
    \/ \E h \in Handles, s \in Slots, g \in 1 .. MaxGeneration : fetchLocal(h, s, g)
    \/ \E h \in Handles : releaseHandle(h)
    \/ \E target, source \in Handles : moveHandle(target, source)
    \/ \E s \in Slots : markAccessed(s)
    \/ \E s \in Slots, from \in States \ {"Free"}, to \in States :
          transitionState(s, from, to)
    \/ \E s \in Slots : freeBlock(s)
    \/ advanceNs

Spec == Init /\ [][Next]_bmVars

-----------------------------------------------------------------------------
(* Properties *)

Holders(s) == {h \in Handles : handles[h] = s}

\* The pool and the store agree on which slots are taken: a slot is on the
\* free list exactly once iff in_use_ is false iff its record is Free
\* (BlockPool::allocate / free against BlockManager::transitionState).
PoolMatchesStore ==
    /\ \A i, j \in 1 .. Len(free_list) : free_list[i] = free_list[j] => i = j
    /\ \A s \in Slots :
          /\ in_use[s] <=> ~ \E i \in 1 .. Len(free_list) : free_list[i] = s
          /\ in_use[s] <=> records[s].state # "Free"

\* The generation of a taken slot's record is the pool's; a freed slot's
\* record is one generation behind, which is what makes a reference to it stale.
GenerationsAgree ==
    \A s \in Slots :
        IF in_use[s]
        THEN records[s].generation = generations[s] /\ generations[s] > 0
        ELSE \/ generations[s] = 0 /\ records[s].generation = 0
             \/ generations[s] > 0 /\ records[s].generation = generations[s] - 1

\* A record's refcount is the number of live handles that point to it: no
\* handle is lost or counted twice by acquire, fetchLocal, a move or a
\* destructor, and initialize never clears a count that handles still hold.
RefcountIsHandleCount ==
    \A s \in Slots : records[s].refcount = Cardinality(Holders(s))

\* Only a Ready or Migrating block can be pinned; a block being admitted,
\* fetched, evicted or free is held by nobody.
PinnedOnlyWhenResident ==
    \A h \in Handles : handles[h] # NoSlot =>
        records[handles[h]].state \in {"Ready", "Migrating"}

\* As long as a handle points to a record, that record stays the same block:
\* metadata() never changes identity under a caller, whatever other callers do.
HandlePinsBlock ==
    [][\A h \in Handles :
          handles[h] # NoSlot /\ handles'[h] = handles[h] =>
             /\ records'[handles[h]].generation = records[handles[h]].generation
             /\ records'[handles[h]].hash = records[handles[h]].hash]_bmVars

\* (slot, generation) names one block for ever: a slot's generation never goes
\* back and its content changes only together with a larger generation, so a
\* remote reference can never be a Hit on other content.
GenerationNamesBlock ==
    [][\A s \in Slots :
          \/ records'[s].generation > records[s].generation
          \/ /\ records'[s].generation = records[s].generation
             /\ records'[s].hash = records[s].hash]_bmVars

=============================================================================
