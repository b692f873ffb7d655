------------------------- MODULE BlockManagerProofs -------------------------
(***************************************************************************)
(* Proofs about BlockManager, for every capacity and any number of handles. *)
(* None of the invariants is inductive alone: a refcount stays a natural   *)
(* number because it counts handles, the handles of a slot are gone when it *)
(* is freed because they were counted, and the pool hands out a slot that  *)
(* nobody uses because pool and store agree.  IInv is their conjunction.   *)
(***************************************************************************)
EXTENDS BlockManager, FiniteSetTheorems, SequenceTheorems, TLAPS

IInv ==
    /\ TypeOK
    /\ PoolMatchesStore
    /\ GenerationsAgree
    /\ RefcountIsHandleCount
    /\ PinnedOnlyWhenResident

-----------------------------------------------------------------------------
(* Counting handles *)

\* The set of handles that point to a slot is finite, so its size is a number.
LEMMA HoldersFinite ==
    ASSUME NEW s
    PROVE  IsFiniteSet(Holders(s)) /\ Cardinality(Holders(s)) \in Nat
<1>1. Holders(s) \subseteq Handles
  BY DEF Holders
<1>2. IsFiniteSet(Holders(s))
  BY <1>1, HandlesAssumption, FS_Subset
<1> QED
  BY <1>2, FS_CardinalityType

\* createHandle into an empty handle adds one to the count of its slot only.
LEMMA PinCount ==
    ASSUME handles \in [Handles -> Slots \cup {NoSlot}],
           NEW h \in Handles, NEW s \in Slots,
           handles[h] = NoSlot,
           handles' = [handles EXCEPT ![h] = s]
    PROVE  \A t \in Slots : Cardinality(Holders(t)') =
              IF t = s THEN Cardinality(Holders(t)) + 1 ELSE Cardinality(Holders(t))
<1> SUFFICES ASSUME NEW t \in Slots
             PROVE  Cardinality(Holders(t)') =
                       IF t = s THEN Cardinality(Holders(t)) + 1
                       ELSE Cardinality(Holders(t))
  OBVIOUS
<1>1. t # NoSlot
  BY CapacityAssumption DEF Slots, NoSlot
<1>2. CASE t = s
  <2>1. Holders(t)' = Holders(t) \cup {h} /\ h \notin Holders(t)
    BY <1>1, <1>2 DEF Holders
  <2> QED
    BY <1>2, <2>1, HoldersFinite, FS_AddElement
<1>3. CASE t # s
  <2>1. Holders(t)' = Holders(t)
    BY <1>1, <1>3 DEF Holders
  <2> QED
    BY <1>3, <2>1
<1> QED
  BY <1>2, <1>3

\* Giving up a handle takes one off the count of the slot it pointed to only;
\* moving another handle into it changes nothing else.
LEMMA DropCount ==
    ASSUME handles \in [Handles -> Slots \cup {NoSlot}],
           NEW h \in Handles, NEW g \in Handles,
           handles' = [handles EXCEPT ![h] = IF g = h THEN NoSlot ELSE handles[g],
                                      ![g] = NoSlot]
    PROVE  \A t \in Slots : Cardinality(Holders(t)') =
              IF t = handles[h] THEN Cardinality(Holders(t)) - 1
              ELSE Cardinality(Holders(t))
<1> SUFFICES ASSUME NEW t \in Slots
             PROVE  Cardinality(Holders(t)') =
                       IF t = handles[h] THEN Cardinality(Holders(t)) - 1
                       ELSE Cardinality(Holders(t))
  OBVIOUS
<1>1. t # NoSlot
  BY CapacityAssumption DEF Slots, NoSlot
<1>2. CASE t = handles[h] /\ (g = h \/ handles[g] # t)
  <2>1. Holders(t)' = Holders(t) \ {h} /\ h \in Holders(t)
    BY <1>1, <1>2 DEF Holders
  <2> QED
    BY <1>2, <2>1, HoldersFinite, FS_RemoveElement
<1>3. CASE t = handles[h] /\ g # h /\ handles[g] = t
  <2>1. Holders(t)' = Holders(t) \ {g} /\ g \in Holders(t)
    BY <1>1, <1>3 DEF Holders
  <2> QED
    BY <1>3, <2>1, HoldersFinite, FS_RemoveElement
<1>4. CASE t # handles[h] /\ handles[g] # t
  <2>1. Holders(t)' = Holders(t)
    BY <1>1, <1>4 DEF Holders
  <2> QED
    BY <1>4, <2>1
<1>5. CASE t # handles[h] /\ handles[g] = t
  <2>1. g # h
    BY <1>5
  <2>2. /\ Holders(t)' = (Holders(t) \ {g}) \cup {h}
        /\ g \in Holders(t) /\ h \notin Holders(t) \ {g}
    BY <1>1, <1>5, <2>1 DEF Holders
  <2>3. /\ IsFiniteSet(Holders(t) \ {g})
        /\ Cardinality(Holders(t) \ {g}) = Cardinality(Holders(t)) - 1
    BY <2>2, HoldersFinite, FS_RemoveElement
  <2>4. Cardinality(Holders(t)') = Cardinality(Holders(t) \ {g}) + 1
    BY <2>2, <2>3, FS_AddElement
  <2> QED
    BY <1>5, <2>3, <2>4, HoldersFinite
<1> QED
  BY <1>2, <1>3, <1>4, <1>5

\* A slot that a handle points to has a positive refcount.
LEMMA HeldIsCounted ==
    ASSUME TypeOK, RefcountIsHandleCount,
           NEW h \in Handles, handles[h] # NoSlot
    PROVE  handles[h] \in Slots /\ records[handles[h]].refcount > 0
<1>1. handles[h] \in Slots
  BY DEF TypeOK
<1>2. h \in Holders(handles[h])
  BY DEF Holders
<1>3. Cardinality(Holders(handles[h])) # 0
  BY <1>2, HoldersFinite, FS_EmptySet
<1> QED
  BY <1>1, <1>3, HoldersFinite DEF RefcountIsHandleCount

\* What is left of a stack when its back is popped, as BlockPool::allocate does
LEMMA PopBack ==
    ASSUME NEW S, NEW q \in Seq(S), NEW n \in Nat \ {0}, n = Len(q)
    PROVE  /\ SubSeq(q, 1, n - 1) \in Seq(S)
           /\ Len(SubSeq(q, 1, n - 1)) = n - 1
           /\ \A i \in 1 .. n - 1 : SubSeq(q, 1, n - 1)[i] = q[i]
<1>1. 1 \in Int /\ n - 1 \in Int /\ \A i \in 1 .. n - 1 : q[i] \in S
  OBVIOUS
<1>2. /\ SubSeq(q, 1, n - 1) \in Seq(S)
      /\ Len(SubSeq(q, 1, n - 1)) = IF 1 <= n - 1 THEN (n - 1) - 1 + 1 ELSE 0
      /\ \A i \in 1 .. (n - 1) - 1 + 1 : SubSeq(q, 1, n - 1)[i] = q[1 + i - 1]
  BY <1>1, SubSeqProperties
<1> QED
  BY <1>2

-----------------------------------------------------------------------------
(* The invariant holds initially and is preserved by each operation *)

\* A freshly constructed manager satisfies the invariant.
LEMMA InitIInv == Init => IInv
<1> SUFFICES ASSUME Init PROVE IInv
  OBVIOUS
<1> USE CapacityAssumption
<1>1. TypeOK
  BY DEF Init, poolInit, storeInit, TypeOK, Slots, NoSlot, BlockRecord, States
<1>2. PoolMatchesStore
  <2>1. Len(free_list) = Capacity /\ \A i \in 1 .. Capacity : free_list[i] = Capacity - i
    BY DEF Init, poolInit
  <2>2. \A s \in Slots : Capacity - s \in 1 .. Capacity /\ free_list[Capacity - s] = s
    BY <2>1 DEF Slots
  <2>3. \A s \in Slots : ~ in_use[s] /\ records[s].state = "Free"
    BY DEF Init, poolInit, storeInit
  <2>4. \A i, j \in 1 .. Len(free_list) : free_list[i] = free_list[j] => i = j
    BY <2>1
  <2> QED
    BY <2>1, <2>2, <2>3, <2>4 DEF PoolMatchesStore
<1>3. GenerationsAgree
  BY DEF Init, poolInit, storeInit, GenerationsAgree
<1>4. RefcountIsHandleCount
  <2>1. \A s \in Slots : Holders(s) = {}
    BY DEF Init, Holders, Slots, NoSlot
  <2> QED
    BY <2>1, FS_EmptySet DEF Init, storeInit, RefcountIsHandleCount
<1>5. PinnedOnlyWhenResident
  BY DEF Init, PinnedOnlyWhenResident
<1> QED
  BY <1>1, <1>2, <1>3, <1>4, <1>5 DEF IInv

\* createBlock takes a slot nobody uses and starts a new record in it.
LEMMA CreateBlockIInv ==
    ASSUME IInv, NEW hash \in Hashes, createBlock(hash)
    PROVE  IInv'
<1> DEFINE n == Len(free_list)
           s == free_list[n]
           g == allocatedGeneration
<1> USE DEF IInv
<1>1. n \in Nat \ {0} /\ s \in Slots /\ g \in Nat /\ g > 0
  BY DEF TypeOK, createBlock, allocate, allocated, allocatedGeneration
<1>2. /\ free_list' = SubSeq(free_list, 1, n - 1)
      /\ generations' = [generations EXCEPT ![s] = g]
      /\ in_use' = [in_use EXCEPT ![s] = TRUE]
      /\ records' = [records EXCEPT ![s] =
                       [generation |-> g, hash |-> hash, refcount |-> 0,
                        last_access_ns |-> 0, state |-> "Admitting"]]
      /\ handles' = handles /\ now' = now
  BY DEF createBlock, allocate, initialize, allocated
<1>3. /\ Len(free_list') = n - 1
      /\ \A i \in 1 .. n - 1 : free_list'[i] = free_list[i]
      /\ free_list' \in Seq(Slots)
  BY <1>1, <1>2, PopBack DEF TypeOK
<1>4. ~ in_use[s] /\ records[s].state = "Free"
  BY <1>1 DEF PoolMatchesStore, TypeOK
<1>5. Cardinality(Holders(s)) = 0
  <2>1. \A h \in Handles : handles[h] # s
    BY <1>1, <1>4, CapacityAssumption DEF PinnedOnlyWhenResident, Slots, NoSlot
  <2>2. Holders(s) = {}
    BY <2>1 DEF Holders
  <2> QED
    BY <2>2, FS_EmptySet
<1>6. TypeOK'
  BY <1>1, <1>2, <1>3 DEF TypeOK, BlockRecord, States
<1>7. PoolMatchesStore'
  <2>1. \A i, j \in 1 .. Len(free_list') : free_list'[i] = free_list'[j] => i = j
    BY <1>1, <1>3 DEF PoolMatchesStore
  <2>2. \A t \in Slots : in_use'[t] <=> ~ \E i \in 1 .. Len(free_list') : free_list'[i] = t
    <3>1. ~ \E i \in 1 .. Len(free_list') : free_list'[i] = s
      BY <1>1, <1>3 DEF PoolMatchesStore
    <3>2. \A t \in Slots \ {s} : (\E i \in 1 .. Len(free_list') : free_list'[i] = t)
                                  <=> (\E i \in 1 .. n : free_list[i] = t)
      BY <1>1, <1>3
    <3> QED
      BY <1>1, <1>2, <3>1, <3>2 DEF PoolMatchesStore, TypeOK
  <2>3. \A t \in Slots : in_use'[t] <=> records'[t].state # "Free"
    BY <1>1, <1>2 DEF PoolMatchesStore, TypeOK
  <2> QED
    BY <2>1, <2>2, <2>3 DEF PoolMatchesStore
<1>8. GenerationsAgree'
  BY <1>1, <1>2 DEF GenerationsAgree, TypeOK
<1>9. RefcountIsHandleCount'
  <2>1. \A t : Holders(t)' = Holders(t)
    BY <1>2 DEF Holders
  <2> QED
    BY <1>1, <1>2, <1>5, <2>1 DEF RefcountIsHandleCount, TypeOK
<1>10. PinnedOnlyWhenResident'
  BY <1>1, <1>2, <1>4 DEF PinnedOnlyWhenResident, TypeOK
<1> QED
  BY <1>6, <1>7, <1>8, <1>9, <1>10

\* acquire and fetchLocal: a Ready block gets one more handle.
LEMMA PinIInv ==
    ASSUME IInv, NEW h \in Handles, NEW s \in Slots,
           records[s].state = "Ready", pinInto(h, s),
           UNCHANGED <<free_list, generations, in_use, now>>
    PROVE  IInv'
<1> USE DEF IInv
<1>1. /\ handles[h] = NoSlot
      /\ handles' = [handles EXCEPT ![h] = s]
      /\ records' = [records EXCEPT ![s] =
            [[records[s] EXCEPT !.last_access_ns = now] EXCEPT !.refcount = @ + 1]]
      /\ free_list' = free_list /\ generations' = generations
      /\ in_use' = in_use /\ now' = now
  BY DEF pinInto, Touched
<1>2. \A t \in Slots :
         /\ records'[t].generation = records[t].generation
         /\ records'[t].state = records[t].state
         /\ records'[t].refcount = IF t = s THEN records[t].refcount + 1
                                   ELSE records[t].refcount
  BY <1>1 DEF TypeOK, BlockRecord
<1>3. TypeOK'
  <2>1. records[s] \in BlockRecord /\ now \in Nat
    BY DEF TypeOK
  <2>2. [[records[s] EXCEPT !.last_access_ns = now] EXCEPT !.refcount = @ + 1] \in BlockRecord
    <3>1. ASSUME NEW r \in BlockRecord, NEW n \in Nat
          PROVE  [r EXCEPT !.last_access_ns = n] \in BlockRecord
      BY DEF BlockRecord
    <3>2. ASSUME NEW r \in BlockRecord
          PROVE  [r EXCEPT !.refcount = @ + 1] \in BlockRecord
      BY DEF BlockRecord
    <3> QED
      BY <2>1, <3>1, <3>2
  <2>3. records' \in [Slots -> BlockRecord]
    BY <1>1, <2>2 DEF TypeOK
  <2> QED
    BY <1>1, <2>3 DEF TypeOK
<1>4. PoolMatchesStore'
  BY <1>1, <1>2 DEF PoolMatchesStore
<1>5. GenerationsAgree'
  BY <1>1, <1>2 DEF GenerationsAgree
<1>6. RefcountIsHandleCount'
  <2>1. \A t \in Slots : Cardinality(Holders(t)') =
           IF t = s THEN Cardinality(Holders(t)) + 1 ELSE Cardinality(Holders(t))
    BY <1>1, PinCount DEF TypeOK
  <2> QED
    BY <1>2, <2>1 DEF RefcountIsHandleCount
<1>7. PinnedOnlyWhenResident'
  BY <1>1, <1>2 DEF PinnedOnlyWhenResident, TypeOK
<1> QED
  BY <1>3, <1>4, <1>5, <1>6, <1>7

\* A destructor, or a move into a handle: the count follows the handles.
LEMMA DropIInv ==
    ASSUME IInv, NEW h \in Handles, NEW g \in Handles,
           records' = IF handles[h] = NoSlot THEN records
                      ELSE [records EXCEPT ![handles[h]].refcount = @ - 1],
           handles' = [handles EXCEPT ![h] = IF g = h THEN NoSlot ELSE handles[g],
                                      ![g] = NoSlot],
           UNCHANGED <<free_list, generations, in_use, now>>
    PROVE  IInv'
<1> USE DEF IInv
<1>1. \A t \in Slots :
         /\ records'[t].generation = records[t].generation
         /\ records'[t].state = records[t].state
         /\ records'[t].refcount = IF t = handles[h] THEN records[t].refcount - 1
                                   ELSE records[t].refcount
  BY CapacityAssumption DEF TypeOK, BlockRecord, Slots, NoSlot
<1>2. TypeOK'
  <2>1. records' \in [Slots -> BlockRecord]
    <3>1. CASE handles[h] = NoSlot
      BY <3>1 DEF TypeOK
    <3>2. CASE handles[h] # NoSlot
      <4>1. handles[h] \in Slots /\ records[handles[h]].refcount - 1 \in Nat
        BY <3>2, HeldIsCounted DEF TypeOK, BlockRecord
      <4> QED
        BY <3>2, <4>1 DEF TypeOK, BlockRecord
    <3> QED
      BY <3>1, <3>2
  <2> QED
    BY <2>1 DEF TypeOK
<1>3. PoolMatchesStore'
  BY <1>1 DEF PoolMatchesStore
<1>4. GenerationsAgree'
  BY <1>1 DEF GenerationsAgree
<1>5. RefcountIsHandleCount'
  <2>1. \A t \in Slots : Cardinality(Holders(t)') =
           IF t = handles[h] THEN Cardinality(Holders(t)) - 1 ELSE Cardinality(Holders(t))
    BY DropCount DEF TypeOK
  <2> QED
    BY <1>1, <2>1 DEF RefcountIsHandleCount
<1>6. PinnedOnlyWhenResident'
  <2>1. \A k \in Handles : handles'[k] # NoSlot =>
           \E j \in Handles : handles[j] = handles'[k] /\ handles[j] \in Slots
    BY DEF TypeOK
  <2> SUFFICES ASSUME NEW k \in Handles, handles'[k] # NoSlot
               PROVE  records'[handles'[k]].state \in {"Ready", "Migrating"}
    BY DEF PinnedOnlyWhenResident
  <2>2. PICK j \in Handles : handles[j] = handles'[k] /\ handles[j] \in Slots
    BY <2>1
  <2>3. records[handles[j]].state \in {"Ready", "Migrating"}
    BY <2>2 DEF PinnedOnlyWhenResident
  <2> QED
    BY <1>1, <2>2, <2>3
<1> QED
  BY <1>2, <1>3, <1>4, <1>5, <1>6

\* transitionState: a block that leaves Ready for good, or becomes Free, has no
\* handle left; a block that becomes Free goes back to the pool.
LEMMA TransitionIInv ==
    ASSUME IInv, NEW s \in Slots, NEW from \in States \ {"Free"}, NEW to \in States,
           transitionState(s, from, to)
    PROVE  IInv'
<1> USE DEF IInv
<1>1. /\ records[s].state = from
      /\ isLegalTransition(from, to)
      /\ from = "Ready" /\ to = "Evicting" => records[s].refcount = 0
      /\ records' = [records EXCEPT ![s].state = to]
      /\ handles' = handles /\ now' = now
  BY DEF transitionState, transitionAllowed
<1>2. \A t \in Slots :
         /\ records'[t].generation = records[t].generation
         /\ records'[t].refcount = records[t].refcount
         /\ records'[t].state = IF t = s THEN to ELSE records[t].state
  BY <1>1 DEF TypeOK, BlockRecord
<1>3. RefcountIsHandleCount'
  <2>1. \A t : Holders(t)' = Holders(t)
    BY <1>1 DEF Holders
  <2> QED
    BY <1>2, <2>1 DEF RefcountIsHandleCount
<1>4. PinnedOnlyWhenResident'
  <2>1. CASE to \in {"Ready", "Migrating"}
    BY <1>1, <1>2, <2>1 DEF PinnedOnlyWhenResident, TypeOK
  <2>2. CASE to \notin {"Ready", "Migrating"}
    <3>1. ~ \E h \in Handles : handles[h] = s
      <4> SUFFICES ASSUME NEW h \in Handles, handles[h] = s PROVE FALSE
        OBVIOUS
      <4>1. handles[h] # NoSlot
        BY CapacityAssumption DEF Slots, NoSlot
      <4>2. from \in {"Ready", "Migrating"}
        BY <1>1, <4>1 DEF PinnedOnlyWhenResident
      <4>3. from = "Ready" /\ to = "Evicting"
        BY <1>1, <2>2, <4>2 DEF isLegalTransition
      <4> QED
        BY <1>1, <4>1, <4>3, HeldIsCounted
    <3> QED
      BY <1>1, <1>2, <3>1 DEF PinnedOnlyWhenResident, TypeOK
  <2> QED
    BY <2>1, <2>2
<1>5. CASE to # "Free"
  <2>1. UNCHANGED <<free_list, generations, in_use>>
    BY <1>5 DEF transitionState
  <2>2. TypeOK'
    BY <1>1, <2>1 DEF TypeOK, BlockRecord
  <2>3. PoolMatchesStore'
    BY <1>1, <1>2, <1>5, <2>1 DEF PoolMatchesStore
  <2>4. GenerationsAgree'
    BY <1>2, <2>1 DEF GenerationsAgree
  <2> QED
    BY <1>3, <1>4, <2>2, <2>3, <2>4
<1>6. CASE to = "Free"
  <2>1. /\ in_use[s]
        /\ in_use' = [in_use EXCEPT ![s] = FALSE]
        /\ generations' = [generations EXCEPT ![s] = @ + 1]
        /\ free_list' = Append(free_list, s)
    BY <1>6 DEF transitionState, free
  <2>2. /\ free_list' \in Seq(Slots)
        /\ Len(free_list') = Len(free_list) + 1
        /\ free_list'[Len(free_list) + 1] = s
        /\ \A i \in 1 .. Len(free_list) : free_list'[i] = free_list[i]
        /\ Len(free_list) \in Nat
    BY <2>1 DEF TypeOK
  <2>3. TypeOK'
    <3>1. records' \in [Slots -> BlockRecord]
      BY <1>1 DEF TypeOK, BlockRecord
    <3>2. generations' \in [Slots -> Nat] /\ in_use' \in [Slots -> BOOLEAN]
      BY <2>1 DEF TypeOK
    <3> QED
      BY <1>1, <2>2, <3>1, <3>2 DEF TypeOK
  <2>4. PoolMatchesStore'
    <3>1. ~ \E i \in 1 .. Len(free_list) : free_list[i] = s
      BY <2>1 DEF PoolMatchesStore
    <3>2. \A i, j \in 1 .. Len(free_list') : free_list'[i] = free_list'[j] => i = j
      BY <2>2, <3>1 DEF PoolMatchesStore
    <3>3. \A t \in Slots : (\E i \in 1 .. Len(free_list') : free_list'[i] = t)
                           <=> (t = s \/ \E i \in 1 .. Len(free_list) : free_list[i] = t)
      BY <2>2
    <3>4. \A t \in Slots : in_use'[t] <=> (t # s /\ in_use[t])
      BY <2>1 DEF TypeOK
    <3> QED
      BY <1>2, <1>6, <3>2, <3>3, <3>4 DEF PoolMatchesStore
  <2>5. GenerationsAgree'
    <3>1. generations[s] \in Nat /\ records[s].generation = generations[s]
      BY <2>1 DEF GenerationsAgree, TypeOK
    <3>2. /\ ~ in_use'[s] /\ generations'[s] = generations[s] + 1
          /\ \A t \in Slots \ {s} : in_use'[t] = in_use[t] /\ generations'[t] = generations[t]
      BY <2>1 DEF TypeOK
    <3> QED
      BY <1>2, <3>1, <3>2 DEF GenerationsAgree
  <2> QED
    BY <1>3, <1>4, <2>3, <2>4, <2>5
<1> QED
  BY <1>5, <1>6

\* markAccessed only writes the time of the access.
LEMMA MarkAccessedIInv ==
    ASSUME IInv, NEW s \in Slots, markAccessed(s)
    PROVE  IInv'
<1> USE DEF IInv
<1>1. /\ records' = [records EXCEPT ![s] = [@ EXCEPT !.last_access_ns = now]]
      /\ UNCHANGED <<free_list, generations, in_use, handles, now>>
  BY DEF markAccessed, Touched
<1>2. \A t \in Slots :
         /\ records'[t].generation = records[t].generation
         /\ records'[t].state = records[t].state
         /\ records'[t].refcount = records[t].refcount
  BY <1>1 DEF TypeOK, BlockRecord
<1>3. TypeOK'
  BY <1>1 DEF TypeOK, BlockRecord
<1>4. \A t : Holders(t)' = Holders(t)
  BY <1>1 DEF Holders
<1>5. PinnedOnlyWhenResident'
  BY <1>1, <1>2 DEF PinnedOnlyWhenResident, TypeOK
<1> QED
  BY <1>1, <1>2, <1>3, <1>4, <1>5
     DEF PoolMatchesStore, GenerationsAgree, RefcountIsHandleCount

\* Time passes.
LEMMA AdvanceIInv == IInv /\ advanceNs => IInv'
<1> SUFFICES ASSUME IInv, advanceNs PROVE IInv'
  OBVIOUS
<1>1. /\ UNCHANGED <<free_list, generations, in_use, records, handles>>
      /\ now' = now + 1
  BY DEF advanceNs
<1>2. TypeOK'
  BY <1>1 DEF IInv, TypeOK
<1>3. \A t : Holders(t)' = Holders(t)
  BY <1>1 DEF Holders
<1> QED
  BY <1>1, <1>2, <1>3 DEF IInv, PoolMatchesStore, GenerationsAgree,
                          RefcountIsHandleCount, PinnedOnlyWhenResident

\* Every step of BlockManager preserves the invariant.
LEMMA NextIInv == IInv /\ [Next]_bmVars => IInv'
<1> SUFFICES ASSUME IInv, [Next]_bmVars PROVE IInv'
  OBVIOUS
<1>1. CASE \E hash \in Hashes : createBlock(hash)
  BY <1>1, CreateBlockIInv
<1>2. CASE \E h \in Handles, s \in Slots : acquire(h, s)
  BY <1>2, PinIInv DEF acquire, Acquirable
<1>3. CASE \E h \in Handles, s \in Slots, g \in 1 .. MaxGeneration : fetchLocal(h, s, g)
  <2>1. PICK h \in Handles, s \in Slots, g \in 1 .. MaxGeneration : fetchLocal(h, s, g)
    BY <1>3
  <2>2. records[s].state = "Ready"
    BY <2>1 DEF fetchLocal, fetchLocalStatus
  <2> QED
    BY <2>1, <2>2, PinIInv DEF fetchLocal
<1>4. CASE \E h \in Handles : releaseHandle(h)
  <2>1. PICK h \in Handles : releaseHandle(h)
    BY <1>4
  <2>2. handles' = [handles EXCEPT ![h] = IF h = h THEN NoSlot ELSE handles[h],
                                   ![h] = NoSlot]
    BY <2>1 DEF releaseHandle, IInv, TypeOK
  <2> QED
    BY <2>1, <2>2, DropIInv DEF releaseHandle
<1>5. CASE \E target, source \in Handles : moveHandle(target, source)
  BY <1>5, DropIInv DEF moveHandle
<1>6. CASE \E s \in Slots : markAccessed(s)
  BY <1>6, MarkAccessedIInv
<1>7. CASE \E s \in Slots, from \in States \ {"Free"}, to \in States :
              transitionState(s, from, to)
  BY <1>7, TransitionIInv
<1>8. CASE \E s \in Slots : freeBlock(s)
  BY <1>8, TransitionIInv DEF freeBlock, States
<1>9. CASE advanceNs
  BY <1>9, AdvanceIInv
<1>10. CASE UNCHANGED bmVars
  <2>1. \A t : Holders(t)' = Holders(t)
    BY <1>10 DEF Holders, bmVars
  <2> QED
    BY <1>10, <2>1 DEF bmVars, IInv, TypeOK, PoolMatchesStore, GenerationsAgree,
                       RefcountIsHandleCount, PinnedOnlyWhenResident
<1> QED
  BY <1>1, <1>2, <1>3, <1>4, <1>5, <1>6, <1>7, <1>8, <1>9, <1>10 DEF Next

\* createBlock is the only operation that writes a record's generation and hash.
LEMMA KeepsIdentity ==
    ASSUME IInv, Next, ~ \E hash \in Hashes : createBlock(hash)
    PROVE  \A s \in Slots : /\ records'[s].generation = records[s].generation
                             /\ records'[s].hash = records[s].hash
<1> USE DEF IInv, TypeOK, BlockRecord
<1>1. CASE \E h \in Handles, s \in Slots : pinInto(h, s)
  BY <1>1 DEF pinInto, Touched
<1>2. CASE \E h \in Handles : releaseHandle(h)
  BY <1>2 DEF releaseHandle
<1>3. CASE \E target, source \in Handles : moveHandle(target, source)
  BY <1>3 DEF moveHandle
<1>4. CASE \E s \in Slots : markAccessed(s)
  BY <1>4 DEF markAccessed, Touched
<1>5. CASE \E s \in Slots, from \in States, to \in States : transitionState(s, from, to)
  BY <1>5 DEF transitionState
<1>6. CASE advanceNs
  BY <1>6 DEF advanceNs
<1> QED
  BY <1>1, <1>2, <1>3, <1>4, <1>5, <1>6 DEF Next, acquire, fetchLocal, freeBlock, States

\* The slot that is allocated next gets a generation that its record never had.
LEMMA NewGeneration ==
    ASSUME IInv, free_list # <<>>
    PROVE  allocated \in Slots /\ allocatedGeneration > records[allocated].generation
<1>1. /\ Len(free_list) \in Nat \ {0} /\ allocated \in Slots /\ ~ in_use[allocated]
  BY DEF allocated, IInv, TypeOK, PoolMatchesStore
<1>2. \/ generations[allocated] = 0 /\ records[allocated].generation = 0
      \/ records[allocated].generation = generations[allocated] - 1
  BY <1>1 DEF IInv, GenerationsAgree
<1>3. generations[allocated] \in Nat
  BY <1>1 DEF IInv, TypeOK
<1> QED
  BY <1>1, <1>2, <1>3 DEF allocatedGeneration

-----------------------------------------------------------------------------
(* The theorems *)

\* IInv is an invariant of BlockManager.
THEOREM Invariance == Spec => []IInv
BY InitIInv, NextIInv, PTL DEF Spec

\* Type correctness; in particular no refcount ever drops below zero, so no
\* destructor runs twice for one handle.
THEOREM TypeCorrect == Spec => []TypeOK
BY Invariance, PTL DEF IInv

\* BlockPool and BlockStore agree for ever on which slots are taken: no slot is
\* on the free list twice, handed out twice or lost.
THEOREM PoolAndStoreAgree == Spec => []PoolMatchesStore
BY Invariance, PTL DEF IInv

\* A refcount is always the number of live handles, and only resident blocks
\* have any: what SafeCandidateFinder takes for unpinned is unpinned.
THEOREM RefcountsAreExact == Spec => [](RefcountIsHandleCount /\ PinnedOnlyWhenResident)
BY Invariance, PTL DEF IInv

\* While a handle points to a record, no step of any caller turns the record into
\* another block: it is neither freed nor initialised anew.
THEOREM HandlesPinBlocks == Spec => HandlePinsBlock
<1> DEFINE Pinned ==
        \A h \in Handles :
            handles[h] # NoSlot /\ handles'[h] = handles[h] =>
               /\ records'[handles[h]].generation = records[handles[h]].generation
               /\ records'[handles[h]].hash = records[handles[h]].hash
<1>1. IInv /\ [Next]_bmVars => [Pinned]_bmVars
  <2> SUFFICES ASSUME IInv, Next PROVE Pinned
    OBVIOUS
  <2> SUFFICES ASSUME NEW h \in Handles, handles[h] # NoSlot
               PROVE  /\ records'[handles[h]].generation = records[handles[h]].generation
                      /\ records'[handles[h]].hash = records[handles[h]].hash
    OBVIOUS
  <2>1. handles[h] \in Slots /\ records[handles[h]].state \in {"Ready", "Migrating"}
    BY DEF IInv, TypeOK, PinnedOnlyWhenResident
  <2>2. CASE \E hash \in Hashes : createBlock(hash)
    <3>1. /\ Len(free_list) \in Nat \ {0} /\ allocated \in Slots
          /\ records[allocated].state = "Free"
      BY <2>2 DEF createBlock, allocate, allocated, IInv, TypeOK, PoolMatchesStore
    <3> QED
      BY <2>1, <2>2, <3>1 DEF createBlock, initialize, IInv, TypeOK
  <2>3. CASE ~ \E hash \in Hashes : createBlock(hash)
    BY <2>1, <2>3, KeepsIdentity
  <2> QED
    BY <2>2, <2>3
<1> QED
  BY <1>1, Invariance, PTL DEF Spec, HandlePinsBlock

\* (slot, generation) is the name of one block for ever: what a remote worker
\* learnt from an announcement cannot be a Hit on another block later.
THEOREM GenerationsNameBlocks == Spec => GenerationNamesBlock
<1> DEFINE Named ==
        \A s \in Slots :
            \/ records'[s].generation > records[s].generation
            \/ /\ records'[s].generation = records[s].generation
               /\ records'[s].hash = records[s].hash
<1>1. IInv /\ [Next]_bmVars => [Named]_bmVars
  <2> SUFFICES ASSUME IInv, Next PROVE Named
    OBVIOUS
  <2>1. CASE \E hash \in Hashes : createBlock(hash)
    <3>1. allocated \in Slots /\ allocatedGeneration > records[allocated].generation
      BY <2>1, NewGeneration DEF createBlock, allocate
    <3> QED
      BY <2>1, <3>1 DEF createBlock, initialize, IInv, TypeOK
  <2>2. CASE ~ \E hash \in Hashes : createBlock(hash)
    BY <2>2, KeepsIdentity
  <2> QED
    BY <2>1, <2>2
<1> QED
  BY <1>1, Invariance, PTL DEF Spec, GenerationNamesBlock

=============================================================================
