-------------------------- MODULE TierManagerProofs --------------------------
(***************************************************************************)
(* Proofs about TierManager, for every finite set of blocks and whatever   *)
(* the capacities of the tiers and of the payload pool are.  The capacities *)
(* need the tiers of the records (a migrated block is not yet in its       *)
(* target), and so do the payloads: a block is resident in one tier only,  *)
(* so that its buffer is released once.  IInv is the conjunction.          *)
(***************************************************************************)
EXTENDS TierManager, FiniteSetTheorems, SequenceTheorems, TLAPS

IInv ==
    /\ TypeOK
    /\ TierOfRecordIsTierOfStore
    /\ WithinCapacity
    /\ PayloadHasOneOwner

-----------------------------------------------------------------------------
(* Tiers as finite sets, and who is resident *)

\* The ids of a tier are a finite set, so that the size of the tier is a number.
LEMMA TierFinite ==
    ASSUME TypeOK, NEW t \in Tiers
    PROVE  /\ IsFiniteSet(tiers[t]) /\ Cardinality(tiers[t]) \in Nat
           /\ TierCapacity[t] \in Nat
<1>1. tiers[t] \subseteq Blocks
  BY DEF TypeOK
<1>2. IsFiniteSet(tiers[t])
  BY <1>1, BlocksAssumption, FS_Subset
<1> QED
  BY <1>2, FS_CardinalityType, TierCapacityAssumption

\* A block is resident if it is in one of the two tiers.
LEMMA ResidentMeans ==
    ASSUME NEW b
    PROVE  b \in Resident <=> \E t \in Tiers : b \in tiers[t]
  BY DEF Resident

\* A tier that loses some of its blocks stays within its capacity.
LEMMA ShrinkFits ==
    ASSUME TypeOK, WithinCapacity, NEW t \in Tiers, NEW S \in SUBSET tiers[t]
    PROVE  Cardinality(S) <= TierCapacity[t]
<1>1. IsFiniteSet(tiers[t]) /\ Cardinality(tiers[t]) \in Nat /\ TierCapacity[t] \in Nat
  BY TierFinite
<1>2. Cardinality(S) \in Nat /\ Cardinality(S) <= Cardinality(tiers[t])
  BY <1>1, FS_Subset, FS_CardinalityType
<1> QED
  BY <1>1, <1>2 DEF WithinCapacity

\* A tier that has room for as many blocks as it gets stays within its capacity.
LEMMA GrowFits ==
    ASSUME TypeOK, NEW t \in Tiers, NEW S \in SUBSET Blocks,
           Cardinality(tiers[t]) + Cardinality(S) <= TierCapacity[t]
    PROVE  Cardinality(tiers[t] \cup S) <= TierCapacity[t]
<1>1. IsFiniteSet(tiers[t]) /\ Cardinality(tiers[t]) \in Nat /\ TierCapacity[t] \in Nat
  BY TierFinite
<1>2. IsFiniteSet(S) /\ Cardinality(S) \in Nat
  BY BlocksAssumption, FS_Subset, FS_CardinalityType
<1>3. /\ Cardinality(tiers[t] \cup S) =
            Cardinality(tiers[t]) + Cardinality(S) - Cardinality(tiers[t] \cap S)
      /\ IsFiniteSet(tiers[t] \cup S)
  BY <1>1, <1>2, FS_Union
<1>4. Cardinality(tiers[t] \cap S) \in Nat
  BY <1>1, FS_Subset, FS_CardinalityType
<1>5. Cardinality(tiers[t] \cup S) \in Nat
  BY <1>3, FS_CardinalityType
<1> QED
  BY <1>1, <1>2, <1>3, <1>4, <1>5

\* TierStore::insert of one block under hasCapacity
LEMMA AddFits ==
    ASSUME TypeOK, NEW t \in Tiers, NEW b \in Blocks, hasCapacity(t)
    PROVE  Cardinality(tiers[t] \cup {b}) <= TierCapacity[t]
<1>1. Cardinality({b}) = 1
  BY FS_Singleton
<1>2. Cardinality(tiers[t]) + Cardinality({b}) <= TierCapacity[t]
  BY <1>1, TierFinite DEF hasCapacity
<1>3. {b} \in SUBSET Blocks
  OBVIOUS
<1> QED
  BY <1>2, <1>3, GrowFits

\* What is left of the free list when put has popped its back
LEMMA PopBack ==
    ASSUME NEW S, NEW q \in Seq(S), NEW n \in Nat \ {0}, n = Len(q)
    PROVE  /\ SubSeq(q, 1, n - 1) \in Seq(S)
           /\ Len(SubSeq(q, 1, n - 1)) = n - 1
           /\ \A i \in 1 .. n - 1 : SubSeq(q, 1, n - 1)[i] = q[i]
<1>1. \A i \in 1 .. n - 1 : q[i] \in S
  OBVIOUS
<1>2. /\ SubSeq(q, 1, n - 1) \in Seq(S)
      /\ Len(SubSeq(q, 1, n - 1)) = IF 1 <= n - 1 THEN (n - 1) - 1 + 1 ELSE 0
      /\ \A i \in 1 .. (n - 1) - 1 + 1 : SubSeq(q, 1, n - 1)[i] = q[1 + i - 1]
  BY <1>1, SubSeqProperties
<1> QED
  BY <1>2

-----------------------------------------------------------------------------
(* The invariant holds initially and is preserved by each call *)

\* Empty tiers, all buffers on the free list
LEMMA InitIInv == Init => IInv
<1> SUFFICES ASSUME Init
             PROVE  IInv
  OBVIOUS
<1>1. payload_free \in Seq(Payloads)
  <2>1. CASE MetadataOnly
    BY <2>1 DEF Init, initialFreeList
  <2>2. CASE ~ MetadataOnly
    <3>1. payload_free = [i \in 1 .. MaxPayloads |-> MaxPayloads - i]
      BY <2>2 DEF Init, initialFreeList
    <3>2. \A i \in 1 .. MaxPayloads : MaxPayloads - i \in Payloads
      BY MaxPayloadsAssumption DEF Payloads
    <3> QED
      BY <3>1, <3>2, MaxPayloadsAssumption, IsASeq
  <2> QED
    BY <2>1, <2>2
<1>2. TypeOK
  BY <1>1 DEF Init, TypeOK, Tiers
<1>3. TierOfRecordIsTierOfStore
  BY DEF Init, TierOfRecordIsTierOfStore
<1>4. WithinCapacity
  BY FS_EmptySet, TierCapacityAssumption DEF Init, WithinCapacity
<1>5. Resident = {}
  BY DEF Init, Resident
<1>6. PayloadHasOneOwner
  <2> SUFFICES ASSUME ~ MetadataOnly
               PROVE  /\ \A ref \in Payloads :
                            \E i \in 1 .. Len(payload_free) : payload_free[i] = ref
                      /\ \A i, j \in 1 .. Len(payload_free) :
                            payload_free[i] = payload_free[j] => i = j
    BY <1>5 DEF PayloadHasOneOwner
  <2>1. /\ Len(payload_free) = MaxPayloads
        /\ \A i \in 1 .. MaxPayloads : payload_free[i] = MaxPayloads - i
    BY MaxPayloadsAssumption DEF Init, initialFreeList
  <2>2. ASSUME NEW ref \in Payloads
        PROVE  \E i \in 1 .. Len(payload_free) : payload_free[i] = ref
    <3>1. MaxPayloads - ref \in 1 .. MaxPayloads /\ payload_free[MaxPayloads - ref] = ref
      BY <2>1, MaxPayloadsAssumption DEF Payloads
    <3> QED
      BY <2>1, <3>1
  <2> QED
    BY <2>1, <2>2, MaxPayloadsAssumption
<1> QED
  BY <1>2, <1>3, <1>4, <1>6 DEF IInv

\* TierManager::place of a block that is in no tier
LEMMA PlaceIInv ==
    ASSUME IInv, NEW b \in Blocks \ Resident, NEW t \in Tiers, place(b, t)
    PROVE  IInv'
<1> USE DEF IInv
<1>1. /\ tiers' = [tiers EXCEPT ![t] = @ \cup {b}]
      /\ rec_tier' = [rec_tier EXCEPT ![b] = t]
      /\ rec_payload' = [rec_payload EXCEPT ![b] = putRef]
      /\ hasCapacity(t)
  BY DEF place
<1>2. \A u \in Tiers : b \notin tiers[u]
  BY ResidentMeans
<1>3. CASE MetadataOnly
  <2>1. TypeOK'
    BY <1>1, <1>3 DEF TypeOK, place, put, putRef
  <2>2. PayloadHasOneOwner'
    BY <1>3 DEF PayloadHasOneOwner
  <2> QED
    BY <2>1, <2>2, <1>1, <1>2, AddFits
       DEF TypeOK, TierOfRecordIsTierOfStore, WithinCapacity
<1>4. CASE ~ MetadataOnly
  <2> DEFINE r == payload_free[Len(payload_free)]
  <2>1. /\ payload_free # <<>> /\ putRef = r
        /\ payload_free' = SubSeq(payload_free, 1, Len(payload_free) - 1)
    BY <1>4 DEF place, put, canPut, putRef
  <2>2. payload_free \in Seq(Payloads) /\ Len(payload_free) \in Nat \ {0}
    BY <2>1, EmptySeq DEF TypeOK
  <2>3. /\ payload_free' \in Seq(Payloads)
        /\ Len(payload_free) \in Nat
        /\ Len(payload_free') = Len(payload_free) - 1
        /\ Len(payload_free) \in 1 .. Len(payload_free)
        /\ \A i \in 1 .. Len(payload_free') :
              i \in 1 .. Len(payload_free) /\ payload_free'[i] = payload_free[i]
    <3>1. /\ payload_free' \in Seq(Payloads)
          /\ Len(payload_free') = Len(payload_free) - 1
          /\ \A i \in 1 .. Len(payload_free) - 1 : payload_free'[i] = payload_free[i]
      BY <2>1, <2>2, PopBack
    <3> QED
      BY <2>2, <3>1
  <2>4. r \in Payloads /\ r # INVALID
    BY <2>2, <2>3, MaxPayloadsAssumption DEF Payloads, INVALID
  <2>5. TypeOK'
    BY <1>1, <2>1, <2>3, <2>4 DEF TypeOK
  <2>6. Resident' = Resident \cup {b}
    BY <1>1 DEF Resident, TypeOK
  <2>7. /\ rec_payload'[b] = r
        /\ \A c \in Resident : c # b /\ rec_payload'[c] = rec_payload[c]
    <3>1. Resident \subseteq Blocks
      BY DEF Resident, TypeOK
    <3> QED
      BY <1>1, <2>1, <3>1 DEF TypeOK
  <2>8. PayloadHasOneOwner'
    <3>1. ASSUME NEW ref \in Payloads
          PROVE  \/ \E i \in 1 .. Len(payload_free') : payload_free'[i] = ref
                 \/ \E c \in Resident' : rec_payload'[c] = ref
      <4>1. CASE ref = r
        BY <2>6, <2>7, <4>1
      <4>2. CASE ref # r /\ \E i \in 1 .. Len(payload_free) : payload_free[i] = ref
        <5>1. PICK i \in 1 .. Len(payload_free) : payload_free[i] = ref
          BY <4>2
        <5>2. i \in 1 .. Len(payload_free')
          BY <2>3, <4>2, <5>1
        <5> QED
          BY <2>3, <5>1, <5>2
      <4>3. CASE \E c \in Resident : rec_payload[c] = ref
        BY <2>6, <2>7, <4>3
      <4> QED
        BY <1>4, <4>1, <4>2, <4>3 DEF PayloadHasOneOwner
    <3>2. \A i, j \in 1 .. Len(payload_free') : payload_free'[i] = payload_free'[j] => i = j
      BY <1>4, <2>3 DEF PayloadHasOneOwner
    <3>3. \A i \in 1 .. Len(payload_free') : payload_free'[i] # r
      <4>1. ASSUME NEW i \in 1 .. Len(payload_free')
            PROVE  payload_free'[i] # r
        <5>1. i # Len(payload_free) /\ i \in 1 .. Len(payload_free)
          BY <2>3
        <5> QED
          BY <1>4, <2>3, <5>1 DEF PayloadHasOneOwner
      <4> QED
        BY <4>1
    <3>4. \A c \in Resident : rec_payload[c] # r
      BY <1>4, <2>3 DEF PayloadHasOneOwner
    <3>5. ASSUME NEW c \in Resident'
          PROVE  /\ rec_payload'[c] # INVALID
                 /\ \A i \in 1 .. Len(payload_free') : payload_free'[i] # rec_payload'[c]
                 /\ \A d \in Resident' \ {c} : rec_payload'[d] # rec_payload'[c]
      <4>1. CASE c = b
        BY <2>4, <2>6, <2>7, <3>3, <3>4, <4>1
      <4>2. CASE c # b
        <5>1. c \in Resident /\ rec_payload'[c] = rec_payload[c]
          BY <2>6, <2>7, <4>2
        <5>2. /\ rec_payload[c] # INVALID
              /\ \A i \in 1 .. Len(payload_free) : payload_free[i] # rec_payload[c]
              /\ \A d \in Resident \ {c} : rec_payload[d] # rec_payload[c]
          BY <1>4, <5>1 DEF PayloadHasOneOwner
        <5> QED
          BY <2>3, <2>6, <2>7, <3>4, <5>1, <5>2
      <4> QED
        BY <4>1, <4>2
    <3> QED
      BY <3>1, <3>2, <3>5 DEF PayloadHasOneOwner
  <2> QED
    BY <2>5, <2>8, <1>1, <1>2, AddFits
       DEF TypeOK, TierOfRecordIsTierOfStore, WithinCapacity
<1> QED
  BY <1>3, <1>4

\* TierManager::promote and demote, the target being the other tier or the tier
\* that has the block already
LEMMA MigrateIInv ==
    ASSUME IInv, NEW b \in Blocks, NEW t \in Tiers, migrate(b, t)
    PROVE  IInv'
<1> USE DEF IInv
<1> DEFINE source == rec_tier[b]
<1>1. /\ source \in Tiers /\ b \in tiers[source] /\ hasCapacity(t)
      /\ rec_tier' = [rec_tier EXCEPT ![b] = t]
      /\ rec_payload' = rec_payload /\ payload_free' = payload_free
  BY DEF migrate, TypeOK
<1>2. tiers' = [u \in Tiers |-> IF u = t THEN tiers[u] \cup {b}
                               ELSE IF u = source THEN tiers[u] \ {b} ELSE tiers[u]]
  <2>1. tiers' = [[tiers EXCEPT ![source] = tiers[source] \ {b}]
                     EXCEPT ![t] = @ \cup {b}]
    BY DEF migrate
  <2>2. CASE t = source
    BY <1>1, <2>1, <2>2 DEF TypeOK
  <2>3. CASE t # source
    BY <1>1, <2>1, <2>3 DEF TypeOK
  <2> QED
    BY <2>2, <2>3
<1> HIDE DEF source
<1>3. TypeOK'
  BY <1>1, <1>2 DEF TypeOK
<1>4. TierOfRecordIsTierOfStore'
  BY <1>1, <1>2 DEF TypeOK, TierOfRecordIsTierOfStore, source
<1>5. WithinCapacity'
  <2>1. ASSUME NEW u \in Tiers
        PROVE  Cardinality(tiers'[u]) <= TierCapacity[u]
    <3>1. CASE u = t /\ u # source
      BY <1>1, <1>2, <3>1, AddFits
    <3>2. CASE ~ (u = t /\ u # source)
      <4>1. tiers'[u] \in SUBSET tiers[u]
        BY <1>1, <1>2, <3>2
      <4> QED
        BY <4>1, ShrinkFits
    <3> QED
      BY <3>1, <3>2
  <2> QED
    BY <2>1 DEF WithinCapacity
<1>6. Resident' = Resident
  <2>1. \A c : (\E u \in Tiers : c \in tiers'[u]) <=> (\E u \in Tiers : c \in tiers[u])
    BY <1>1, <1>2
  <2> QED
    BY <2>1 DEF Resident
<1>7. PayloadHasOneOwner'
  BY <1>1, <1>6 DEF PayloadHasOneOwner
<1> QED
  BY <1>3, <1>4, <1>5, <1>7

\* TierManager::remove gives the buffer of a resident block back.
LEMMA RemoveIInv ==
    ASSUME IInv, NEW b \in Blocks, remove(b)
    PROVE  IInv'
<1> USE DEF IInv
<1>1. /\ tiers' = [t \in Tiers |-> tiers[t] \ {b}]
      /\ rec_tier' = rec_tier /\ rec_payload' = rec_payload
      /\ b \notin Resident => payload_free' = payload_free
      /\ b \in Resident => removePayload(rec_payload[b])
  BY ResidentMeans DEF remove
<1>2. Resident' = Resident \ {b}
  BY <1>1 DEF Resident
<1>3. TierOfRecordIsTierOfStore'
  BY <1>1 DEF TierOfRecordIsTierOfStore
<1>4. WithinCapacity'
  <2>1. ASSUME NEW t \in Tiers
        PROVE  Cardinality(tiers'[t]) <= TierCapacity[t]
    <3>1. tiers'[t] \in SUBSET tiers[t]
      BY <1>1
    <3> QED
      BY <3>1, ShrinkFits
  <2> QED
    BY <2>1 DEF WithinCapacity
<1>5. CASE b \notin Resident \/ MetadataOnly
  <2>1. payload_free' = payload_free
    BY <1>1, <1>5 DEF removePayload
  <2>2. TypeOK'
    BY <1>1, <2>1 DEF TypeOK
  <2>3. PayloadHasOneOwner'
    BY <1>1, <1>2, <1>5, <2>1 DEF PayloadHasOneOwner
  <2> QED
    BY <1>3, <1>4, <2>2, <2>3
<1>6. CASE b \in Resident /\ ~ MetadataOnly
  <2> DEFINE r == rec_payload[b]
             n == Len(payload_free)
  <2>1. payload_free \in Seq(Payloads) /\ r # INVALID /\ r \in Payloads /\ n \in Nat
    BY <1>6 DEF TypeOK, PayloadHasOneOwner
  <2>2. payload_free' = Append(payload_free, r)
    BY <1>1, <1>6, <2>1 DEF removePayload
  <2>3. /\ payload_free' \in Seq(Payloads) /\ Len(payload_free') = n + 1
        /\ \A i \in 1 .. n : payload_free'[i] = payload_free[i]
        /\ payload_free'[n + 1] = r
    BY <2>1, <2>2, AppendProperties
  <2>4. TypeOK'
    BY <1>1, <2>3 DEF TypeOK
  <2>5. /\ \A i \in 1 .. n : payload_free[i] # r
        /\ \A c \in Resident \ {b} : rec_payload[c] # r
        /\ \A i, j \in 1 .. n : payload_free[i] = payload_free[j] => i = j
        /\ \A ref \in Payloads : \/ \E i \in 1 .. n : payload_free[i] = ref
                                 \/ \E c \in Resident : rec_payload[c] = ref
        /\ \A c \in Resident :
              /\ rec_payload[c] # INVALID
              /\ \A i \in 1 .. n : payload_free[i] # rec_payload[c]
              /\ \A d \in Resident \ {c} : rec_payload[d] # rec_payload[c]
    BY <1>6 DEF PayloadHasOneOwner
  <2> HIDE DEF n, r
  <2>6. ASSUME NEW ref \in Payloads
        PROVE  \/ \E i \in 1 .. n + 1 : payload_free'[i] = ref
               \/ \E c \in Resident \ {b} : rec_payload[c] = ref
    <3>1. CASE ref = r
      BY <2>1, <2>3, <3>1
    <3>2. CASE ref # r /\ \E i \in 1 .. n : payload_free[i] = ref
      BY <2>1, <2>3, <3>2
    <3>3. CASE ref # r /\ \E c \in Resident : rec_payload[c] = ref
      BY <3>3 DEF r
    <3> QED
      BY <2>5, <3>1, <3>2, <3>3
  <2>7. \A i, j \in 1 .. n + 1 : payload_free'[i] = payload_free'[j] => i = j
    BY <2>1, <2>3, <2>5
  <2>8. ASSUME NEW c \in Resident \ {b}, NEW i \in 1 .. n + 1
        PROVE  payload_free'[i] # rec_payload[c]
    BY <2>1, <2>3, <2>5
  <2>9. PayloadHasOneOwner'
    BY <1>1, <1>2, <2>3, <2>5, <2>6, <2>7, <2>8 DEF PayloadHasOneOwner
  <2> QED
    BY <1>3, <1>4, <2>4, <2>9
<1> QED
  BY <1>5, <1>6

\* The last iteration of a scan that moves a block found room for it, so the target
\* has room for all of them.
LEMMA ScanFits ==
    ASSUME TypeOK, WithinCapacity, NEW target \in Tiers, NEW moved \in SUBSET Blocks,
           iterations(target, moved)
    PROVE  Cardinality(tiers[target] \cup moved) <= TierCapacity[target]
<1>1. /\ IsFiniteSet(moved) /\ Cardinality(moved) \in Nat
      /\ \A S \in SUBSET Blocks : IsFiniteSet(S) /\ Cardinality(S) \in Nat
  BY BlocksAssumption, FS_Subset, FS_CardinalityType
<1>2. tiers[target] \in SUBSET Blocks /\ TierCapacity[target] \in Nat
  BY TierCapacityAssumption DEF TypeOK
<1>3. CASE moved = {}
  <2>1. tiers[target] \cup moved = tiers[target]
    BY <1>3
  <2> QED
    BY <2>1 DEF WithinCapacity
<1>4. CASE moved # {}
  <2> DEFINE n == Cardinality(moved)
  <2>1. n \in Nat /\ n # 0
    BY <1>1, <1>4, FS_EmptySet
  <2>2. PICK order \in [1 .. n -> moved] :
           /\ moved = {order[i] : i \in DOMAIN order}
           /\ \A i \in DOMAIN order :
                 Cardinality(tiers[target] \cup {order[j] : j \in 1 .. i - 1})
                    < TierCapacity[target]
    BY DEF iterations
  <2> HIDE DEF n
  <2> DEFINE before == tiers[target] \cup {order[j] : j \in 1 .. n - 1}
  <2>3. /\ n \in DOMAIN order /\ order[n] \in Blocks
        /\ \A i \in 1 .. n : i = n \/ i \in 1 .. n - 1
        /\ \A i \in 1 .. n - 1 : i \in 1 .. n
    BY <2>1, <2>2
  <2>4. Cardinality(before) < TierCapacity[target]
    BY <2>2, <2>3
  <2>5. before \in SUBSET Blocks /\ tiers[target] \cup moved = before \cup {order[n]}
    BY <1>2, <2>2, <2>3
  <2> HIDE DEF before
  <2>6. IsFiniteSet(before) /\ Cardinality(before) \in Nat
    BY <1>1, <2>5
  <2>7. \/ Cardinality(before \cup {order[n]}) = Cardinality(before)
        \/ Cardinality(before \cup {order[n]}) = Cardinality(before) + 1
    BY <2>6, FS_AddElement, Zenon
  <2>8. Cardinality(before \cup {order[n]}) <= TierCapacity[target]
    <3>1. \A k, c \in Nat : k < c => k <= c /\ k + 1 <= c
      OBVIOUS
    <3>2. Cardinality(before) <= TierCapacity[target]
          /\ Cardinality(before) + 1 <= TierCapacity[target]
      BY <1>2, <2>4, <2>6, <3>1
    <3> QED
      BY <2>7, <3>2, Zenon
  <2> QED
    BY <2>5, <2>8, Zenon
<1> QED
  BY <1>3, <1>4

\* PromotionController::runScan and DemotionController::runScan, whatever the
\* policies choose
LEMMA ScanIInv ==
    ASSUME IInv, NEW source \in Tiers, NEW target \in Tiers, source # target,
           NEW moved \in SUBSET Blocks, scan(source, target, moved)
    PROVE  IInv'
<1> USE DEF IInv
<1>1. /\ moved \subseteq tiers[source]
      /\ iterations(target, moved)
      /\ rec_tier' = [b \in Blocks |-> IF b \in moved THEN target ELSE rec_tier[b]]
      /\ rec_payload' = rec_payload /\ payload_free' = payload_free
  BY DEF scan
<1>2. tiers' = [t \in Tiers |-> IF t = source THEN tiers[t] \ moved
                               ELSE IF t = target THEN tiers[t] \cup moved ELSE tiers[t]]
  BY DEF scan, TypeOK
<1>3. TypeOK'
  BY <1>1, <1>2 DEF TypeOK
<1>4. TierOfRecordIsTierOfStore'
  BY <1>1, <1>2 DEF TypeOK, TierOfRecordIsTierOfStore
<1>5. WithinCapacity'
  <2>1. ASSUME NEW t \in Tiers
        PROVE  Cardinality(tiers'[t]) <= TierCapacity[t]
    <3>1. CASE t = target
      <4>1. tiers'[t] = tiers[t] \cup moved
        BY <1>2, <3>1
      <4> QED
        BY <1>1, <3>1, <4>1, ScanFits
    <3>2. CASE t # target
      <4>1. tiers'[t] \in SUBSET tiers[t]
        BY <1>2, <3>2
      <4> QED
        BY <4>1, ShrinkFits
    <3> QED
      BY <3>1, <3>2
  <2> QED
    BY <2>1 DEF WithinCapacity
<1>6. Resident' = Resident
  <2>1. \A c : (\E t \in Tiers : c \in tiers'[t]) <=> (\E t \in Tiers : c \in tiers[t])
    BY <1>1, <1>2
  <2> QED
    BY <2>1 DEF Resident
<1>7. PayloadHasOneOwner'
  BY <1>1, <1>6 DEF PayloadHasOneOwner
<1> QED
  BY <1>3, <1>4, <1>5, <1>7

\* Every call preserves the invariant.
LEMMA NextIInv == IInv /\ [Next]_tmVars => IInv'
<1> SUFFICES ASSUME IInv, [Next]_tmVars
             PROVE  IInv'
  OBVIOUS
<1>1. CASE \E b \in Blocks \ Resident, t \in Tiers : place(b, t)
  BY <1>1, PlaceIInv
<1>2. CASE \E b \in Blocks, t \in Tiers : migrate(b, t)
  BY <1>2, MigrateIInv
<1>3. CASE \E b \in Blocks : remove(b)
  BY <1>3, RemoveIInv
<1>4. ASSUME NEW moved \in SUBSET Blocks, promotionScan(moved) \/ demotionScan(moved)
      PROVE  IInv'
  <2>1. "Host" \in Tiers /\ "GpuSim" \in Tiers /\ "Host" # "GpuSim"
    BY DEF Tiers
  <2> QED
    BY <1>4, <2>1, ScanIInv DEF promotionScan, demotionScan
<1>5. CASE UNCHANGED tmVars
  BY <1>5 DEF tmVars, IInv, TypeOK, TierOfRecordIsTierOfStore, WithinCapacity,
              PayloadHasOneOwner, Resident
<1> QED
  BY <1>1, <1>2, <1>3, <1>4, <1>5 DEF Next

-----------------------------------------------------------------------------
(* Room for the next block *)

\* TierManager::remove leaves room in the tier that had the block.
LEMMA RemoveMakesRoom ==
    ASSUME IInv, NEW b \in Blocks, NEW t \in Tiers, b \in tiers[t], remove(b)
    PROVE  hasCapacity(t)'
<1>1. tiers'[t] = tiers[t] \ {b}
  BY DEF remove
<1>2. IsFiniteSet(tiers[t]) /\ Cardinality(tiers[t]) \in Nat /\ TierCapacity[t] \in Nat
  BY TierFinite DEF IInv
<1>3. Cardinality(tiers'[t]) = Cardinality(tiers[t]) - 1
  BY <1>1, <1>2, FS_RemoveElement
<1>4. Cardinality(tiers[t]) <= TierCapacity[t]
  BY DEF IInv, WithinCapacity
<1> QED
  BY <1>2, <1>3, <1>4 DEF hasCapacity

\* The resident blocks are a finite set, no larger than the two tiers together.
LEMMA ResidentCount ==
    ASSUME TypeOK
    PROVE  /\ IsFiniteSet(Resident) /\ Cardinality(Resident) \in Nat
           /\ Cardinality(Resident)
                 <= Cardinality(tiers["GpuSim"]) + Cardinality(tiers["Host"])
<1> DEFINE G == tiers["GpuSim"]
           H == tiers["Host"]
<1>1. /\ IsFiniteSet(G) /\ Cardinality(G) \in Nat
      /\ IsFiniteSet(H) /\ Cardinality(H) \in Nat
  BY TierFinite DEF Tiers
<1>2. Resident = G \cup H
  BY DEF Resident, Tiers
<1> HIDE DEF G, H
<1>3. /\ IsFiniteSet(G \cup H)
      /\ Cardinality(G \cup H) = Cardinality(G) + Cardinality(H) - Cardinality(G \cap H)
  BY <1>1, FS_Union
<1>4. Cardinality(G \cap H) \in Nat /\ Cardinality(G \cup H) \in Nat
  BY <1>1, <1>3, FS_Subset, FS_CardinalityType
<1> QED
  BY <1>1, <1>2, <1>3, <1>4 DEF G, H

\* As long as fewer blocks are resident than there are buffers, one is free.
LEMMA FewerBlocksThanPayloads ==
    ASSUME IInv, Cardinality(Resident) < MaxPayloads
    PROVE  canPut
<1> SUFFICES ASSUME ~ MetadataOnly, payload_free = <<>>
             PROVE  FALSE
  BY MetadataOnlyAssumption DEF canPut
<1> DEFINE Owned == {rec_payload[b] : b \in Resident}
<1>1. IsFiniteSet(Resident) /\ Cardinality(Resident) \in Nat
  BY ResidentCount DEF IInv
<1>2. /\ IsFiniteSet(Owned) /\ Cardinality(Owned) <= Cardinality(Resident)
      /\ Cardinality(Owned) \in Nat
  <2>1. [b \in Resident |-> rec_payload[b]] \in Surjection(Resident, Owned)
    BY DEF Surjection
  <2> QED
    BY <1>1, <2>1, FS_Surjection, FS_CardinalityType
<1>3. Payloads \subseteq Owned
  <2>1. ASSUME NEW ref \in Payloads
        PROVE  \E b \in Resident : rec_payload[b] = ref
    BY DEF IInv, PayloadHasOneOwner
  <2> QED
    BY <2>1
<1>4. Cardinality(Payloads) = MaxPayloads
  BY MaxPayloadsAssumption, FS_Interval DEF Payloads
<1>5. Cardinality(Payloads) <= Cardinality(Owned)
  BY <1>2, <1>3, FS_Subset
<1> QED
  BY <1>1, <1>2, <1>4, <1>5, MaxPayloadsAssumption

\* With as many payload buffers as the tiers have places, a tier with room means
\* that there is a buffer too.
LEMMA RoomMeansPayload ==
    ASSUME IInv, TierCapacity["GpuSim"] + TierCapacity["Host"] <= MaxPayloads,
           NEW t \in Tiers, hasCapacity(t)
    PROVE  canPut
<1>1. /\ Cardinality(tiers["GpuSim"]) \in Nat /\ TierCapacity["GpuSim"] \in Nat
      /\ Cardinality(tiers["Host"]) \in Nat /\ TierCapacity["Host"] \in Nat
  BY TierFinite DEF IInv, Tiers
<1>2. /\ Cardinality(tiers["GpuSim"]) <= TierCapacity["GpuSim"]
      /\ Cardinality(tiers["Host"]) <= TierCapacity["Host"]
  BY DEF IInv, WithinCapacity, Tiers
<1>3. t = "GpuSim" \/ t = "Host"
  BY DEF Tiers
<1>4. Cardinality(tiers["GpuSim"]) + Cardinality(tiers["Host"]) < MaxPayloads
  BY <1>1, <1>2, <1>3, MaxPayloadsAssumption DEF hasCapacity
<1>5. Cardinality(Resident) < MaxPayloads
  BY <1>1, <1>4, ResidentCount, MaxPayloadsAssumption DEF IInv
<1> QED
  BY <1>5, FewerBlocksThanPayloads

-----------------------------------------------------------------------------

\* The invariant of the tiers, for every set of blocks and all capacities
THEOREM Invariance == Spec => []IInv
<1> QED
  BY InitIInv, NextIInv, PTL DEF Spec

\* The tier in a resident block's record is always the one tier that has it.
THEOREM RecordsNameTheirTier == Spec => []TierOfRecordIsTierOfStore
<1>1. IInv => TierOfRecordIsTierOfStore
  BY DEF IInv
<1> QED
  BY <1>1, Invariance, PTL

\* No order of placements, migrations, removals and scans fills a TierStore over
\* its capacity.
THEOREM TiersStayWithinCapacity == Spec => []WithinCapacity
<1>1. IInv => WithinCapacity
  BY DEF IInv
<1> QED
  BY <1>1, Invariance, PTL

\* PayloadStore never loses a buffer and never gives one to two blocks, although
\* its remove does not check that the buffer is in use.
THEOREM PayloadsHaveOneOwner == Spec => []PayloadHasOneOwner
<1>1. IInv => PayloadHasOneOwner
  BY DEF IInv
<1> QED
  BY <1>1, Invariance, PTL

\* PayloadStore::put does not throw when it has as many buffers as the tiers have
\* places: TierManager::place asks for one only after it has seen room in a tier.
THEOREM PutNeverThrows ==
    ASSUME TierCapacity["GpuSim"] + TierCapacity["Host"] <= MaxPayloads
    PROVE  Spec => [](\A t \in Tiers : hasCapacity(t) => canPut)
<1>1. IInv => \A t \in Tiers : hasCapacity(t) => canPut
  BY RoomMeansPayload
<1> QED
  BY <1>1, Invariance, PTL

=============================================================================
