-------------------------- MODULE TierStorageProofs --------------------------
(***************************************************************************)
(* Proofs about TierStorage, on top of those about TierManager: for every  *)
(* size of a buffer, every set of payloads and both latency models.  What a *)
(* block reads back follows from the ownership of the buffers, and the     *)
(* bottleneck from the arithmetic of the bandwidth model; StorageIInv adds *)
(* to the properties that the last result is the latency of its route.     *)
(***************************************************************************)
EXTENDS TierStorage, TierManagerProofs

ResultIsOfRoute ==
    Len(result.route) = 2 =>
        result.simulated_latency_ns = migrationNs(result.route[1], result.route[2])

StorageIInv ==
    /\ IInv
    /\ StorageTypeOK
    /\ PayloadReadsBack
    /\ ResultIsOfRoute

-----------------------------------------------------------------------------
(* The latency models *)

\* The quotient is the largest number that fits.
LEMMA Quotient ==
    ASSUME NEW a \in Nat, NEW b \in Nat \ {0}
    PROVE  /\ a \div b \in Nat
           /\ (a \div b) * b <= a
           /\ \A q \in Nat : q * b <= a => q <= a \div b
<1>1. /\ a \div b \in Int /\ a % b \in Int
      /\ a = b * (a \div b) + (a % b) /\ 0 <= a % b /\ a % b < b
  OBVIOUS
<1> DEFINE d == a \div b
<1>2. d \in Int /\ b * d <= a /\ a < b * d + b
  BY <1>1
<1> HIDE DEF d
<1>3. d \in Nat
  <2>1. ASSUME d < 0
        PROVE  FALSE
    <3>1. b * d + b <= 0
      <4>1. d + 1 <= 0 /\ b > 0
        BY <1>2, <2>1
      <4>2. b * (d + 1) <= 0
        BY <1>2, <4>1
      <4> QED
        BY <1>2, <4>2
    <3> QED
      BY <1>2, <3>1
  <2> QED
    BY <1>2, <2>1
<1>4. ASSUME NEW q \in Nat, q * b <= a
      PROVE  q <= d
  <2>1. ASSUME q >= d + 1
        PROVE  FALSE
    <3>1. q * b >= (d + 1) * b
      BY <1>3, <2>1
    <3>2. (d + 1) * b = b * d + b
      BY <1>3
    <3> QED
      BY <1>2, <1>3, <1>4, <3>1, <3>2
  <2> QED
    BY <1>3, <2>1
<1>5. d * b = b * d
  BY <1>3
<1> QED
  BY <1>2, <1>3, <1>4, <1>5 DEF d

\* Moving n bytes takes no less time at the smaller one of two bandwidths v/w and
\* x/y, the rounding included.
LEMMA SlowerTakesLonger ==
    ASSUME NEW n \in Nat, NEW v \in Nat \ {0}, NEW w \in Nat \ {0},
           NEW x \in Nat \ {0}, NEW y \in Nat \ {0},
           v * y <= x * w
    PROVE  (n * y) \div x <= (n * w) \div v
<1> DEFINE q == (n * y) \div x
<1>1. n * y \in Nat /\ n * w \in Nat
  OBVIOUS
<1>2. q \in Nat /\ q * x <= n * y
  BY <1>1, Quotient
<1> HIDE DEF q
<1>3. (q * x) * v <= (n * y) * v
  BY <1>1, <1>2
<1>4. (n * y) * v = n * (v * y) /\ (n * w) * x = n * (x * w)
  OBVIOUS
<1>5. n * (v * y) <= n * (x * w)
  OBVIOUS
<1>6. (q * v) * x <= (n * w) * x
  <2>1. (q * v) * x = (q * x) * v
    BY <1>2
  <2> QED
    BY <1>1, <1>2, <1>3, <1>4, <1>5, <2>1
<1>7. q * v <= n * w
  <2>1. q * v \in Nat
    BY <1>2
  <2>2. ASSUME q * v > n * w
        PROVE  FALSE
    <3>1. q * v >= n * w + 1
      BY <1>1, <2>1, <2>2
    <3>2. (q * v) * x >= (n * w + 1) * x
      BY <1>1, <2>1, <3>1
    <3>3. (n * w + 1) * x = (n * w) * x + x
      BY <1>1
    <3> QED
      BY <1>1, <1>6, <2>1, <3>2, <3>3
  <2> QED
    BY <1>1, <2>1, <2>2
<1>8. q <= (n * w) \div v
  BY <1>1, <1>2, <1>7, Quotient
<1> QED
  BY <1>8 DEF q

\* Both latency models return a number of nanoseconds.
LEMMA LatencyType ==
    ASSUME NEW s \in Tiers, NEW t \in Tiers
    PROVE  tierAccessNs(s) \in Nat /\ migrationNs(s, t) \in Nat
<1>1. CASE Latency.model = "constant"
  BY <1>1, LatencyAssumption DEF tierAccessNs, migrationNs
<1>2. CASE Latency.model # "constant"
  <2>1. /\ Latency.base_ns \in Nat
        /\ \A u \in Tiers : Latency.bytes_per_ns[u] \in [num : Nat, den : Nat \ {0}]
    BY <1>2, LatencyAssumption
  <2>2. ASSUME NEW bw \in [num : Nat, den : Nat \ {0}]
        PROVE  transferNs(bw) \in Nat
    <3>1. CASE bw.num = 0 \/ BytesPerBlock = 0
      BY <3>1 DEF transferNs
    <3>2. CASE ~ (bw.num = 0 \/ BytesPerBlock = 0)
      <4>1. BytesPerBlock * bw.den \in Nat /\ bw.num \in Nat \ {0}
        BY <3>2, BytesAssumption
      <4> QED
        BY <3>2, <4>1, Quotient DEF transferNs
    <3> QED
      BY <3>1, <3>2
  <2>3. Slower(Latency.bytes_per_ns[s], Latency.bytes_per_ns[t])
           \in [num : Nat, den : Nat \ {0}]
    BY <2>1 DEF Slower
  <2> QED
    BY <1>2, <2>1, <2>2, <2>3 DEF tierAccessNs, migrationNs
<1> QED
  BY <1>1, <1>2

\* Between two tiers with a bandwidth, a migration takes as long as an access to
\* the slower one (BandwidthLatencyModel::migrationNs).
LEMMA BottleneckDecides ==
    ASSUME Latency.model = "bandwidth", NEW s \in Tiers, NEW t \in Tiers,
           \A u \in Tiers : Latency.bytes_per_ns[u].num > 0
    PROVE  migrationNs(s, t) = IF tierAccessNs(s) < tierAccessNs(t)
                               THEN tierAccessNs(t) ELSE tierAccessNs(s)
<1> DEFINE v == Latency.bytes_per_ns[s]
           w == Latency.bytes_per_ns[t]
<1>1. /\ Latency.base_ns \in Nat
      /\ v \in [num : Nat \ {0}, den : Nat \ {0}]
      /\ w \in [num : Nat \ {0}, den : Nat \ {0}]
      /\ BytesPerBlock \in Nat
  BY LatencyAssumption, BytesAssumption
<1>2. /\ tierAccessNs(s) = Latency.base_ns + transferNs(v)
      /\ tierAccessNs(t) = Latency.base_ns + transferNs(w)
      /\ migrationNs(s, t) = Latency.base_ns + transferNs(Slower(v, w))
  BY DEF tierAccessNs, migrationNs
<1>3. tierAccessNs(s) \in Nat /\ tierAccessNs(t) \in Nat
  BY LatencyType
<1> HIDE DEF v, w
<1>4. CASE BytesPerBlock = 0
  BY <1>2, <1>3, <1>4 DEF transferNs
<1>5. CASE BytesPerBlock # 0
  <2>1. /\ transferNs(v) = (BytesPerBlock * v.den) \div v.num
        /\ transferNs(w) = (BytesPerBlock * w.den) \div w.num
    BY <1>1, <1>5 DEF transferNs
  <2>2. /\ BytesPerBlock * v.den \in Nat /\ BytesPerBlock * w.den \in Nat
        /\ v.num \in Nat \ {0} /\ v.den \in Nat \ {0}
        /\ w.num \in Nat \ {0} /\ w.den \in Nat \ {0}
    BY <1>1
  <2>3. transferNs(v) \in Nat /\ transferNs(w) \in Nat
    BY <2>1, <2>2, Quotient
  <2>4. CASE v.num * w.den < w.num * v.den
    <3>1. v.num * w.den <= w.num * v.den
      BY <2>2, <2>4
    <3>2. transferNs(w) <= transferNs(v)
      BY <1>1, <2>1, <2>2, <3>1, SlowerTakesLonger
    <3>3. Slower(v, w) = v
      BY <2>4 DEF Slower
    <3> QED
      BY <1>1, <1>2, <2>3, <3>2, <3>3
  <2>5. CASE ~ (v.num * w.den < w.num * v.den)
    <3>1. w.num * v.den <= v.num * w.den
      BY <2>2, <2>5
    <3>2. transferNs(v) <= transferNs(w)
      BY <1>1, <2>1, <2>2, <3>1, SlowerTakesLonger
    <3>3. Slower(v, w) = w
      BY <2>5 DEF Slower
    <3> QED
      BY <1>1, <1>2, <2>3, <3>2, <3>3
  <2> QED
    BY <2>4, <2>5
<1> QED
  BY <1>4, <1>5

-----------------------------------------------------------------------------
(* The invariant *)

\* Every call of TierStorage is one of TierManager, as far as TierManager's
\* bookkeeping goes, or one that it refuses.
LEMMA StorageStepIsTierStep == StorageNext => [Next]_tmVars
  BY DEF StorageNext, placeBytes, placeRefused, migrateBytes, migrateRefused,
         removeBytes, Next, promotionScan, demotionScan

\* What a step that keeps buffers and placed does to what blocks read back
LEMMA KeepsReadsBack ==
    ASSUME PayloadReadsBack, Resident' \subseteq Resident,
           rec_payload' = rec_payload, buffers' = buffers,
           \A b \in Resident' : placed'[b] = placed[b]
    PROVE  PayloadReadsBack'
  BY DEF PayloadReadsBack, getPayload, get

\* The calls that move or refuse blocks keep the residents and their buffers.
LEMMA MoveKeepsResident ==
    ASSUME IInv,
           \/ \E b \in Blocks, t \in Tiers : migrate(b, t)
           \/ \E moved \in SUBSET Blocks : promotionScan(moved) \/ demotionScan(moved)
    PROVE  Resident' \subseteq Resident /\ rec_payload' = rec_payload
<1>1. ASSUME NEW b \in Blocks, NEW t \in Tiers, migrate(b, t)
      PROVE  Resident' \subseteq Resident /\ rec_payload' = rec_payload
  <2>1. /\ rec_payload' = rec_payload /\ b \in Resident
        /\ tiers' = [[tiers EXCEPT ![rec_tier[b]] = @ \ {b}] EXCEPT ![t] = @ \cup {b}]
    BY <1>1 DEF migrate, Resident, IInv, TypeOK
  <2>2. \A u \in Tiers : tiers'[u] \subseteq tiers[u] \cup {b}
    BY <2>1 DEF IInv, TypeOK
  <2> QED
    BY <2>1, <2>2 DEF Resident
<1>2. ASSUME NEW moved \in SUBSET Blocks, NEW s \in Tiers, NEW t \in Tiers,
             scan(s, t, moved)
      PROVE  Resident' \subseteq Resident /\ rec_payload' = rec_payload
  <2>1. /\ rec_payload' = rec_payload /\ moved \subseteq Resident
        /\ tiers' = [tiers EXCEPT ![s] = @ \ moved, ![t] = @ \cup moved]
    BY <1>2 DEF scan, Resident
  <2>2. \A u \in Tiers : tiers'[u] \subseteq tiers[u] \cup moved
    BY <2>1 DEF IInv, TypeOK
  <2> QED
    BY <2>1, <2>2 DEF Resident
<1> QED
  BY <1>1, <1>2 DEF promotionScan, demotionScan, Tiers

\* A result has its type, and what it says of a migration is the model's latency.
LEMMA ReturnsOfRoute ==
    ASSUME NEW status \in {"Success", "CapacityExceeded", "BlockNotFound"},
           NEW ns \in Nat, NEW path \in Seq(Tiers), Returns(status, ns, path),
           Len(path) = 2 => ns = migrationNs(path[1], path[2])
    PROVE  result' \in Results /\ ResultIsOfRoute'
<1>1. result' = [status |-> status, simulated_latency_ns |-> ns, route |-> path]
  BY DEF Returns
<1>2. result' \in Results
  BY <1>1 DEF Results
<1>3. ResultIsOfRoute'
  BY <1>1 DEF ResultIsOfRoute, migrationNs
<1> QED
  BY <1>2, <1>3

\* Empty tiers and zeroed buffers
LEMMA StorageInitIInv == StorageInit => StorageIInv
<1> SUFFICES ASSUME StorageInit
             PROVE  StorageIInv
  OBVIOUS
<1>1. IInv
  BY InitIInv DEF StorageInit
<1>2. buffers \in [Payloads -> Buffer] /\ placed \in [Blocks -> Seq(Byte)]
  BY DEF StorageInit, Buffer, Byte
<1>3. /\ result = [status |-> "Success", simulated_latency_ns |-> 0, route |-> <<>>]
      /\ result \in Results /\ result.route = <<>>
  BY DEF StorageInit, Results
<1>4. ResultIsOfRoute
  BY <1>3 DEF ResultIsOfRoute
<1>5. Resident = {}
  BY DEF StorageInit, Init, Resident
<1> QED
  BY <1>1, <1>2, <1>3, <1>4, <1>5 DEF StorageIInv, StorageTypeOK, PayloadReadsBack, IInv

\* place writes the bytes into the buffer that put took from the free list,
\* which no resident block has.
LEMMA PlaceBytesIInv ==
    ASSUME StorageIInv, NEW b \in Blocks \ Resident, NEW t \in Tiers,
           NEW bytes \in Inputs, placeBytes(b, t, bytes)
    PROVE  StorageIInv'
<1> USE DEF StorageIInv
<1>1. place(b, t) /\ putBytes(bytes) /\ placed' = [placed EXCEPT ![b] = bytes]
  BY DEF placeBytes
<1>2. IInv'
  BY <1>1, PlaceIInv
<1>3. bytes \in Seq(Byte) /\ Len(bytes) \in Nat /\ BytesPerBlock \in Nat
  BY BytesAssumption
<1>4. result' \in Results /\ ResultIsOfRoute'
  <2>1. Returns("Success", tierAccessNs(t), <<t>>)
    BY DEF placeBytes
  <2>2. <<t>> \in Seq(Tiers) /\ Len(<<t>>) = 1
    OBVIOUS
  <2>3. Len(<<t>>) = 2 => tierAccessNs(t) = migrationNs(<<t>>[1], <<t>>[2])
    BY <2>2
  <2> QED
    BY <2>1, <2>2, <2>3, LatencyType, ReturnsOfRoute
<1>5. placed' \in [Blocks -> Seq(Byte)]
  BY <1>1, <1>3 DEF StorageTypeOK
<1>6. CASE MetadataOnly
  <2>1. buffers' = buffers
    BY <1>1, <1>6 DEF putBytes
  <2>2. PayloadReadsBack'
    BY <1>6 DEF PayloadReadsBack
  <2> QED
    BY <1>2, <1>4, <1>5, <2>1, <2>2 DEF StorageTypeOK, IInv
<1>7. CASE ~ MetadataOnly
  <2> DEFINE r == payload_free[Len(payload_free)]
             n == Smaller(Len(bytes), BytesPerBlock)
             new == [i \in 1 .. BytesPerBlock |-> IF i <= n THEN bytes[i] ELSE buffers[r][i]]
  <2>1. /\ putRef = r /\ payload_free # <<>>
        /\ rec_payload' = [rec_payload EXCEPT ![b] = r]
        /\ tiers' = [tiers EXCEPT ![t] = @ \cup {b}]
        /\ buffers' = [buffers EXCEPT ![r] = new]
    BY <1>1, <1>7 DEF place, put, canPut, putRef, putBytes
  <2>2. Len(payload_free) \in 1 .. Len(payload_free) /\ r \in Payloads
    BY <2>1, EmptySeq DEF IInv, TypeOK
  <2>3. r # INVALID
    BY <2>2, MaxPayloadsAssumption DEF Payloads, INVALID
  <2>4. n \in Nat /\ n <= BytesPerBlock /\ n <= Len(bytes)
    BY <1>3 DEF Smaller
  <2>5. new \in Buffer
    BY <1>3, <2>2, <2>4 DEF Buffer, StorageTypeOK
  <2> HIDE DEF new, r, n
  <2>6. buffers' \in [Payloads -> Buffer]
    BY <2>1, <2>2, <2>5 DEF StorageTypeOK
  <2>7. Resident' = Resident \cup {b} /\ Resident \subseteq Blocks
    BY <2>1 DEF Resident, IInv, TypeOK
  <2>8. ASSUME NEW c \in Resident', NEW i \in 1 .. Smaller(Len(placed'[c]), BytesPerBlock)
        PROVE  getPayload(c)'[i] = placed'[c][i]
    <3>1. CASE c = b
      <4>1. placed'[c] = bytes /\ i \in 1 .. n
        BY <1>1, <2>8, <3>1 DEF StorageTypeOK, n
      <4>2. getPayload(c)' = new
        BY <1>7, <2>1, <2>2, <2>3, <3>1
           DEF getPayload, get, IInv, TypeOK, StorageTypeOK
      <4>3. new[i] = bytes[i]
        BY <1>3, <2>4, <4>1 DEF new
      <4> QED
        BY <4>1, <4>2, <4>3
    <3>2. CASE c # b
      <4>1. c \in Resident /\ c \in Blocks /\ placed'[c] = placed[c]
                /\ rec_payload'[c] = rec_payload[c]
        BY <1>1, <2>1, <2>7, <3>2 DEF StorageTypeOK, IInv, TypeOK
      <4>2. rec_payload[c] # INVALID /\ rec_payload[c] # r /\ rec_payload[c] \in Payloads
        BY <1>7, <2>2, <4>1 DEF IInv, TypeOK, PayloadHasOneOwner, r
      <4>3. getPayload(c)' = getPayload(c)
        BY <1>7, <2>1, <4>1, <4>2 DEF getPayload, get, StorageTypeOK
      <4> QED
        BY <1>7, <2>8, <4>1, <4>3 DEF PayloadReadsBack
    <3> QED
      BY <3>1, <3>2
  <2>9. PayloadReadsBack'
    BY <2>8 DEF PayloadReadsBack
  <2> QED
    BY <1>2, <1>4, <1>5, <2>6, <2>9 DEF StorageTypeOK, IInv
<1> QED
  BY <1>6, <1>7

\* Every call preserves the invariant.
LEMMA StorageNextIInv == StorageIInv /\ [StorageNext]_stVars => StorageIInv'
<1> SUFFICES ASSUME StorageIInv, [StorageNext]_stVars
             PROVE  StorageIInv'
  OBVIOUS
<1> USE DEF StorageIInv
<1>1. CASE \E b \in Blocks \ Resident, t \in Tiers, bytes \in Inputs : placeBytes(b, t, bytes)
  BY <1>1, PlaceBytesIInv
<1>2. ASSUME UNCHANGED <<tmVars, buffers, placed>>, result' \in Results, ResultIsOfRoute'
      PROVE  StorageIInv'
  <2>1. IInv'
    BY <1>2, NextIInv
  <2>2. Resident' = Resident
    BY <1>2 DEF Resident, tmVars
  <2>3. PayloadReadsBack'
    BY <1>2, <2>2, KeepsReadsBack DEF tmVars
  <2> QED
    BY <1>2, <2>1, <2>3 DEF StorageTypeOK, IInv
<1>3. ASSUME NEW status \in {"CapacityExceeded", "BlockNotFound"}, Returns(status, 0, <<>>)
      PROVE  result' \in Results /\ ResultIsOfRoute'
  <2>1. result' = [status |-> status, simulated_latency_ns |-> 0, route |-> <<>>]
    BY <1>3 DEF Returns
  <2> QED
    BY <2>1 DEF Results, ResultIsOfRoute
<1>4. CASE \E b \in Blocks \ Resident, t \in Tiers : placeRefused(b, t)
  BY <1>2, <1>3, <1>4 DEF placeRefused
<1>5. CASE \E b \in Blocks, t \in Tiers : migrateRefused(b, t)
  BY <1>2, <1>3, <1>5 DEF migrateRefused
<1>6. ASSUME NEW b \in Blocks, NEW t \in Tiers, migrateBytes(b, t)
      PROVE  StorageIInv'
  <2>1. migrate(b, t) /\ buffers' = buffers /\ placed' = placed
    BY <1>6 DEF migrateBytes
  <2>2. IInv'
    BY <2>1, MigrateIInv
  <2>3. PayloadReadsBack'
    BY <2>1, MoveKeepsResident, KeepsReadsBack
  <2>4. result' \in Results /\ ResultIsOfRoute'
    <3>1. rec_tier[b] \in Tiers
      BY DEF IInv, TypeOK
    <3>2. /\ <<rec_tier[b], t>> \in Seq(Tiers)
          /\ <<rec_tier[b], t>>[1] = rec_tier[b] /\ <<rec_tier[b], t>>[2] = t
      BY <3>1
    <3>3. Returns("Success", migrationNs(rec_tier[b], t), <<rec_tier[b], t>>)
      BY <1>6 DEF migrateBytes
    <3> QED
      BY <3>1, <3>2, <3>3, LatencyType, ReturnsOfRoute
  <2> QED
    BY <2>1, <2>2, <2>3, <2>4 DEF StorageTypeOK, IInv
<1>7. ASSUME NEW b \in Blocks, removeBytes(b)
      PROVE  StorageIInv'
  <2>1. /\ remove(b) /\ buffers' = buffers /\ placed' = [placed EXCEPT ![b] = <<>>]
        /\ rec_payload' = rec_payload
    BY <1>7 DEF removeBytes, remove
  <2>2. IInv'
    BY <2>1, RemoveIInv
  <2>3. Resident' = Resident \ {b} /\ Resident \subseteq Blocks
    BY <2>1 DEF remove, Resident, IInv, TypeOK
  <2>4. PayloadReadsBack'
    <3>1. \A c \in Resident' : placed'[c] = placed[c]
      BY <2>1, <2>3 DEF StorageTypeOK
    <3> QED
      BY <2>1, <2>3, <3>1, KeepsReadsBack
  <2>5. result' \in Results /\ ResultIsOfRoute'
    <3>1. CASE b \in Resident
      <4>1. rec_tier[b] \in Tiers
        BY DEF IInv, TypeOK
      <4>2. Returns("Success", tierAccessNs(rec_tier[b]), <<rec_tier[b]>>)
        BY <1>7, <3>1 DEF removeBytes
      <4>3. <<rec_tier[b]>> \in Seq(Tiers) /\ Len(<<rec_tier[b]>>) = 1
        BY <4>1
      <4>4. Len(<<rec_tier[b]>>) = 2 => tierAccessNs(rec_tier[b]) =
               migrationNs(<<rec_tier[b]>>[1], <<rec_tier[b]>>[2])
        BY <4>3
      <4> QED
        BY <4>1, <4>2, <4>3, <4>4, LatencyType, ReturnsOfRoute
    <3>2. CASE b \notin Resident
      BY <1>3, <1>7, <3>2 DEF removeBytes
    <3> QED
      BY <3>1, <3>2
  <2>6. placed' \in [Blocks -> Seq(Byte)]
    BY <2>1 DEF StorageTypeOK
  <2> QED
    BY <2>1, <2>2, <2>4, <2>5, <2>6 DEF StorageTypeOK, IInv
<1>8. ASSUME NEW moved \in SUBSET Blocks, promotionScan(moved) \/ demotionScan(moved),
             UNCHANGED <<buffers, placed, result>>
      PROVE  StorageIInv'
  <2>1. IInv'
    BY <1>8, NextIInv DEF Next
  <2>2. PayloadReadsBack'
    BY <1>8, MoveKeepsResident, KeepsReadsBack
  <2>3. ResultIsOfRoute'
    BY <1>8 DEF ResultIsOfRoute, migrationNs
  <2> QED
    BY <1>8, <2>1, <2>2, <2>3 DEF StorageTypeOK, IInv
<1>9. CASE UNCHANGED stVars
  BY <1>2, <1>9 DEF stVars, tmVars, StorageTypeOK, ResultIsOfRoute, migrationNs
<1> QED
  BY <1>1, <1>4, <1>5, <1>6, <1>7, <1>8, <1>9 DEF StorageNext

-----------------------------------------------------------------------------

\* The invariant of the storage, for every set of blocks, payloads and latencies
THEOREM StorageInvariance == StorageSpec => []StorageIInv
<1> QED
  BY StorageInitIInv, StorageNextIInv, PTL DEF StorageSpec

\* Buffers, payloads and results always have their types; in particular every
\* simulated latency is a number.
THEOREM StorageTypeCorrect == StorageSpec => []StorageTypeOK
<1>1. StorageIInv => StorageTypeOK
  BY DEF StorageIInv
<1> QED
  BY <1>1, StorageInvariance, PTL

\* A resident block reads back the bytes it was placed with (PayloadStore::put
\* and get), whatever happened to other blocks since.
THEOREM PayloadsReadBack == StorageSpec => []PayloadReadsBack
<1>1. StorageIInv => PayloadReadsBack
  BY DEF StorageIInv
<1> QED
  BY <1>1, StorageInvariance, PTL

\* Every migration takes as long as an access to the slower one of its two tiers
\* (BandwidthLatencyModel::migrationNs), whatever the bandwidths are.
THEOREM MigrationsAreBottlenecked == StorageSpec => []MigrationIsBottleneck
<1>1. StorageIInv => MigrationIsBottleneck
  <2> SUFFICES ASSUME StorageIInv, Latency.model = "bandwidth",
                      \A t \in Tiers : Latency.bytes_per_ns[t].num > 0,
                      Len(result.route) = 2
               PROVE  LET source == tierAccessNs(result.route[1])
                          dest   == tierAccessNs(result.route[2])
                      IN result.simulated_latency_ns = IF source < dest THEN dest ELSE source
    BY DEF MigrationIsBottleneck
  <2>1. result.route[1] \in Tiers /\ result.route[2] \in Tiers
    BY DEF StorageIInv, StorageTypeOK, Results
  <2>2. result.simulated_latency_ns = migrationNs(result.route[1], result.route[2])
    BY DEF StorageIInv, ResultIsOfRoute
  <2> QED
    BY <2>1, <2>2, BottleneckDecides
<1> QED
  BY <1>1, StorageInvariance, PTL

\* The storage implements the bookkeeping of TierManager.
THEOREM StorageImplementsTiers == StorageSpec => Spec
<1>1. StorageInit => Init
  BY DEF StorageInit
<1>2. [StorageNext]_stVars => [Next]_tmVars
  BY StorageStepIsTierStep DEF stVars, tmVars
<1> QED
  BY <1>1, <1>2, PTL DEF StorageSpec, Spec

=============================================================================
