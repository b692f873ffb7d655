----------------------------- MODULE TierStorage -----------------------------
(***************************************************************************)
(* TierManager with the bytes in the payload buffers and with the result   *)
(* that every call returns: a status and a simulated latency, computed by  *)
(* ConstantLatencyModel or by BandwidthLatencyModel.                       *)
(*                                                                         *)
(* A buffer has BytesPerBlock bytes.  PayloadStore::put copies as many     *)
(* bytes as the caller has, at most BytesPerBlock, and leaves the others   *)
(* as the previous owner left them; PayloadStore::get returns all of them. *)
(* Bandwidths are fractions of bytes per ns.                               *)
(***************************************************************************)
EXTENDS TierManager

CONSTANTS
    BytesPerBlock,  \* PayloadStore::bytes_per_block_
    Inputs,         \* the payloads that callers place: sequences of bytes
    Latency         \* the latency model and its parameters

VARIABLES
    buffers,        \* PayloadStore::buffers_
    placed,         \* history: the bytes each resident block was placed with
    result          \* TierOpResult of the last call, with the call's tiers

stVars == <<tiers, rec_tier, rec_payload, payload_free, buffers, placed, result>>

Byte == 0 .. 255

ASSUME BytesAssumption ==
    /\ BytesPerBlock \in Nat
    /\ MetadataOnly <=> BytesPerBlock = 0
    /\ Inputs \subseteq Seq(Byte)
ASSUME LatencyAssumption ==
    \/ /\ Latency.model = "constant"
       /\ Latency.tier_access_ns \in Nat /\ Latency.migration_ns \in Nat
    \/ /\ Latency.model = "bandwidth"
       /\ Latency.base_ns \in Nat
       /\ \A t \in Tiers : Latency.bytes_per_ns[t] \in [num : Nat, den : Nat \ {0}]

\* What a buffer holds: one byte for each position
Buffer == [1 .. BytesPerBlock -> Byte]

Results ==
    [status : {"Success", "CapacityExceeded", "BlockNotFound"},
     simulated_latency_ns : Nat, route : Seq(Tiers)]

StorageTypeOK ==
    /\ TypeOK
    /\ buffers \in [Payloads -> Buffer]
    /\ placed \in [Blocks -> Seq(Byte)]
    /\ result \in Results

StorageInit ==
    /\ Init
    /\ buffers = [ref \in Payloads |-> [i \in 1 .. BytesPerBlock |-> 0]]
    /\ placed = [b \in Blocks |-> <<>>]
    /\ result = [status |-> "Success", simulated_latency_ns |-> 0, route |-> <<>>]

-----------------------------------------------------------------------------
(* The latency models *)

\* Transfer of a block at a bandwidth; none when the bandwidth is zero
transferNs(bw) ==
    IF bw.num = 0 \/ BytesPerBlock = 0 THEN 0 ELSE (BytesPerBlock * bw.den) \div bw.num

Slower(v, w) == IF v.num * w.den < w.num * v.den THEN v ELSE w
Faster(v, w) == IF v.num * w.den < w.num * v.den THEN w ELSE v

tierAccessNs(t) ==
    IF Latency.model = "constant" THEN Latency.tier_access_ns
    ELSE Latency.base_ns + transferNs(Latency.bytes_per_ns[t])

\* Mutant: the bandwidth of the faster tier decides.
migrationNs_faster(source, dest) ==
    IF Latency.model = "constant" THEN Latency.migration_ns
    ELSE Latency.base_ns
            + transferNs(Faster(Latency.bytes_per_ns[source], Latency.bytes_per_ns[dest]))

migrationNs(source, dest) ==
    IF Latency.model = "constant" THEN Latency.migration_ns
    ELSE Latency.base_ns
            + transferNs(Slower(Latency.bytes_per_ns[source], Latency.bytes_per_ns[dest]))

-----------------------------------------------------------------------------
(* PayloadStore *)

Smaller(m, n) == IF m < n THEN m ELSE n

\* Mutant: the bytes go into the buffer that was freed first.
putBytes_wrongSlot(bytes) ==
    LET copy_len == Smaller(Len(bytes), BytesPerBlock)
    IN buffers' = IF MetadataOnly THEN buffers
                  ELSE [buffers EXCEPT ![payload_free[1]] =
                           [i \in 1 .. BytesPerBlock |->
                               IF i <= copy_len THEN bytes[i] ELSE @[i]]]

\* The copying part of put
putBytes(bytes) ==
    LET copy_len == Smaller(Len(bytes), BytesPerBlock)
    IN buffers' = IF MetadataOnly THEN buffers
                  ELSE [buffers EXCEPT ![putRef] =
                           [i \in 1 .. BytesPerBlock |->
                               IF i <= copy_len THEN bytes[i] ELSE @[i]]]

get(ref) == IF ref = INVALID \/ MetadataOnly THEN <<>> ELSE buffers[ref]

\* TierManager::getPayload, from which LocalCache::serveBlockFetch copies
getPayload(b) == get(rec_payload[b])

-----------------------------------------------------------------------------
(* TierManager: the calls with their results *)

Returns(status, ns, route) ==
    result' = [status |-> status, simulated_latency_ns |-> ns, route |-> route]

placeBytes(b, target, bytes) ==
    /\ place(b, target)
    /\ putBytes(bytes)
    /\ placed' = [placed EXCEPT ![b] = bytes]
    /\ Returns("Success", tierAccessNs(target), <<target>>)

placeRefused(b, target) ==
    /\ ~ hasCapacity(target)
    /\ Returns("CapacityExceeded", 0, <<>>)
    /\ UNCHANGED <<tmVars, buffers, placed>>

\* promote and demote
migrateBytes(b, target) ==
    /\ migrate(b, target)
    /\ Returns("Success", migrationNs(rec_tier[b], target), <<rec_tier[b], target>>)
    /\ UNCHANGED <<buffers, placed>>

migrateRefused(b, target) ==
    /\ IF b \notin tiers[rec_tier[b]] THEN Returns("BlockNotFound", 0, <<>>)
       ELSE ~ hasCapacity(target) /\ Returns("CapacityExceeded", 0, <<>>)
    /\ UNCHANGED <<tmVars, buffers, placed>>

removeBytes(b) ==
    /\ remove(b)
    /\ IF b \in Resident THEN Returns("Success", tierAccessNs(rec_tier[b]), <<rec_tier[b]>>)
       ELSE Returns("BlockNotFound", 0, <<>>)
    /\ placed' = [placed EXCEPT ![b] = <<>>]
    /\ UNCHANGED buffers

StorageNext ==
    \/ \E b \in Blocks \ Resident, t \in Tiers, bytes \in Inputs : placeBytes(b, t, bytes)
    \/ \E b \in Blocks \ Resident, t \in Tiers : placeRefused(b, t)
    \/ \E b \in Blocks, t \in Tiers : migrateBytes(b, t)
    \/ \E b \in Blocks, t \in Tiers : migrateRefused(b, t)
    \/ \E b \in Blocks : removeBytes(b)
    \/ \E moved \in SUBSET Blocks :
          /\ promotionScan(moved) \/ demotionScan(moved)
          /\ UNCHANGED <<buffers, placed, result>>

StorageSpec == StorageInit /\ [][StorageNext]_stVars

-----------------------------------------------------------------------------
(* Properties *)

\* A resident block reads back the bytes it was placed with, however many other
\* blocks were placed, moved between tiers and removed since, and although
\* buffers are handed from one block to the next with their old contents.
\* What getPayload returns after those bytes is whatever the buffer held before.
PayloadReadsBack ==
    ~ MetadataOnly =>
        \A b \in Resident :
            \A i \in 1 .. Smaller(Len(placed[b]), BytesPerBlock) :
                getPayload(b)[i] = placed[b][i]

\* "Use the slower of the two tiers as the bottleneck bandwidth": a migration
\* takes as long as an access to the slower one of its two tiers, as long as
\* both bandwidths are set, whatever sequence of placements led to it.
MigrationIsBottleneck ==
    (/\ Latency.model = "bandwidth"
     /\ \A t \in Tiers : Latency.bytes_per_ns[t].num > 0
     /\ Len(result.route) = 2) =>
        LET source == tierAccessNs(result.route[1])
            dest   == tierAccessNs(result.route[2])
        IN result.simulated_latency_ns = IF source < dest THEN dest ELSE source

=============================================================================
