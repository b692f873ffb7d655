------------------------------- MODULE Events -------------------------------
(***************************************************************************)
(* What the simulator writes about itself: the Event and Decision records, *)
(* the JSON objects that JsonlEventSink and JsonlDecisionLogger write for  *)
(* them, and the counts that kvcache_bench keeps of them.  Timestamps,     *)
(* policy names and context hashes are left out, and so are the events     *)
(* that no code records (LookupHit, LookupMiss, NonContiguousLocalBlocks). *)
(***************************************************************************)
EXTENDS Integers, Sequences, FiniteSets

\* tier_name
tier_name(t) == CASE t = "GpuSim" -> "GPU_SIM" [] t = "Host" -> "HOST"

-----------------------------------------------------------------------------
(* Event *)

BlockAdmitted(id, tier, origin) ==
    [kind |-> "BlockAdmitted", id |-> id, tier |-> tier, origin |-> origin]
BlockEvicted(id) == [kind |-> "BlockEvicted", id |-> id]
BlockPromoted(id) ==
    [kind |-> "BlockPromoted", id |-> id, from_tier |-> "Host", to_tier |-> "GpuSim"]
BlockDemoted(id) ==
    [kind |-> "BlockDemoted", id |-> id, from_tier |-> "GpuSim", to_tier |-> "Host"]
RemoteFetchStarted(hash, node) ==
    [kind |-> "RemoteFetchStarted", hash |-> hash, source_node |-> node]
RemoteFetchCompleted(hash, node) ==
    [kind |-> "RemoteFetchCompleted", hash |-> hash, source_node |-> node]
RemoteFetchFailed(hash, node, reason) ==
    [kind |-> "RemoteFetchFailed", hash |-> hash, source_node |-> node, reason |-> reason]

-----------------------------------------------------------------------------
(* serializeEvent, one for each kind of Event *)

fetchFailName(reason) ==
    CASE reason = "NotFound"        -> "not_found"
      [] reason = "StaleGeneration" -> "stale_generation"
      [] reason = "HashMismatch"    -> "hash_mismatch"
      [] reason = "TransportError"  -> "transport_error"

admittedJson(e) ==
    [type |-> "block_admitted", block_id |-> e.id, tier |-> tier_name(e.tier),
     origin |-> IF e.origin = "LocallyComputed" THEN "local" ELSE "remote"]
evictedJson(e) == [type |-> "block_evicted", block_id |-> e.id]

\* Mutant: the two tiers are swapped.
migratedJson_swapped(type, e) ==
    [type |-> type, block_id |-> e.id,
     from |-> tier_name(e.to_tier), to |-> tier_name(e.from_tier)]

migratedJson(type, e) ==
    [type |-> type, block_id |-> e.id,
     from |-> tier_name(e.from_tier), to |-> tier_name(e.to_tier)]
fetchJson(type, e) == [type |-> type, hash |-> e.hash, source_node |-> e.source_node]
fetchFailedJson(e) ==
    [type |-> "remote_fetch_failed", hash |-> e.hash, source_node |-> e.source_node,
     reason |-> fetchFailName(e.reason)]

\* JsonlEventSink::record visits the event.
serializeEvent(e) ==
    CASE e.kind = "BlockAdmitted"        -> admittedJson(e)
      [] e.kind = "BlockEvicted"         -> evictedJson(e)
      [] e.kind = "BlockPromoted"        -> migratedJson("block_promoted", e)
      [] e.kind = "BlockDemoted"         -> migratedJson("block_demoted", e)
      [] e.kind = "RemoteFetchStarted"   -> fetchJson("remote_fetch_started", e)
      [] e.kind = "RemoteFetchCompleted" -> fetchJson("remote_fetch_completed", e)
      [] e.kind = "RemoteFetchFailed"    -> fetchFailedJson(e)

-----------------------------------------------------------------------------
(* Decision, and toJson of JsonlDecisionLogger *)

EvictionDecision(chosen, candidates) ==
    [event |-> "eviction_decision", chosen_block |-> chosen, candidates |-> candidates]
AdmissionRecord(admitted, hash) ==
    [event |-> "admission_decision", admitted |-> admitted, hash |-> hash]

-----------------------------------------------------------------------------
(* CountingTeeEventSink *)

OfKind(events, kinds) == Cardinality({i \in 1 .. Len(events) : events[i].kind \in kinds})

\* Mutant: one counter for both kinds of event.
count_together(counts, events) ==
    [admissions |-> counts.admissions + OfKind(events, {"BlockAdmitted", "BlockEvicted"}),
     evictions  |-> counts.evictions + OfKind(events, {"BlockEvicted"})]

\* record, of one event after the other
count(counts, events) ==
    [admissions |-> counts.admissions + OfKind(events, {"BlockAdmitted"}),
     evictions  |-> counts.evictions + OfKind(events, {"BlockEvicted"})]

=============================================================================
