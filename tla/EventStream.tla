----------------------------- MODULE EventStream -----------------------------
(***************************************************************************)
(* LocalCache and what it writes: every step of the cache together with    *)
(* the events it records and the decisions it logs.  The event stream      *)
(* itself grows for ever, so the model keeps what a reader of it knows:    *)
(* view is where the reader believes each block to be, from the JSON       *)
(* objects of the stream alone.  log has the decisions of the call in      *)
(* progress.                                                               *)
(***************************************************************************)
EXTENDS LocalCache

VARIABLES
    view,       \* history: what the event stream says of each slot
    log         \* the decisions that the call in progress has logged

E == INSTANCE Events

evVars == <<vars, view, log>>

Absent == "absent"
Contradiction == "contradiction"    \* an event that cannot follow the ones before

StreamTypeOK ==
    /\ TypeOK
    /\ view \in [Slots -> {"GPU_SIM", "HOST", Absent, Contradiction}]
    /\ Len(log) <= 2

StreamInit ==
    /\ Init
    /\ view = [s \in Slots |-> Absent]
    /\ log = <<>>

\* What a reader who believes v knows after the JSON object r
Reads(v, r) ==
    CASE r.type = "block_admitted" ->
            [v EXCEPT ![r.block_id] = IF @ = Absent THEN r.tier ELSE Contradiction]
      [] r.type = "block_evicted" ->
            [v EXCEPT ![r.block_id] = IF @ # Absent THEN Absent ELSE Contradiction]
      [] r.type \in {"block_promoted", "block_demoted"} ->
            [v EXCEPT ![r.block_id] = IF @ = r.from THEN r.to ELSE Contradiction]

record(e) == view' = Reads(view, E!serializeEvent(e))

-----------------------------------------------------------------------------
(* The steps of LocalCache with what they write *)

\* The admission policy of every caller is AlwaysAdmitPolicy.
loggedAdmit(p) ==
    /\ admit(p)
    /\ log' = <<E!AdmissionRecord(TRUE, contentHash(p))>>
    /\ UNCHANGED view

\* Mutant: the blocks of both tiers are logged as candidates.
recordedEvict_allTiers ==
    /\ finishEvict
    /\ record(E!BlockEvicted(call.victim))
    /\ log' = Append(log, E!EvictionDecision(call.victim,
                  {s \in Slots : records[s].refcount = 0 /\ records[s].state # "Free"}))

\* The event, then the decision with the candidates the victim was chosen from
recordedEvict ==
    /\ finishEvict
    /\ record(E!BlockEvicted(call.victim))
    /\ log' = Append(log, E!EvictionDecision(call.victim, candidates \cup {call.victim}))

\* The tier is the one the block was placed in; the origin is the caller's.
recordedReady(origin) ==
    /\ ready
    /\ record(E!BlockAdmitted(call.id, rec_tier[call.id], origin))
    /\ UNCHANGED log

\* The other steps of a call write nothing; with the call its log is over.
silentStep ==
    /\ \/ lookupStep
       \/ insufficientCandidates
       \/ \E victim \in Slots : beginEvict(victim)
       \/ create
       \/ admitted
    /\ log' = IF call' = Idle THEN <<>> ELSE log
    /\ UNCHANGED view

\* One event for each block that the scan has moved; an event tells of its own
\* block only, so their order does not matter.
recordedPromotion(moved) ==
    /\ promotionScan(moved)
    /\ view' = [s \in Slots |->
          IF s \in moved THEN Reads(view, E!serializeEvent(E!BlockPromoted(s)))[s]
          ELSE view[s]]
    /\ UNCHANGED log

recordedDemotion(moved) ==
    /\ demotionScan(moved)
    /\ view' = [s \in Slots |->
          IF s \in moved THEN Reads(view, E!serializeEvent(E!BlockDemoted(s)))[s]
          ELSE view[s]]
    /\ UNCHANGED log

\* Lookups, fetches and dropped handles leave no trace in the stream.
silentCall ==
    /\ \/ \E p \in Paths : lookupPrefix(p)
       \/ \E h \in Handles, s \in Slots, g \in 1 .. MaxGeneration : getBlock(h, s, g)
       \/ \E s \in Slots, g \in 1 .. MaxGeneration : serveBlockFetch(s, g)
       \/ \E h \in Handles : releaseHandle(h)
       \/ advanceNs
    /\ UNCHANGED <<view, log>>

StreamNext ==
    \/ \E p \in Paths : loggedAdmit(p)
    \/ recordedEvict
    \/ \E origin \in {"LocallyComputed", "RemoteFetch"} : recordedReady(origin)
    \/ silentStep
    \/ \E moved \in SUBSET Slots : recordedPromotion(moved)
    \/ \E moved \in SUBSET Slots : recordedDemotion(moved)
    \/ silentCall

StreamSpec == StreamInit /\ [][StreamNext]_evVars

-----------------------------------------------------------------------------

\* LocalCache::snapshot
snapshot ==
    [capacity     |-> Capacity,
     used_blocks  |-> Cardinality({s \in Slots : /\ records[s].generation > 0
                                                 /\ records[s].state # "Free"}),
     ready_blocks |-> Cardinality({s \in Slots : records[s].state = "Ready"})]

-----------------------------------------------------------------------------
(* Properties *)

\* Who reads nothing but the event stream knows at every moment which slots
\* hold a published block and in which tier, and no event contradicts the ones
\* before it, through admissions, evictions, scans and the re-use of slots.
\* Between two calls this is also what snapshot says.
StreamTellsResidency ==
    /\ \A s \in Slots :
          view[s] = IF records[s].state \in {"Ready", "Evicting"}
                    THEN E!tier_name(rec_tier[s]) ELSE Absent
    /\ call = Idle =>
          LET known == Cardinality({s \in Slots : view[s] # Absent})
          IN snapshot.used_blocks = known /\ snapshot.ready_blocks = known

\* Every change that the stream reports is explained by the decision log: an
\* admitted block by an admission decision for its hash, an evicted block by an
\* eviction decision that chose it among blocks which, as the stream tells, were
\* resident in the same tier.
DecisionsExplainEvents ==
    [][\A s \in Slots :
          /\ (view[s] = Absent /\ view'[s] # Absent) =>
                log[1] = E!AdmissionRecord(TRUE, records'[s].hash)
          /\ (view[s] # Absent /\ view'[s] = Absent) =>
                LET decision == log'[Len(log')]
                IN /\ decision.chosen_block = s
                   /\ s \in decision.candidates
                   /\ \A c \in decision.candidates : view[c] = view[s]]_evVars

\* The cache uses its parts as they require: every step of it is a step (or no
\* step) of BlockManager, of PrefixMap and of TierManager.
UsesItsParts == UsesBlockManager /\ UsesPrefixMap /\ UsesTierManager

=============================================================================
