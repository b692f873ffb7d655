-------------------------- MODULE EventStreamProofs --------------------------
(***************************************************************************)
(* Proofs about what a cache writes, on top of the proofs about the cache. *)
(* The view of a reader is right because every step that publishes, moves  *)
(* or frees a block writes one event, computed from the state before it;   *)
(* that this needs no check on the reader's side rests on the invariant of *)
(* the cache that a block is resident exactly while it is published.       *)
(***************************************************************************)
EXTENDS EventStream, LocalCacheProofs

-----------------------------------------------------------------------------
(* The JSON objects and what a reader makes of them *)

Known == {"GPU_SIM", "HOST", Absent, Contradiction}

LEMMA TierNames ==
    /\ E!tier_name("GpuSim") = "GPU_SIM" /\ E!tier_name("Host") = "HOST"
    /\ \A t \in TM!Tiers : E!tier_name(t) \in {"GPU_SIM", "HOST"}
    /\ Absent \notin {"GPU_SIM", "HOST", Contradiction}
  BY DEF E!tier_name, TM!Tiers, Absent, Contradiction

LEMMA ReadsAdmitted ==
    ASSUME NEW v, NEW s, NEW t, NEW origin
    PROVE  Reads(v, E!serializeEvent(E!BlockAdmitted(s, t, origin))) =
              [v EXCEPT ![s] = IF @ = Absent THEN E!tier_name(t) ELSE Contradiction]
<1> DEFINE r == E!serializeEvent(E!BlockAdmitted(s, t, origin))
<1>1. r = [type |-> "block_admitted", block_id |-> s, tier |-> E!tier_name(t),
           origin |-> IF origin = "LocallyComputed" THEN "local" ELSE "remote"]
  BY DEF E!serializeEvent, E!BlockAdmitted, E!admittedJson
<1>2. r.type = "block_admitted" /\ r.block_id = s /\ r.tier = E!tier_name(t)
  BY <1>1
<1> HIDE DEF r
<1> QED
  BY <1>2 DEF Reads, r

LEMMA ReadsEvicted ==
    ASSUME NEW v, NEW s
    PROVE  Reads(v, E!serializeEvent(E!BlockEvicted(s))) =
              [v EXCEPT ![s] = IF @ # Absent THEN Absent ELSE Contradiction]
<1> DEFINE r == E!serializeEvent(E!BlockEvicted(s))
<1>1. r = [type |-> "block_evicted", block_id |-> s]
  BY DEF E!serializeEvent, E!BlockEvicted, E!evictedJson
<1>2. r.type = "block_evicted" /\ r.block_id = s
  BY <1>1
<1> HIDE DEF r
<1> QED
  BY <1>2 DEF Reads, r

LEMMA ReadsMoved ==
    ASSUME NEW v, NEW s
    PROVE  /\ Reads(v, E!serializeEvent(E!BlockPromoted(s))) =
                 [v EXCEPT ![s] = IF @ = "HOST" THEN "GPU_SIM" ELSE Contradiction]
           /\ Reads(v, E!serializeEvent(E!BlockDemoted(s))) =
                 [v EXCEPT ![s] = IF @ = "GPU_SIM" THEN "HOST" ELSE Contradiction]
<1>1. Reads(v, E!serializeEvent(E!BlockPromoted(s))) =
         [v EXCEPT ![s] = IF @ = "HOST" THEN "GPU_SIM" ELSE Contradiction]
  <2> DEFINE r == E!serializeEvent(E!BlockPromoted(s))
  <2>1. r = [type |-> "block_promoted", block_id |-> s, from |-> "HOST", to |-> "GPU_SIM"]
    BY TierNames DEF E!serializeEvent, E!BlockPromoted, E!migratedJson
  <2>2. r.type = "block_promoted" /\ r.block_id = s /\ r.from = "HOST" /\ r.to = "GPU_SIM"
    BY <2>1
  <2> HIDE DEF r
  <2> QED
    BY <2>2 DEF Reads, r
<1>2. Reads(v, E!serializeEvent(E!BlockDemoted(s))) =
         [v EXCEPT ![s] = IF @ = "GPU_SIM" THEN "HOST" ELSE Contradiction]
  <2> DEFINE r == E!serializeEvent(E!BlockDemoted(s))
  <2>1. r = [type |-> "block_demoted", block_id |-> s, from |-> "GPU_SIM", to |-> "HOST"]
    BY TierNames DEF E!serializeEvent, E!BlockDemoted, E!migratedJson
  <2>2. r.type = "block_demoted" /\ r.block_id = s /\ r.from = "GPU_SIM" /\ r.to = "HOST"
    BY <2>1
  <2> HIDE DEF r
  <2> QED
    BY <2>2 DEF Reads, r
<1> QED
  BY <1>1, <1>2

-----------------------------------------------------------------------------
(* The inductive invariant *)

\* The reader's view is the tier of every published block.
ViewTells ==
    /\ view \in [Slots -> Known]
    /\ \A s \in Slots :
          view[s] = IF records[s].state \in {"Ready", "Evicting"}
                    THEN E!tier_name(rec_tier[s]) ELSE Absent

\* The log of the call in progress begins with its admission decision.
LogBegins ==
    LET admission == E!AdmissionRecord(TRUE, contentHash(call.path))
    IN /\ call.pc \in {"idle", "lookup"} => log = <<>>
       /\ call.pc \in {"space", "evict"} => log = <<admission>>
       /\ call.pc \in {"create", "ready", "acquire"} =>
             log = <<admission>> \/ log = <<admission, log[2]>>

\* NamesInv: the block about to be published has the hash that was decided on.
StreamInv == BaseInv /\ TierPart /\ NamesInv /\ ViewTells /\ LogBegins

\* Every step of the stream is one of the cache.
LEMMA StreamStepIsCacheStep == [StreamNext]_evVars => [Next]_vars
  BY DEF StreamNext, loggedAdmit, recordedEvict, recordedReady, silentStep, recordedPromotion,
         recordedDemotion, silentCall, evVars, Next, callStep

LEMMA StreamInitInv == StreamInit => StreamInv
<1> SUFFICES ASSUME StreamInit
             PROVE  StreamInv
  OBVIOUS
<1>1. Init /\ view = [s \in Slots |-> Absent] /\ log = <<>>
  BY DEF StreamInit
<1>2. \A s \in Slots : records[s].state = "Free"
  BY <1>1, Names DEF Init, BM!Init, BM!storeInit
<1>3. ViewTells
  BY <1>1, <1>2 DEF ViewTells, Known
<1>4. LogBegins
  BY <1>1 DEF Init, Idle, LogBegins
<1> QED
  BY <1>1, <1>3, <1>4, BaseInit, TierInit, NamesInit DEF StreamInv

\* A step that writes no event leaves every published block where it is.
LEMMA ViewKept ==
    ASSUME ViewTells, UNCHANGED view,
           \A s \in Slots :
              /\ records'[s].state \in {"Ready", "Evicting"} <=>
                    records[s].state \in {"Ready", "Evicting"}
              /\ records[s].state \in {"Ready", "Evicting"} => rec_tier'[s] = rec_tier[s]
    PROVE  ViewTells'
  BY DEF ViewTells

\* The steps that write no event
LEMMA ViewSilent ==
    ASSUME BaseInv, TierPart, ViewTells, UNCHANGED view,
           \/ QuietStep
           \/ advanceNs \/ UNCHANGED vars
           \/ \E p \in Paths : admit(p)
           \/ \E victim \in Slots : beginEvict(victim)
           \/ create
    PROVE  ViewTells'
<1>1. CASE QuietStep
  BY <1>1, ViewKept DEF QuietStep, SameStates, tmVars
<1>2. CASE advanceNs \/ UNCHANGED vars
  BY <1>2, ViewKept DEF advanceNs, BM!advanceNs, vars, tmVars
<1>3. CASE \E p \in Paths : admit(p)
  BY <1>3, ViewKept DEF admit, bmVars, tmVars
<1>4. CASE \E victim \in Slots : beginEvict(victim)
  <2>1. PICK v \in Slots : beginEvict(v)
    BY <1>4
  <2>2. /\ records[v].state = "Ready" /\ rec_tier' = rec_tier
        /\ \A s \in Slots : records'[s].state = IF s = v THEN "Evicting" ELSE records[s].state
    BY <2>1, TransitionEffect DEF BaseInv, TypeOK, beginEvict, tmVars
  <2> QED
    BY <2>2, ViewKept
<1>5. CASE create
  <2> DEFINE new == BM!allocated
  <2>1. /\ BM!available # 0 /\ new \in Slots /\ records[new].state = "Free"
        /\ \A s \in Slots : records'[s].state = IF s = new THEN "Admitting" ELSE records[s].state
    BY <1>5, NewSlotFacts
  <2>2. rec_tier' = rec_tier \/ rec_tier' = [rec_tier EXCEPT ![new] = call.tier]
    BY <1>5, <2>1 DEF create, TM!place, tmVars
  <2>3. rec_tier \in [Slots -> TM!Tiers]
    BY DEF TierPart, TiersInv, TM!TypeOK
  <2> HIDE DEF new
  <2> QED
    BY <2>1, <2>2, <2>3, ViewKept
<1> QED
  BY <1>1, <1>2, <1>3, <1>4, <1>5

\* The event of an admission, of an eviction and of a scan
LEMMA ViewReady ==
    ASSUME BaseInv, TierPart, ViewTells, NEW origin, recordedReady(origin)
    PROVE  /\ ViewTells'
           /\ view' = [view EXCEPT ![call.id] = E!tier_name(rec_tier[call.id])]
           /\ call.id \in Slots /\ view[call.id] = Absent
<1>1. /\ call.pc = "ready" /\ UNCHANGED tmVars /\ call.id \in Slots
      /\ \A s \in Slots : records'[s].state = IF s = call.id THEN "Ready" ELSE records[s].state
      /\ view' = Reads(view, E!serializeEvent(E!BlockAdmitted(call.id, rec_tier[call.id], origin)))
  BY ReadyEffect DEF recordedReady, ready, record
<1>2. records[call.id].state = "Admitting"
  BY <1>1 DEF TierPart, NewBlockState
<1>3. view[call.id] = Absent /\ view \in [Slots -> Known]
  BY <1>1, <1>2 DEF ViewTells
<1>4. view' = [view EXCEPT ![call.id] = E!tier_name(rec_tier[call.id])]
  <2>1. view' = [view EXCEPT ![call.id] =
                    IF @ = Absent THEN E!tier_name(rec_tier[call.id]) ELSE Contradiction]
    BY <1>1, ReadsAdmitted
  <2> QED
    BY <1>3, <2>1
<1>5. rec_tier' = rec_tier /\ rec_tier[call.id] \in TM!Tiers
  BY <1>1 DEF tmVars, TierPart, TiersInv, TM!TypeOK
<1>6. E!tier_name(rec_tier[call.id]) \in Known
  BY <1>5, TierNames DEF Known
<1>7. ViewTells'
  BY <1>1, <1>3, <1>4, <1>5, <1>6 DEF ViewTells
<1> QED
  BY <1>1, <1>3, <1>4, <1>7

LEMMA ViewEvict ==
    ASSUME BaseInv, TierPart, ViewTells, recordedEvict
    PROVE  /\ ViewTells'
           /\ view' = [view EXCEPT ![call.victim] = Absent]
           /\ call.victim \in Slots
<1>1. /\ call.pc = "evict" /\ finishEvict
      /\ view' = Reads(view, E!serializeEvent(E!BlockEvicted(call.victim)))
  BY DEF recordedEvict, finishEvict, record
<1>2. /\ call.victim \in Slots
      /\ \A s \in Slots : records'[s].state = IF s = call.victim THEN "Free" ELSE records[s].state
  BY <1>1, FreeEffect
<1>3. records[call.victim].state = "Evicting"
  BY <1>1 DEF TierPart, VictimLeaves
<1>4. rec_tier \in [Slots -> TM!Tiers] /\ rec_tier' = rec_tier
  BY <1>1 DEF TierPart, TiersInv, TM!TypeOK, finishEvict, TM!remove, tmVars
<1>5. view[call.victim] # Absent
  BY <1>2, <1>3, <1>4, TierNames DEF ViewTells
<1>6. view' = [view EXCEPT ![call.victim] = Absent]
  BY <1>1, <1>2, <1>5, ReadsEvicted DEF ViewTells
<1>7. ViewTells'
  BY <1>2, <1>4, <1>6 DEF ViewTells, Known
<1> QED
  BY <1>2, <1>6, <1>7

LEMMA ViewScan ==
    ASSUME BaseInv, TierPart, ViewTells, NEW moved \in SUBSET Slots,
           recordedPromotion(moved) \/ recordedDemotion(moved)
    PROVE  /\ ViewTells'
           /\ \A s \in Slots : view[s] = Absent <=> view'[s] = Absent
<1>1. call.pc = "idle" /\ WithTiers /\ UNCHANGED records
  BY DEF recordedPromotion, recordedDemotion, promotionScan, demotionScan, Idle, bmVars
<1>2. TM!Resident = {s \in Slots : records[s].state = "Ready"}
  BY <1>1 DEF TierPart, ResidentIsPublished, Published
<1>3. /\ rec_tier \in [Slots -> TM!Tiers] /\ tiers \in [TM!Tiers -> SUBSET Slots]
      /\ view \in [Slots -> Known]
  BY DEF TierPart, TiersInv, TM!TypeOK, ViewTells
<1>4. CASE recordedPromotion(moved)
  <2>1. TM!scan("Host", "GpuSim", moved)
    BY <1>4 DEF recordedPromotion, promotionScan, TM!promotionScan
  <2>2. /\ \A s \in moved : rec_tier[s] = "Host" /\ s \in TM!Resident
        /\ rec_tier' = [s \in Slots |-> IF s \in moved THEN "GpuSim" ELSE rec_tier[s]]
    BY <2>1 DEF TM!scan, TM!Resident, TM!Tiers
  <2>3. \A s \in moved : view[s] = "HOST"
    BY <1>2, <2>2, TierNames DEF ViewTells
  <2>4. view' = [s \in Slots |-> IF s \in moved THEN "GPU_SIM" ELSE view[s]]
    <3>1. ASSUME NEW s \in moved
          PROVE  Reads(view, E!serializeEvent(E!BlockPromoted(s)))[s] = "GPU_SIM"
      BY <1>3, <2>3, ReadsMoved
    <3> QED
      BY <1>4, <3>1 DEF recordedPromotion
  <2> QED
    BY <1>1, <1>2, <1>3, <2>2, <2>3, <2>4, TierNames DEF ViewTells, Known
<1>5. CASE recordedDemotion(moved)
  <2>1. TM!scan("GpuSim", "Host", moved)
    BY <1>5 DEF recordedDemotion, demotionScan, TM!demotionScan
  <2>2. /\ \A s \in moved : rec_tier[s] = "GpuSim" /\ s \in TM!Resident
        /\ rec_tier' = [s \in Slots |-> IF s \in moved THEN "Host" ELSE rec_tier[s]]
    BY <2>1 DEF TM!scan, TM!Resident, TM!Tiers
  <2>3. \A s \in moved : view[s] = "GPU_SIM"
    BY <1>2, <2>2, TierNames DEF ViewTells
  <2>4. view' = [s \in Slots |-> IF s \in moved THEN "HOST" ELSE view[s]]
    <3>1. ASSUME NEW s \in moved
          PROVE  Reads(view, E!serializeEvent(E!BlockDemoted(s)))[s] = "HOST"
      BY <1>3, <2>3, ReadsMoved
    <3> QED
      BY <1>5, <3>1 DEF recordedDemotion
  <2> QED
    BY <1>1, <1>2, <1>3, <2>2, <2>3, <2>4, TierNames DEF ViewTells, Known
<1> QED
  BY <1>4, <1>5

\* A silent step of a call ends the log with the call, or leaves it.
LEMMA LogSilent ==
    ASSUME BaseInv, TierPart, LogBegins, silentStep
    PROVE  LogBegins'
<1>a. Idle.pc = "idle"
  BY DEF Idle
<1>b. log' = IF call' = Idle THEN <<>> ELSE log
  BY DEF silentStep
<1>1. CASE lookupStep
  <2>1. call.pc = "lookup" /\ (call' = Idle \/ call'.pc = "lookup")
    BY <1>1, LookupStepCall DEF lookupStep, BaseInv, TypeOK
  <2>2. log' = <<>> /\ call'.pc \in {"idle", "lookup"}
    BY <1>a, <1>b, <2>1 DEF LogBegins
  <2> QED
    BY <2>2 DEF LogBegins
<1>2. CASE insufficientCandidates \/ admitted
  <2>1. call' = Idle
    BY <1>2 DEF insufficientCandidates, admitted
  <2>2. log' = <<>> /\ call'.pc = "idle"
    BY <1>a, <1>b, <2>1
  <2> QED
    BY <2>2 DEF LogBegins
<1>3. CASE \E victim \in Slots : beginEvict(victim)
  <2>1. /\ call.pc = "space" /\ call'.pc = "evict" /\ call'.path = call.path
    BY <1>3 DEF beginEvict
  <2>2. log' = log
    BY <1>a, <1>b, <2>1
  <2> QED
    BY <2>1, <2>2 DEF LogBegins
<1>4. CASE create
  <2>1. BM!available # 0 /\ call.pc = "create"
    BY <1>4, NewSlotFacts
  <2>2. CASE placeFits
    <3>1. call'.pc = "ready" /\ call'.path = call.path
      BY <1>4, <2>1, <2>2 DEF create
    <3>2. log' = log
      BY <1>a, <1>b, <3>1
    <3> QED
      BY <2>1, <3>1, <3>2 DEF LogBegins
  <2>3. CASE ~ placeFits
    <3>1. log' = <<>> /\ call'.pc = "idle"
      BY <1>4, <1>a, <1>b, <2>1, <2>3 DEF create
    <3> QED
      BY <3>1 DEF LogBegins
  <2> QED
    BY <2>2, <2>3
<1> QED
  BY <1>1, <1>2, <1>3, <1>4 DEF silentStep

LEMMA AppendToOne ==
    ASSUME NEW a, NEW b
    PROVE  Append(<<a>>, b) = <<a, b>>
<1> DEFINE S == {a, b}
<1>1. <<a>> \in Seq(S) /\ <<a, b>> \in Seq(S) /\ b \in S /\ Len(<<a>>) = 1
  OBVIOUS
<1>2. /\ Append(<<a>>, b) \in Seq(S) /\ Len(Append(<<a>>, b)) = 2
      /\ Append(<<a>>, b)[1] = a /\ Append(<<a>>, b)[2] = b
  BY <1>1, AppendProperties
<1>3. Len(<<a, b>>) = 2 /\ <<a, b>>[1] = a /\ <<a, b>>[2] = b
  OBVIOUS
<1>4. \A i \in 1 .. 2 : Append(<<a>>, b)[i] = <<a, b>>[i]
  BY <1>2, <1>3
<1> QED
  BY <1>1, <1>2, <1>3, <1>4, SeqEqual

\* Every step keeps the log of the call in progress in shape.
LEMMA LogNext ==
    ASSUME BaseInv, TierPart, LogBegins, [StreamNext]_evVars
    PROVE  LogBegins'
<1>1. CASE \E p \in Paths : loggedAdmit(p)
  <2>1. PICK p \in Paths : loggedAdmit(p)
    BY <1>1
  <2>2. /\ call'.pc \in {"space", "create"} /\ call'.path = p
        /\ log' = <<E!AdmissionRecord(TRUE, contentHash(p))>>
    BY <2>1 DEF loggedAdmit, admit
  <2> QED
    BY <2>2 DEF LogBegins
<1>2. CASE recordedEvict
  <2> DEFINE admission == E!AdmissionRecord(TRUE, contentHash(call.path))
             d == E!EvictionDecision(call.victim, candidates \cup {call.victim})
  <2>1. /\ call.pc = "evict" /\ call'.pc = "create" /\ call'.path = call.path
        /\ log' = Append(log, d)
    BY <1>2 DEF recordedEvict, finishEvict
  <2>2. log = <<admission>>
    BY <2>1 DEF LogBegins
  <2> HIDE DEF admission, d
  <2>3. log' = <<admission, d>>
    BY <2>1, <2>2, AppendToOne
  <2>4. log' = <<admission, log'[2]>>
    BY <2>3
  <2> QED
    BY <2>1, <2>4 DEF LogBegins, admission
<1>3. CASE \E origin \in {"LocallyComputed", "RemoteFetch"} : recordedReady(origin)
  <2>1. /\ call.pc = "ready" /\ call'.pc = "acquire" /\ call'.path = call.path
        /\ log' = log
    BY <1>3, ReadyEffect DEF recordedReady, ready
  <2> QED
    BY <2>1 DEF LogBegins
<1>4. CASE silentStep
  BY <1>4, LogSilent
<1>5. CASE \E moved \in SUBSET Slots : recordedPromotion(moved) \/ recordedDemotion(moved)
  BY <1>5 DEF recordedPromotion, recordedDemotion, promotionScan, demotionScan, LogBegins
<1>6. CASE silentCall
  <2>1. CASE advanceNs
    BY <1>6, <2>1 DEF silentCall, advanceNs, LogBegins
  <2>2. CASE ~ advanceNs
    <3>1. call.pc = "idle" /\ call'.pc \in {"idle", "lookup"} /\ log' = log
      BY <1>6, <2>2 DEF silentCall, lookupPrefix, getBlock, serveBlockFetch, releaseHandle, Idle
    <3> QED
      BY <3>1 DEF LogBegins
  <2> QED
    BY <2>1, <2>2
<1>7. CASE UNCHANGED evVars
  BY <1>7 DEF evVars, vars, LogBegins
<1> QED
  BY <1>1, <1>2, <1>3, <1>4, <1>5, <1>6, <1>7 DEF StreamNext

\* The steps of the stream that write no event
LEMMA SilentSteps ==
    ASSUME BaseInv, (\E p \in Paths : loggedAdmit(p)) \/ silentStep \/ silentCall
                    \/ UNCHANGED evVars
    PROVE  /\ UNCHANGED view
           /\ \/ QuietStep
              \/ advanceNs \/ UNCHANGED vars
              \/ \E p \in Paths : admit(p)
              \/ \E victim \in Slots : beginEvict(victim)
              \/ create
  BY QuietSteps DEF loggedAdmit, silentStep, silentCall, evVars

\* Every step keeps the view right.
LEMMA ViewNext ==
    ASSUME BaseInv, TierPart, ViewTells, [StreamNext]_evVars
    PROVE  ViewTells'
<1>1. CASE recordedEvict
  BY <1>1, ViewEvict
<1>2. CASE \E origin \in {"LocallyComputed", "RemoteFetch"} : recordedReady(origin)
  BY <1>2, ViewReady
<1>3. CASE \E moved \in SUBSET Slots : recordedPromotion(moved) \/ recordedDemotion(moved)
  BY <1>3, ViewScan
<1>4. CASE (\E p \in Paths : loggedAdmit(p)) \/ silentStep \/ silentCall \/ UNCHANGED evVars
  BY <1>4, SilentSteps, ViewSilent
<1> QED
  BY <1>1, <1>2, <1>3, <1>4 DEF StreamNext

LEMMA StreamNextInv == StreamInv /\ [StreamNext]_evVars => StreamInv'
<1> SUFFICES ASSUME StreamInv, [StreamNext]_evVars
             PROVE  StreamInv'
  OBVIOUS
<1>1. [Next]_vars
  BY StreamStepIsCacheStep
<1> QED
  BY <1>1, BaseNext, TierNext, ViewNext, LogNext, NamesNext DEF StreamInv

-----------------------------------------------------------------------------
(* Theorems *)

THEOREM StreamInvariance == StreamSpec => []StreamInv
<1> QED
  BY StreamInitInv, StreamNextInv, PTL DEF StreamSpec

\* The types of the stream; a call logs at most an admission and an eviction
\* decision.
THEOREM StreamTypeCorrect == StreamSpec => []StreamTypeOK
<1>1. StreamInv => StreamTypeOK
  <2> SUFFICES ASSUME StreamInv
               PROVE  StreamTypeOK
    OBVIOUS
  <2>1. call.pc \in {"idle", "lookup", "space", "evict", "create", "ready", "acquire"}
    BY DEF StreamInv, BaseInv, TypeOK, Calls, Idle
  <2>2. Len(log) <= 2
    <3>1. \A a, b : Len(<<>>) = 0 /\ Len(<<a>>) = 1 /\ Len(<<a, b>>) = 2
      OBVIOUS
    <3>2. Len(log) = 0 \/ Len(log) = 1 \/ Len(log) = 2
      BY <2>1, <3>1 DEF StreamInv, LogBegins
    <3>3. 0 <= 2 /\ 1 <= 2 /\ 2 <= 2
      OBVIOUS
    <3> QED
      BY <3>2, <3>3, Zenon
  <2> QED
    BY <2>2 DEF StreamInv, BaseInv, ViewTells, Known, StreamTypeOK
<1> QED
  BY <1>1, StreamInvariance, PTL

\* Between two calls the snapshot counts what the reader knows.
LEMMA SnapshotAgrees ==
    ASSUME StreamInv, OnlyTheCall, call = Idle
    PROVE  LET known == Cardinality({s \in Slots : view[s] # Absent})
           IN snapshot.used_blocks = known /\ snapshot.ready_blocks = known
<1> DEFINE K == {s \in Slots : view[s] # Absent}
           R == {s \in Slots : records[s].state = "Ready"}
           U == {s \in Slots : records[s].generation > 0 /\ records[s].state # "Free"}
<1>1. \A s \in Slots : records[s].state \in {"Free", "Ready"}
  BY DEF OnlyTheCall, Published, Idle
<1>2. K = R
  <2>1. \A s \in Slots : rec_tier[s] \in TM!Tiers
    BY DEF StreamInv, TierPart, TiersInv, TM!TypeOK
  <2> QED
    BY <1>1, <2>1, TierNames DEF StreamInv, ViewTells
<1>3. U = R
  <2>1. BMP!TypeOK /\ BMP!PoolMatchesStore /\ BMP!GenerationsAgree
    BY DEF StreamInv, BaseInv, BMP!IInv
  <2>2. ASSUME NEW s \in Slots, records[s].state # "Free"
        PROVE  records[s].generation > 0
    BY <2>1, <2>2, Names DEF BMP!PoolMatchesStore, BMP!GenerationsAgree
  <2> QED
    BY <1>1, <2>2
<1> HIDE DEF K, R, U
<1>4. snapshot.used_blocks = Cardinality(U) /\ snapshot.ready_blocks = Cardinality(R)
  BY DEF snapshot, U, R
<1> QED
  BY <1>2, <1>3, <1>4 DEF K

\* Who reads the stream knows where every published block is, for every cache;
\* with a large enough payload store it is also what snapshot says.
THEOREM StreamTells ==
    ASSUME EnoughPayloads
    PROVE  StreamSpec => []StreamTellsResidency
<1>1. StreamInv /\ OnlyTheCall => StreamTellsResidency
  BY SnapshotAgrees DEF StreamInv, ViewTells, StreamTellsResidency
<1>2. StreamInit => OnlyTheCall
  BY Names DEF StreamInit, Init, BM!Init, BM!storeInit, OnlyTheCall
<1>3. StreamInv /\ OnlyTheCall /\ [StreamNext]_evVars => OnlyTheCall'
  BY StreamStepIsCacheStep, OnlyTheCallNext DEF StreamInv
<1> QED
  BY <1>1, <1>2, <1>3, StreamInitInv, StreamNextInv, PTL DEF StreamSpec

\* An admitted block was decided on.
LEMMA ReadyIsExplained ==
    ASSUME StreamInv, NEW origin, recordedReady(origin), NEW s \in Slots
    PROVE  /\ view[s] = Absent /\ view'[s] # Absent =>
                log[1] = E!AdmissionRecord(TRUE, records'[s].hash)
           /\ ~ (view[s] # Absent /\ view'[s] = Absent)
<1>1. call.pc = "ready" /\ BM!transitionState(call.id, "Admitting", "Ready")
  BY DEF recordedReady, ready
<1>2. /\ view' = [view EXCEPT ![call.id] = E!tier_name(rec_tier[call.id])]
      /\ call.id \in Slots /\ view[call.id] = Absent /\ view \in [Slots -> Known]
  BY ViewReady DEF StreamInv, ViewTells
<1>3. records'[call.id].hash = contentHash(call.path)
  <2>1. records[call.id].hash = contentHash(call.path)
    BY <1>1, <1>2 DEF StreamInv, NamesInv
  <2>2. records \in [Slots -> BM!BlockRecord]
    BY Names DEF StreamInv, BaseInv, TypeOK, BM!TypeOK
  <2> QED
    BY <1>1, <1>2, <2>1, <2>2 DEF BM!transitionState, BM!BlockRecord
<1>4. log[1] = E!AdmissionRecord(TRUE, contentHash(call.path))
  <2> DEFINE admission == E!AdmissionRecord(TRUE, contentHash(call.path))
  <2>1. log = <<admission>> \/ log = <<admission, log[2]>>
    BY <1>1 DEF StreamInv, LogBegins
  <2> HIDE DEF admission
  <2>2. log[1] = admission
    BY <2>1
  <2> QED
    BY <2>2 DEF admission
<1> QED
  BY <1>2, <1>3, <1>4

\* An evicted block was chosen among the blocks of its tier.
LEMMA EvictIsExplained ==
    ASSUME StreamInv, recordedEvict, NEW s \in Slots, view[s] # Absent, view'[s] = Absent
    PROVE  LET decision == log'[Len(log')]
           IN /\ decision.chosen_block = s
              /\ s \in decision.candidates
              /\ \A c \in decision.candidates : view[c] = view[s]
<1> DEFINE from == candidates \cup {call.victim}
           d == E!EvictionDecision(call.victim, from)
           admission == E!AdmissionRecord(TRUE, contentHash(call.path))
<1>1. /\ view' = [view EXCEPT ![call.victim] = Absent]
      /\ call.victim \in Slots /\ view \in [Slots -> Known]
  BY ViewEvict DEF StreamInv, ViewTells
<1>2. s = call.victim
  BY <1>1
<1>3. call.pc = "evict" /\ log' = Append(log, d)
  BY DEF recordedEvict, finishEvict
<1>4. log = <<admission>>
  BY <1>3 DEF StreamInv, LogBegins
<1>5. log'[Len(log')] = d
  <2> HIDE DEF admission, d
  <2>1. log' = <<admission, d>>
    BY <1>3, <1>4, AppendToOne
  <2> QED
    BY <2>1
<1>6. d.chosen_block = call.victim /\ d.candidates = from
  BY DEF E!EvictionDecision
<1>7. ASSUME NEW c \in from
      PROVE  view[c] = E!tier_name(call.tier)
  <2>1. c \in Slots /\ records[c].state \in {"Ready", "Evicting"} /\ rec_tier[c] = call.tier
    <3>1. records[call.victim].state = "Evicting" /\ rec_tier[call.victim] = call.tier
      BY <1>3 DEF StreamInv, TierPart, VictimLeaves
    <3> QED
      BY <1>1, <1>7, <3>1 DEF candidates
  <2> QED
    BY <2>1 DEF StreamInv, ViewTells
<1> HIDE DEF d, from
<1>8. call.victim \in from
  BY DEF from
<1> QED
  BY <1>2, <1>5, <1>6, <1>7, <1>8

\* Every change that the stream reports is explained by the decision log.
THEOREM DecisionsExplain == StreamSpec => DecisionsExplainEvents
<1> DEFINE A == \A s \in Slots :
          /\ (view[s] = Absent /\ view'[s] # Absent) =>
                log[1] = E!AdmissionRecord(TRUE, records'[s].hash)
          /\ (view[s] # Absent /\ view'[s] = Absent) =>
                LET decision == log'[Len(log')]
                IN /\ decision.chosen_block = s
                   /\ s \in decision.candidates
                   /\ \A c \in decision.candidates : view[c] = view[s]
<1>1. ASSUME StreamInv, [StreamNext]_evVars
      PROVE  A
  <2>0. BaseInv /\ TierPart /\ ViewTells
    BY <1>1 DEF StreamInv
  <2>1. CASE recordedEvict
    <3>1. \A s \in Slots : view[s] = Absent => view'[s] = Absent
      BY <2>0, <2>1, ViewEvict DEF ViewTells
    <3> QED
      BY <1>1, <2>1, <3>1, EvictIsExplained
  <2>2. CASE \E origin \in {"LocallyComputed", "RemoteFetch"} : recordedReady(origin)
    BY <1>1, <2>2, ReadyIsExplained
  <2>3. CASE \E moved \in SUBSET Slots : recordedPromotion(moved) \/ recordedDemotion(moved)
    <3>1. \A s \in Slots : view[s] = Absent <=> view'[s] = Absent
      BY <2>0, <2>3, ViewScan
    <3> QED
      BY <3>1
  <2>4. CASE (\E p \in Paths : loggedAdmit(p)) \/ silentStep \/ silentCall \/ UNCHANGED evVars
    <3>1. UNCHANGED view
      BY <2>0, <2>4, SilentSteps
    <3> QED
      BY <3>1
  <2> QED
    BY <1>1, <2>1, <2>2, <2>3, <2>4 DEF StreamNext
<1>2. StreamInv /\ [StreamNext]_evVars => [A]_evVars
  BY <1>1
<1> QED
  BY <1>2, StreamInitInv, StreamNextInv, PTL DEF StreamSpec, DecisionsExplainEvents

\* The recording cache is a cache: what it writes does not change what it does,
\* and it uses its three parts as they require.
THEOREM RecordingCacheUsesItsParts ==
    ASSUME PinAncestors, EnoughPayloads
    PROVE  StreamSpec => UsesItsParts
<1>1. StreamInit => IInv /\ BM!Init /\ PM!Init /\ TM!Init
  BY InitIInv DEF StreamInit, Init
<1>2. IInv /\ [StreamNext]_evVars => IInv'
  BY StreamStepIsCacheStep, NextIInv
<1>3. IInv /\ [StreamNext]_evVars =>
         /\ [BM!Next]_(BM!bmVars)
         /\ [PM!Next]_(PM!pmVars)
         /\ [TM!Next]_(TM!tmVars)
  <2> SUFFICES ASSUME IInv, [StreamNext]_evVars
               PROVE  /\ [BM!Next]_(BM!bmVars)
                      /\ [PM!Next]_(PM!pmVars)
                      /\ [TM!Next]_(TM!tmVars)
    OBVIOUS
  <2>1. [Next]_vars
    BY StreamStepIsCacheStep
  <2>2. BaseInv /\ TierPart
    BY DEF IInv
  <2>3. [BM!Next]_bmVars
    BY <2>1, <2>2, StepOfBlockManager DEF BaseInv, vars, bmVars
  <2>4. [PM!Next]_pmVars /\ [TM!Next]_tmVars
    BY <2>1, <2>2, StepOfPrefixMap, StepOfTierManager
  <2> QED
    BY <2>3, <2>4 DEF bmVars, pmVars, tmVars, BM!bmVars, PM!pmVars, TM!tmVars
<1> QED
  BY <1>1, <1>2, <1>3, PTL DEF StreamSpec, UsesItsParts, UsesBlockManager, UsesPrefixMap,
     UsesTierManager, BM!Spec, PM!Spec, TM!Spec

\* The recording cache implements the cache, its fairness aside.
THEOREM StreamImplementsCache == StreamSpec => Init /\ [][Next]_vars
<1>1. StreamInit => Init
  BY DEF StreamInit
<1> QED
  BY <1>1, StreamStepIsCacheStep, PTL DEF StreamSpec

=============================================================================
