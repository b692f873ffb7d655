--------------------------- MODULE ClusterProofs ---------------------------
(***************************************************************************)
(* Proofs about Cluster, from the proofs about its workers and about the   *)
(* coordinator, for every pool size, workload and eviction policy, and     *)
(* about Bench on top of them.                                             *)
(*                                                                         *)
(* First the request that ties the parts together: which call it has in    *)
(* progress, for which block, and which block it is about to announce      *)
(* (ReqInv).  Every step of the cluster keeps this, is a step that the two *)
(* caches allow, and tells the coordinator nothing wrong (EveryStep).  So  *)
(* what LocalCacheProofs and CoordinatorProofs prove holds of the parts in *)
(* the cluster, and the theorems follow.                                   *)
(*                                                                         *)
(* Then what a step does to both workers at once, in terms of the worker   *)
(* it is about (the views), from which come the invariants: what the       *)
(* benchmark's counters have to do with its requests and caches            *)
(* (BenchPart), and what a request finds and fetches as long as nothing    *)
(* was evicted (Unevicted).  Last, what it finds when all requests share a *)
(* prompt, whatever was evicted (SharedPart).                              *)
(***************************************************************************)
EXTENDS Bench, SequenceTheorems, FiniteSetTheorems, TLAPS

-----------------------------------------------------------------------------
(* The request in progress *)

Running == Requests \ {NoRequest}

\* Its numbers stay within its path.
InRange ==
    req \in Running =>
        /\ req.local + req.fetched <= Len(req.path)
        /\ req.pc \in {"remote", "computed"} => req.at >= 1
        /\ req.pc = "lookup" =>
              /\ req.fetched = 0
              /\ callOf(req.node).pc = "lookup"
              /\ req.local + Len(callOf(req.node).todo) <= Len(req.path)

\* The block that it is about to announce was created for its prefix.
ToAnnounce ==
    req.pc = "announce" =>
        /\ req.slot \in Slots /\ req.at \in 1 .. Len(req.path)
        /\ recordsOf(req.node)[req.slot].generation # 0
        /\ kvOf(req.node)[req.slot] = Path(req.at)

\* The one call in progress is its own: a lookup, or the admission of the block it
\* is at.
OneCall ==
    \A node \in Nodes : callOf(node) # A!Idle =>
        /\ req \in Running /\ req.node = node
        /\ \/ req.pc = "lookup" /\ callOf(node).pc = "lookup"
           \/ /\ req.pc \in {"remote", "computed"}
              /\ callOf(node).pc \in {"space", "evict", "create", "ready", "acquire"}
              /\ req.at \in 1 .. Len(req.path)
              /\ callOf(node).path = Path(req.at)

ReqInv ==
    /\ req \in Requests
    /\ requests \in 0 .. Len(Workload)
    /\ InRange
    /\ ToAnnounce
    /\ OneCall

LEMMA RunningFacts ==
    ASSUME req \in Running
    PROVE  /\ req \in [pc : {"lookup", "resolve", "remote", "computed", "announce"},
                       node : Nodes, path : Paths, local : Nat, fetched : Nat, at : Nat,
                       reusable : Seq(Slots), slot : Slots \cup {NoSlot},
                       failed : C!GlobalBlockRef \cup {NoRef}]
           /\ Len(req.path) \in Nat \ {0}
           /\ \A i \in 1 .. Len(req.path) : Path(i) \in Paths /\ HashOf(i) \in Hashes
<1>1. req \in [pc : {"lookup", "resolve", "remote", "computed", "announce"},
               node : Nodes, path : Paths, local : Nat, fetched : Nat, at : Nat,
               reusable : Seq(Slots), slot : Slots \cup {NoSlot},
               failed : C!GlobalBlockRef \cup {NoRef}]
  BY DEF Running, Requests
<1>2. req.path \in Paths
  BY <1>1
<1>3. Len(req.path) \in Nat \ {0}
  <2>1. Len(req.path) > 0 /\ req.path \in Seq(UNION {{p[i] : i \in 1 .. Len(p)} : p \in Paths})
    BY <1>2, PathsAssumption
  <2> QED
    BY <2>1, LenProperties
<1> QED
  BY <1>1, <1>2, <1>3, PathsAssumption DEF Path, HashOf, Hashes

-----------------------------------------------------------------------------
(* What the request needs to know of the workers and of the coordinator *)

LEMMA GenerationBound == MaxGeneration \in Nat
<1>1. Cardinality(Paths) \in Nat /\ Len(Workload) \in Nat
  BY WorkloadAssumption, FS_CardinalityType
<1> QED
  BY <1>1 DEF MaxGeneration

\* A slot that was ever used holds the block of one prefix, with its hash; so does
\* the slot that an admission has created its block in.
WorkersInv ==
    \A node \in Nodes :
        /\ callOf(node) \in A!Calls
        /\ \A s \in Slots :
              /\ recordsOf(node)[s].generation \in 0 .. MaxGeneration
              /\ recordsOf(node)[s].generation # 0 =>
                    /\ kvOf(node)[s] \in Paths
                    /\ recordsOf(node)[s].hash = A!contentHash(kvOf(node)[s])
        /\ callOf(node).pc \in {"ready", "acquire"} =>
              /\ callOf(node).id \in Slots
              /\ recordsOf(node)[callOf(node).id].generation # 0
              /\ kvOf(node)[callOf(node).id] = callOf(node).path
        /\ \A p \in Paths : /\ found(node, p) \in Seq(Slots)
                            /\ Len(found(node, p)) \in 0 .. Len(p)

PartsInv == WorkersInv /\ C!TypeOK /\ ReqInv

\* The reference that a request follows next
LEMMA ChosenFacts ==
    ASSUME C!TypeOK, ReqInv, req.pc = "resolve", replicas # <<>>
    PROVE  /\ req \in Running
           /\ missing \in 1 .. Len(req.path) /\ missing = req.local + req.fetched + 1
           /\ chosen \in C!GlobalBlockRef
           /\ chosen \in C!Elements(index[HashOf(missing)])
<1>1. req \in Running
  BY DEF ReqInv, Running, NoRequest
<1>2. missing = req.local + req.fetched + 1 /\ missing <= Len(req.path)
      /\ replicas = index[HashOf(missing)]
  BY <1>1, RunningFacts DEF replicas, missing, C!query
<1>3. missing \in 1 .. Len(req.path)
  BY <1>1, <1>2, RunningFacts
<1>4. index[HashOf(missing)] \in Seq(C!GlobalBlockRef)
  BY <1>1, <1>3, RunningFacts DEF C!TypeOK
<1> QED
  BY <1>1, <1>2, <1>3, <1>4 DEF chosen, C!Elements

-----------------------------------------------------------------------------
(* What the steps of one worker do to the request's view of the workers *)

CacheSteps == [A!Next]_(A!vars) /\ [B!Next]_(B!vars)
OthersStay(node) ==
    \A other \in Nodes \ {node} : UNCHANGED <<callOf(other), recordsOf(other), kvOf(other)>>

AdmitSteps(node) ==
    At(node,
       \/ A!insufficientCandidates
       \/ \E victim \in Slots : A!beginEvict(victim)
       \/ A!finishEvict \/ A!create \/ A!ready,
       \/ B!insufficientCandidates
       \/ \E victim \in Slots : B!beginEvict(victim)
       \/ B!finishEvict \/ B!create \/ B!ready)

\* The fields that a call has
LEMMA CallFields ==
    ASSUME NEW c \in A!Calls
    PROVE  /\ c = A!Idle <=> c.pc = "idle"
           /\ c.pc = "lookup" =>
                 /\ c = [pc |-> "lookup", todo |-> c.todo]
                 /\ c.todo \in Seq(Slots) /\ c.todo # <<>>
           /\ c.pc \in {"ready", "acquire"} => c = [pc |-> c.pc, path |-> c.path, id |-> c.id]
<1>1. CASE c = A!Idle
  BY <1>1 DEF A!Idle
<1>2. CASE c \in [pc : {"lookup"}, todo : Seq(Slots) \ {<<>>}]
  BY <1>2 DEF A!Idle
<1>3. CASE c.pc \in {"space", "create", "evict"}
  BY <1>3 DEF A!Idle
<1>4. CASE c \in [pc : {"ready", "acquire"}, path : Paths, id : Slots]
  BY <1>4 DEF A!Idle
<1> QED
  BY <1>1, <1>2, <1>3, <1>4 DEF A!Calls, A!Slots, Slots

\* A worker that stands still, and the views of a worker
LEMMA Standing ==
    /\ UNCHANGED aVars => UNCHANGED A!vars /\ UNCHANGED <<a_call, a_records, a_kv>>
    /\ UNCHANGED bVars => UNCHANGED B!vars /\ UNCHANGED <<b_call, b_records, b_kv>>
    /\ \A node \in Nodes :
          /\ node = "a" => /\ callOf(node) = a_call /\ callOf(node)' = a_call'
                           /\ recordsOf(node) = a_records /\ recordsOf(node)' = a_records'
                           /\ kvOf(node) = a_kv /\ kvOf(node)' = a_kv'
          /\ node = "b" => /\ callOf(node) = b_call /\ callOf(node)' = b_call'
                           /\ recordsOf(node) = b_records /\ recordsOf(node)' = b_records'
                           /\ kvOf(node) = b_kv /\ kvOf(node)' = b_kv'
    /\ Nodes = {"a", "b"} /\ B!Idle = A!Idle
<1>1. UNCHANGED aVars => UNCHANGED A!vars /\ UNCHANGED <<a_call, a_records, a_kv>>
  BY DEF aVars, A!vars
<1>2. UNCHANGED bVars => UNCHANGED B!vars /\ UNCHANGED <<b_call, b_records, b_kv>>
  BY DEF bVars, B!vars
<1> QED
  BY <1>1, <1>2 DEF callOf, recordsOf, kvOf, Of, Nodes, A!Idle, B!Idle

LEMMA StepEffects ==
    ASSUME WorkersInv, NEW node \in Nodes
    PROVE  /\ \A p \in Paths : At(node, A!lookupPrefix(p), B!lookupPrefix(p)) =>
                 /\ CacheSteps /\ OthersStay(node)
                 /\ callOf(node) = A!Idle /\ found(node, p) # <<>>
                 /\ callOf(node)' = [pc |-> "lookup", todo |-> found(node, p)]
           /\ At(node, A!lookupStep, B!lookupStep) =>
                 /\ CacheSteps /\ OthersStay(node)
                 /\ callOf(node).pc = "lookup"
                 /\ \/ callOf(node)' = A!Idle
                    \/ /\ Len(callOf(node).todo) # 1
                       /\ callOf(node)' = [pc |-> "lookup", todo |-> Tail(callOf(node).todo)]
           /\ \A s \in Slots, g \in 1 .. MaxGeneration :
                 At(node, A!serveBlockFetch(s, g), B!serveBlockFetch(s, g)) =>
                    CacheSteps /\ OthersStay(node) /\ UNCHANGED callOf(node)
           /\ \A p \in Paths : At(node, A!admit(p), B!admit(p)) =>
                 /\ CacheSteps /\ OthersStay(node)
                 /\ callOf(node) = A!Idle
                 /\ callOf(node)'.pc \in {"space", "create"} /\ callOf(node)'.path = p
           /\ AdmitSteps(node) =>
                 /\ CacheSteps /\ OthersStay(node)
                 /\ callOf(node).pc \in {"space", "evict", "create", "ready"}
                 /\ \/ callOf(node)' = A!Idle
                    \/ /\ callOf(node)'.pc \in {"evict", "create", "ready", "acquire"}
                       /\ callOf(node)'.path = callOf(node).path
           /\ At(node, A!admitted, B!admitted) =>
                 /\ CacheSteps /\ OthersStay(node)
                 /\ callOf(node).pc = "acquire" /\ callOf(node)' = A!Idle
                 /\ UNCHANGED kvOf(node)
           /\ \A h \in Handles : At(node, A!releaseHandle(h), B!releaseHandle(h)) =>
                 CacheSteps /\ OthersStay(node) /\ UNCHANGED callOf(node)
<1>1. callOf(node) \in A!Calls
  BY DEF WorkersInv
<1>2. /\ callOf(node).pc = "lookup" =>
            callOf(node) = [pc |-> "lookup", todo |-> callOf(node).todo]
      /\ callOf(node).pc = "ready" =>
            callOf(node) = [pc |-> "ready", path |-> callOf(node).path, id |-> callOf(node).id]
  BY <1>1, CallFields
<1>3. CASE node = "a"
  <2>0. /\ \A other \in Nodes \ {node} : other = "b"
        /\ callOf(node) = a_call /\ callOf(node)' = a_call'
        /\ kvOf(node) = a_kv /\ kvOf(node)' = a_kv'
    BY <1>3, Standing
  <2>1. UNCHANGED bVars => UNCHANGED B!vars /\ OthersStay(node)
    BY <2>0, Standing DEF OthersStay
  <2>2. \A p : found(node, p) = A!PM!lookup(p)
    BY <1>3 DEF found, Of
  <2>3. ASSUME NEW p \in Paths, At(node, A!lookupPrefix(p), B!lookupPrefix(p))
        PROVE  /\ CacheSteps /\ OthersStay(node)
               /\ callOf(node) = A!Idle /\ found(node, p) # <<>>
               /\ callOf(node)' = [pc |-> "lookup", todo |-> found(node, p)]
    <3>1. A!lookupPrefix(p) /\ UNCHANGED bVars
      BY <1>3, <2>3 DEF At
    <3> QED
      BY <2>0, <2>1, <2>2, <3>1, Standing DEF CacheSteps, A!Next, A!lookupPrefix
  <2>4. ASSUME At(node, A!lookupStep, B!lookupStep)
        PROVE  /\ CacheSteps /\ OthersStay(node)
               /\ callOf(node).pc = "lookup"
               /\ \/ callOf(node)' = A!Idle
                  \/ /\ Len(callOf(node).todo) # 1
                     /\ callOf(node)' = [pc |-> "lookup", todo |-> Tail(callOf(node).todo)]
    <3>1. A!lookupStep /\ UNCHANGED bVars
      BY <1>3, <2>4 DEF At
    <3>2. a_call.pc = "lookup"
      BY <3>1 DEF A!lookupStep
    <3>3. a_call = [pc |-> "lookup", todo |-> a_call.todo]
      BY <1>2, <2>0, <3>2
    <3>4. \/ a_call' = A!Idle
          \/ /\ Len(a_call.todo) # 1
             /\ a_call' = [pc |-> "lookup", todo |-> Tail(a_call.todo)]
      BY <3>1, <3>3 DEF A!lookupStep
    <3> QED
      BY <2>0, <2>1, <3>1, <3>2, <3>4, Standing DEF CacheSteps, A!Next, A!callStep
  <2>5. ASSUME NEW s \in Slots, NEW g \in 1 .. MaxGeneration,
               At(node, A!serveBlockFetch(s, g), B!serveBlockFetch(s, g))
        PROVE  CacheSteps /\ OthersStay(node) /\ UNCHANGED callOf(node)
    <3>1. A!serveBlockFetch(s, g) /\ UNCHANGED bVars
      BY <1>3, <2>5 DEF At
    <3> QED
      BY <2>0, <2>1, <3>1 DEF CacheSteps, A!Next, A!serveBlockFetch, A!Slots, Slots
  <2>6. ASSUME NEW p \in Paths, At(node, A!admit(p), B!admit(p))
        PROVE  /\ CacheSteps /\ OthersStay(node)
               /\ callOf(node) = A!Idle
               /\ callOf(node)'.pc \in {"space", "create"} /\ callOf(node)'.path = p
    <3>1. A!admit(p) /\ UNCHANGED bVars
      BY <1>3, <2>6 DEF At
    <3> QED
      BY <2>0, <2>1, <3>1, Standing DEF CacheSteps, A!Next, A!admit
  <2>7. ASSUME AdmitSteps(node)
        PROVE  /\ CacheSteps /\ OthersStay(node)
               /\ callOf(node).pc \in {"space", "evict", "create", "ready"}
               /\ \/ callOf(node)' = A!Idle
                  \/ /\ callOf(node)'.pc \in {"evict", "create", "ready", "acquire"}
                     /\ callOf(node)'.path = callOf(node).path
    <3>1. /\ \/ A!insufficientCandidates
             \/ \E victim \in Slots : A!beginEvict(victim)
             \/ A!finishEvict \/ A!create \/ A!ready
          /\ UNCHANGED bVars
      BY <1>3, <2>7 DEF AdmitSteps, At
    <3>2. A!Next
      BY <3>1 DEF A!Next, A!callStep, A!Slots, Slots
    <3>3. A!ready =>
             /\ a_call.pc = "ready"
             /\ a_call' = [pc |-> "acquire", path |-> a_call.path, id |-> a_call.id]
      BY <1>2, <2>0 DEF A!ready
    <3>4. /\ a_call.pc \in {"space", "evict", "create", "ready"}
          /\ \/ a_call' = A!Idle
             \/ /\ a_call'.pc \in {"evict", "create", "ready", "acquire"}
                /\ a_call'.path = a_call.path
      BY <3>1, <3>3, Standing DEF A!insufficientCandidates, A!beginEvict, A!finishEvict, A!create
    <3> QED
      BY <2>0, <2>1, <3>1, <3>2, <3>4 DEF CacheSteps
  <2>8. ASSUME At(node, A!admitted, B!admitted)
        PROVE  /\ CacheSteps /\ OthersStay(node)
               /\ callOf(node).pc = "acquire" /\ callOf(node)' = A!Idle
               /\ UNCHANGED kvOf(node)
    <3>1. A!admitted /\ UNCHANGED bVars
      BY <1>3, <2>8 DEF At
    <3> QED
      BY <2>0, <2>1, <3>1, Standing DEF CacheSteps, A!Next, A!callStep, A!admitted
  <2>9. ASSUME NEW h \in Handles, At(node, A!releaseHandle(h), B!releaseHandle(h))
        PROVE  CacheSteps /\ OthersStay(node) /\ UNCHANGED callOf(node)
    <3>1. A!releaseHandle(h) /\ UNCHANGED bVars
      BY <1>3, <2>9 DEF At
    <3> QED
      BY <2>0, <2>1, <3>1 DEF CacheSteps, A!Next, A!releaseHandle
  <2> QED
    BY <2>3, <2>4, <2>5, <2>6, <2>7, <2>8, <2>9
<1>4. CASE node = "b"
  <2>0. /\ \A other \in Nodes \ {node} : other = "a"
        /\ callOf(node) = b_call /\ callOf(node)' = b_call'
        /\ kvOf(node) = b_kv /\ kvOf(node)' = b_kv'
    BY <1>4, Standing
  <2>1. UNCHANGED aVars => UNCHANGED A!vars /\ OthersStay(node)
    BY <2>0, Standing DEF OthersStay
  <2>2. \A p : found(node, p) = B!PM!lookup(p)
    BY <1>4 DEF found, Of
  <2>3. ASSUME NEW p \in Paths, At(node, A!lookupPrefix(p), B!lookupPrefix(p))
        PROVE  /\ CacheSteps /\ OthersStay(node)
               /\ callOf(node) = A!Idle /\ found(node, p) # <<>>
               /\ callOf(node)' = [pc |-> "lookup", todo |-> found(node, p)]
    <3>1. B!lookupPrefix(p) /\ UNCHANGED aVars
      BY <1>4, <2>3 DEF At
    <3> QED
      BY <2>0, <2>1, <2>2, <3>1, Standing DEF CacheSteps, B!Next, B!lookupPrefix
  <2>4. ASSUME At(node, A!lookupStep, B!lookupStep)
        PROVE  /\ CacheSteps /\ OthersStay(node)
               /\ callOf(node).pc = "lookup"
               /\ \/ callOf(node)' = A!Idle
                  \/ /\ Len(callOf(node).todo) # 1
                     /\ callOf(node)' = [pc |-> "lookup", todo |-> Tail(callOf(node).todo)]
    <3>1. B!lookupStep /\ UNCHANGED aVars
      BY <1>4, <2>4 DEF At
    <3>2. b_call.pc = "lookup"
      BY <3>1 DEF B!lookupStep
    <3>3. b_call = [pc |-> "lookup", todo |-> b_call.todo]
      BY <1>2, <2>0, <3>2
    <3>4. \/ b_call' = B!Idle
          \/ /\ Len(b_call.todo) # 1
             /\ b_call' = [pc |-> "lookup", todo |-> Tail(b_call.todo)]
      BY <3>1, <3>3 DEF B!lookupStep
    <3> QED
      BY <2>0, <2>1, <3>1, <3>2, <3>4, Standing DEF CacheSteps, B!Next, B!callStep
  <2>5. ASSUME NEW s \in Slots, NEW g \in 1 .. MaxGeneration,
               At(node, A!serveBlockFetch(s, g), B!serveBlockFetch(s, g))
        PROVE  CacheSteps /\ OthersStay(node) /\ UNCHANGED callOf(node)
    <3>1. B!serveBlockFetch(s, g) /\ UNCHANGED aVars
      BY <1>4, <2>5 DEF At
    <3> QED
      BY <2>0, <2>1, <3>1 DEF CacheSteps, B!Next, B!serveBlockFetch, B!Slots, Slots
  <2>6. ASSUME NEW p \in Paths, At(node, A!admit(p), B!admit(p))
        PROVE  /\ CacheSteps /\ OthersStay(node)
               /\ callOf(node) = A!Idle
               /\ callOf(node)'.pc \in {"space", "create"} /\ callOf(node)'.path = p
    <3>1. B!admit(p) /\ UNCHANGED aVars
      BY <1>4, <2>6 DEF At
    <3> QED
      BY <2>0, <2>1, <3>1, Standing DEF CacheSteps, B!Next, B!admit
  <2>7. ASSUME AdmitSteps(node)
        PROVE  /\ CacheSteps /\ OthersStay(node)
               /\ callOf(node).pc \in {"space", "evict", "create", "ready"}
               /\ \/ callOf(node)' = A!Idle
                  \/ /\ callOf(node)'.pc \in {"evict", "create", "ready", "acquire"}
                     /\ callOf(node)'.path = callOf(node).path
    <3>1. /\ \/ B!insufficientCandidates
             \/ \E victim \in Slots : B!beginEvict(victim)
             \/ B!finishEvict \/ B!create \/ B!ready
          /\ UNCHANGED aVars
      BY <1>4, <2>7 DEF AdmitSteps, At
    <3>2. B!Next
      BY <3>1 DEF B!Next, B!callStep, B!Slots, Slots
    <3>3. B!ready =>
             /\ b_call.pc = "ready"
             /\ b_call' = [pc |-> "acquire", path |-> b_call.path, id |-> b_call.id]
      BY <1>2, <2>0 DEF B!ready
    <3>4. /\ b_call.pc \in {"space", "evict", "create", "ready"}
          /\ \/ b_call' = A!Idle
             \/ /\ b_call'.pc \in {"evict", "create", "ready", "acquire"}
                /\ b_call'.path = b_call.path
      BY <3>1, <3>3, Standing DEF B!insufficientCandidates, B!beginEvict, B!finishEvict, B!create
    <3> QED
      BY <2>0, <2>1, <3>1, <3>2, <3>4 DEF CacheSteps
  <2>8. ASSUME At(node, A!admitted, B!admitted)
        PROVE  /\ CacheSteps /\ OthersStay(node)
               /\ callOf(node).pc = "acquire" /\ callOf(node)' = A!Idle
               /\ UNCHANGED kvOf(node)
    <3>1. B!admitted /\ UNCHANGED aVars
      BY <1>4, <2>8 DEF At
    <3> QED
      BY <2>0, <2>1, <3>1, Standing DEF CacheSteps, B!Next, B!callStep, B!admitted
  <2>9. ASSUME NEW h \in Handles, At(node, A!releaseHandle(h), B!releaseHandle(h))
        PROVE  CacheSteps /\ OthersStay(node) /\ UNCHANGED callOf(node)
    <3>1. B!releaseHandle(h) /\ UNCHANGED aVars
      BY <1>4, <2>9 DEF At
    <3> QED
      BY <2>0, <2>1, <3>1 DEF CacheSteps, B!Next, B!releaseHandle
  <2> QED
    BY <2>3, <2>4, <2>5, <2>6, <2>7, <2>8, <2>9
<1> QED
  BY <1>3, <1>4, Standing

-----------------------------------------------------------------------------
(* The steps of the cluster *)

\* The reference is to the block it was announced for, or to one that is gone.
NamesItsBlock(hash, ref) ==
    LET rec == recordsOf(ref.node_id)[ref.block_id]
    IN /\ ref.generation <= rec.generation
       /\ ref.generation = rec.generation => rec.hash = hash

\* What a step does to the coordinator: what comes to the index names its block.
CoordStep ==
    \/ UNCHANGED coordVars
    \/ \E node \in Nodes : C!nodeJoin(node) \/ C!nodeLeave(node)
    \/ \E ref \in C!GlobalBlockRef : C!invalidate(ref)
    \/ \E hash \in Hashes, ref \in C!GlobalBlockRef :
          C!announce(hash, ref) /\ NamesItsBlock(hash, ref)

GoodStep == CacheSteps /\ ReqInv' /\ CoordStep

\* No slot of a worker becomes another block without a later generation.
NamesKept(before, after) ==
    \A s \in Slots :
        \/ after[s].generation > before[s].generation
        \/ after[s].generation = before[s].generation /\ after[s].hash = before[s].hash
WorkersKeepNames ==
    CacheSteps => \A node \in Nodes : NamesKept(recordsOf(node), recordsOf(node)')

\* A step that leaves the workers alone
LEMMA QuietSteps ==
    ASSUME UNCHANGED <<aVars, bVars>>
    PROVE  CacheSteps /\ \A node \in Nodes : UNCHANGED <<callOf(node), recordsOf(node), kvOf(node)>>
  BY Standing DEF CacheSteps

\* When no call is in progress
LEMMA AllIdle ==
    ASSUME ReqInv,
           req = NoRequest \/ req.pc \in {"resolve", "announce"} \/ Admitting
    PROVE  \A node \in Nodes : callOf(node) = A!Idle
  BY DEF ReqInv, OneCall, Admitting, Running

LEMMA IdleReqInv ==
    ASSUME \A node \in Nodes : callOf(node)' = A!Idle,
           req' = NoRequest
             \/ /\ req' \in Running
                /\ req'.local + req'.fetched <= Len(req'.path)
                /\ req'.pc \in {"resolve", "remote", "computed"}
                /\ req'.pc \in {"remote", "computed"} => req'.at >= 1,
           requests' \in 0 .. Len(Workload)
    PROVE  ReqInv'
<1>1. OneCall'
  BY DEF OneCall
<1>2. req' \in Requests /\ req'.pc # "lookup" /\ req'.pc # "announce" /\ NoRequest.pc = "none"
  BY DEF Running, Requests, NoRequest
<1> QED
  BY <1>1, <1>2 DEF ReqInv, InRange, ToAnnounce, Running

LEMMA RouteStep ==
    ASSUME PartsInv, NEW node \in Nodes, NEW p \in Paths, route(node, p)
    PROVE  GoodStep
<1>1. /\ req = NoRequest
      /\ requests' \in 0 .. Len(Workload)
      /\ req' = [pc |-> IF found(node, p) = <<>> THEN "resolve" ELSE "lookup",
                 node |-> node, path |-> p, local |-> 0, fetched |-> 0, at |-> 0,
                 reusable |-> <<>>, slot |-> NoSlot, failed |-> NoRef]
      /\ UNCHANGED coordVars
  <2>1. Len(Workload) \in Nat
    BY WorkloadAssumption
  <2> QED
    BY <2>1 DEF route, PartsInv, ReqInv
<1>2. \A other \in Nodes : callOf(other) = A!Idle
  BY <1>1, AllIdle DEF PartsInv
<1>3. req' \in Running
  <2>1. <<>> \in Seq(Slots)
    BY EmptySeq
  <2>2. req' # NoRequest
    BY <1>1 DEF NoRequest
  <2> QED
    BY <1>1, <2>1, <2>2 DEF Running, Requests
<1>4. Len(p) \in Nat \ {0}
  <2>1. Len(p) > 0 /\ p \in Seq(UNION {{q[i] : i \in 1 .. Len(q)} : q \in Paths})
    BY PathsAssumption
  <2> QED
    BY <2>1, LenProperties
<1>5. CASE found(node, p) = <<>>
  <2>1. CacheSteps /\ \A other \in Nodes : callOf(other)' = A!Idle
    BY <1>2, <1>5, QuietSteps DEF route
  <2>2. ReqInv'
    BY <1>1, <1>3, <1>4, <1>5, <2>1, IdleReqInv
  <2> QED
    BY <1>1, <2>1, <2>2 DEF GoodStep, CoordStep
<1>6. CASE found(node, p) # <<>>
  <2>1. /\ CacheSteps /\ OthersStay(node)
        /\ callOf(node)' = [pc |-> "lookup", todo |-> found(node, p)]
    BY <1>6, StepEffects DEF route, PartsInv
  <2>2. \A other \in Nodes \ {node} : callOf(other)' = A!Idle
    BY <1>2, <2>1 DEF OthersStay
  <2>3. Len(found(node, p)) \in 0 .. Len(p)
    BY DEF PartsInv, WorkersInv
  <2>4. req'.pc = "lookup" /\ req'.node = node /\ req'.path = p /\ req'.local = 0
        /\ req'.fetched = 0
    BY <1>1, <1>6
  <2>5. OneCall'
    BY <1>3, <2>1, <2>2, <2>4 DEF OneCall
  <2>6. callOf(node)'.pc = "lookup" /\ callOf(node)'.todo = found(node, p)
    BY <2>1
  <2>7. InRange'
    BY <1>4, <2>3, <2>4, <2>6 DEF InRange, callOf, Of
  <2> QED
    BY <1>1, <1>3, <2>1, <2>4, <2>5, <2>7
       DEF GoodStep, CoordStep, ReqInv, ToAnnounce, Running
<1> QED
  BY <1>5, <1>6

LEMMA LookupStep ==
    ASSUME PartsInv, lookupStep
    PROVE  GoodStep
<1>1. PICK node \in Nodes : node = req.node
  BY RunningFacts DEF PartsInv, ReqInv, lookupStep, Running, NoRequest
<1>2. req \in Running /\ req.pc = "lookup"
  BY DEF PartsInv, ReqInv, lookupStep, Running, NoRequest
<1>3. /\ CacheSteps /\ OthersStay(node)
      /\ callOf(node).pc = "lookup"
      /\ \/ callOf(node)' = A!Idle
         \/ /\ Len(callOf(node).todo) # 1
            /\ callOf(node)' = [pc |-> "lookup", todo |-> Tail(callOf(node).todo)]
  BY <1>1, StepEffects DEF lookupStep, PartsInv
<1>4. callOf(node).todo \in Seq(Slots) /\ callOf(node).todo # <<>>
  BY <1>3, CallFields DEF PartsInv, WorkersInv
<1>5. /\ Len(callOf(node).todo) \in Nat \ {0} /\ Head(callOf(node).todo) \in Slots
      /\ Len(Tail(callOf(node).todo)) = Len(callOf(node).todo) - 1
  BY <1>4, HeadTailProperties, EmptySeq, LenProperties
<1>6. /\ req.local + Len(callOf(node).todo) <= Len(req.path) /\ req.fetched = 0
  BY <1>1, <1>2 DEF PartsInv, ReqInv, InRange
<1>7. /\ req' \in Running /\ req'.node = node /\ req'.path = req.path /\ req'.fetched = 0
      /\ req'.local \in {req.local, req.local + 1}
      /\ req'.pc = IF callOf(node)' = A!Idle THEN "resolve" ELSE "lookup"
      /\ UNCHANGED <<coordVars, requests>>
  <2> DEFINE slot == Head(callOf(node).todo)
             hit  == Of(node, A!BM!Acquirable(slot), B!BM!Acquirable(slot))
             pc1  == IF callOf(node)' = A!Idle THEN "resolve" ELSE "lookup"
             local1 == IF hit THEN req.local + 1 ELSE req.local
             reusable1 == IF hit THEN Append(req.reusable, slot) ELSE req.reusable
  <2>1. CallEnds <=> callOf(node)' = A!Idle
    BY <1>1, Standing DEF CallEnds, Of
  <2>2. req' = [req EXCEPT !.pc = pc1, !.local = local1, !.reusable = reusable1]
    BY <1>1, <2>1 DEF lookupStep
  <2>3. /\ local1 \in Nat /\ local1 \in {req.local, req.local + 1}
        /\ reusable1 \in Seq(Slots) /\ pc1 \in {"lookup", "resolve"}
    BY <1>2, <1>5, RunningFacts
  <2> HIDE DEF slot, hit, local1, reusable1
  <2>4. req' \in Requests /\ req' # NoRequest
    BY <1>2, <2>2, <2>3, RunningFacts DEF Requests, NoRequest
  <2> QED
    BY <1>1, <1>2, <1>6, <2>2, <2>3, <2>4, RunningFacts DEF Running, lookupStep
<1>8. CASE callOf(node)' = A!Idle
  <2>1. \A other \in Nodes : callOf(other)' = A!Idle
    BY <1>1, <1>2, <1>3, <1>8 DEF OthersStay, PartsInv, ReqInv, OneCall
  <2>2. ReqInv'
    BY <1>2, <1>5, <1>6, <1>7, <1>8, <2>1, RunningFacts, IdleReqInv DEF PartsInv, ReqInv
  <2> QED
    BY <1>3, <1>7, <2>2 DEF GoodStep, CoordStep
<1>9. CASE callOf(node)' = [pc |-> "lookup", todo |-> Tail(callOf(node).todo)]
  <2>1. \A other \in Nodes \ {node} : callOf(other)' = A!Idle
    BY <1>1, <1>2, <1>3 DEF OthersStay, PartsInv, ReqInv, OneCall
  <2>2. /\ callOf(node)'.pc = "lookup" /\ callOf(node)'.todo = Tail(callOf(node).todo)
        /\ req'.pc = "lookup"
    BY <1>7, <1>9 DEF A!Idle
  <2>3. OneCall'
    BY <1>7, <2>1, <2>2, Standing DEF OneCall
  <2>4. /\ req'.local + Len(Tail(callOf(node).todo)) <= Len(req'.path)
        /\ req'.local + req'.fetched <= Len(req'.path)
    BY <1>2, <1>5, <1>6, <1>7, RunningFacts
  <2>5. callOf(req.node)' = callOf(node)'
    BY <1>7 DEF callOf, Of
  <2>6. InRange'
    BY <1>7, <2>2, <2>4, <2>5 DEF InRange
  <2> QED
    BY <1>3, <1>7, <2>2, <2>3, <2>6
       DEF GoodStep, CoordStep, PartsInv, ReqInv, ToAnnounce, Running
<1> QED
  BY <1>3, <1>8, <1>9

\* What the assignments of a request step leave of the request
LEMMA MovedTo ==
    ASSUME req \in Running, NEW pc \in {"remote", "computed"}, NEW at \in Nat,
           req' = [req EXCEPT !.pc = pc, !.at = at]
    PROVE  /\ req' \in Running /\ req'.pc = pc /\ req'.at = at
           /\ req'.local = req.local /\ req'.fetched = req.fetched
           /\ req'.path = req.path /\ req'.node = req.node
<1>1. req' \in Requests /\ req' # NoRequest
  BY RunningFacts DEF Requests, NoRequest
<1> QED
  BY <1>1, RunningFacts DEF Running

LEMMA MovedOn ==
    ASSUME req \in Running, req' = [req EXCEPT !.at = @ + 1]
    PROVE  /\ req' \in Running /\ req'.pc = req.pc /\ req'.at = req.at + 1
           /\ req'.local = req.local /\ req'.fetched = req.fetched
           /\ req'.path = req.path /\ req.at \in Nat
<1>1. req' \in Requests /\ req' # NoRequest
  BY RunningFacts DEF Requests, NoRequest
<1> QED
  BY <1>1, RunningFacts DEF Running

\* resolved, fetch, fetchStale and fetchFails
LEMMA ResolveStep ==
    ASSUME PartsInv, resolved \/ fetch \/ fetchStale \/ fetchFails
    PROVE  GoodStep
<1>1. req.pc = "resolve" /\ req \in Running /\ UNCHANGED requests
  BY DEF PartsInv, ReqInv, resolved, fetch, fetchStale, fetchFails, Fetching, Running, NoRequest
<1>2. \A node \in Nodes : callOf(node) = A!Idle
  BY <1>1, AllIdle DEF PartsInv
<1>3. req.local + req.fetched <= Len(req.path) /\ requests \in 0 .. Len(Workload)
  BY <1>1 DEF PartsInv, ReqInv, InRange
<1>4. CASE resolved
  <2>1. /\ req' \in Running /\ req'.local + req'.fetched <= Len(req'.path)
        /\ req'.pc = "remote" /\ req'.at >= 1
    <3>1. /\ req' = [req EXCEPT !.pc = "remote", !.at = req.local + 1]
          /\ req.local + 1 \in Nat /\ req.local + 1 >= 1
      BY <1>1, <1>4, RunningFacts DEF resolved
    <3>2. /\ req' \in Running /\ req'.pc = "remote" /\ req'.at = req.local + 1
          /\ req'.local = req.local /\ req'.fetched = req.fetched /\ req'.path = req.path
      BY <1>1, <3>1, MovedTo
    <3> QED
      BY <1>3, <3>1, <3>2
  <2>2. /\ CacheSteps /\ CoordStep
        /\ \A node \in Nodes : UNCHANGED <<callOf(node), recordsOf(node), kvOf(node)>>
    BY <1>4, QuietSteps DEF resolved, CoordStep
  <2> QED
    BY <1>1, <1>2, <1>3, <2>1, <2>2, IdleReqInv DEF GoodStep
<1>5. ASSUME replicas # <<>>
      PROVE  /\ missing \in 1 .. Len(req.path) /\ missing = req.local + req.fetched + 1
             /\ chosen \in C!GlobalBlockRef
             /\ chosen.node_id \in Nodes /\ chosen.block_id \in Slots
             /\ chosen.generation \in 1 .. MaxGeneration
  BY <1>1, <1>5, ChosenFacts DEF PartsInv, C!GlobalBlockRef
<1>6. CASE fetch
  <2>1. PICK node \in Nodes : node = chosen.node_id
    BY <1>5, <1>6 DEF fetch, Fetching
  <2>2. CacheSteps /\ OthersStay(node) /\ UNCHANGED callOf(node)
    BY <1>5, <1>6, <2>1, StepEffects DEF fetch, Fetching, PartsInv
  <2>3. \A other \in Nodes : callOf(other)' = A!Idle
    BY <1>2, <2>2 DEF OthersStay
  <2>4. /\ req' \in Running /\ req'.local + req'.fetched <= Len(req'.path)
        /\ req'.pc = "resolve"
    <3>1. req.local + req.fetched + 1 <= Len(req.path)
      BY <1>1, <1>5, <1>6, RunningFacts DEF fetch, Fetching
    <3>2. req' \in Requests /\ req' # NoRequest
      BY <1>1, <1>6, RunningFacts DEF fetch, Requests, NoRequest
    <3>3. /\ req'.pc = "resolve" /\ req'.path = req.path /\ req'.local = req.local
          /\ req'.fetched = req.fetched + 1 /\ req.local \in Nat /\ req.fetched \in Nat
      BY <1>1, <1>6, RunningFacts DEF fetch
    <3> QED
      BY <3>1, <3>2, <3>3 DEF Running
  <2> QED
    BY <1>1, <1>3, <1>6, <2>2, <2>3, <2>4, IdleReqInv DEF GoodStep, CoordStep, fetch
<1>7. CASE fetchStale \/ fetchFails
  <2>1. FetchFailed /\ UNCHANGED <<aVars, bVars>> /\ replicas # <<>>
    BY <1>7 DEF fetchStale, fetchFails, Fetching
  <2>2. CacheSteps /\ \A node \in Nodes : callOf(node)' = A!Idle
    BY <1>2, <2>1, QuietSteps
  <2>3. /\ req' \in Running /\ req'.local + req'.fetched <= Len(req'.path)
        /\ req'.pc = "remote" /\ req'.at >= 1
    <3>1. req.local + 1 \in Nat /\ req.local + 1 >= 1
      BY <1>1, RunningFacts
    <3>2. req' \in Requests /\ req' # NoRequest
      BY <1>1, <1>5, <2>1, <3>1, RunningFacts DEF FetchFailed, Requests, NoRequest
    <3>3. /\ req'.pc = "remote" /\ req'.path = req.path /\ req'.local = req.local
          /\ req'.fetched = req.fetched /\ req'.at = req.local + 1
      BY <1>1, <2>1, RunningFacts DEF FetchFailed
    <3> QED
      BY <1>3, <3>1, <3>2, <3>3 DEF Running
  <2>4. CoordStep
    <3>1. CASE fetchStale
      BY <1>5, <2>1, <3>1 DEF fetchStale, CoordStep
    <3>2. CASE fetchFails
      BY <3>2 DEF fetchFails, CoordStep
    <3> QED
      BY <1>7, <3>1, <3>2
  <2> QED
    BY <1>1, <1>3, <2>2, <2>3, <2>4, IdleReqInv DEF GoodStep
<1> QED
  BY <1>4, <1>6, <1>7

\* admitSkipped, assemble and finish: the request alone moves on.
LEMMA LoopStep ==
    ASSUME PartsInv, admitSkipped \/ assemble \/ finish
    PROVE  GoodStep
<1>1. /\ Admitting /\ req.pc \in {"remote", "computed"} /\ req \in Running
      /\ UNCHANGED <<aVars, bVars, coordVars, requests>>
  BY DEF PartsInv, ReqInv, admitSkipped, assemble, finish, Admitting, Running, NoRequest
<1>2. CacheSteps /\ CoordStep /\ \A node \in Nodes : callOf(node)' = A!Idle
  BY <1>1, AllIdle, QuietSteps DEF PartsInv, CoordStep
<1>3. /\ req.local + req.fetched <= Len(req.path) /\ req.at >= 1
      /\ requests \in 0 .. Len(Workload)
  BY <1>1 DEF PartsInv, ReqInv, InRange
<1>4. \/ req' = NoRequest
      \/ /\ req' \in Running /\ req'.local + req'.fetched <= Len(req'.path)
         /\ req'.pc \in {"remote", "computed"} /\ req'.at >= 1
  <2>1. CASE admitSkipped
    <3>1. /\ req' \in Running /\ req'.pc = req.pc /\ req'.at = req.at + 1
          /\ req'.local = req.local /\ req'.fetched = req.fetched
          /\ req'.path = req.path /\ req.at \in Nat
      BY <1>1, <2>1, MovedOn DEF admitSkipped
    <3> QED
      BY <1>1, <1>3, <3>1
  <2>2. CASE assemble
    <3>1. Len(req.reusable) \in Nat /\ Len(req.reusable) + 1 \in Nat
      BY <1>1, RunningFacts, LenProperties
    <3>2. req' = [req EXCEPT !.pc = "computed", !.at = Len(req.reusable) + 1]
      BY <2>2 DEF assemble
    <3>3. /\ req' \in Running /\ req'.pc = "computed" /\ req'.at = Len(req.reusable) + 1
          /\ req'.local = req.local /\ req'.fetched = req.fetched /\ req'.path = req.path
      BY <1>1, <3>1, <3>2, MovedTo
    <3> QED
      BY <1>3, <3>1, <3>3
  <2>3. CASE finish
    BY <2>3 DEF finish
  <2> QED
    BY <2>1, <2>2, <2>3
<1> QED
  BY <1>1, <1>2, <1>3, <1>4, IdleReqInv DEF GoodStep

\* admitStart and admitStep: the admission of the block that the request is at
LEMMA AdmitStep ==
    ASSUME PartsInv, admitStart \/ admitStep
    PROVE  GoodStep
<1>1. /\ req.pc \in {"remote", "computed"} /\ req \in Running
      /\ UNCHANGED <<coordVars, requests>>
  <2>1. req.pc \in {"remote", "computed"} /\ UNCHANGED <<coordVars, requests>>
    BY DEF admitStart, admitStep, Admitting
  <2> QED
    BY <2>1 DEF PartsInv, ReqInv, Running, NoRequest
<1>2. PICK node \in Nodes : node = req.node
  BY <1>1, RunningFacts
<1>3. /\ req.local + req.fetched <= Len(req.path) /\ req.at \in Nat \ {0}
      /\ requests \in 0 .. Len(Workload)
  BY <1>1, RunningFacts DEF PartsInv, ReqInv, InRange
<1>4. \A other \in Nodes \ {node} : callOf(other) = A!Idle
  BY <1>2 DEF PartsInv, ReqInv, OneCall
<1>5. /\ CacheSteps /\ OthersStay(node)
      /\ \/ callOf(node)' = A!Idle /\ req' = [req EXCEPT !.at = @ + 1]
         \/ /\ callOf(node)'.pc \in {"space", "evict", "create", "ready", "acquire"}
            /\ req.at \in 1 .. Len(req.path) /\ callOf(node)'.path = Path(req.at)
            /\ req' = req
  <2>1. CASE admitStart
    <3>1. req.at \in 1 .. Len(req.path)
      BY <1>1, <1>3, <2>1, RunningFacts DEF admitStart, Last
    <3>2. Path(req.at) \in Paths
      BY <1>1, <3>1, RunningFacts
    <3>3. At(node, A!admit(Path(req.at)), B!admit(Path(req.at))) /\ req' = req
      BY <1>2, <2>1 DEF admitStart
    <3> QED
      BY <3>1, <3>2, <3>3, StepEffects DEF PartsInv
  <2>2. CASE admitStep
    <3>1. AdmitSteps(node)
      BY <1>2, <2>2 DEF admitStep, AdmitSteps
    <3>2. /\ CacheSteps /\ OthersStay(node)
          /\ callOf(node).pc \in {"space", "evict", "create", "ready"}
          /\ \/ callOf(node)' = A!Idle
             \/ /\ callOf(node)'.pc \in {"evict", "create", "ready", "acquire"}
                /\ callOf(node)'.path = callOf(node).path
      BY <3>1, StepEffects DEF PartsInv
    <3>3. callOf(node) # A!Idle
      BY <3>2, CallFields DEF PartsInv, WorkersInv
    <3>4. req.at \in 1 .. Len(req.path) /\ callOf(node).path = Path(req.at)
      BY <1>1, <3>3 DEF PartsInv, ReqInv, OneCall
    <3>5. CallEnds <=> callOf(node)' = A!Idle
      BY <1>2, Standing DEF CallEnds, Of
    <3> QED
      BY <2>2, <3>2, <3>4, <3>5 DEF admitStep, A!Idle
  <2> QED
    BY <2>1, <2>2
<1>6. CASE callOf(node)' = A!Idle /\ req' = [req EXCEPT !.at = @ + 1]
  <2>1. \A other \in Nodes : callOf(other)' = A!Idle
    BY <1>4, <1>5, <1>6 DEF OthersStay
  <2>2. /\ req' \in Running /\ req'.local + req'.fetched <= Len(req'.path)
        /\ req'.pc \in {"remote", "computed"} /\ req'.at >= 1
    <3>1. /\ req' \in Running /\ req'.pc = req.pc /\ req'.at = req.at + 1
          /\ req'.local = req.local /\ req'.fetched = req.fetched
          /\ req'.path = req.path /\ req.at \in Nat
      BY <1>1, <1>6, MovedOn
    <3> QED
      BY <1>1, <1>3, <3>1
  <2> QED
    BY <1>1, <1>3, <1>5, <2>1, <2>2, IdleReqInv DEF GoodStep, CoordStep
<1>7. CASE /\ callOf(node)'.pc \in {"space", "evict", "create", "ready", "acquire"}
           /\ req.at \in 1 .. Len(req.path) /\ callOf(node)'.path = Path(req.at)
           /\ req' = req
  <2>1. \A other \in Nodes \ {node} : callOf(other)' = A!Idle
    BY <1>4, <1>5 DEF OthersStay
  <2>2. Path(req.at)' = Path(req.at)
    BY <1>7 DEF Path
  <2>3. OneCall'
    BY <1>1, <1>2, <1>7, <2>1, <2>2 DEF OneCall
  <2>4. InRange' /\ ToAnnounce' /\ req' \in Requests
    BY <1>1, <1>3, <1>7 DEF InRange, ToAnnounce, Running
  <2> QED
    BY <1>1, <1>3, <1>5, <2>3, <2>4 DEF GoodStep, CoordStep, ReqInv
<1> QED
  BY <1>5, <1>6, <1>7

LEMMA AdmitDoneStep ==
    ASSUME PartsInv, WorkersKeepNames, admitDone
    PROVE  GoodStep
<1>1. /\ req.pc \in {"remote", "computed"} /\ req \in Running
      /\ UNCHANGED <<coordVars, requests>>
  <2>1. req.pc \in {"remote", "computed"} /\ UNCHANGED <<coordVars, requests>>
    BY DEF admitDone
  <2> QED
    BY <2>1 DEF PartsInv, ReqInv, Running, NoRequest
<1>2. PICK node \in Nodes : node = req.node
  BY <1>1, RunningFacts
<1>3. /\ req.local + req.fetched <= Len(req.path) /\ requests \in 0 .. Len(Workload)
  BY <1>1 DEF PartsInv, ReqInv, InRange
<1>4. /\ CacheSteps /\ OthersStay(node)
      /\ callOf(node).pc = "acquire" /\ callOf(node)' = A!Idle
      /\ UNCHANGED kvOf(node)
  BY <1>2, StepEffects DEF admitDone, PartsInv
<1>5. /\ callOf(node).id \in Slots
      /\ recordsOf(node)[callOf(node).id].generation \in Nat \ {0}
      /\ kvOf(node)[callOf(node).id] = callOf(node).path
  BY <1>4, GenerationBound DEF PartsInv, WorkersInv
<1>6. callOf(node) # A!Idle
  BY <1>4 DEF A!Idle
<1>7. req.at \in 1 .. Len(req.path) /\ callOf(node).path = Path(req.at)
  BY <1>1, <1>4, <1>6 DEF PartsInv, ReqInv, OneCall
<1>8. \A other \in Nodes : callOf(other)' = A!Idle
  BY <1>2, <1>4 DEF OthersStay, PartsInv, ReqInv, OneCall
<1>9. CASE req.pc = "remote"
  <2> DEFINE reusable1 == Append(req.reusable, callOf(node).id)
  <2>1. req' = [req EXCEPT !.at = @ + 1, !.reusable = reusable1] /\ reusable1 \in Seq(Slots)
    BY <1>1, <1>2, <1>5, <1>9, RunningFacts DEF admitDone
  <2> HIDE DEF reusable1
  <2>2. req' \in Requests /\ req' # NoRequest
    <3>1. req.at + 1 \in Nat
      BY <1>1, RunningFacts
    <3>2. req' = [req EXCEPT !.at = req.at + 1, !.reusable = reusable1]
      BY <2>1
    <3> QED
      BY <1>1, <2>1, <3>1, <3>2, RunningFacts DEF Requests, NoRequest
  <2>3. /\ req'.pc = "remote" /\ req'.path = req.path /\ req'.local = req.local
        /\ req'.fetched = req.fetched /\ req'.at = req.at + 1
    BY <1>1, <1>9, <2>1, RunningFacts
  <2>4. req'.at >= 1
    BY <1>1, <1>7, <2>3, RunningFacts
  <2>5. ReqInv'
    BY <1>1, <1>3, <1>8, <2>2, <2>3, <2>4, IdleReqInv DEF Running
  <2> QED
    BY <1>1, <1>4, <2>5 DEF GoodStep, CoordStep
<1>10. CASE req.pc = "computed"
  <2>1. req' = [req EXCEPT !.pc = "announce", !.slot = callOf(node).id]
    BY <1>2, <1>10 DEF admitDone
  <2>2. req' \in Requests /\ req' # NoRequest
    BY <1>1, <1>5, <2>1, RunningFacts DEF Requests, NoRequest
  <2>3. /\ req'.pc = "announce" /\ req'.path = req.path /\ req'.local = req.local
        /\ req'.fetched = req.fetched /\ req'.at = req.at /\ req'.node = node
        /\ req'.slot = callOf(node).id
    BY <1>1, <1>2, <2>1, RunningFacts
  <2>4. NamesKept(recordsOf(node), recordsOf(node)')
    BY <1>4 DEF WorkersKeepNames
  <2>5. /\ recordsOf(node)'[callOf(node).id].generation # 0
        /\ kvOf(node)'[callOf(node).id] = Path(req.at)
    BY <1>4, <1>5, <1>7, <2>4 DEF NamesKept
  <2>6. /\ recordsOf(req.node)' = recordsOf(node)' /\ kvOf(req.node)' = kvOf(node)'
        /\ Path(req.at)' = Path(req.at)
    BY <2>3 DEF recordsOf, kvOf, Of, Path
  <2>7. ToAnnounce'
    BY <1>5, <1>7, <2>3, <2>5, <2>6 DEF ToAnnounce
  <2>8. InRange' /\ OneCall'
    BY <1>3, <1>8, <2>3 DEF InRange, OneCall
  <2> QED
    BY <1>1, <1>3, <1>4, <2>2, <2>7, <2>8 DEF GoodStep, CoordStep, ReqInv
<1> QED
  BY <1>1, <1>9, <1>10

\* The reference that is announced names the block that was admitted.
LEMMA AnnounceStep ==
    ASSUME PartsInv, announce
    PROVE  GoodStep
<1>1. req.pc = "announce" /\ req \in Running /\ UNCHANGED requests
  BY DEF PartsInv, ReqInv, announce, Running, NoRequest
<1>2. PICK node \in Nodes : node = req.node
  BY <1>1, RunningFacts
<1>3. /\ req.local + req.fetched <= Len(req.path) /\ requests \in 0 .. Len(Workload)
      /\ req.slot \in Slots /\ req.at \in 1 .. Len(req.path)
      /\ recordsOf(node)[req.slot].generation # 0
      /\ kvOf(node)[req.slot] = Path(req.at)
  BY <1>1, <1>2 DEF PartsInv, ReqInv, InRange, ToAnnounce
<1>4. CacheSteps /\ OthersStay(node) /\ UNCHANGED callOf(node)
  <2>1. PICK h \in Handles : At(node, A!releaseHandle(h), B!releaseHandle(h))
    BY <1>2 DEF announce
  <2> QED
    BY <2>1, StepEffects DEF PartsInv
<1>5. \A other \in Nodes : callOf(other)' = A!Idle
  BY <1>1, <1>4, AllIdle DEF PartsInv, OthersStay
<1>6. ReqInv'
  <2>1. /\ req' = [req EXCEPT !.pc = "computed", !.at = req.at + 1]
        /\ req.at + 1 \in Nat /\ req.at + 1 >= 1
    BY <1>1, <1>3, RunningFacts DEF announce
  <2>2. /\ req' \in Running /\ req'.pc = "computed" /\ req'.at = req.at + 1
        /\ req'.local = req.local /\ req'.fetched = req.fetched /\ req'.path = req.path
    BY <1>1, <2>1, MovedTo
  <2> QED
    BY <1>1, <1>3, <1>5, <2>1, <2>2, IdleReqInv
<1>7. CoordStep
  <2> DEFINE hash == HashOf(req.at)
             ref == [node_id |-> node, block_id |-> req.slot,
                     generation |-> recordsOf(node)[req.slot].generation]
  <2>1. /\ recordsOf(node)[req.slot].generation \in 0 .. MaxGeneration
        /\ recordsOf(node)[req.slot].hash = hash
    BY <1>3 DEF PartsInv, WorkersInv, HashOf
  <2>2. MaxGeneration \in Nat
    BY GenerationBound
  <2>3. hash \in Hashes /\ ref \in C!GlobalBlockRef
    BY <1>1, <1>3, <2>1, <2>2, RunningFacts DEF C!GlobalBlockRef
  <2>4. C!announce(hash, ref)
    BY <1>2 DEF announce
  <2>5. /\ ref.node_id = node /\ ref.block_id = req.slot
        /\ ref.generation = recordsOf(node)[req.slot].generation
    OBVIOUS
  <2> HIDE DEF hash, ref
  <2>6. NamesItsBlock(hash, ref)
    BY <2>1, <2>2, <2>5 DEF NamesItsBlock
  <2> QED
    BY <2>3, <2>4, <2>6 DEF CoordStep
<1> QED
  BY <1>4, <1>6, <1>7 DEF GoodStep

\* dropHandle, nodeJoin and nodeLeave
LEMMA BetweenRequests ==
    ASSUME PartsInv, NEW node \in Nodes,
           (\E h \in Handles : dropHandle(node, h)) \/ nodeJoin(node) \/ nodeLeave(node)
    PROVE  GoodStep
<1>1. req = NoRequest /\ UNCHANGED <<req, requests>>
  BY DEF dropHandle, nodeJoin, nodeLeave
<1>2. \A other \in Nodes : callOf(other) = A!Idle
  BY <1>1, AllIdle DEF PartsInv
<1>3. requests' \in 0 .. Len(Workload)
  BY <1>1 DEF PartsInv, ReqInv
<1>4. CASE \E h \in Handles : dropHandle(node, h)
  <2>1. PICK h \in Handles : dropHandle(node, h)
    BY <1>4
  <2>2. CacheSteps /\ OthersStay(node) /\ UNCHANGED callOf(node)
    BY <2>1, StepEffects DEF dropHandle, PartsInv
  <2>3. \A other \in Nodes : callOf(other)' = A!Idle
    BY <1>2, <2>2 DEF OthersStay
  <2> QED
    BY <1>1, <1>3, <2>1, <2>2, <2>3, IdleReqInv DEF GoodStep, CoordStep, dropHandle
<1>5. CASE nodeJoin(node) \/ nodeLeave(node)
  <2>1. UNCHANGED <<aVars, bVars>> /\ (C!nodeJoin(node) \/ C!nodeLeave(node))
    BY <1>5 DEF nodeJoin, nodeLeave
  <2>2. CacheSteps /\ \A other \in Nodes : callOf(other)' = A!Idle
    BY <1>2, <2>1, QuietSteps
  <2>3. CoordStep
    BY <2>1 DEF CoordStep
  <2> QED
    BY <1>1, <1>3, <2>2, <2>3, IdleReqInv DEF GoodStep
<1> QED
  BY <1>4, <1>5

LEMMA EveryStep == PartsInv /\ WorkersKeepNames /\ [Next]_vars => GoodStep
<1> SUFFICES ASSUME PartsInv, WorkersKeepNames, [Next]_vars
             PROVE  GoodStep
  OBVIOUS
<1>1. CASE \E node \in Nodes, p \in Paths : route(node, p)
  BY <1>1, RouteStep
<1>2. CASE requestStep
  BY <1>2, LookupStep, ResolveStep, LoopStep, AdmitStep, AdmitDoneStep, AnnounceStep
     DEF requestStep
<1>3. CASE \/ \E node \in Nodes, h \in Handles : dropHandle(node, h)
           \/ \E node \in Nodes : nodeJoin(node)
           \/ \E node \in Nodes : nodeLeave(node)
  BY <1>3, BetweenRequests
<1>4. CASE UNCHANGED vars
  <2>1. UNCHANGED <<aVars, bVars>> /\ UNCHANGED coordVars /\ UNCHANGED <<req, requests>>
    BY <1>4 DEF vars, aVars, bVars, coordVars
  <2>2. CacheSteps /\ CoordStep
    BY <2>1, QuietSteps DEF CoordStep
  <2>3. ReqInv'
    BY <1>4 DEF vars, PartsInv, ReqInv, InRange, ToAnnounce, OneCall, callOf, recordsOf, kvOf, Of,
                Path
  <2> QED
    BY <2>2, <2>3 DEF GoodStep
<1> QED
  BY <1>1, <1>2, <1>3, <1>4 DEF Next

\* A worker serves a block of the generation it was asked for.
LEMMA ServedFacts ==
    ASSUME chosen.node_id \in Nodes, NEW node, NEW hash,
           fetchStatus(node, chosen, hash) \in {"Ok", "HashMismatch"}
    PROVE  /\ chosen.generation = recordsOf(chosen.node_id)[chosen.block_id].generation
           /\ recordsOf(chosen.node_id)[chosen.block_id].generation # 0
           /\ fetchStatus(node, chosen, hash) = "Ok" =>
                 recordsOf(chosen.node_id)[chosen.block_id].hash = hash
<1>1. CASE chosen.node_id = "a"
  BY <1>1 DEF fetchStatus, A!BM!fetchLocalStatus, recordsOf, Of
<1>2. CASE chosen.node_id = "b"
  BY <1>2 DEF fetchStatus, B!BM!fetchLocalStatus, recordsOf, Of
<1> QED
  BY <1>1, <1>2 DEF Nodes

\* What is served under the generation of a reference is its block.
LEMMA NoMismatch == PartsInv /\ ReferenceNamesItsBlock => ~Fetching("HashMismatch")
<1> SUFFICES ASSUME PartsInv, ReferenceNamesItsBlock, Fetching("HashMismatch")
             PROVE  FALSE
  OBVIOUS
<1>1. /\ req.pc = "resolve" /\ replicas # <<>>
      /\ fetchStatus(req.node, chosen, HashOf(missing)) = "HashMismatch"
  BY DEF Fetching
<1>2. /\ req \in Running /\ missing \in 1 .. Len(req.path)
      /\ chosen \in C!GlobalBlockRef
      /\ chosen \in C!Elements(index[HashOf(missing)])
  BY <1>1, ChosenFacts DEF PartsInv
<1>3. HashOf(missing) \in Hashes /\ chosen.node_id \in Nodes
  BY <1>2, RunningFacts DEF C!GlobalBlockRef
<1>4. recordsOf(chosen.node_id)[chosen.block_id].hash # HashOf(missing)
  BY <1>1 DEF fetchStatus, A!BM!fetchLocalStatus, B!BM!fetchLocalStatus, Of
<1>5. chosen.generation = recordsOf(chosen.node_id)[chosen.block_id].generation
  BY <1>1, <1>3, ServedFacts
<1> QED
  BY <1>2, <1>3, <1>4, <1>5 DEF ReferenceNamesItsBlock

\* The block that a fetch brings has the request's hash, hence its prefix.
LEMMA FetchIsOwn ==
    ASSUME \A p, q \in Paths : A!contentHash(p) = A!contentHash(q) => p = q,
           PartsInv, Next, req.pc = "resolve", req'.pc = "resolve"
    PROVE  kvOf(chosen.node_id)[chosen.block_id] = Path(missing)
<1>1. fetch
  <2>1. req \in Running
    BY DEF PartsInv, ReqInv, Running, NoRequest
  <2>2. requestStep
    BY DEF Next, route, dropHandle, nodeJoin, nodeLeave, NoRequest
  <2>3. resolved \/ fetch \/ fetchStale \/ fetchFails
    BY <2>2 DEF requestStep, lookupStep, admitSkipped, admitStart, admitStep, admitDone,
                assemble, announce, finish, Admitting
  <2>4. ~ resolved /\ ~ FetchFailed
    BY <2>1, RunningFacts DEF resolved, FetchFailed
  <2> QED
    BY <2>3, <2>4 DEF fetchStale, fetchFails
<1>2. replicas # <<>> /\ fetchStatus(req.node, chosen, HashOf(missing)) = "Ok"
  BY <1>1 DEF fetch, Fetching
<1>3. /\ req \in Running /\ missing \in 1 .. Len(req.path)
      /\ chosen.node_id \in Nodes /\ chosen.block_id \in Slots
  BY <1>2, ChosenFacts DEF PartsInv, C!GlobalBlockRef
<1>4. /\ recordsOf(chosen.node_id)[chosen.block_id].generation # 0
      /\ recordsOf(chosen.node_id)[chosen.block_id].hash = HashOf(missing)
  BY <1>2, <1>3, ServedFacts
<1>5. /\ kvOf(chosen.node_id)[chosen.block_id] \in Paths
      /\ A!contentHash(kvOf(chosen.node_id)[chosen.block_id]) = A!contentHash(Path(missing))
  BY <1>3, <1>4 DEF PartsInv, WorkersInv, HashOf
<1>6. Path(missing) \in Paths
  BY <1>3, RunningFacts
<1> QED
  BY <1>5, <1>6

-----------------------------------------------------------------------------
(* The steps of a worker, as the benchmark sees them: on the views of one  *)
(* worker, whichever it is                                                 *)

blockNodeOf(node) == Of(node, a_block_node, b_block_node)
freeListOf(node) == Of(node, a_free_list, b_free_list)
generationsOf(node) == Of(node, a_generations, b_generations)

\* What is used of the invariants of the workers' parts
ViewsInv ==
    \A node \in Nodes :
        /\ recordsOf(node) \in [Slots -> A!BM!BlockRecord]
        /\ handlesOf(node) \in [Handles -> Slots \cup {NoSlot}]
        /\ terminalsOf(node) \in [Paths -> Slots \cup {NoSlot}]
        /\ blockNodeOf(node) \in [Slots -> Paths \cup {A!NoPath}]
        /\ kvOf(node) \in [Slots -> Paths \cup {A!NoPath}]
        /\ freeListOf(node) \in Seq(Slots)
        /\ generationsOf(node) \in [Slots -> Nat]
        /\ \A i, j \in 1 .. Len(freeListOf(node)) :
              freeListOf(node)[i] = freeListOf(node)[j] => i = j
        /\ \A s \in Slots :
              recordsOf(node)[s].state = "Free" <=>
                 \E i \in 1 .. Len(freeListOf(node)) : freeListOf(node)[i] = s
        /\ \A h \in Handles : handlesOf(node)[h] # NoSlot =>
              recordsOf(node)[handlesOf(node)[h]].refcount > 0

\* The lookup of a worker finds what its index has without a gap.
FoundInv ==
    \A node \in Nodes, p \in Paths :
        /\ \A i \in 1 .. Len(found(node, p)) :
              /\ found(node, p)[i] = terminalsOf(node)[SubSeq(p, 1, i)]
              /\ terminalsOf(node)[SubSeq(p, 1, i)] # NoSlot
        /\ \A i \in 0 .. Len(p) :
              (\A j \in 1 .. i : terminalsOf(node)[SubSeq(p, 1, j)] # NoSlot) =>
                 i <= Len(found(node, p))

\* What a slot holds, apart from who uses it
SameSlot(node, s) ==
    /\ recordsOf(node)'[s].state = recordsOf(node)[s].state
    /\ recordsOf(node)'[s].generation = recordsOf(node)[s].generation
    /\ recordsOf(node)'[s].hash = recordsOf(node)[s].hash
SlotsKept(node) == \A s \in Slots : SameSlot(node, s)
MapsKept(node) == UNCHANGED <<terminalsOf(node), blockNodeOf(node)>>
PoolKept(node) == UNCHANGED <<freeListOf(node), generationsOf(node)>>
ContentKept(node) == SlotsKept(node) /\ MapsKept(node) /\ PoolKept(node) /\ UNCHANGED kvOf(node)
AllKept(node) == ContentKept(node) /\ UNCHANGED <<callOf(node), handlesOf(node), recordsOf(node)>>

Hit(node, s) == recordsOf(node)[s].generation # 0 /\ recordsOf(node)[s].state = "Ready"
Pins(node, s) ==
    \E h \in Handles : /\ handlesOf(node)[h] = NoSlot
                       /\ handlesOf(node)' = [handlesOf(node) EXCEPT ![h] = s]
ToState(node, s, from, to) ==
    /\ s \in Slots
    /\ recordsOf(node)[s].state = from /\ recordsOf(node)'[s].state = to
    /\ recordsOf(node)'[s].generation = recordsOf(node)[s].generation
    /\ recordsOf(node)'[s].hash = recordsOf(node)[s].hash
    /\ \A other \in Slots \ {s} : SameSlot(node, other)

StartsLookup(node, p) ==
    /\ callOf(node) = A!Idle /\ callOf(node)' = [pc |-> "lookup", todo |-> found(node, p)]
    /\ ContentKept(node) /\ UNCHANGED handlesOf(node)
LooksUp(node) ==
    LET todo == callOf(node).todo
    IN /\ callOf(node).pc = "lookup" /\ ContentKept(node)
       /\ \/ /\ Hit(node, Head(todo)) /\ Pins(node, Head(todo))
             /\ callOf(node)' = IF Len(todo) = 1 THEN A!Idle
                                ELSE [pc |-> "lookup", todo |-> Tail(todo)]
          \/ /\ ~ Hit(node, Head(todo)) /\ UNCHANGED handlesOf(node)
             /\ callOf(node)' = A!Idle
Serves(node) == ContentKept(node) /\ UNCHANGED <<callOf(node), handlesOf(node)>>
StartsAdmission(node, p) ==
    /\ callOf(node) = A!Idle /\ admitStatus(node, p) = "Proceed"
    /\ callOf(node)'.pc = IF freeListOf(node) = <<>> THEN "space" ELSE "create"
    /\ callOf(node)'.path = p
    /\ ContentKept(node) /\ UNCHANGED handlesOf(node)
GivesUp(node) ==
    /\ callOf(node).pc = "space" /\ callOf(node)' = A!Idle
    /\ ContentKept(node) /\ UNCHANGED handlesOf(node)
BeginsEviction(node) ==
    /\ callOf(node).pc = "space" /\ callOf(node)'.pc = "evict"
    /\ callOf(node)'.path = callOf(node).path
    /\ ToState(node, callOf(node)'.victim, "Ready", "Evicting")
    /\ recordsOf(node)[callOf(node)'.victim].refcount = 0
    /\ MapsKept(node) /\ PoolKept(node) /\ UNCHANGED <<handlesOf(node), kvOf(node)>>
Evicts(node) ==
    LET v == callOf(node).victim
    IN /\ callOf(node).pc = "evict" /\ callOf(node)'.pc = "create"
       /\ callOf(node)'.path = callOf(node).path
       /\ ToState(node, v, "Evicting", "Free")
       /\ freeListOf(node)' = Append(freeListOf(node), v)
       /\ generationsOf(node)' = [generationsOf(node) EXCEPT ![v] = @ + 1]
       /\ terminalsOf(node)' =
             IF blockNodeOf(node)[v] = A!NoPath THEN terminalsOf(node)
             ELSE [terminalsOf(node) EXCEPT ![blockNodeOf(node)[v]] = NoSlot]
       /\ blockNodeOf(node)' = [blockNodeOf(node) EXCEPT ![v] = A!NoPath]
       /\ UNCHANGED <<handlesOf(node), kvOf(node)>>
Creates(node) ==
    LET new == freeListOf(node)[Len(freeListOf(node))]
    IN /\ callOf(node).pc = "create" /\ freeListOf(node) # <<>>
       /\ callOf(node)' = [pc |-> "ready", path |-> callOf(node).path, id |-> new]
       /\ recordsOf(node)'[new].state = "Admitting"
       /\ recordsOf(node)'[new].hash = A!contentHash(callOf(node).path)
       /\ \A other \in Slots \ {new} : SameSlot(node, other)
       /\ freeListOf(node)' = SubSeq(freeListOf(node), 1, Len(freeListOf(node)) - 1)
       /\ generationsOf(node)' =
             [generationsOf(node) EXCEPT
                 ![new] = IF generationsOf(node)[new] = 0 THEN 1 ELSE generationsOf(node)[new]]
       /\ \A q \in Paths : terminalsOf(node)'[q] # terminalsOf(node)[q] =>
             \E i \in 1 .. Len(callOf(node).path) : q = SubSeq(callOf(node).path, 1, i)
       /\ kvOf(node)' = [kvOf(node) EXCEPT ![new] = callOf(node).path]
       /\ UNCHANGED handlesOf(node)
FindsNoSlot(node) ==
    /\ callOf(node).pc = "create" /\ freeListOf(node) = <<>> /\ callOf(node)' = A!Idle
    /\ ContentKept(node) /\ UNCHANGED handlesOf(node)
Publishes(node) ==
    /\ callOf(node).pc = "ready"
    /\ callOf(node)' = [pc |-> "acquire", path |-> callOf(node).path, id |-> callOf(node).id]
    /\ ToState(node, callOf(node).id, "Admitting", "Ready")
    /\ MapsKept(node) /\ PoolKept(node) /\ UNCHANGED <<handlesOf(node), kvOf(node)>>
EndsAdmission(node) ==
    /\ callOf(node).pc = "acquire" /\ callOf(node)' = A!Idle
    /\ Hit(node, callOf(node).id) /\ Pins(node, callOf(node).id) /\ ContentKept(node)
Releases(node, h) ==
    /\ callOf(node) = A!Idle /\ handlesOf(node)[h] # NoSlot
    /\ handlesOf(node)' = [handlesOf(node) EXCEPT ![h] = NoSlot]
    /\ ContentKept(node) /\ UNCHANGED callOf(node)

AdmitsOn(node) ==
    \/ GivesUp(node) \/ BeginsEviction(node) \/ Evicts(node)
    \/ Creates(node) \/ FindsNoSlot(node) \/ Publishes(node)

\* The fields that the steps of an admission have
LEMMA CallTypes ==
    ASSUME NEW c \in A!Calls
    PROVE  /\ c.pc \in {"ready", "acquire"} => c.id \in Slots /\ c.path \in Paths
           /\ c.pc = "evict" => c.victim \in Slots
           /\ c.pc \in {"space", "evict", "create"} => c.path \in Paths
<1>1. CASE c = A!Idle
  BY <1>1 DEF A!Idle
<1>2. CASE c \in [pc : {"lookup"}, todo : Seq(Slots) \ {<<>>}]
  BY <1>2
<1>3. CASE c \in [pc : {"space", "create"}, path : Paths, existing : Seq(Slots), tier : A!TM!Tiers]
  BY <1>3
<1>4. CASE c \in [pc : {"evict"}, path : Paths, existing : Seq(Slots), tier : A!TM!Tiers,
                  victim : Slots]
  BY <1>4
<1>5. CASE c \in [pc : {"ready", "acquire"}, path : Paths, id : Slots]
  BY <1>5
<1> QED
  BY <1>1, <1>2, <1>3, <1>4, <1>5 DEF A!Calls, A!Slots, Slots

\* The steps of worker a
LEMMA ViewsOfA ==
    ASSUME ViewsInv, WorkersInv
    PROVE  /\ \A p \in Paths : A!lookupPrefix(p) => StartsLookup("a", p)
           /\ A!lookupStep => LooksUp("a")
           /\ \A s \in Slots : \A g : A!serveBlockFetch(s, g) => Serves("a")
           /\ \A p \in Paths : A!admit(p) => StartsAdmission("a", p)
           /\ A!insufficientCandidates => GivesUp("a")
           /\ \A v \in Slots : A!beginEvict(v) => BeginsEviction("a")
           /\ A!finishEvict => Evicts("a")
           /\ A!create => Creates("a") \/ FindsNoSlot("a")
           /\ A!ready => Publishes("a")
           /\ A!admitted => EndsAdmission("a")
           /\ \A h \in Handles : A!releaseHandle(h) => Releases("a", h)
<1>0. "a" \in Nodes
  BY DEF Nodes
<1>1. /\ callOf("a") = a_call /\ callOf("a")' = a_call'
      /\ recordsOf("a") = a_records /\ recordsOf("a")' = a_records'
      /\ kvOf("a") = a_kv /\ kvOf("a")' = a_kv'
      /\ handlesOf("a") = a_handles /\ handlesOf("a")' = a_handles'
      /\ terminalsOf("a") = a_terminals /\ terminalsOf("a")' = a_terminals'
      /\ blockNodeOf("a") = a_block_node /\ blockNodeOf("a")' = a_block_node'
      /\ freeListOf("a") = a_free_list /\ freeListOf("a")' = a_free_list'
      /\ generationsOf("a") = a_generations /\ generationsOf("a")' = a_generations'
      /\ \A p : found("a", p) = A!PM!lookup(p) /\ admitStatus("a", p) = A!admitStatus(p)
  BY DEF callOf, recordsOf, kvOf, handlesOf, terminalsOf, blockNodeOf, freeListOf, generationsOf,
         found, admitStatus, Of
<1>2. /\ a_records \in [Slots -> A!BM!BlockRecord]
      /\ a_handles \in [Handles -> Slots \cup {NoSlot}]
      /\ a_terminals \in [Paths -> Slots \cup {NoSlot}]
      /\ a_block_node \in [Slots -> Paths \cup {A!NoPath}]
      /\ a_kv \in [Slots -> Paths \cup {A!NoPath}]
      /\ a_free_list \in Seq(Slots) /\ a_call \in A!Calls
      /\ a_generations \in [Slots -> Nat]
  BY <1>0, <1>1 DEF ViewsInv, WorkersInv
<1>3. /\ A!Idle = A!Idle /\ A!Slots = Slots /\ A!NoSlot = NoSlot /\ A!NoPath = A!NoPath
      /\ A!BM!NoSlot = NoSlot /\ \A p : A!contentHash(p) = A!contentHash(p)
  BY DEF A!Idle, A!Idle, A!Slots, Slots, A!NoSlot, NoSlot, A!NoPath, A!NoPath,
         A!BM!NoSlot, A!contentHash, A!contentHash
<1>4. /\ a_call.pc = "lookup" =>
            a_call = [pc |-> "lookup", todo |-> a_call.todo] /\ Head(a_call.todo) \in Slots
      /\ a_call.pc = "ready" =>
            /\ a_call = [pc |-> "ready", path |-> a_call.path, id |-> a_call.id]
            /\ a_call.id \in Slots
      /\ a_call.pc = "acquire" => a_call.id \in Slots
      /\ a_call.pc = "evict" => a_call.victim \in Slots
      /\ a_call.pc = "create" => a_call.path \in Paths
  <2>1. /\ a_call.pc = "lookup" =>
              /\ a_call = [pc |-> "lookup", todo |-> a_call.todo]
              /\ a_call.todo \in Seq(Slots) /\ a_call.todo # <<>>
        /\ a_call.pc = "ready" =>
              a_call = [pc |-> "ready", path |-> a_call.path, id |-> a_call.id]
    BY <1>2, CallFields
  <2>2. /\ a_call.pc \in {"ready", "acquire"} => a_call.id \in Slots
        /\ a_call.pc = "evict" => a_call.victim \in Slots
        /\ a_call.pc = "create" => a_call.path \in Paths
    BY <1>2, CallTypes
  <2> QED
    BY <2>1, <2>2, HeadTailProperties
<1>5. /\ UNCHANGED a_records => SlotsKept("a")
      /\ \A s \in Slots : \A x : a_records' = [a_records EXCEPT ![s] =
                                [a_records[s] EXCEPT !.last_access_ns = x]] => SlotsKept("a")
      /\ \A s \in Slots : \A x, y : a_records' = [a_records EXCEPT ![s] =
            [[a_records[s] EXCEPT !.last_access_ns = x] EXCEPT !.refcount = y]]
               => SlotsKept("a")
      /\ \A s \in Slots : \A y : a_records' = [a_records EXCEPT ![s].refcount = y]
               => SlotsKept("a")
      /\ \A s \in Slots : \A from, to :
            a_records[s].state = from /\ a_records' = [a_records EXCEPT ![s].state = to]
               => ToState("a", s, from, to)
  <2>1. UNCHANGED a_records => SlotsKept("a")
    BY <1>1 DEF SlotsKept, SameSlot
  <2>0. \A s \in Slots : a_records[s] \in A!BM!BlockRecord
    BY <1>2
  <2>2. ASSUME NEW s \in Slots, NEW x,
               a_records' = [a_records EXCEPT ![s] =
                                 [a_records[s] EXCEPT !.last_access_ns = x]]
        PROVE  SlotsKept("a")
    <3>1. /\ a_records'[s] = [a_records[s] EXCEPT !.last_access_ns = x]
          /\ \A o \in Slots \ {s} : a_records'[o] = a_records[o]
      BY <1>2, <2>2
    <3>2. /\ a_records'[s].state = a_records[s].state
          /\ a_records'[s].generation = a_records[s].generation
          /\ a_records'[s].hash = a_records[s].hash
      BY <2>0, <3>1 DEF A!BM!BlockRecord
    <3> QED
      BY <1>1, <3>1, <3>2 DEF SlotsKept, SameSlot
  <2>3. ASSUME NEW s \in Slots, NEW x, NEW y,
               a_records' = [a_records EXCEPT ![s] =
                  [[a_records[s] EXCEPT !.last_access_ns = x] EXCEPT !.refcount = y]]
        PROVE  SlotsKept("a")
    <3>1. /\ a_records'[s] =
                [[a_records[s] EXCEPT !.last_access_ns = x] EXCEPT !.refcount = y]
          /\ \A o \in Slots \ {s} : a_records'[o] = a_records[o]
      BY <1>2, <2>3
    <3>2. /\ a_records'[s].state = a_records[s].state
          /\ a_records'[s].generation = a_records[s].generation
          /\ a_records'[s].hash = a_records[s].hash
      BY <2>0, <3>1 DEF A!BM!BlockRecord
    <3> QED
      BY <1>1, <3>1, <3>2 DEF SlotsKept, SameSlot
  <2>4. ASSUME NEW s \in Slots, NEW y, a_records' = [a_records EXCEPT ![s].refcount = y]
        PROVE  SlotsKept("a")
    <3>1. /\ a_records'[s] = [a_records[s] EXCEPT !.refcount = y]
          /\ \A o \in Slots \ {s} : a_records'[o] = a_records[o]
      BY <1>2, <2>4
    <3>2. /\ a_records'[s].state = a_records[s].state
          /\ a_records'[s].generation = a_records[s].generation
          /\ a_records'[s].hash = a_records[s].hash
      BY <2>0, <3>1 DEF A!BM!BlockRecord
    <3> QED
      BY <1>1, <3>1, <3>2 DEF SlotsKept, SameSlot
  <2>5. \A s \in Slots : \A from, to :
           a_records[s].state = from /\ a_records' = [a_records EXCEPT ![s].state = to]
              => ToState("a", s, from, to)
    BY <1>1, <1>2 DEF SameSlot, ToState, A!BM!BlockRecord
  <2> QED
    BY <2>1, <2>2, <2>3, <2>4, <2>5
<1>6. ASSUME NEW p \in Paths, A!lookupPrefix(p)
      PROVE  StartsLookup("a", p)
  BY <1>1, <1>3, <1>5, <1>6 DEF A!lookupPrefix, A!bmVars, A!pmVars, StartsLookup,
     ContentKept, MapsKept, PoolKept
<1>7. ASSUME A!lookupStep
      PROVE  LooksUp("a")
  <2>1. a_call.pc = "lookup" /\ UNCHANGED <<a_terminals, a_block_node, a_kv>>
    BY <1>7 DEF A!lookupStep, A!pmVars
  <2>2. CASE Hit("a", Head(a_call.todo))
    <3>1. PICK h \in Handles : /\ a_handles[h] = NoSlot
                               /\ A!BM!acquire(h, Head(a_call.todo))
      BY <1>1, <1>3, <1>7, <2>2 DEF A!lookupStep, A!FreeHandles, A!BM!Acquirable, Hit
    <3>2. /\ a_handles' = [a_handles EXCEPT ![h] = Head(a_call.todo)]
          /\ SlotsKept("a") /\ UNCHANGED <<a_free_list, a_generations>>
      BY <1>4, <1>5, <2>1, <3>1 DEF A!BM!acquire, A!BM!pinInto, A!BM!Touched
    <3>3. a_call' = IF Len(a_call.todo) = 1 THEN A!Idle
                      ELSE [pc |-> "lookup", todo |-> Tail(a_call.todo)]
      BY <1>1, <1>3, <1>4, <1>7, <2>1, <2>2 DEF A!lookupStep, A!BM!Acquirable, Hit
    <3> QED
      BY <1>1, <2>1, <2>2, <3>1, <3>2, <3>3
         DEF LooksUp, Pins, ContentKept, MapsKept, PoolKept
  <2>3. CASE ~ Hit("a", Head(a_call.todo))
    BY <1>1, <1>3, <1>5, <1>7, <2>1, <2>3 DEF A!lookupStep, A!BM!Acquirable, Hit,
       A!bmVars, LooksUp, ContentKept, MapsKept, PoolKept
  <2> QED
    BY <2>2, <2>3
<1>8. ASSUME NEW s \in Slots, NEW g, A!serveBlockFetch(s, g)
      PROVE  Serves("a")
  <2>1. SlotsKept("a")
    BY <1>5, <1>8 DEF A!serveBlockFetch, A!BM!markAccessed, A!BM!Touched
  <2> QED
    BY <1>1, <1>8, <2>1 DEF A!serveBlockFetch, A!BM!markAccessed, A!pmVars, Serves,
       ContentKept, MapsKept, PoolKept
<1>9. ASSUME NEW p \in Paths, A!admit(p)
      PROVE  StartsAdmission("a", p)
  <2>1. A!BM!available = 0 <=> a_free_list = <<>>
    BY <1>2, EmptySeq DEF A!BM!available
  <2>2. a_call'.pc = IF a_free_list = <<>> THEN "space" ELSE "create"
    BY <1>9, <2>1 DEF A!admit, A!spaceNeeded, WithTiers
  <2>3. /\ a_call = A!Idle /\ A!admitStatus(p) = "Proceed" /\ a_call'.path = p
        /\ UNCHANGED <<a_records, a_handles, a_free_list, a_generations, a_terminals,
                       a_block_node, a_kv>>
    BY <1>3, <1>9 DEF A!admit, A!bmVars, A!pmVars
  <2> QED
    BY <1>1, <1>5, <2>2, <2>3 DEF StartsAdmission, ContentKept, MapsKept, PoolKept
<1>10. ASSUME A!insufficientCandidates
       PROVE  GivesUp("a")
  BY <1>1, <1>3, <1>5, <1>10 DEF A!insufficientCandidates, A!bmVars, A!pmVars, GivesUp,
     ContentKept, MapsKept, PoolKept
<1>11. ASSUME NEW v \in Slots, A!beginEvict(v)
       PROVE  BeginsEviction("a")
  <2>1. /\ a_call.pc = "space" /\ a_call'.pc = "evict" /\ a_call'.path = a_call.path
        /\ a_call'.victim = v /\ a_records[v].refcount = 0
        /\ a_records[v].state = "Ready"
        /\ a_records' = [a_records EXCEPT ![v].state = "Evicting"]
        /\ UNCHANGED <<a_free_list, a_generations, a_handles, a_terminals,
                       a_block_node, a_kv>>
    BY <1>11 DEF A!beginEvict, A!BM!transitionState, A!BM!transitionAllowed, A!pmVars
  <2>2. ToState("a", v, "Ready", "Evicting")
    BY <1>5, <2>1
  <2> QED
    BY <1>1, <2>1, <2>2 DEF BeginsEviction, MapsKept, PoolKept
<1>12. ASSUME A!finishEvict
       PROVE  Evicts("a")
  <2> DEFINE v == a_call.victim
  <2>1. /\ a_call.pc = "evict" /\ a_call'.pc = "create" /\ a_call'.path = a_call.path
        /\ a_records[v].state = "Evicting"
        /\ a_records' = [a_records EXCEPT ![v].state = "Free"]
        /\ a_free_list' = Append(a_free_list, v)
        /\ a_generations' = [a_generations EXCEPT ![v] = @ + 1]
        /\ UNCHANGED <<a_handles, a_kv>>
    BY <1>12 DEF A!finishEvict, A!BM!freeBlock, A!BM!transitionState,
       A!BM!transitionAllowed, A!BM!free
  <2>2. ToState("a", v, "Evicting", "Free")
    BY <1>4, <1>5, <2>1
  <2>3. /\ a_terminals' = IF a_block_node[v] = A!NoPath THEN a_terminals
                            ELSE [a_terminals EXCEPT ![a_block_node[v]] = NoSlot]
        /\ a_block_node' = [a_block_node EXCEPT ![v] = A!NoPath]
    BY <1>3, <1>12 DEF A!finishEvict, A!PM!remove
  <2> QED
    BY <1>1, <2>1, <2>2, <2>3 DEF Evicts
<1>13. ASSUME A!create
       PROVE  Creates("a") \/ FindsNoSlot("a")
  <2> DEFINE new == a_free_list[Len(a_free_list)]
  <2>0. /\ a_call.pc = "create"
        /\ A!BM!available = 0 <=> a_free_list = <<>>
        /\ A!BM!allocated = new
    BY <1>2, <1>13, EmptySeq DEF A!create, A!BM!available, A!BM!allocated
  <2>1. CASE a_free_list = <<>>
    BY <1>1, <1>3, <1>5, <1>13, <2>0, <2>1 DEF A!create, A!bmVars, A!pmVars, FindsNoSlot,
       ContentKept, MapsKept, PoolKept
  <2>2. CASE a_free_list # <<>>
    <3>1. new \in Slots
      BY <1>2, <2>2, ElementOfSeq, EmptySeq, LenProperties
    <3>2. /\ A!BM!createBlock(A!contentHash(a_call.path))
          /\ a_kv' = [a_kv EXCEPT ![new] = a_call.path]
          /\ A!PM!insert(a_call.path, A!allBlocks)
          /\ a_call' = [pc |-> "ready", path |-> a_call.path, id |-> new]
      BY <1>13, <2>0, <2>2 DEF A!create, A!placeFits, WithTiers
    <3>3. /\ a_free_list' = SubSeq(a_free_list, 1, Len(a_free_list) - 1)
          /\ a_generations' =
                [a_generations EXCEPT
                    ![new] = IF a_generations[new] = 0 THEN 1 ELSE a_generations[new]]
          /\ UNCHANGED a_handles
          /\ \E g : a_records' = [a_records EXCEPT ![new] =
                [generation |-> g, hash |-> A!contentHash(a_call.path), refcount |-> 0,
                 last_access_ns |-> 0, state |-> "Admitting"]]
      BY <2>0, <3>2 DEF A!BM!createBlock, A!BM!allocate, A!BM!initialize,
         A!BM!allocatedGeneration
    <3>4. /\ a_records'[new].state = "Admitting"
          /\ a_records'[new].hash = A!contentHash(a_call.path)
          /\ \A other \in Slots \ {new} : SameSlot("a", other)
      BY <1>1, <1>2, <1>3, <3>1, <3>3 DEF SameSlot
    <3>5. \A q \in Paths : a_terminals'[q] # a_terminals[q] =>
             \E i \in 1 .. Len(a_call.path) : q = SubSeq(a_call.path, 1, i)
      BY <3>2 DEF A!PM!insert, A!PM!Gaps, A!PM!Prefix
    <3> HIDE DEF new
    <3>6. Creates("a")
      BY <1>1, <2>0, <2>2, <3>2, <3>3, <3>4, <3>5 DEF Creates, new
    <3> QED
      BY <3>6
  <2> QED
    BY <2>1, <2>2
<1>14. ASSUME A!ready
       PROVE  Publishes("a")
  <2>1. /\ a_call.pc = "ready" /\ a_records[a_call.id].state = "Admitting"
        /\ a_records' = [a_records EXCEPT ![a_call.id].state = "Ready"]
        /\ UNCHANGED <<a_free_list, a_generations, a_handles, a_terminals,
                       a_block_node, a_kv>>
    BY <1>14 DEF A!ready, A!BM!transitionState, A!BM!transitionAllowed, A!pmVars
  <2>2. a_call' = [pc |-> "acquire", path |-> a_call.path, id |-> a_call.id]
    BY <1>4, <1>14, <2>1 DEF A!ready
  <2>3. ToState("a", a_call.id, "Admitting", "Ready")
    BY <1>4, <1>5, <2>1
  <2> QED
    BY <1>1, <2>1, <2>2, <2>3 DEF Publishes, MapsKept, PoolKept
<1>15. ASSUME A!admitted
       PROVE  EndsAdmission("a")
  <2>1. PICK h \in Handles : a_handles[h] = NoSlot /\ A!BM!acquire(h, a_call.id)
    BY <1>3, <1>15 DEF A!admitted, A!FreeHandles
  <2>2. Hit("a", a_call.id) /\ a_call.id \in Slots
    BY <1>1, <1>4, <1>15, <2>1 DEF A!admitted, A!BM!acquire, A!BM!Acquirable, Hit
  <2>3. /\ a_handles' = [a_handles EXCEPT ![h] = a_call.id]
        /\ SlotsKept("a") /\ UNCHANGED <<a_free_list, a_generations>>
    BY <1>5, <2>1, <2>2 DEF A!BM!acquire, A!BM!pinInto, A!BM!Touched
  <2> QED
    BY <1>1, <1>3, <1>15, <2>1, <2>2, <2>3 DEF A!admitted, A!pmVars, EndsAdmission, Pins,
       ContentKept, MapsKept, PoolKept
<1>16. ASSUME NEW h \in Handles, A!releaseHandle(h)
       PROVE  Releases("a", h)
  <2>1. /\ a_handles[h] # NoSlot /\ a_handles[h] \in Slots
        /\ a_handles' = [a_handles EXCEPT ![h] = NoSlot]
        /\ a_records' = [a_records EXCEPT
                             ![a_handles[h]].refcount = a_records[a_handles[h]].refcount - 1]
        /\ UNCHANGED <<a_free_list, a_generations>>
    BY <1>2, <1>3, <1>16 DEF A!releaseHandle, A!BM!releaseHandle
  <2>2. SlotsKept("a")
    BY <1>5, <2>1
  <2> QED
    BY <1>1, <1>3, <1>16, <2>1, <2>2 DEF A!releaseHandle, A!pmVars, Releases,
       ContentKept, MapsKept, PoolKept
<1> QED
  BY <1>6, <1>7, <1>8, <1>9, <1>10, <1>11, <1>12, <1>13, <1>14, <1>15, <1>16

\* The steps of worker b
LEMMA ViewsOfB ==
    ASSUME ViewsInv, WorkersInv
    PROVE  /\ \A p \in Paths : B!lookupPrefix(p) => StartsLookup("b", p)
           /\ B!lookupStep => LooksUp("b")
           /\ \A s \in Slots : \A g : B!serveBlockFetch(s, g) => Serves("b")
           /\ \A p \in Paths : B!admit(p) => StartsAdmission("b", p)
           /\ B!insufficientCandidates => GivesUp("b")
           /\ \A v \in Slots : B!beginEvict(v) => BeginsEviction("b")
           /\ B!finishEvict => Evicts("b")
           /\ B!create => Creates("b") \/ FindsNoSlot("b")
           /\ B!ready => Publishes("b")
           /\ B!admitted => EndsAdmission("b")
           /\ \A h \in Handles : B!releaseHandle(h) => Releases("b", h)
<1>0. "b" \in Nodes
  BY DEF Nodes
<1>1. /\ callOf("b") = b_call /\ callOf("b")' = b_call'
      /\ recordsOf("b") = b_records /\ recordsOf("b")' = b_records'
      /\ kvOf("b") = b_kv /\ kvOf("b")' = b_kv'
      /\ handlesOf("b") = b_handles /\ handlesOf("b")' = b_handles'
      /\ terminalsOf("b") = b_terminals /\ terminalsOf("b")' = b_terminals'
      /\ blockNodeOf("b") = b_block_node /\ blockNodeOf("b")' = b_block_node'
      /\ freeListOf("b") = b_free_list /\ freeListOf("b")' = b_free_list'
      /\ generationsOf("b") = b_generations /\ generationsOf("b")' = b_generations'
      /\ \A p : found("b", p) = B!PM!lookup(p) /\ admitStatus("b", p) = B!admitStatus(p)
  BY DEF callOf, recordsOf, kvOf, handlesOf, terminalsOf, blockNodeOf, freeListOf, generationsOf,
         found, admitStatus, Of
<1>2. /\ b_records \in [Slots -> A!BM!BlockRecord]
      /\ b_handles \in [Handles -> Slots \cup {NoSlot}]
      /\ b_terminals \in [Paths -> Slots \cup {NoSlot}]
      /\ b_block_node \in [Slots -> Paths \cup {A!NoPath}]
      /\ b_kv \in [Slots -> Paths \cup {A!NoPath}]
      /\ b_free_list \in Seq(Slots) /\ b_call \in A!Calls
      /\ b_generations \in [Slots -> Nat]
  BY <1>0, <1>1 DEF ViewsInv, WorkersInv
<1>3. /\ B!Idle = A!Idle /\ B!Slots = Slots /\ B!NoSlot = NoSlot /\ B!NoPath = A!NoPath
      /\ B!BM!NoSlot = NoSlot /\ \A p : B!contentHash(p) = A!contentHash(p)
  BY DEF A!Idle, B!Idle, B!Slots, Slots, B!NoSlot, NoSlot, B!NoPath, A!NoPath,
         B!BM!NoSlot, A!contentHash, B!contentHash
<1>4. /\ b_call.pc = "lookup" =>
            b_call = [pc |-> "lookup", todo |-> b_call.todo] /\ Head(b_call.todo) \in Slots
      /\ b_call.pc = "ready" =>
            /\ b_call = [pc |-> "ready", path |-> b_call.path, id |-> b_call.id]
            /\ b_call.id \in Slots
      /\ b_call.pc = "acquire" => b_call.id \in Slots
      /\ b_call.pc = "evict" => b_call.victim \in Slots
      /\ b_call.pc = "create" => b_call.path \in Paths
  <2>1. /\ b_call.pc = "lookup" =>
              /\ b_call = [pc |-> "lookup", todo |-> b_call.todo]
              /\ b_call.todo \in Seq(Slots) /\ b_call.todo # <<>>
        /\ b_call.pc = "ready" =>
              b_call = [pc |-> "ready", path |-> b_call.path, id |-> b_call.id]
    BY <1>2, CallFields
  <2>2. /\ b_call.pc \in {"ready", "acquire"} => b_call.id \in Slots
        /\ b_call.pc = "evict" => b_call.victim \in Slots
        /\ b_call.pc = "create" => b_call.path \in Paths
    BY <1>2, CallTypes
  <2> QED
    BY <2>1, <2>2, HeadTailProperties
<1>5. /\ UNCHANGED b_records => SlotsKept("b")
      /\ \A s \in Slots : \A x : b_records' = [b_records EXCEPT ![s] =
                                [b_records[s] EXCEPT !.last_access_ns = x]] => SlotsKept("b")
      /\ \A s \in Slots : \A x, y : b_records' = [b_records EXCEPT ![s] =
            [[b_records[s] EXCEPT !.last_access_ns = x] EXCEPT !.refcount = y]]
               => SlotsKept("b")
      /\ \A s \in Slots : \A y : b_records' = [b_records EXCEPT ![s].refcount = y]
               => SlotsKept("b")
      /\ \A s \in Slots : \A from, to :
            b_records[s].state = from /\ b_records' = [b_records EXCEPT ![s].state = to]
               => ToState("b", s, from, to)
  <2>1. UNCHANGED b_records => SlotsKept("b")
    BY <1>1 DEF SlotsKept, SameSlot
  <2>0. \A s \in Slots : b_records[s] \in A!BM!BlockRecord
    BY <1>2
  <2>2. ASSUME NEW s \in Slots, NEW x,
               b_records' = [b_records EXCEPT ![s] =
                                 [b_records[s] EXCEPT !.last_access_ns = x]]
        PROVE  SlotsKept("b")
    <3>1. /\ b_records'[s] = [b_records[s] EXCEPT !.last_access_ns = x]
          /\ \A o \in Slots \ {s} : b_records'[o] = b_records[o]
      BY <1>2, <2>2
    <3>2. /\ b_records'[s].state = b_records[s].state
          /\ b_records'[s].generation = b_records[s].generation
          /\ b_records'[s].hash = b_records[s].hash
      BY <2>0, <3>1 DEF A!BM!BlockRecord
    <3> QED
      BY <1>1, <3>1, <3>2 DEF SlotsKept, SameSlot
  <2>3. ASSUME NEW s \in Slots, NEW x, NEW y,
               b_records' = [b_records EXCEPT ![s] =
                  [[b_records[s] EXCEPT !.last_access_ns = x] EXCEPT !.refcount = y]]
        PROVE  SlotsKept("b")
    <3>1. /\ b_records'[s] =
                [[b_records[s] EXCEPT !.last_access_ns = x] EXCEPT !.refcount = y]
          /\ \A o \in Slots \ {s} : b_records'[o] = b_records[o]
      BY <1>2, <2>3
    <3>2. /\ b_records'[s].state = b_records[s].state
          /\ b_records'[s].generation = b_records[s].generation
          /\ b_records'[s].hash = b_records[s].hash
      BY <2>0, <3>1 DEF A!BM!BlockRecord
    <3> QED
      BY <1>1, <3>1, <3>2 DEF SlotsKept, SameSlot
  <2>4. ASSUME NEW s \in Slots, NEW y, b_records' = [b_records EXCEPT ![s].refcount = y]
        PROVE  SlotsKept("b")
    <3>1. /\ b_records'[s] = [b_records[s] EXCEPT !.refcount = y]
          /\ \A o \in Slots \ {s} : b_records'[o] = b_records[o]
      BY <1>2, <2>4
    <3>2. /\ b_records'[s].state = b_records[s].state
          /\ b_records'[s].generation = b_records[s].generation
          /\ b_records'[s].hash = b_records[s].hash
      BY <2>0, <3>1 DEF A!BM!BlockRecord
    <3> QED
      BY <1>1, <3>1, <3>2 DEF SlotsKept, SameSlot
  <2>5. \A s \in Slots : \A from, to :
           b_records[s].state = from /\ b_records' = [b_records EXCEPT ![s].state = to]
              => ToState("b", s, from, to)
    BY <1>1, <1>2 DEF SameSlot, ToState, A!BM!BlockRecord
  <2> QED
    BY <2>1, <2>2, <2>3, <2>4, <2>5
<1>6. ASSUME NEW p \in Paths, B!lookupPrefix(p)
      PROVE  StartsLookup("b", p)
  BY <1>1, <1>3, <1>5, <1>6 DEF B!lookupPrefix, B!bmVars, B!pmVars, StartsLookup,
     ContentKept, MapsKept, PoolKept
<1>7. ASSUME B!lookupStep
      PROVE  LooksUp("b")
  <2>1. b_call.pc = "lookup" /\ UNCHANGED <<b_terminals, b_block_node, b_kv>>
    BY <1>7 DEF B!lookupStep, B!pmVars
  <2>2. CASE Hit("b", Head(b_call.todo))
    <3>1. PICK h \in Handles : /\ b_handles[h] = NoSlot
                               /\ B!BM!acquire(h, Head(b_call.todo))
      BY <1>1, <1>3, <1>7, <2>2 DEF B!lookupStep, B!FreeHandles, B!BM!Acquirable, Hit
    <3>2. /\ b_handles' = [b_handles EXCEPT ![h] = Head(b_call.todo)]
          /\ SlotsKept("b") /\ UNCHANGED <<b_free_list, b_generations>>
      BY <1>4, <1>5, <2>1, <3>1 DEF B!BM!acquire, B!BM!pinInto, B!BM!Touched
    <3>3. b_call' = IF Len(b_call.todo) = 1 THEN A!Idle
                      ELSE [pc |-> "lookup", todo |-> Tail(b_call.todo)]
      BY <1>1, <1>3, <1>4, <1>7, <2>1, <2>2 DEF B!lookupStep, B!BM!Acquirable, Hit
    <3> QED
      BY <1>1, <2>1, <2>2, <3>1, <3>2, <3>3
         DEF LooksUp, Pins, ContentKept, MapsKept, PoolKept
  <2>3. CASE ~ Hit("b", Head(b_call.todo))
    BY <1>1, <1>3, <1>5, <1>7, <2>1, <2>3 DEF B!lookupStep, B!BM!Acquirable, Hit,
       B!bmVars, LooksUp, ContentKept, MapsKept, PoolKept
  <2> QED
    BY <2>2, <2>3
<1>8. ASSUME NEW s \in Slots, NEW g, B!serveBlockFetch(s, g)
      PROVE  Serves("b")
  <2>1. SlotsKept("b")
    BY <1>5, <1>8 DEF B!serveBlockFetch, B!BM!markAccessed, B!BM!Touched
  <2> QED
    BY <1>1, <1>8, <2>1 DEF B!serveBlockFetch, B!BM!markAccessed, B!pmVars, Serves,
       ContentKept, MapsKept, PoolKept
<1>9. ASSUME NEW p \in Paths, B!admit(p)
      PROVE  StartsAdmission("b", p)
  <2>1. B!BM!available = 0 <=> b_free_list = <<>>
    BY <1>2, EmptySeq DEF B!BM!available
  <2>2. b_call'.pc = IF b_free_list = <<>> THEN "space" ELSE "create"
    BY <1>9, <2>1 DEF B!admit, B!spaceNeeded, WithTiers
  <2>3. /\ b_call = A!Idle /\ B!admitStatus(p) = "Proceed" /\ b_call'.path = p
        /\ UNCHANGED <<b_records, b_handles, b_free_list, b_generations, b_terminals,
                       b_block_node, b_kv>>
    BY <1>3, <1>9 DEF B!admit, B!bmVars, B!pmVars
  <2> QED
    BY <1>1, <1>5, <2>2, <2>3 DEF StartsAdmission, ContentKept, MapsKept, PoolKept
<1>10. ASSUME B!insufficientCandidates
       PROVE  GivesUp("b")
  BY <1>1, <1>3, <1>5, <1>10 DEF B!insufficientCandidates, B!bmVars, B!pmVars, GivesUp,
     ContentKept, MapsKept, PoolKept
<1>11. ASSUME NEW v \in Slots, B!beginEvict(v)
       PROVE  BeginsEviction("b")
  <2>1. /\ b_call.pc = "space" /\ b_call'.pc = "evict" /\ b_call'.path = b_call.path
        /\ b_call'.victim = v /\ b_records[v].refcount = 0
        /\ b_records[v].state = "Ready"
        /\ b_records' = [b_records EXCEPT ![v].state = "Evicting"]
        /\ UNCHANGED <<b_free_list, b_generations, b_handles, b_terminals,
                       b_block_node, b_kv>>
    BY <1>11 DEF B!beginEvict, B!BM!transitionState, B!BM!transitionAllowed, B!pmVars
  <2>2. ToState("b", v, "Ready", "Evicting")
    BY <1>5, <2>1
  <2> QED
    BY <1>1, <2>1, <2>2 DEF BeginsEviction, MapsKept, PoolKept
<1>12. ASSUME B!finishEvict
       PROVE  Evicts("b")
  <2> DEFINE v == b_call.victim
  <2>1. /\ b_call.pc = "evict" /\ b_call'.pc = "create" /\ b_call'.path = b_call.path
        /\ b_records[v].state = "Evicting"
        /\ b_records' = [b_records EXCEPT ![v].state = "Free"]
        /\ b_free_list' = Append(b_free_list, v)
        /\ b_generations' = [b_generations EXCEPT ![v] = @ + 1]
        /\ UNCHANGED <<b_handles, b_kv>>
    BY <1>12 DEF B!finishEvict, B!BM!freeBlock, B!BM!transitionState,
       B!BM!transitionAllowed, B!BM!free
  <2>2. ToState("b", v, "Evicting", "Free")
    BY <1>4, <1>5, <2>1
  <2>3. /\ b_terminals' = IF b_block_node[v] = A!NoPath THEN b_terminals
                            ELSE [b_terminals EXCEPT ![b_block_node[v]] = NoSlot]
        /\ b_block_node' = [b_block_node EXCEPT ![v] = A!NoPath]
    BY <1>3, <1>12 DEF B!finishEvict, B!PM!remove
  <2> QED
    BY <1>1, <2>1, <2>2, <2>3 DEF Evicts
<1>13. ASSUME B!create
       PROVE  Creates("b") \/ FindsNoSlot("b")
  <2> DEFINE new == b_free_list[Len(b_free_list)]
  <2>0. /\ b_call.pc = "create"
        /\ B!BM!available = 0 <=> b_free_list = <<>>
        /\ B!BM!allocated = new
    BY <1>2, <1>13, EmptySeq DEF B!create, B!BM!available, B!BM!allocated
  <2>1. CASE b_free_list = <<>>
    BY <1>1, <1>3, <1>5, <1>13, <2>0, <2>1 DEF B!create, B!bmVars, B!pmVars, FindsNoSlot,
       ContentKept, MapsKept, PoolKept
  <2>2. CASE b_free_list # <<>>
    <3>1. new \in Slots
      BY <1>2, <2>2, ElementOfSeq, EmptySeq, LenProperties
    <3>2. /\ B!BM!createBlock(B!contentHash(b_call.path))
          /\ b_kv' = [b_kv EXCEPT ![new] = b_call.path]
          /\ B!PM!insert(b_call.path, B!allBlocks)
          /\ b_call' = [pc |-> "ready", path |-> b_call.path, id |-> new]
      BY <1>13, <2>0, <2>2 DEF B!create, B!placeFits, WithTiers
    <3>3. /\ b_free_list' = SubSeq(b_free_list, 1, Len(b_free_list) - 1)
          /\ b_generations' =
                [b_generations EXCEPT
                    ![new] = IF b_generations[new] = 0 THEN 1 ELSE b_generations[new]]
          /\ UNCHANGED b_handles
          /\ \E g : b_records' = [b_records EXCEPT ![new] =
                [generation |-> g, hash |-> B!contentHash(b_call.path), refcount |-> 0,
                 last_access_ns |-> 0, state |-> "Admitting"]]
      BY <2>0, <3>2 DEF B!BM!createBlock, B!BM!allocate, B!BM!initialize,
         B!BM!allocatedGeneration
    <3>4. /\ b_records'[new].state = "Admitting"
          /\ b_records'[new].hash = A!contentHash(b_call.path)
          /\ \A other \in Slots \ {new} : SameSlot("b", other)
      BY <1>1, <1>2, <1>3, <3>1, <3>3 DEF SameSlot
    <3>5. \A q \in Paths : b_terminals'[q] # b_terminals[q] =>
             \E i \in 1 .. Len(b_call.path) : q = SubSeq(b_call.path, 1, i)
      BY <3>2 DEF B!PM!insert, B!PM!Gaps, B!PM!Prefix
    <3> HIDE DEF new
    <3>6. Creates("b")
      BY <1>1, <2>0, <2>2, <3>2, <3>3, <3>4, <3>5 DEF Creates, new
    <3> QED
      BY <3>6
  <2> QED
    BY <2>1, <2>2
<1>14. ASSUME B!ready
       PROVE  Publishes("b")
  <2>1. /\ b_call.pc = "ready" /\ b_records[b_call.id].state = "Admitting"
        /\ b_records' = [b_records EXCEPT ![b_call.id].state = "Ready"]
        /\ UNCHANGED <<b_free_list, b_generations, b_handles, b_terminals,
                       b_block_node, b_kv>>
    BY <1>14 DEF B!ready, B!BM!transitionState, B!BM!transitionAllowed, B!pmVars
  <2>2. b_call' = [pc |-> "acquire", path |-> b_call.path, id |-> b_call.id]
    BY <1>4, <1>14, <2>1 DEF B!ready
  <2>3. ToState("b", b_call.id, "Admitting", "Ready")
    BY <1>4, <1>5, <2>1
  <2> QED
    BY <1>1, <2>1, <2>2, <2>3 DEF Publishes, MapsKept, PoolKept
<1>15. ASSUME B!admitted
       PROVE  EndsAdmission("b")
  <2>1. PICK h \in Handles : b_handles[h] = NoSlot /\ B!BM!acquire(h, b_call.id)
    BY <1>3, <1>15 DEF B!admitted, B!FreeHandles
  <2>2. Hit("b", b_call.id) /\ b_call.id \in Slots
    BY <1>1, <1>4, <1>15, <2>1 DEF B!admitted, B!BM!acquire, B!BM!Acquirable, Hit
  <2>3. /\ b_handles' = [b_handles EXCEPT ![h] = b_call.id]
        /\ SlotsKept("b") /\ UNCHANGED <<b_free_list, b_generations>>
    BY <1>5, <2>1, <2>2 DEF B!BM!acquire, B!BM!pinInto, B!BM!Touched
  <2> QED
    BY <1>1, <1>3, <1>15, <2>1, <2>2, <2>3 DEF B!admitted, B!pmVars, EndsAdmission, Pins,
       ContentKept, MapsKept, PoolKept
<1>16. ASSUME NEW h \in Handles, B!releaseHandle(h)
       PROVE  Releases("b", h)
  <2>1. /\ b_handles[h] # NoSlot /\ b_handles[h] \in Slots
        /\ b_handles' = [b_handles EXCEPT ![h] = NoSlot]
        /\ b_records' = [b_records EXCEPT
                             ![b_handles[h]].refcount = b_records[b_handles[h]].refcount - 1]
        /\ UNCHANGED <<b_free_list, b_generations>>
    BY <1>2, <1>3, <1>16 DEF B!releaseHandle, B!BM!releaseHandle
  <2>2. SlotsKept("b")
    BY <1>5, <2>1
  <2> QED
    BY <1>1, <1>3, <1>16, <2>1, <2>2 DEF B!releaseHandle, B!pmVars, Releases,
       ContentKept, MapsKept, PoolKept
<1> QED
  BY <1>6, <1>7, <1>8, <1>9, <1>10, <1>11, <1>12, <1>13, <1>14, <1>15, <1>16

OthersKept(node) == \A other \in Nodes \ {node} : AllKept(other)

\* The steps of a worker leave the other one alone.
LEMMA StandsStill ==
    /\ UNCHANGED aVars => AllKept("a")
    /\ UNCHANGED bVars => AllKept("b")
<1>1. UNCHANGED aVars => AllKept("a")
  BY DEF aVars, AllKept, ContentKept, SlotsKept, SameSlot, MapsKept, PoolKept, callOf, recordsOf,
         kvOf, handlesOf, terminalsOf, blockNodeOf, freeListOf, generationsOf, Of
<1>2. UNCHANGED bVars => AllKept("b")
  BY DEF bVars, AllKept, ContentKept, SlotsKept, SameSlot, MapsKept, PoolKept, callOf, recordsOf,
         kvOf, handlesOf, terminalsOf, blockNodeOf, freeListOf, generationsOf, Of
<1> QED
  BY <1>1, <1>2

LEMMA StepViews ==
    ASSUME ViewsInv, WorkersInv, NEW node \in Nodes
    PROVE  /\ UNCHANGED <<aVars, bVars>> => \A other \in Nodes : AllKept(other)
           /\ \A p \in Paths : At(node, A!lookupPrefix(p), B!lookupPrefix(p)) =>
                 StartsLookup(node, p) /\ OthersKept(node)
           /\ At(node, A!lookupStep, B!lookupStep) => LooksUp(node) /\ OthersKept(node)
           /\ \A s \in Slots : \A g : At(node, A!serveBlockFetch(s, g), B!serveBlockFetch(s, g)) =>
                 Serves(node) /\ OthersKept(node)
           /\ \A p \in Paths : At(node, A!admit(p), B!admit(p)) =>
                 StartsAdmission(node, p) /\ OthersKept(node)
           /\ AdmitSteps(node) => AdmitsOn(node) /\ OthersKept(node)
           /\ At(node, A!admitted, B!admitted) => EndsAdmission(node) /\ OthersKept(node)
           /\ \A h \in Handles : At(node, A!releaseHandle(h), B!releaseHandle(h)) =>
                 Releases(node, h) /\ OthersKept(node)
<1>0. UNCHANGED <<aVars, bVars>> => \A other \in Nodes : AllKept(other)
  BY StandsStill DEF Nodes
<1>1. CASE node = "a"
  <2>0. UNCHANGED bVars => OthersKept(node)
    BY <1>1, StandsStill DEF OthersKept, Nodes
  <2>1. AdmitSteps(node) => AdmitsOn(node) /\ OthersKept(node)
    BY <1>1, <2>0, ViewsOfA DEF AdmitSteps, At, AdmitsOn
  <2> QED
    BY <1>0, <1>1, <2>0, <2>1, ViewsOfA DEF At
<1>2. CASE node = "b"
  <2>0. UNCHANGED aVars => OthersKept(node)
    BY <1>2, StandsStill DEF OthersKept, Nodes
  <2>1. AdmitSteps(node) => AdmitsOn(node) /\ OthersKept(node)
    BY <1>2, <2>0, ViewsOfB DEF AdmitSteps, At, AdmitsOn
  <2> QED
    BY <1>0, <1>2, <2>0, <2>1, ViewsOfB DEF At
<1> QED
  BY <1>1, <1>2 DEF Nodes

-----------------------------------------------------------------------------
(* The benchmark: what its requests, counters and caches have to do with   *)
(* each other at every step                                                *)

W(k) == generateWorkload(args.workload)[k]
Blocks(k) == Len(W(k))

\* The request in progress is the last one that was generated and routed.
RequestInv ==
    /\ args \in BenchArgs
    /\ requests \in 0 .. NumRequests
    /\ req # NoRequest => /\ requests > 0 /\ req.path = W(requests)
                          /\ req.node \in chooseNode(req.path)

\* Before the result is assembled
Resolving == req # NoRequest /\ req.pc \in {"lookup", "resolve", "remote"}

\* The last block of a request is nowhere before its request computes it ...
Computed == IF Resolving THEN requests - 1 ELSE requests
LastBlockIsNew ==
    \A k \in 1 .. NumRequests : k > Computed =>
        /\ index[A!contentHash(W(k))] = <<>>
        /\ \A node \in Nodes : terminalsOf(node)[W(k)] = NoSlot

\* ... so that it is never found.
LastBlockIsMissed ==
    Resolving =>
        /\ req.local + req.fetched < Len(req.path)
        /\ req.pc = "lookup" => req.local + Len(callOf(req.node).todo) < Len(req.path)

\* Where blocks come from: requests that were routed to their worker
RoutedTo(node, k) ==
    args.routing = "hash_first_block" => node = hashRouting(W(k))
Routed ==
    /\ \A node \in Nodes, q \in Paths : terminalsOf(node)[q] # NoSlot =>
          \E k \in 1 .. requests : /\ \E i \in 1 .. Blocks(k) : q = SubSeq(W(k), 1, i)
                                   /\ RoutedTo(node, k)
    /\ \A hash \in Hashes : \A ref \in C!Elements(index[hash]) :
          \E k \in 1 .. requests : /\ \E i \in 1 .. Blocks(k) : hash = <<i, W(k)[i]>>
                                   /\ RoutedTo(ref.node_id, k)
    /\ args.routing = "hash_first_block" => streamed["remote_fetch_completed"] = 0

\* Blocks that were admitted and not evicted
Resident(node) == {s \in Slots : recordsOf(node)[s].state \in {"Ready", "Evicting"}}
ResidentsOf(node) ==
    /\ counts[node].admissions - counts[node].evictions = Cardinality(Resident(node))
    /\ \A s \in Slots : recordsOf(node)[s].state = "Evicting" =>
          callOf(node).pc = "evict" /\ callOf(node).victim = s
ResidentsCounted == \A node \in Nodes : ResidentsOf(node)

StreamCounted ==
    /\ streamed["block_admitted"] = results.admissions
    /\ streamed["block_evicted"] = results.evictions
    /\ streamed["remote_fetch_started"]
         = streamed["remote_fetch_completed"] + streamed["remote_fetch_failed"]

\* What the request in progress has fetched is not reported yet, and no more of it
\* is admitted than was fetched.
Pending == IF Resolving THEN req.fetched ELSE 0
PendingHits == IF Resolving THEN Len(req.path) - 1 ELSE 0
HitsCounted ==
    /\ Resolving => IF req.pc = "remote"
                    THEN /\ admitted_count < req.at - req.local
                         /\ req.at - req.local - 1 <= req.fetched
                         /\ callOf(req.node) # A!Idle => req.at - req.local <= req.fetched
                    ELSE admitted_count = 0
    /\ results.remote_hits + Pending <= streamed["remote_fetch_completed"]
    /\ results.local_hits + results.remote_hits + PendingHits <= total_prefix_possible

\* A request ends with a block of its own, and two requests that agree in one block
\* agree in their first one.
LEMMA WorkloadFacts ==
    ASSUME args \in BenchArgs, NEW k \in 1 .. NumRequests
    PROVE  /\ W(k) \in Paths /\ W(k) \in Workload[k] /\ Len(Workload) = NumRequests
           /\ Blocks(k) \in Nat \ {0}
           /\ W(k)[Blocks(k)] = fresh(k, Blocks(k))
           /\ \A l \in 1 .. NumRequests :
                 /\ Blocks(l) = Blocks(k)
                 /\ \A i \in 1 .. Blocks(k) :
                       /\ W(k)[i] = fresh(l, i) => k = l
                       /\ W(k)[i] = W(l)[i] => W(k)[1] = W(l)[1]
<1> DEFINE w == args.workload
           n == IF w = "few_shot_families" THEN FamilyPrefixBlocks + SuffixBlocks
                ELSE IF w = "adversarial_churn" THEN ChurnBlocks
                ELSE PrefixBlocks + SuffixBlocks
<1>0. /\ w \in Workloads /\ NumRequests \in Nat
      /\ PrefixBlocks \in Nat \ {0} /\ FamilyPrefixBlocks \in Nat \ {0}
      /\ ChurnBlocks \in Nat \ {0} /\ NumFamilies \in Nat \ {0}
  BY BenchAssumption DEF BenchArgs
<1>1. n \in Nat \ {0}
  BY <1>0 DEF SuffixBlocks
<1>2. \A l \in 1 .. NumRequests :
         /\ w = "few_shot_families" => W(l) = generateFewShotFamilies(l)
         /\ w = "adversarial_churn" => W(l) = generateAdversarialChurn(l)
         /\ (w # "few_shot_families" /\ w # "adversarial_churn") =>
               W(l) = generateSharedSystemPrompt(l)
  BY DEF W, generateWorkload
<1>3. \A l \in 1 .. NumRequests :
         /\ Blocks(l) = n
         /\ \A i \in 1 .. n :
               W(l)[i] = IF w = "few_shot_families" /\ i <= FamilyPrefixBlocks
                         THEN ofFamily((l - 1) % NumFamilies, i)
                         ELSE IF w # "few_shot_families" /\ w # "adversarial_churn"
                                 /\ i <= PrefixBlocks
                         THEN shared(i) ELSE fresh(l, i)
  <2> SUFFICES ASSUME NEW l \in 1 .. NumRequests
               PROVE  /\ Blocks(l) = n
                      /\ \A i \in 1 .. n :
                            W(l)[i] = IF w = "few_shot_families" /\ i <= FamilyPrefixBlocks
                                      THEN ofFamily((l - 1) % NumFamilies, i)
                                      ELSE IF w # "few_shot_families" /\ w # "adversarial_churn"
                                              /\ i <= PrefixBlocks
                                      THEN shared(i) ELSE fresh(l, i)
    OBVIOUS
  <2>1. CASE w = "few_shot_families"
    <3>1. W(l) = generateFewShotFamilies(l)
      BY <1>2, <2>1
    <3> QED
      BY <1>0, <2>1, <3>1 DEF Blocks, generateFewShotFamilies, SuffixBlocks
  <2>2. CASE w = "adversarial_churn"
    <3>1. W(l) = generateAdversarialChurn(l)
      BY <1>2, <2>2
    <3> QED
      BY <1>0, <2>2, <3>1 DEF Blocks, generateAdversarialChurn, SuffixBlocks
  <2>3. CASE w # "few_shot_families" /\ w # "adversarial_churn"
    <3>1. W(l) = generateSharedSystemPrompt(l)
      BY <1>2, <2>3
    <3> QED
      BY <1>0, <2>3, <3>1 DEF Blocks, generateSharedSystemPrompt, SuffixBlocks
  <2> QED
    BY <2>1, <2>2, <2>3
<1>4. W(k) \in Workload[k] /\ Len(Workload) = NumRequests
  <2>1. Workload = [l \in 1 .. NumRequests |-> {generateWorkload(v)[l] : v \in Workloads}]
    BY WorkloadIsGenerated DEF BenchWorkload
  <2> QED
    BY <1>0, <2>1 DEF W
<1>5. W(k) \in Paths
  BY <1>0, <1>4, WorkloadAssumption
<1>6. W(k)[n] = fresh(k, n)
  BY <1>0, <1>1, <1>3 DEF SuffixBlocks
<1> HIDE DEF w, n
<1>7. ASSUME NEW l \in 1 .. NumRequests, NEW i \in 1 .. n
      PROVE  /\ W(k)[i] = fresh(l, i) => k = l
             /\ W(k)[i] = W(l)[i] => W(k)[1] = W(l)[1]
  <2>1. 1 \in 1 .. n /\ 1 <= PrefixBlocks /\ 1 <= FamilyPrefixBlocks
    BY <1>0, <1>1
  <2>2. /\ \A f, g, j : ofFamily(f, i) = ofFamily(g, i) => f = g
        /\ \A f, g : ofFamily(f, i) # fresh(g, i) /\ shared(i) # fresh(g, i)
                       /\ ofFamily(f, i) # shared(i)
        /\ \A f, g : fresh(f, i) = fresh(g, i) => f = g
    BY DEF ofFamily, fresh, shared
  <2>3. W(k)[i] = fresh(l, i) => k = l
    BY <1>3, <2>2
  <2>4. W(k)[i] = W(l)[i] => W(k)[1] = W(l)[1]
    BY <1>3, <2>1, <2>2
  <2> QED
    BY <2>3, <2>4
<1> QED
  BY <1>1, <1>3, <1>4, <1>5, <1>6, <1>7


LEMMA PrefixOf ==
    ASSUME NEW p \in Paths, NEW i \in 1 .. Len(p)
    PROVE  /\ Len(p) \in Nat \ {0} /\ SubSeq(p, 1, Len(p)) = p
           /\ SubSeq(p, 1, i) \in Paths /\ Len(SubSeq(p, 1, i)) = i
           /\ \A j \in 1 .. i : /\ SubSeq(p, 1, i)[j] = p[j]
                                /\ SubSeq(SubSeq(p, 1, i), 1, j) = SubSeq(p, 1, j)
           /\ A!contentHash(SubSeq(p, 1, i)) = <<i, p[i]>>
<1> DEFINE S == UNION {{q[j] : j \in 1 .. Len(q)} : q \in Paths}
<1>1. p \in Seq(S) /\ Len(p) > 0 /\ SubSeq(p, 1, i) \in Paths
  BY PathsAssumption
<1> HIDE DEF S
<1>2. Len(p) \in Nat \ {0} /\ i \in 1 .. Len(p)
  BY <1>1
<1>3. SubSeq(p, 1, Len(p)) = p
  BY <1>1, <1>2, SubSeqFull
<1>4. Len(SubSeq(p, 1, i)) = i /\ \A j \in 1 .. i : SubSeq(p, 1, i)[j] = p[j]
  BY <1>1, <1>2, SubSeqProperties
<1>5. ASSUME NEW j \in 1 .. i
      PROVE  SubSeq(SubSeq(p, 1, i), 1, j) = SubSeq(p, 1, j)
  <2> DEFINE r == SubSeq(p, 1, i)
  <2>1. r \in Seq(S)
    BY <1>1, <1>2, SubSeqProperties
  <2>2. /\ SubSeq(r, 1, j) \in Seq(S) /\ Len(SubSeq(r, 1, j)) = j
        /\ \A l \in 1 .. j : SubSeq(r, 1, j)[l] = r[l]
    BY <1>4, <2>1, SubSeqProperties
  <2>3. /\ SubSeq(p, 1, j) \in Seq(S) /\ Len(SubSeq(p, 1, j)) = j
        /\ \A l \in 1 .. j : SubSeq(p, 1, j)[l] = p[l]
    BY <1>1, <1>2, SubSeqProperties
  <2> HIDE DEF r
  <2>4. \A l \in 1 .. j : SubSeq(r, 1, j)[l] = SubSeq(p, 1, j)[l]
    BY <1>4, <2>2, <2>3 DEF r
  <2> QED
    BY <2>2, <2>3, <2>4, SeqEqual DEF r
<1> QED
  BY <1>1, <1>2, <1>3, <1>4, <1>5 DEF A!contentHash

\* The last block of a request is in no other one.
LEMMA LastBlockOwn ==
    ASSUME args \in BenchArgs, NEW k \in 1 .. NumRequests, NEW l \in 1 .. NumRequests,
           NEW i \in 1 .. Blocks(l)
    PROVE  /\ W(k) = SubSeq(W(l), 1, i) => k = l /\ i = Blocks(l)
           /\ A!contentHash(W(k)) = <<i, W(l)[i]>> => k = l /\ i = Blocks(l)
<1>1. /\ W(l) \in Paths /\ W(k) \in Paths /\ Blocks(k) \in Nat \ {0}
      /\ W(k)[Blocks(k)] = fresh(k, Blocks(k))
      /\ Blocks(l) = Blocks(k)
      /\ \A j \in 1 .. Blocks(l) : W(l)[j] = fresh(k, j) => l = k
  BY WorkloadFacts
<1>2. /\ Len(SubSeq(W(l), 1, i)) = i /\ SubSeq(W(l), 1, i)[i] = W(l)[i]
  BY <1>1, PrefixOf DEF Blocks
<1>3. Len(W(k)) = Blocks(k) /\ A!contentHash(W(k)) = <<Blocks(k), W(k)[Blocks(k)]>>
  BY DEF Blocks, A!contentHash
<1>4. i = Blocks(k) /\ W(l)[i] = W(k)[Blocks(k)] => k = l /\ i = Blocks(l)
  BY <1>1
<1>5. W(k) = SubSeq(W(l), 1, i) => i = Blocks(k) /\ W(l)[i] = W(k)[Blocks(k)]
  BY <1>2, <1>3
<1>6. A!contentHash(W(k)) = <<i, W(l)[i]>> => i = Blocks(k) /\ W(l)[i] = W(k)[Blocks(k)]
  BY <1>3
<1> QED
  BY <1>4, <1>5, <1>6

-----------------------------------------------------------------------------
(* Events: what is counted and what goes to the stream *)

CountersType ==
    /\ access_count \in [Nodes -> [Slots -> Nat]]
    /\ admitted_count \in Nat
    /\ hits \in [Nodes -> [local_hits : Nat, remote_hits : Nat]]
    /\ counts \in [Nodes -> [admissions : Nat, evictions : Nat]]
    /\ streamed \in [StreamTypes -> Nat]
    /\ total_prefix_possible \in Nat

LEMMA OneOrNone ==
    ASSUME NEW P \in BOOLEAN
    PROVE  Cardinality({i \in 1 .. 1 : P}) = IF P THEN 1 ELSE 0
<1>1. CASE P
  <2>1. {i \in 1 .. 1 : P} = {1}
    BY <1>1
  <2> QED
    BY <1>1, <2>1, FS_Singleton
<1>2. CASE ~ P
  <2>1. {i \in 1 .. 1 : P} = {}
    BY <1>2
  <2> QED
    BY <1>2, <2>1, FS_EmptySet
<1> QED
  BY <1>1, <1>2

\* How many of two events something holds of
LEMMA OneOfTwo ==
    ASSUME NEW P \in BOOLEAN, NEW Q \in BOOLEAN, ~ (P /\ Q)
    PROVE  Cardinality({i \in 1 .. 2 : IF i = 1 THEN P ELSE Q}) = IF P \/ Q THEN 1 ELSE 0
<1>1. CASE P
  <2>1. {i \in 1 .. 2 : IF i = 1 THEN P ELSE Q} = {1}
    BY <1>1
  <2> QED
    BY <1>1, <2>1, FS_Singleton
<1>2. CASE Q
  <2>1. {i \in 1 .. 2 : IF i = 1 THEN P ELSE Q} = {2}
    BY <1>2
  <2> QED
    BY <1>2, <2>1, FS_Singleton
<1>3. CASE ~ P /\ ~ Q
  <2>1. {i \in 1 .. 2 : IF i = 1 THEN P ELSE Q} = {}
    BY <1>3
  <2> QED
    BY <1>3, <2>1, FS_EmptySet
<1> QED
  BY <1>1, <1>2, <1>3


\* An event of a block is counted once and is one object of the stream.
LEMMA RecordsOne ==
    ASSUME CountersType, NEW node \in Nodes, NEW e, recorded(node, <<e>>)
    PROVE  /\ \A other \in Nodes \ {node} : counts'[other] = counts[other]
           /\ counts'[node] =
                 [admissions |-> counts[node].admissions + IF e.kind = "BlockAdmitted" THEN 1 ELSE 0,
                  evictions |-> counts[node].evictions + IF e.kind = "BlockEvicted" THEN 1 ELSE 0]
           /\ streamed' = [type \in StreamTypes |->
                 streamed[type] + IF Ev!serializeEvent(e).type = type THEN 1 ELSE 0]
           /\ counts' \in [Nodes -> [admissions : Nat, evictions : Nat]]
           /\ streamed' \in [StreamTypes -> Nat]
<1>1. \A S : Ev!Cardinality(S) = Cardinality(S)
  BY DEF Ev!Cardinality, Cardinality
<1>2. ASSUME NEW kind
      PROVE  Ev!OfKind(<<e>>, {kind}) = IF e.kind = kind THEN 1 ELSE 0
  <2>1. {i \in 1 .. Len(<<e>>) : <<e>>[i].kind \in {kind}} = {i \in 1 .. 1 : e.kind = kind}
    OBVIOUS
  <2>2. Cardinality({i \in 1 .. 1 : e.kind = kind}) = IF e.kind = kind THEN 1 ELSE 0
    BY OneOrNone
  <2> QED
    BY <1>1, <2>1, <2>2 DEF Ev!OfKind
<1>3. counts' = [counts EXCEPT ![node] =
                    [admissions |-> counts[node].admissions + IF e.kind = "BlockAdmitted" THEN 1 ELSE 0,
                     evictions |-> counts[node].evictions + IF e.kind = "BlockEvicted" THEN 1 ELSE 0]]
  <2>1. counts' = [counts EXCEPT ![node] = Ev!count(counts[node], <<e>>)]
    BY DEF recorded
  <2>2. Ev!count(counts[node], <<e>>) =
           [admissions |-> counts[node].admissions + IF e.kind = "BlockAdmitted" THEN 1 ELSE 0,
            evictions |-> counts[node].evictions + IF e.kind = "BlockEvicted" THEN 1 ELSE 0]
    BY <1>2 DEF Ev!count
  <2> QED
    BY <2>1, <2>2
<1>4. ASSUME NEW type \in StreamTypes
      PROVE  Cardinality({i \in 1 .. Len(<<e>>) : Ev!serializeEvent(<<e>>[i]).type = type})
                = IF Ev!serializeEvent(e).type = type THEN 1 ELSE 0
  <2>1. {i \in 1 .. Len(<<e>>) : Ev!serializeEvent(<<e>>[i]).type = type}
           = {i \in 1 .. 1 : Ev!serializeEvent(e).type = type}
    OBVIOUS
  <2> QED
    BY <2>1, OneOrNone
<1>5. streamed' = [type \in StreamTypes |->
                     streamed[type] + IF Ev!serializeEvent(e).type = type THEN 1 ELSE 0]
  <2> DEFINE n(type) ==
                Cardinality({i \in 1 .. Len(<<e>>) : Ev!serializeEvent(<<e>>[i]).type = type})
  <2>1. streamed' = [type \in StreamTypes |-> streamed[type] + n(type)]
    BY DEF recorded
  <2>2. \A type \in StreamTypes : n(type) = IF Ev!serializeEvent(e).type = type THEN 1 ELSE 0
    BY <1>4
  <2> HIDE DEF n
  <2> QED
    BY <2>1, <2>2
<1>6. /\ \A other \in Nodes \ {node} : counts'[other] = counts[other]
      /\ counts'[node] =
            [admissions |-> counts[node].admissions + IF e.kind = "BlockAdmitted" THEN 1 ELSE 0,
             evictions |-> counts[node].evictions + IF e.kind = "BlockEvicted" THEN 1 ELSE 0]
  BY <1>3 DEF CountersType
<1>7. counts' \in [Nodes -> [admissions : Nat, evictions : Nat]]
  BY <1>3 DEF CountersType
<1>8. streamed' \in [StreamTypes -> Nat]
  BY <1>5 DEF CountersType
<1> QED
  BY <1>5, <1>6, <1>7, <1>8

\* The two events of a fetch
LEMMA RecordsFetch ==
    ASSUME CountersType, NEW node \in Nodes, NEW e, NEW f, recorded(node, <<e, f>>),
           e.kind = "RemoteFetchStarted", f.kind \in {"RemoteFetchCompleted",
           "RemoteFetchFailed"}
    PROVE  /\ counts' = counts
           /\ streamed' =
                 [type \in StreamTypes |-> streamed[type] +
                    IF type \in {"remote_fetch_started",
                                 IF f.kind = "RemoteFetchCompleted" THEN "remote_fetch_completed"
                                 ELSE "remote_fetch_failed"}
                    THEN 1 ELSE 0]
           /\ streamed' \in [StreamTypes -> Nat]
<1>1. \A S : Ev!Cardinality(S) = Cardinality(S)
  BY DEF Ev!Cardinality, Cardinality
<1>2. ASSUME NEW kind \in {"BlockAdmitted", "BlockEvicted"}
      PROVE  Ev!OfKind(<<e, f>>, {kind}) = 0
  <2>1. {i \in 1 .. Len(<<e, f>>) : <<e, f>>[i].kind \in {kind}} = {}
    OBVIOUS
  <2> QED
    BY <1>1, <2>1, FS_EmptySet DEF Ev!OfKind
<1>3. counts' = counts
  <2>1. counts' = [counts EXCEPT ![node] = [admissions |-> counts[node].admissions + 0,
                                            evictions |-> counts[node].evictions + 0]]
    BY <1>2 DEF recorded, Ev!count
  <2>2. counts[node] \in [admissions : Nat, evictions : Nat]
    BY DEF CountersType
  <2>3. [admissions |-> counts[node].admissions + 0, evictions |-> counts[node].evictions + 0]
           = counts[node]
    BY <2>2
  <2> QED
    BY <2>1, <2>3 DEF CountersType
<1>4. Ev!serializeEvent(e).type = "remote_fetch_started"
  BY DEF Ev!serializeEvent, Ev!fetchJson
<1>5. Ev!serializeEvent(f).type = IF f.kind = "RemoteFetchCompleted" THEN "remote_fetch_completed"
                                  ELSE "remote_fetch_failed"
  BY DEF Ev!serializeEvent, Ev!fetchJson, Ev!fetchFailedJson
<1>6. ASSUME NEW type \in StreamTypes
      PROVE  Cardinality({i \in 1 .. Len(<<e, f>>) : Ev!serializeEvent(<<e,
      f>>[i]).type = type})
                = IF \/ Ev!serializeEvent(e).type = type \/ Ev!serializeEvent(f).type = type
                  THEN 1 ELSE 0
  <2> DEFINE P == Ev!serializeEvent(e).type = type
             Q == Ev!serializeEvent(f).type = type
  <2>1. {i \in 1 .. Len(<<e, f>>) : Ev!serializeEvent(<<e, f>>[i]).type = type}
           = {i \in 1 .. 2 : IF i = 1 THEN P ELSE Q}
    OBVIOUS
  <2>2. P \in BOOLEAN /\ Q \in BOOLEAN /\ ~ (P /\ Q)
    BY <1>4, <1>5
  <2> HIDE DEF P, Q
  <2>3. Cardinality({i \in 1 .. 2 : IF i = 1 THEN P ELSE Q}) = IF P \/ Q THEN 1 ELSE 0
    BY <2>2, OneOfTwo
  <2> QED
    BY <2>1, <2>3 DEF P, Q
<1>7. streamed' = [type \in StreamTypes |-> streamed[type] +
                     IF \/ Ev!serializeEvent(e).type = type \/ Ev!serializeEvent(f).type = type
                     THEN 1 ELSE 0]
  <2> DEFINE n(type) ==
         Cardinality({i \in 1 .. Len(<<e, f>>) : Ev!serializeEvent(<<e, f>>[i]).type = type})
  <2>1. streamed' = [type \in StreamTypes |-> streamed[type] + n(type)]
    BY DEF recorded
  <2>2. \A type \in StreamTypes :
           n(type) = IF \/ Ev!serializeEvent(e).type = type \/ Ev!serializeEvent(f).type = type
                     THEN 1 ELSE 0
    BY <1>6
  <2> HIDE DEF n
  <2> QED
    BY <2>1, <2>2
<1>8. streamed' \in [StreamTypes -> Nat]
  BY <1>7 DEF CountersType
<1>9. streamed' = [type \in StreamTypes |-> streamed[type] +
                    IF type \in {"remote_fetch_started",
                                 IF f.kind = "RemoteFetchCompleted" THEN "remote_fetch_completed"
                                 ELSE "remote_fetch_failed"}
                    THEN 1 ELSE 0]
  BY <1>4, <1>5, <1>7
<1> QED
  BY <1>3, <1>8, <1>9

-----------------------------------------------------------------------------
(* The coordinator *)

CP == INSTANCE CoordinatorProofs WITH BlockIds <- Slots

CoordInv == C!TypeOK /\ C!ReplicasAreDistinct

\* What the calls of a request and of the nodes do to the lists
LEMMA CoordinatorFacts ==
    ASSUME CoordInv
    PROVE  /\ UNCHANGED coordVars => CoordInv'
           /\ \A node \in Nodes : C!nodeJoin(node) \/ C!nodeLeave(node) =>
                 /\ CoordInv'
                 /\ \A hash \in Hashes :
                       C!Elements(index'[hash]) \subseteq C!Elements(index[hash])
           /\ \A ref \in C!GlobalBlockRef : C!invalidate(ref) =>
                 /\ CoordInv'
                 /\ \A hash \in Hashes :
                       C!Elements(index'[hash]) \subseteq C!Elements(index[hash])
           /\ \A hash \in Hashes, ref \in C!GlobalBlockRef : C!announce(hash, ref) =>
                 /\ CoordInv'
                 /\ \A other \in Hashes :
                       C!Elements(index'[other]) =
                          IF other = hash THEN C!Elements(index[other]) \cup {ref}
                          ELSE C!Elements(index[other])
<1>0. MaxGeneration \in Nat
  BY GenerationBound
<1>1. CP!IInv /\ (CP!IInv' => CoordInv') /\ C!GlobalBlockRef = CP!GlobalBlockRef
  BY DEF CoordInv, CP!IInv, C!TypeOK, CP!TypeOK, C!ReplicasAreDistinct,
         CP!ReplicasAreDistinct, C!GlobalBlockRef, CP!GlobalBlockRef
<1>2. \A s : C!Elements(s) = CP!Elements(s)
  BY DEF C!Elements, CP!Elements
<1>3. [CP!Next]_(CP!coordVars) => CoordInv'
  BY <1>0, <1>1, CP!NextIInv
<1>4. UNCHANGED coordVars => CoordInv'
  BY <1>3 DEF coordVars, CP!coordVars
<1>5. ASSUME NEW node \in Nodes, C!nodeJoin(node) \/ C!nodeLeave(node)
      PROVE  /\ CoordInv'
             /\ \A hash \in Hashes : C!Elements(index'[hash]) \subseteq C!Elements(index[hash])
  <2>1. CP!nodeJoin(node) \/ CP!nodeLeave(node)
    BY <1>5 DEF C!nodeJoin, CP!nodeJoin, C!nodeLeave, CP!nodeLeave, C!removeNode, CP!removeNode,
                C!remove_if, CP!remove_if, C!RefsTo, CP!RefsTo, C!GlobalBlockRef, CP!GlobalBlockRef
  <2>2. \A hash \in Hashes : CP!Elements(index'[hash]) \subseteq CP!Elements(index[hash])
    BY <1>0, <1>1, <2>1, CP!ListsShrink
  <2> QED
    BY <1>2, <1>3, <2>1, <2>2 DEF CP!Next
<1>6. ASSUME NEW ref \in C!GlobalBlockRef, C!invalidate(ref)
      PROVE  /\ CoordInv'
             /\ \A hash \in Hashes : C!Elements(index'[hash]) \subseteq C!Elements(index[hash])
  <2>1. CP!invalidate(ref)
    BY <1>6 DEF C!invalidate, CP!invalidate, C!invalidateRef, CP!invalidateRef,
                C!remove_if, CP!remove_if
  <2>2. \A hash \in Hashes : CP!Elements(index'[hash]) \subseteq CP!Elements(index[hash])
    BY <1>0, <1>1, <2>1, CP!ListsShrink
  <2> QED
    BY <1>1, <1>2, <1>3, <2>1, <2>2 DEF CP!Next
<1>7. ASSUME NEW hash \in Hashes, NEW ref \in C!GlobalBlockRef, C!announce(hash, ref)
      PROVE  /\ CoordInv'
             /\ \A other \in Hashes :
                   C!Elements(index'[other]) =
                      IF other = hash THEN C!Elements(index[other]) \cup {ref}
                      ELSE C!Elements(index[other])
  <2>1. CP!announce(hash, ref)
    BY <1>2, <1>7 DEF C!announce, CP!announce, C!announceRef, CP!announceRef
  <2>2. \A other \in Hashes :
            CP!Elements(index'[other]) =
               IF other = hash THEN CP!Elements(index[other]) \cup {ref}
               ELSE CP!Elements(index[other])
    BY <1>0, <1>1, <2>1, CP!AnnounceAdds
  <2> QED
    BY <1>1, <1>2, <1>3, <2>1, <2>2 DEF CP!Next
<1> QED
  BY <1>4, <1>5, <1>6, <1>7

\* A reference that comes to the index names its block.
LEMMA ListsStep ==
    ASSUME CoordInv, CoordStep
    PROVE  /\ CoordInv'
           /\ \A hash \in Hashes : \A ref \in C!Elements(index'[hash]) :
                 ref \in C!Elements(index[hash]) \/ NamesItsBlock(hash, ref)
<1>1. CASE UNCHANGED coordVars
  BY <1>1, CoordinatorFacts DEF coordVars
<1>2. CASE \E node \in Nodes : C!nodeJoin(node) \/ C!nodeLeave(node)
  BY <1>2, CoordinatorFacts
<1>3. CASE \E ref \in C!GlobalBlockRef : C!invalidate(ref)
  BY <1>3, CoordinatorFacts
<1>4. CASE \E hash \in Hashes, ref \in C!GlobalBlockRef :
              C!announce(hash, ref) /\ NamesItsBlock(hash, ref)
  BY <1>4, CoordinatorFacts
<1> QED
  BY <1>1, <1>2, <1>3, <1>4 DEF CoordStep

\* A reference goes on naming its block: a slot takes another block only with a
\* later generation.
LEMMA NamesStay ==
    ASSUME WorkersInv, WorkersInv', CoordInv, CoordStep, ReferenceNamesItsBlock,
           \A node \in Nodes : NamesKept(recordsOf(node), recordsOf(node)')
    PROVE  CoordInv' /\ ReferenceNamesItsBlock'
<1>1. /\ CoordInv'
      /\ \A hash \in Hashes : \A ref \in C!Elements(index'[hash]) :
            ref \in C!Elements(index[hash]) \/ NamesItsBlock(hash, ref)
  BY ListsStep
<1>2. ASSUME NEW hash \in Hashes, NEW ref \in C!Elements(index'[hash])
      PROVE  NamesItsBlock(hash, ref)'
  <2>1. NamesItsBlock(hash, ref)
    BY <1>1, <1>2 DEF ReferenceNamesItsBlock, NamesItsBlock
  <2>2. ref \in C!GlobalBlockRef
    BY <1>1, <1>2 DEF CoordInv, C!TypeOK, C!Elements
  <2>3. /\ ref.node_id \in Nodes /\ ref.block_id \in Slots /\ ref.generation \in Nat
    BY <2>2 DEF C!GlobalBlockRef
  <2>4. recordsOf(ref.node_id)[ref.block_id].generation \in Nat
    BY <2>3, GenerationBound DEF WorkersInv
  <2>5. PICK node \in Nodes : node = ref.node_id
    BY <2>3
  <2>6. recordsOf(node)'[ref.block_id].generation \in Nat
    BY <2>3, GenerationBound DEF WorkersInv
  <2>7. \/ recordsOf(node)'[ref.block_id].generation > recordsOf(node)[ref.block_id].generation
        \/ /\ recordsOf(node)'[ref.block_id].generation = recordsOf(node)[ref.block_id].generation
           /\ recordsOf(node)'[ref.block_id].hash = recordsOf(node)[ref.block_id].hash
    BY <2>3, <2>5 DEF NamesKept
  <2>8. /\ ref.generation <= recordsOf(node)'[ref.block_id].generation
        /\ ref.generation = recordsOf(node)'[ref.block_id].generation =>
              recordsOf(node)'[ref.block_id].hash = hash
    BY <2>1, <2>3, <2>4, <2>5, <2>6, <2>7 DEF NamesItsBlock
  <2> QED
    BY <2>5, <2>8 DEF NamesItsBlock
<1> QED
  BY <1>1, <1>2 DEF ReferenceNamesItsBlock, NamesItsBlock

-----------------------------------------------------------------------------
(* The steps of the cluster on these views *)

Seen == PartsInv /\ ViewsInv /\ FoundInv
KeepsIndex == UNCHANGED <<index, workers>>

ReqRoute(node, p) ==
    /\ req = NoRequest /\ p \in Paths
    /\ requests' = requests + 1
    /\ req' = [pc |-> IF found(node, p) = <<>> THEN "resolve" ELSE "lookup",
               node |-> node, path |-> p, local |-> 0, fetched |-> 0, at |-> 0,
               reusable |-> <<>>, slot |-> NoSlot, failed |-> NoRef]
    /\ \A n \in Nodes : ContentKept(n) /\ UNCHANGED handlesOf(n) /\ callOf(n) = A!Idle
    /\ callOf(node)' = IF found(node, p) = <<>> THEN A!Idle
                       ELSE [pc |-> "lookup", todo |-> found(node, p)]
    /\ OthersKept(node) /\ KeepsIndex
ReqLookup(node) ==
    LET slot == Head(callOf(node).todo)
    IN /\ req.pc = "lookup" /\ LooksUp(node) /\ OthersKept(node)
       /\ req' = [req EXCEPT !.pc = IF callOf(node)' = A!Idle THEN "resolve" ELSE "lookup",
                             !.local = IF Hit(node, slot) THEN @ + 1 ELSE @,
                             !.reusable = IF Hit(node, slot) THEN Append(@, slot) ELSE @]
       /\ KeepsIndex /\ UNCHANGED requests
ReqResolve ==
    /\ req.pc = "resolve" /\ replicas = <<>>
    /\ req' = [req EXCEPT !.pc = "remote", !.at = req.local + 1]
    /\ \A n \in Nodes : AllKept(n)
    /\ KeepsIndex /\ UNCHANGED requests
ReqFetch ==
    /\ req.pc = "resolve" /\ replicas # <<>>
    /\ fetchStatus(req.node, chosen, HashOf(missing)) = "Ok"
    /\ req' = [req EXCEPT !.fetched = @ + 1]
    /\ \A n \in Nodes : ContentKept(n) /\ UNCHANGED <<callOf(n), handlesOf(n)>>
    /\ KeepsIndex /\ UNCHANGED requests
ReqFail ==
    /\ req.pc = "resolve" /\ replicas # <<>>
    /\ fetchStatus(req.node, chosen, HashOf(missing)) # "Ok"
    /\ req' = [req EXCEPT !.pc = "remote", !.at = req.local + 1, !.failed = chosen]
    /\ \A n \in Nodes : AllKept(n)
    /\ KeepsIndex \/ C!invalidate(chosen)
    /\ UNCHANGED requests
ReqSkip ==
    /\ req.pc \in {"remote", "computed"} /\ req.at <= Last
    /\ admitStatus(req.node, Path(req.at)) # "Proceed"
    /\ req' = [req EXCEPT !.at = @ + 1]
    /\ \A n \in Nodes : AllKept(n) /\ callOf(n) = A!Idle
    /\ KeepsIndex /\ UNCHANGED requests
ReqStart(node) ==
    /\ req.pc \in {"remote", "computed"} /\ req.at <= Last
    /\ StartsAdmission(node, Path(req.at)) /\ OthersKept(node)
    /\ KeepsIndex /\ UNCHANGED <<req, requests>>
ReqAdmitStep(node) ==
    /\ req.pc \in {"remote", "computed"} /\ AdmitsOn(node) /\ OthersKept(node)
    /\ req' = IF callOf(node)' = A!Idle THEN [req EXCEPT !.at = @ + 1] ELSE req
    /\ KeepsIndex /\ UNCHANGED requests
ReqAdmit(node) ==
    /\ req.pc \in {"remote", "computed"} /\ EndsAdmission(node) /\ OthersKept(node)
    /\ req' = IF req.pc = "remote"
              THEN [req EXCEPT !.at = @ + 1, !.reusable = Append(@, callOf(node).id)]
              ELSE [req EXCEPT !.pc = "announce", !.slot = callOf(node).id]
    /\ KeepsIndex /\ UNCHANGED requests
ReqAssemble ==
    /\ req.pc = "remote" /\ req.at > Last
    /\ req' = [req EXCEPT !.pc = "computed", !.at = Len(req.reusable) + 1]
    /\ \A n \in Nodes : AllKept(n) /\ callOf(n) = A!Idle
    /\ KeepsIndex /\ UNCHANGED requests
ReqAnnounce(node) ==
    /\ req.pc = "announce"
    /\ \E h \in Handles : handlesOf(node)[h] = req.slot /\ Releases(node, h)
    /\ OthersKept(node)
    /\ C!announce(HashOf(req.at),
                  [node_id |-> node, block_id |-> req.slot,
                   generation |-> recordsOf(node)[req.slot].generation])
    /\ req' = [req EXCEPT !.pc = "computed", !.at = @ + 1]
    /\ UNCHANGED requests
ReqFinish ==
    /\ req.pc = "computed" /\ req.at > Last /\ req' = NoRequest
    /\ \A n \in Nodes : AllKept(n) /\ callOf(n) = A!Idle
    /\ KeepsIndex /\ UNCHANGED requests
ReqDrop(node) ==
    /\ req = NoRequest /\ \E h \in Handles : Releases(node, h)
    /\ OthersKept(node) /\ KeepsIndex /\ UNCHANGED <<req, requests>>
ReqNothing ==
    /\ \A n \in Nodes : AllKept(n)
    /\ KeepsIndex /\ UNCHANGED <<req, requests>>
\* A node joins or leaves.
ReqNodes ==
    /\ \A n \in Nodes : AllKept(n)
    /\ \E node \in Nodes : C!nodeJoin(node) \/ C!nodeLeave(node)
    /\ req = NoRequest /\ UNCHANGED <<req, requests>>

RequestMoved(node) ==
    \/ ReqLookup(node) \/ ReqResolve \/ ReqFetch \/ ReqFail \/ ReqSkip \/ ReqStart(node)
    \/ ReqAdmitStep(node) \/ ReqAdmit(node) \/ ReqAssemble \/ ReqAnnounce(node) \/ ReqFinish
ClusterDid ==
    \/ \E node \in Nodes, p \in Paths : ReqRoute(node, p)
    \/ \E node \in Nodes : req \in Running /\ req.node = node /\ RequestMoved(node)
    \/ \E node \in Nodes : ReqDrop(node)
    \/ ReqNothing \/ ReqNodes

LEMMA RunningNode ==
    ASSUME ReqInv, req.pc \in {"lookup", "resolve", "remote", "computed", "announce"}
    PROVE  req \in Running /\ req.node \in Nodes
<1>1. req \in Running
  BY DEF ReqInv, Running, NoRequest
<1> QED
  BY <1>1, RunningFacts

LEMMA MovesRoute ==
    ASSUME Seen, NEW node \in Nodes, NEW p \in Paths, route(node, p)
    PROVE  ReqRoute(node, p)
<1>1. req = NoRequest
  BY DEF route
<1>2. \A n \in Nodes : callOf(n) = A!Idle
  BY <1>1, AllIdle DEF Seen, PartsInv
<1>3. /\ requests' = requests + 1 /\ UNCHANGED coordVars
      /\ req' = [pc |-> IF found(node, p) = <<>> THEN "resolve" ELSE "lookup",
                 node |-> node, path |-> p, local |-> 0, fetched |-> 0, at |-> 0,
                 reusable |-> <<>>, slot |-> NoSlot, failed |-> NoRef]
      /\ IF found(node, p) = <<>> THEN UNCHANGED <<aVars, bVars>>
         ELSE At(node, A!lookupPrefix(p), B!lookupPrefix(p))
  BY DEF route
<1>4. /\ \A n \in Nodes : ContentKept(n) /\ UNCHANGED handlesOf(n)
      /\ callOf(node)' = IF found(node, p) = <<>> THEN A!Idle
                         ELSE [pc |-> "lookup", todo |-> found(node, p)]
      /\ OthersKept(node)
  <2>1. CASE found(node, p) = <<>>
    <3>1. \A n \in Nodes : AllKept(n)
      BY <1>3, <2>1, StepViews DEF Seen, PartsInv
    <3> QED
      BY <1>2, <2>1, <3>1 DEF AllKept, OthersKept
  <2>2. CASE found(node, p) # <<>>
    <3>1. StartsLookup(node, p) /\ OthersKept(node)
      BY <1>3, <2>2, StepViews DEF Seen, PartsInv
    <3> QED
      BY <2>2, <3>1 DEF StartsLookup, OthersKept, AllKept
  <2> QED
    BY <2>1, <2>2
<1> QED
  BY <1>1, <1>2, <1>3, <1>4 DEF ReqRoute, KeepsIndex, coordVars

LEMMA MovesLookup ==
    ASSUME Seen, lookupStep
    PROVE  /\ req \in Running /\ req.node \in Nodes
           /\ \A node \in Nodes : node = req.node => ReqLookup(node)
<1>1. req \in Running /\ req.node \in Nodes
  BY RunningNode DEF Seen, PartsInv, lookupStep
<1>2. ASSUME NEW node \in Nodes, node = req.node
      PROVE  ReqLookup(node)
  <2> DEFINE slot == Head(callOf(node).todo)
             hit == Of(node, A!BM!Acquirable(slot), B!BM!Acquirable(slot))
  <2>3. /\ req.pc = "lookup" /\ At(node, A!lookupStep, B!lookupStep)
        /\ req' = [req EXCEPT !.pc = IF CallEnds THEN "resolve" ELSE "lookup",
                              !.local = IF hit THEN @ + 1 ELSE @,
                              !.reusable = IF hit THEN Append(@, slot) ELSE @]
        /\ UNCHANGED <<coordVars, requests>>
    BY <1>2 DEF lookupStep
  <2>4. LooksUp(node) /\ OthersKept(node)
    BY <2>3, StepViews DEF Seen, PartsInv
  <2>5. hit <=> Hit(node, slot)
    BY DEF Of, A!BM!Acquirable, B!BM!Acquirable, Hit, recordsOf, Nodes
  <2>6. CallEnds <=> callOf(node)' = A!Idle
    BY <1>2 DEF CallEnds, callOf, Of, A!Idle, B!Idle
  <2> HIDE DEF hit, slot
  <2> QED
    BY <2>3, <2>4, <2>5, <2>6 DEF ReqLookup, slot, KeepsIndex, coordVars
<1> QED
  BY <1>1, <1>2

LEMMA MovesResolved ==
    ASSUME Seen, resolved
    PROVE  req \in Running /\ req.node \in Nodes /\ ReqResolve
<1>1. req \in Running /\ req.node \in Nodes
  BY RunningNode DEF Seen, PartsInv, resolved
<1>2. \A n \in Nodes : AllKept(n)
  BY <1>1, StepViews DEF Seen, PartsInv, resolved
<1> QED
  BY <1>1, <1>2 DEF resolved, ReqResolve, KeepsIndex, coordVars

LEMMA MovesFetch ==
    ASSUME Seen, fetch
    PROVE  req \in Running /\ req.node \in Nodes /\ ReqFetch
<1>1. req \in Running /\ req.node \in Nodes
  BY RunningNode DEF Seen, PartsInv, fetch, Fetching
<1>2. /\ req.pc = "resolve" /\ replicas # <<>>
      /\ fetchStatus(req.node, chosen, HashOf(missing)) = "Ok"
      /\ At(chosen.node_id, A!serveBlockFetch(chosen.block_id, chosen.generation),
                            B!serveBlockFetch(chosen.block_id, chosen.generation))
      /\ req' = [req EXCEPT !.fetched = @ + 1]
      /\ UNCHANGED <<coordVars, requests>>
  BY DEF fetch, Fetching
<1>3. chosen \in C!GlobalBlockRef
  BY <1>2, ChosenFacts DEF Seen, PartsInv
<1>4. PICK other \in Nodes, s \in Slots, g \in 1 .. MaxGeneration :
         other = chosen.node_id /\ s = chosen.block_id /\ g = chosen.generation
  BY <1>3 DEF C!GlobalBlockRef
<1>5. Serves(other) /\ OthersKept(other)
  BY <1>2, <1>4, StepViews DEF Seen, PartsInv
<1>6. \A n \in Nodes : ContentKept(n) /\ UNCHANGED <<callOf(n), handlesOf(n)>>
  BY <1>4, <1>5 DEF Serves, OthersKept, AllKept
<1> QED
  BY <1>1, <1>2, <1>6 DEF ReqFetch, KeepsIndex, coordVars

LEMMA MovesFail ==
    ASSUME Seen, fetchStale \/ fetchFails
    PROVE  req \in Running /\ req.node \in Nodes /\ ReqFail
<1>1. req \in Running /\ req.node \in Nodes
  BY RunningNode DEF Seen, PartsInv, fetchStale, fetchFails, Fetching
<1>2. /\ req.pc = "resolve" /\ replicas # <<>>
      /\ fetchStatus(req.node, chosen, HashOf(missing)) # "Ok"
      /\ req' = [req EXCEPT !.pc = "remote", !.at = req.local + 1, !.failed = chosen]
      /\ UNCHANGED <<aVars, bVars, requests>>
      /\ UNCHANGED coordVars \/ C!invalidate(chosen)
  BY DEF fetchStale, fetchFails, Fetching, FetchFailed
<1>3. \A n \in Nodes : AllKept(n)
  BY <1>1, <1>2, StepViews DEF Seen, PartsInv
<1> QED
  BY <1>1, <1>2, <1>3 DEF ReqFail, KeepsIndex, coordVars

LEMMA MovesSkip ==
    ASSUME Seen, admitSkipped
    PROVE  req \in Running /\ req.node \in Nodes /\ ReqSkip
<1>1. req \in Running /\ req.node \in Nodes
  BY RunningNode DEF Seen, PartsInv, admitSkipped, Admitting
<1>2. /\ req.pc \in {"remote", "computed"} /\ req.at <= Last
      /\ admitStatus(req.node, Path(req.at)) # "Proceed"
      /\ callOf(req.node) = A!Idle
      /\ req' = [req EXCEPT !.at = @ + 1]
      /\ UNCHANGED <<aVars, bVars, coordVars, requests>>
  BY DEF admitSkipped, Admitting
<1>3. \A n \in Nodes : AllKept(n)
  BY <1>1, <1>2, StepViews DEF Seen, PartsInv
<1>4. \A n \in Nodes : callOf(n) = A!Idle
  BY <1>1, <1>2 DEF Seen, PartsInv, ReqInv, OneCall
<1> QED
  BY <1>1, <1>2, <1>3, <1>4 DEF ReqSkip, KeepsIndex, coordVars

LEMMA MovesStart ==
    ASSUME Seen, admitStart
    PROVE  /\ req \in Running /\ req.node \in Nodes
           /\ \A node \in Nodes : node = req.node => ReqStart(node)
<1>1. req \in Running /\ req.node \in Nodes
  BY RunningNode DEF Seen, PartsInv, admitStart, Admitting
<1>2. ASSUME NEW node \in Nodes, node = req.node
      PROVE  ReqStart(node)
  <2>1. /\ req.pc \in {"remote", "computed"} /\ req.at <= Last
        /\ At(node, A!admit(Path(req.at)), B!admit(Path(req.at)))
        /\ UNCHANGED <<coordVars, req, requests>>
    BY <1>2 DEF admitStart, Admitting
  <2>2. PICK p \in Paths : p = Path(req.at)
    <3>1. req.at \in 1 .. Len(req.path)
      BY <1>1, <2>1, RunningFacts DEF Seen, PartsInv, ReqInv, InRange, Last
    <3> QED
      BY <1>1, <3>1, RunningFacts
  <2>3. StartsAdmission(node, p) /\ OthersKept(node)
    BY <2>1, <2>2, StepViews DEF Seen, PartsInv
  <2> QED
    BY <2>1, <2>2, <2>3 DEF ReqStart, KeepsIndex, coordVars
<1> QED
  BY <1>1, <1>2

LEMMA MovesAdmitStep ==
    ASSUME Seen, admitStep
    PROVE  /\ req \in Running /\ req.node \in Nodes
           /\ \A node \in Nodes : node = req.node => ReqAdmitStep(node)
<1>1. req \in Running /\ req.node \in Nodes
  BY RunningNode DEF Seen, PartsInv, admitStep
<1>2. ASSUME NEW node \in Nodes, node = req.node
      PROVE  ReqAdmitStep(node)
  <2>1. AdmitSteps(node)
    BY <1>2 DEF admitStep, AdmitSteps
  <2>2. CallEnds <=> callOf(node)' = A!Idle
    BY <1>2 DEF CallEnds, callOf, Of, A!Idle, B!Idle
  <2>3. AdmitsOn(node) /\ OthersKept(node)
    BY <2>1, StepViews DEF Seen, PartsInv
  <2> QED
    BY <2>2, <2>3 DEF admitStep, ReqAdmitStep, KeepsIndex, coordVars
<1> QED
  BY <1>1, <1>2

LEMMA MovesAdmit ==
    ASSUME Seen, admitDone
    PROVE  /\ req \in Running /\ req.node \in Nodes
           /\ \A node \in Nodes : node = req.node => ReqAdmit(node)
<1>1. req \in Running /\ req.node \in Nodes
  BY RunningNode DEF Seen, PartsInv, admitDone
<1>2. ASSUME NEW node \in Nodes, node = req.node
      PROVE  ReqAdmit(node)
  <2>1. /\ req.pc \in {"remote", "computed"} /\ At(node, A!admitted, B!admitted)
        /\ req' = IF req.pc = "remote"
                  THEN [req EXCEPT !.at = @ + 1, !.reusable = Append(@, callOf(node).id)]
                  ELSE [req EXCEPT !.pc = "announce", !.slot = callOf(node).id]
        /\ UNCHANGED <<coordVars, requests>>
    BY <1>2 DEF admitDone
  <2>2. EndsAdmission(node) /\ OthersKept(node)
    BY <2>1, StepViews DEF Seen, PartsInv
  <2> QED
    BY <2>1, <2>2 DEF ReqAdmit, KeepsIndex, coordVars
<1> QED
  BY <1>1, <1>2

LEMMA MovesEnd ==
    ASSUME Seen
    PROVE  /\ assemble => req \in Running /\ req.node \in Nodes /\ ReqAssemble
           /\ finish => req \in Running /\ req.node \in Nodes /\ ReqFinish
<1>1. ASSUME assemble \/ finish
      PROVE  /\ req \in Running /\ req.node \in Nodes
             /\ \A n \in Nodes : AllKept(n) /\ callOf(n) = A!Idle
  <2>1. req \in Running /\ req.node \in Nodes
    BY <1>1, RunningNode DEF Seen, PartsInv, assemble, finish
  <2>2. UNCHANGED <<aVars, bVars>> /\ callOf(req.node) = A!Idle
    BY <1>1 DEF assemble, finish, Admitting
  <2>3. \A n \in Nodes : AllKept(n)
    BY <2>1, <2>2, StepViews DEF Seen, PartsInv
  <2>4. \A n \in Nodes : callOf(n) = A!Idle
    BY <2>1, <2>2 DEF Seen, PartsInv, ReqInv, OneCall
  <2> QED
    BY <2>1, <2>3, <2>4
<1> QED
  BY <1>1 DEF assemble, finish, ReqAssemble, ReqFinish, KeepsIndex, coordVars

LEMMA MovesAnnounce ==
    ASSUME Seen, announce
    PROVE  /\ req \in Running /\ req.node \in Nodes
           /\ \A node \in Nodes : node = req.node => ReqAnnounce(node)
<1>1. req \in Running /\ req.node \in Nodes
  BY RunningNode DEF Seen, PartsInv, announce
<1>2. ASSUME NEW node \in Nodes, node = req.node
      PROVE  ReqAnnounce(node)
  <2>1. PICK h \in Handles : /\ handlesOf(node)[h] = req.slot
                             /\ At(node, A!releaseHandle(h), B!releaseHandle(h))
    BY <1>2 DEF announce
  <2>2. Releases(node, h) /\ OthersKept(node)
    BY <2>1, StepViews DEF Seen, PartsInv
  <2> QED
    BY <1>2, <2>1, <2>2 DEF ReqAnnounce, announce
<1> QED
  BY <1>1, <1>2

LEMMA MovesDrop ==
    ASSUME Seen, NEW node \in Nodes, NEW h \in Handles, dropHandle(node, h)
    PROVE  ReqDrop(node)
<1>1. /\ req = NoRequest /\ At(node, A!releaseHandle(h), B!releaseHandle(h))
      /\ UNCHANGED <<coordVars, req, requests>>
  BY DEF dropHandle
<1>2. Releases(node, h) /\ OthersKept(node)
  BY <1>1, StepViews DEF Seen, PartsInv
<1> QED
  BY <1>1, <1>2 DEF ReqDrop, KeepsIndex, coordVars

\* Every step of the cluster is one of these.
LEMMA ClusterStep ==
    ASSUME Seen, [Next]_vars
    PROVE  ClusterDid
<1>1. CASE UNCHANGED vars
  <2>1. UNCHANGED <<aVars, bVars, coordVars, req, requests>>
    BY <1>1 DEF vars, aVars, bVars, coordVars
  <2>2. \A n \in Nodes : AllKept(n)
    BY <2>1, StandsStill DEF Nodes
  <2> QED
    BY <2>1, <2>2 DEF ReqNothing, KeepsIndex, coordVars, ClusterDid
<1>2. CASE requestStep
  <2>1. req \in Running /\ req.node \in Nodes /\ RequestMoved(req.node)
    BY <1>2, MovesLookup, MovesResolved, MovesFetch, MovesFail, MovesSkip, MovesStart,
       MovesAdmitStep, MovesAdmit, MovesEnd, MovesAnnounce
       DEF requestStep, RequestMoved
  <2> QED
    BY <2>1 DEF ClusterDid
<1>3. CASE \E node \in Nodes : nodeJoin(node) \/ nodeLeave(node)
  <2>1. PICK node \in Nodes : nodeJoin(node) \/ nodeLeave(node)
    BY <1>3
  <2>2. /\ req = NoRequest /\ UNCHANGED <<aVars, bVars, req, requests>>
        /\ C!nodeJoin(node) \/ C!nodeLeave(node)
    BY <2>1 DEF nodeJoin, nodeLeave
  <2>3. \A n \in Nodes : AllKept(n)
    BY <2>2, StandsStill DEF Nodes
  <2> QED
    BY <2>2, <2>3 DEF ReqNodes, ClusterDid
<1> QED
  BY <1>1, <1>2, <1>3, MovesRoute, MovesDrop DEF Next, ClusterDid

-----------------------------------------------------------------------------
(* As long as nothing was evicted: what a request finds, fetches and admits *)

\* A slot that is not free has the generation of the pool.
InUseInv ==
    \A node \in Nodes, s \in Slots : recordsOf(node)[s].state # "Free" =>
        /\ recordsOf(node)[s].generation = generationsOf(node)[s]
        /\ generationsOf(node)[s] > 0

\* The index of a worker has the blocks that are there, under their own prefixes, and an
\* admission in progress extends a chain that is there.
IndexOf(node) ==
    /\ \A p \in Paths, s \in Slots : terminalsOf(node)[p] = s <=> blockNodeOf(node)[s] = p
    /\ \A p \in Paths : terminalsOf(node)[p] # NoSlot => kvOf(node)[terminalsOf(node)[p]] = p
    /\ \A s \in Slots :
          blockNodeOf(node)[s] # A!NoPath <=>
              \/ recordsOf(node)[s].state = "Ready"
              \/ callOf(node).pc = "ready" /\ s = callOf(node).id
              \/ callOf(node).pc = "evict" /\ s = callOf(node).victim
    /\ \A s \in Slots : blockNodeOf(node)[s] # A!NoPath <=> recordsOf(node)[s].state # "Free"
    /\ callOf(node).pc \in {"space", "evict", "create"} =>
          LET p == callOf(node).path
          IN /\ terminalsOf(node)[p] = NoSlot
             /\ \A i \in 1 .. Len(p) - 1 : terminalsOf(node)[SubSeq(p, 1, i)] # NoSlot
    /\ callOf(node).pc \in {"ready", "acquire"} =>
          terminalsOf(node)[callOf(node).path] = callOf(node).id
Indexed == \A node \in Nodes : IndexOf(node)

\* With a prefix, a worker has all shorter ones.
Closed ==
    \A node \in Nodes, p \in Paths : terminalsOf(node)[p] # NoSlot =>
        \A i \in 1 .. Len(p) : terminalsOf(node)[SubSeq(p, 1, i)] # NoSlot

\* A reference leads to a block that is there.
RefsLead ==
    \A hash \in Hashes : \A ref \in C!Elements(index[hash]) :
        /\ recordsOf(ref.node_id)[ref.block_id].generation = ref.generation
        /\ terminalsOf(ref.node_id)[kvOf(ref.node_id)[ref.block_id]] = ref.block_id

\* An admission makes space only when there is none.
SpaceIsNeeded ==
    \A node \in Nodes : callOf(node).pc \in {"space", "evict"} => freeListOf(node) = <<>>

\* The result of request r, on a worker with the prefixes T, the call c and the free list
\* free, and a global index X: the worker has the blocks of the result, and none after
\* them until they are computed; what was fetched is in the result, unless the pool is
\* full, and what comes next is not known to the coordinator.
Own(r, T, i) == T[SubSeq(r.path, 1, i)]
NoneAfter(r, T, n) == \A i \in 1 .. Len(r.path) : i > n => Own(r, T, i) = NoSlot
UnknownAfter(r, X, n) ==
    n = Len(r.path) \/ X[A!contentHash(SubSeq(r.path, 1, n + 1))] = <<>>
Grows(r, T, c, free, X) ==
    LET n == Len(r.reusable)
    IN /\ n <= Len(r.path)
       /\ \A i \in 1 .. n : r.reusable[i] = Own(r, T, i)
       /\ r.pc = "lookup" =>
             /\ n = r.local
             /\ \A j \in 1 .. Len(c.todo) : c.todo[j] = Own(r, T, n + j)
             /\ NoneAfter(r, T, n + Len(c.todo))
       /\ r.pc = "resolve" => n = r.local /\ NoneAfter(r, T, n)
       /\ r.pc = "remote" =>
             /\ r.at <= r.local + r.fetched + 1
             /\ c # A!Idle => r.at <= r.local + r.fetched
             /\ UnknownAfter(r, X, r.local + r.fetched)
             /\ n = r.at - 1 \/ (c = A!Idle /\ n < r.at - 1 /\ free = <<>>)
             /\ NoneAfter(r, T, IF c.pc \in {"ready", "acquire"} THEN n + 1 ELSE n)
       /\ r.pc \in {"computed", "announce"} =>
             /\ r.at > n
             /\ r.at = n + 1 => free = <<>> \/ UnknownAfter(r, X, n)
       /\ r.pc = "announce" => Own(r, T, r.at) = r.slot
ResultGrows ==
    \A node \in Nodes : (req \in Running /\ req.node = node) =>
        Grows(req, terminalsOf(node), callOf(node), freeListOf(node), index)

Unevicted == Closed /\ RefsLead /\ SpaceIsNeeded /\ ResultGrows

\* An index is what the store and the blocks say.
LEMMA IndexHas ==
    ASSUME ViewsInv, NEW node \in Nodes, IndexOf(node), NEW p \in Paths,
           terminalsOf(node)[p] # NoSlot
    PROVE  LET s == terminalsOf(node)[p]
           IN /\ s \in Slots /\ blockNodeOf(node)[s] = p /\ kvOf(node)[s] = p
              /\ blockNodeOf(node)[s] # A!NoPath /\ recordsOf(node)[s].state # "Free"
<1>1. terminalsOf(node)[p] \in Slots
  BY DEF ViewsInv
<1>2. p # A!NoPath
  BY PathsAssumption, EmptySeq DEF A!NoPath
<1> QED
  BY <1>1, <1>2 DEF IndexOf

\* The slots of the free list are the free slots.
LEMMA ListedIsFree ==
    ASSUME ViewsInv, NEW node \in Nodes
    PROVE  \A i \in 1 .. Len(freeListOf(node)) :
              freeListOf(node)[i] \in Slots => recordsOf(node)[freeListOf(node)[i]].state = "Free"
<1>1. \A s \in Slots : recordsOf(node)[s].state = "Free"
                          <=> \E i \in 1 .. Len(freeListOf(node)) : freeListOf(node)[i] = s
  BY Zenon DEF ViewsInv
<1> QED
  BY <1>1, Zenon

\* The new block of an admission is the one change of the index.
LEMMA CreateIsOneEntry ==
    ASSUME ViewsInv, ViewsInv', WorkersInv, NEW node \in Nodes, IndexOf(node), IndexOf(node)',
           Creates(node)
    PROVE  /\ callOf(node).path \in Paths
           /\ terminalsOf(node)' = [terminalsOf(node) EXCEPT ![callOf(node).path] = callOf(node)'.id]
           /\ callOf(node)'.id \in Slots
           /\ \A s \in Slots : blockNodeOf(node)[s] # A!NoPath =>
                 s # callOf(node)'.id /\ SameSlot(node, s) /\ kvOf(node)'[s] = kvOf(node)[s]
<1> DEFINE new == freeListOf(node)[Len(freeListOf(node))]
           path == callOf(node).path
<1>1. /\ callOf(node).pc = "create" /\ freeListOf(node) # <<>>
      /\ callOf(node)' = [pc |-> "ready", path |-> path, id |-> new]
      /\ recordsOf(node)'[new].state = "Admitting"
      /\ \A other \in Slots \ {new} : SameSlot(node, other)
      /\ kvOf(node)' = [kvOf(node) EXCEPT ![new] = path]
  BY DEF Creates
<1>2. /\ terminalsOf(node) \in [Paths -> Slots \cup {NoSlot}]
      /\ terminalsOf(node)' \in [Paths -> Slots \cup {NoSlot}]
      /\ blockNodeOf(node) \in [Slots -> Paths \cup {A!NoPath}]
      /\ blockNodeOf(node)' \in [Slots -> Paths \cup {A!NoPath}]
      /\ kvOf(node) \in [Slots -> Paths \cup {A!NoPath}]
      /\ freeListOf(node) \in Seq(Slots)
  BY DEF ViewsInv
<1>3. Len(freeListOf(node)) \in 1 .. Len(freeListOf(node)) /\ new \in Slots
  BY <1>1, <1>2, EmptySeq
<1>4. recordsOf(node)[new].state = "Free"
  BY <1>3, ListedIsFree
<1>5. path \in Paths
  BY <1>1, CallTypes DEF WorkersInv
<1> HIDE DEF new, path
<1>6. A!NoPath \notin Paths /\ NoSlot \notin Slots
  BY PathsAssumption, EmptySeq, CapacityAssumption DEF A!NoPath, NoSlot, Slots
<1>7. \A s \in Slots : blockNodeOf(node)[s] # A!NoPath =>
         s # new /\ SameSlot(node, s) /\ kvOf(node)'[s] = kvOf(node)[s]
  BY <1>1, <1>2, <1>3, <1>4 DEF IndexOf
<1>8. \A s \in Slots \ {new} : blockNodeOf(node)[s] # A!NoPath <=> blockNodeOf(node)'[s] # A!NoPath
  BY <1>1 DEF IndexOf, SameSlot
<1>9. \A s \in Slots \ {new} : kvOf(node)'[s] = kvOf(node)[s]
  BY <1>1, <1>2
<1>10. /\ terminalsOf(node)'[path] = new
       /\ \A s \in Slots : blockNodeOf(node)[s] # A!NoPath =>
             kvOf(node)[s] = blockNodeOf(node)[s] /\ terminalsOf(node)[blockNodeOf(node)[s]] = s
       /\ \A s \in Slots : blockNodeOf(node)'[s] # A!NoPath =>
             kvOf(node)'[s] = blockNodeOf(node)'[s] /\ terminalsOf(node)'[blockNodeOf(node)'[s]] = s
  <2>1. terminalsOf(node)'[path] = new
    BY <1>1 DEF IndexOf
  <2>2. \A s \in Slots : blockNodeOf(node)[s] # A!NoPath =>
           kvOf(node)[s] = blockNodeOf(node)[s] /\ terminalsOf(node)[blockNodeOf(node)[s]] = s
    BY <1>2, <1>6 DEF IndexOf
  <2>3. \A s \in Slots : blockNodeOf(node)'[s] # A!NoPath =>
           kvOf(node)'[s] = blockNodeOf(node)'[s] /\ terminalsOf(node)'[blockNodeOf(node)'[s]] = s
    BY <1>2, <1>6 DEF IndexOf
  <2> QED
    BY <2>1, <2>2, <2>3
<1>11. ASSUME NEW q \in Paths, q # path
       PROVE  terminalsOf(node)'[q] = terminalsOf(node)[q]
  <2>1. CASE terminalsOf(node)[q] # NoSlot
    <3>1. PICK s \in Slots : s = terminalsOf(node)[q] /\ blockNodeOf(node)[s] = q
      BY <1>2, <1>11, <2>1 DEF IndexOf
    <3>2. s # new /\ blockNodeOf(node)[s] # A!NoPath /\ kvOf(node)[s] = q
      BY <1>6, <1>7, <1>10, <3>1
    <3>3. kvOf(node)'[s] = q /\ terminalsOf(node)'[blockNodeOf(node)'[s]] = s
          /\ kvOf(node)'[s] = blockNodeOf(node)'[s]
      BY <1>8, <1>9, <1>10, <3>1, <3>2
    <3> QED
      BY <3>1, <3>3
  <2>2. CASE terminalsOf(node)'[q] # NoSlot
    <3>1. PICK s \in Slots : s = terminalsOf(node)'[q] /\ blockNodeOf(node)'[s] = q
      BY <1>2, <1>11, <2>2 DEF IndexOf
    <3>2. blockNodeOf(node)'[s] # A!NoPath /\ kvOf(node)'[s] = q
      BY <1>6, <1>10, <3>1
    <3>3. s # new
      BY <1>1, <1>2, <1>3, <1>11, <3>2
    <3>4. kvOf(node)[s] = q /\ terminalsOf(node)[blockNodeOf(node)[s]] = s
          /\ kvOf(node)[s] = blockNodeOf(node)[s]
      BY <1>8, <1>9, <1>10, <3>2, <3>3
    <3> QED
      BY <3>1, <3>4
  <2> QED
    BY <2>1, <2>2
<1>12. callOf(node)'.id = new
  BY <1>1
<1>13. terminalsOf(node)' = [terminalsOf(node) EXCEPT ![path] = new]
  BY <1>2, <1>5, <1>10, <1>11
<1> QED
  BY <1>3, <1>5, <1>7, <1>12, <1>13 DEF path

\* Which early return admit takes
LEMMA StatusOfChain ==
    ASSUME FoundInv, WorkersInv, NEW node \in Nodes, NEW p \in Paths
    PROVE  /\ (/\ terminalsOf(node)[p] = NoSlot
               /\ \A i \in 1 .. Len(p) - 1 : terminalsOf(node)[SubSeq(p, 1, i)] # NoSlot) =>
                 admitStatus(node, p) = "Proceed"
           /\ admitStatus(node, p) = "Proceed" =>
                 \A i \in 1 .. Len(p) - 1 : terminalsOf(node)[SubSeq(p, 1, i)] # NoSlot
<1> DEFINE q == SubSeq(p, 1, Len(p) - 1)
<1>1. Len(p) \in Nat \ {0} /\ SubSeq(p, 1, Len(p)) = p
  <2>1. Len(p) \in Nat \ {0}
    BY PathsAssumption
  <2> QED
    BY <2>1, PrefixOf
<1>2. admitStatus(node, p) =
         IF Len(found(node, p)) = Len(p) THEN "AlreadyPresent"
         ELSE IF Len(p) > 1 /\ Len(found(node, q)) # Len(p) - 1 THEN "InvalidBlock"
         ELSE "Proceed"
  BY DEF admitStatus, Of, A!admitStatus, B!admitStatus, found, A!PM!Parent, B!PM!Parent
<1>3. Len(found(node, p)) \in 0 .. Len(p)
  BY DEF WorkersInv
<1>4. ASSUME Len(p) > 1
      PROVE  /\ q \in Paths /\ Len(q) = Len(p) - 1 /\ Len(found(node, q)) \in 0 .. Len(q)
             /\ \A i \in 1 .. Len(q) : SubSeq(q, 1, i) = SubSeq(p, 1, i)
  <2>1. Len(p) - 1 \in 1 .. Len(p)
    BY <1>1, <1>4
  <2>2. /\ q \in Paths /\ Len(q) = Len(p) - 1
        /\ \A i \in 1 .. Len(p) - 1 : SubSeq(q, 1, i) = SubSeq(p, 1, i)
    BY <2>1, PrefixOf
  <2> HIDE DEF q
  <2> QED
    BY <2>2 DEF WorkersInv
<1> HIDE DEF q
<1>5. ASSUME terminalsOf(node)[p] = NoSlot,
             \A i \in 1 .. Len(p) - 1 : terminalsOf(node)[SubSeq(p, 1, i)] # NoSlot
      PROVE  admitStatus(node, p) = "Proceed"
  <2>1. Len(found(node, p)) # Len(p)
    <3> SUFFICES ASSUME Len(found(node, p)) = Len(p)
                 PROVE  FALSE
      OBVIOUS
    <3>1. Len(p) \in 1 .. Len(found(node, p))
      BY <1>1
    <3> QED
      BY <1>1, <1>5, <3>1 DEF FoundInv
  <2>2. ASSUME Len(p) > 1
        PROVE  Len(found(node, q)) = Len(p) - 1
    <3>1. \A j \in 1 .. Len(q) : terminalsOf(node)[SubSeq(q, 1, j)] # NoSlot
      BY <1>1, <1>4, <1>5, <2>2
    <3>2. Len(q) \in 0 .. Len(q)
      BY <1>1, <1>4, <2>2
    <3>3. Len(q) <= Len(found(node, q))
      BY <1>4, <2>2, <3>1, <3>2 DEF FoundInv
    <3>4. Len(q) = Len(p) - 1 /\ Len(found(node, q)) \in 0 .. Len(q)
      BY <1>4, <2>2
    <3>5. Len(q) \in Nat
      BY <1>1, <1>4, <2>2
    <3> QED
      BY <3>3, <3>4, <3>5
  <2> QED
    BY <1>2, <2>1, <2>2
<1>6. ASSUME admitStatus(node, p) = "Proceed", NEW i \in 1 .. Len(p) - 1
      PROVE  terminalsOf(node)[SubSeq(p, 1, i)] # NoSlot
  <2>1. Len(p) > 1
    BY <1>1, <1>6
  <2>2. Len(found(node, q)) = Len(p) - 1
    BY <1>2, <1>6, <2>1
  <2>3. i \in 1 .. Len(found(node, q)) /\ SubSeq(q, 1, i) = SubSeq(p, 1, i)
    BY <1>1, <1>4, <1>6, <2>1, <2>2
  <2> QED
    BY <1>4, <2>1, <2>3 DEF FoundInv
<1> QED
  BY <1>5, <1>6

\* The prefixes of the request in progress
LEMMA OwnFacts ==
    ASSUME req \in Running, NEW node \in Nodes, NEW T \in [Paths -> Slots \cup {NoSlot}],
           NEW n \in 1 .. Len(req.path)
    PROVE  /\ SubSeq(req.path, 1, n) \in Paths /\ Path(n) = SubSeq(req.path, 1, n)
           /\ Own(req, T, n) \in Slots \cup {NoSlot}
           /\ Len(SubSeq(req.path, 1, n)) = n
           /\ \A i \in 1 .. n : SubSeq(SubSeq(req.path, 1, n), 1, i) = SubSeq(req.path, 1, i)
           /\ \A i \in 1 .. Len(req.path) :
                 SubSeq(req.path, 1, i) = SubSeq(req.path, 1, n) => i = n
<1>1. req.path \in Paths
  BY RunningFacts
<1> QED
  BY <1>1, PrefixOf DEF Own, Path

\* The request in progress, before and after a step that leaves its path and its worker
Growing(node) ==
    /\ Seen /\ req \in Running /\ req.node = node /\ IndexOf(node)
    /\ Grows(req, terminalsOf(node), callOf(node), freeListOf(node), index)
GrownOn(node) ==
    Grows(req', terminalsOf(node)', callOf(node)', freeListOf(node)', index')

\* The types of the request
LEMMA GrowingFacts ==
    ASSUME NEW node \in Nodes, Growing(node)
    PROVE  /\ req \in [pc : {"lookup", "resolve", "remote", "computed", "announce"},
                       node : Nodes, path : Paths, local : Nat, fetched : Nat, at : Nat,
                       reusable : Seq(Slots), slot : Slots \cup {NoSlot},
                       failed : C!GlobalBlockRef \cup {NoRef}]
           /\ Len(req.path) \in Nat \ {0} /\ Len(req.reusable) \in Nat
           /\ req.local + req.fetched <= Len(req.path)
           /\ req.pc \in {"remote", "computed"} => req.at >= 1
           /\ callOf(node) # A!Idle =>
                 \/ req.pc = "lookup" /\ callOf(node).pc = "lookup"
                 \/ /\ req.pc \in {"remote", "computed"}
                    /\ callOf(node).pc \in {"space", "evict", "create", "ready", "acquire"}
                    /\ req.at \in 1 .. Len(req.path)
                    /\ callOf(node).path = Path(req.at)
           /\ terminalsOf(node) \in [Paths -> Slots \cup {NoSlot}]
           /\ Len(req.reusable) <= Len(req.path)
           /\ \A i \in 1 .. Len(req.reusable) :
                 req.reusable[i] = Own(req, terminalsOf(node), i) /\ req.reusable[i] \in Slots
           /\ NoSlot \notin Slots /\ A!Idle.pc = "idle"
<1>1. /\ req \in Running
      /\ req \in [pc : {"lookup", "resolve", "remote", "computed", "announce"},
                  node : Nodes, path : Paths, local : Nat, fetched : Nat, at : Nat,
                  reusable : Seq(Slots), slot : Slots \cup {NoSlot},
                  failed : C!GlobalBlockRef \cup {NoRef}]
      /\ Len(req.path) \in Nat \ {0}
  BY RunningFacts DEF Growing
<1>2. Len(req.reusable) \in Nat /\ \A i \in 1 .. Len(req.reusable) : req.reusable[i] \in Slots
  BY <1>1
<1>3. NoSlot \notin Slots /\ A!Idle.pc = "idle"
  BY CapacityAssumption DEF NoSlot, Slots, A!Idle
<1>4. terminalsOf(node) \in [Paths -> Slots \cup {NoSlot}]
  BY DEF Growing, Seen, ViewsInv
<1>5. /\ req.local + req.fetched <= Len(req.path)
      /\ req.pc \in {"remote", "computed"} => req.at >= 1
  BY <1>1 DEF Growing, Seen, PartsInv, ReqInv, InRange
<1>6. callOf(node) # A!Idle =>
         \/ req.pc = "lookup" /\ callOf(node).pc = "lookup"
         \/ /\ req.pc \in {"remote", "computed"}
            /\ callOf(node).pc \in {"space", "evict", "create", "ready", "acquire"}
            /\ req.at \in 1 .. Len(req.path)
            /\ callOf(node).path = Path(req.at)
  BY DEF Growing, Seen, PartsInv, ReqInv, OneCall
<1>7. /\ Len(req.reusable) <= Len(req.path)
      /\ \A i \in 1 .. Len(req.reusable) : req.reusable[i] = Own(req, terminalsOf(node), i)
  BY DEF Growing, Grows
<1> QED
  BY <1>1, <1>2, <1>3, <1>4, <1>5, <1>6, <1>7

LEMMA GrowsLookup ==
    ASSUME NEW node \in Nodes, Growing(node), InUseInv, ReqLookup(node)
    PROVE  GrownOn(node)
<1> DEFINE T == terminalsOf(node)
           todo == callOf(node).todo
           n == Len(req.reusable)
<1>0. Grows(req, T, callOf(node), freeListOf(node), index) /\ NoSlot \notin Slots
      /\ A!Idle.pc = "idle"
  BY GrowingFacts DEF Growing
<1>1. /\ req.pc = "lookup" /\ callOf(node).pc = "lookup" /\ LooksUp(node)
      /\ terminalsOf(node)' = T
      /\ UNCHANGED <<index, freeListOf(node)>>
  BY DEF ReqLookup, LooksUp, ContentKept, MapsKept, PoolKept, KeepsIndex
<1>2. todo \in Seq(Slots) /\ todo # <<>>
  BY <1>1, CallFields DEF Growing, Seen, PartsInv, WorkersInv
<1>3. /\ Len(todo) \in Nat \ {0} /\ Head(todo) = todo[1] /\ todo[1] \in Slots
      /\ Len(Tail(todo)) = Len(todo) - 1
      /\ \A i \in 1 .. Len(todo) - 1 : Tail(todo)[i] = todo[i + 1]
  BY <1>2, EmptySeq, HeadTailProperties
<1>4. /\ n = req.local /\ n \in Nat /\ n + Len(todo) <= Len(req.path)
      /\ \A j \in 1 .. Len(todo) : todo[j] = Own(req, T, n + j)
      /\ NoneAfter(req, T, n + Len(todo))
      /\ \A i \in 1 .. n : req.reusable[i] = Own(req, T, i)
  <2>1. req.local + Len(todo) <= Len(req.path)
    BY <1>1 DEF Growing, Seen, PartsInv, ReqInv, InRange
  <2> QED
    BY <1>0, <1>1, <2>1, GrowingFacts DEF Grows
<1>5. Hit(node, Head(todo))
  <2>1. n + 1 \in 1 .. Len(req.path)
    BY <1>3, <1>4, GrowingFacts
  <2>2. PICK p \in Paths : p = SubSeq(req.path, 1, n + 1)
    BY <2>1, GrowingFacts, OwnFacts DEF Growing
  <2>3. T[p] = todo[1]
    <3>1. 1 \in 1 .. Len(todo)
      BY <1>3
    <3>2. todo[1] = Own(req, T, n + 1)
      BY <1>4, <3>1
    <3> QED
      BY <2>2, <3>2 DEF Own
  <2>4. /\ blockNodeOf(node)[todo[1]] # A!NoPath /\ recordsOf(node)[todo[1]].state # "Free"
    BY <1>0, <1>3, <2>3, IndexHas DEF Growing, Seen
  <2>5. recordsOf(node)[todo[1]].state = "Ready"
    BY <1>1, <1>3, <2>4 DEF Growing, IndexOf
  <2>6. recordsOf(node)[todo[1]].generation # 0
    BY <1>3, <2>4 DEF InUseInv, Seen, ViewsInv
  <2> QED
    BY <1>3, <2>5, <2>6 DEF Hit
<1>6. /\ callOf(node)' = IF Len(todo) = 1 THEN A!Idle ELSE [pc |-> "lookup", todo |-> Tail(todo)]
      /\ req' = [req EXCEPT !.pc = IF callOf(node)' = A!Idle THEN "resolve" ELSE "lookup",
                            !.local = @ + 1, !.reusable = Append(@, Head(todo))]
  BY <1>1, <1>5 DEF LooksUp, ReqLookup
<1>7. /\ req'.path = req.path /\ req'.local = n + 1
      /\ req'.reusable = Append(req.reusable, todo[1])
      /\ req'.pc = IF Len(todo) = 1 THEN "resolve" ELSE "lookup"
      /\ Len(todo) # 1 => callOf(node)'.todo = Tail(todo)
  BY <1>0, <1>3, <1>4, <1>6, GrowingFacts
<1>8. /\ Len(req'.reusable) = n + 1 /\ req'.reusable[n + 1] = todo[1]
      /\ \A i \in 1 .. n : req'.reusable[i] = req.reusable[i]
  BY <1>3, <1>7, GrowingFacts, AppendProperties
<1>a. Len(todo) \in Nat \ {0} /\ n \in Nat /\ Len(Tail(todo)) = Len(todo) - 1
  BY <1>3, <1>4
<1> HIDE DEF T, todo, n
<1>9. /\ n + 1 <= Len(req.path)
      /\ \A i \in 1 .. n + 1 : req'.reusable[i] = Own(req', T, i)
  BY <1>3, <1>4, <1>7, <1>8 DEF Own
<1>10. CASE Len(todo) = 1
  <2>1. NoneAfter(req', T, n + 1)
    BY <1>4, <1>7, <1>10 DEF NoneAfter, Own
  <2> QED
    BY <1>1, <1>7, <1>8, <1>9, <1>10, <2>1 DEF GrownOn, Grows, T
<1>11. CASE Len(todo) # 1
  <2>1. Len(callOf(node)'.todo) = Len(todo) - 1 /\ n + 1 + (Len(todo) - 1) = n + Len(todo)
    <3>1. callOf(node)'.todo = Tail(todo)
      BY <1>7, <1>11
    <3> QED
      BY <1>a, <3>1
  <2>2. NoneAfter(req', T, n + 1 + Len(callOf(node)'.todo))
    BY <1>4, <1>7, <2>1 DEF NoneAfter, Own
  <2>3. ASSUME NEW j \in 1 .. Len(callOf(node)'.todo)
        PROVE  callOf(node)'.todo[j] = Own(req', T, n + 1 + j)
    <3>1. j \in 1 .. Len(todo) - 1 /\ j + 1 \in 1 .. Len(todo) /\ n + (j + 1) = n + 1 + j
      <4>1. j \in 1 .. Len(todo) - 1
        BY <2>1
      <4> QED
        BY <1>a, <4>1
    <3>2. Tail(todo)[j] = todo[j + 1] /\ todo[j + 1] = Own(req, T, n + (j + 1))
      BY <1>3, <1>4, <3>1
    <3>3. callOf(node)'.todo[j] = Own(req, T, n + 1 + j)
      BY <1>7, <1>11, <3>1, <3>2
    <3> QED
      BY <1>7, <3>3 DEF Own
  <2> QED
    BY <1>1, <1>7, <1>8, <1>9, <1>11, <2>2, <2>3 DEF GrownOn, Grows, T
<1> QED
  BY <1>10, <1>11

LEMMA GrowsResolve ==
    ASSUME NEW node \in Nodes, Growing(node), ReqResolve \/ ReqFetch
    PROVE  GrownOn(node)
<1> DEFINE T == terminalsOf(node)
           n == Len(req.reusable)
<1>1. /\ req.pc = "resolve"
      /\ callOf(node) = A!Idle
      /\ UNCHANGED <<terminalsOf(node), callOf(node), freeListOf(node), index>>
  BY GrowingFacts
     DEF ReqResolve, ReqFetch, AllKept, ContentKept, MapsKept, PoolKept, KeepsIndex
<1>2. /\ n = req.local /\ NoneAfter(req, T, n) /\ n <= Len(req.path)
      /\ \A i \in 1 .. n : req.reusable[i] = Own(req, T, i)
  BY <1>1 DEF Growing, Grows
<1>3. A!Idle.pc = "idle"
  BY GrowingFacts
<1>4. CASE ReqFetch
  <2>1. req'.path = req.path /\ req'.pc = "resolve" /\ req'.reusable = req.reusable
        /\ req'.local = req.local
    BY <1>1, <1>4, GrowingFacts DEF ReqFetch
  <2> QED
    BY <1>1, <1>2, <2>1 DEF GrownOn, Grows, NoneAfter, Own
<1>5. CASE ReqResolve
  <2>1. /\ req'.path = req.path /\ req'.pc = "remote" /\ req'.reusable = req.reusable
        /\ req'.local = req.local /\ req'.fetched = req.fetched /\ req'.at = n + 1
    BY <1>2, <1>5, GrowingFacts DEF ReqResolve
  <2>2. UnknownAfter(req, index, req.local + req.fetched)
    <3>1. CASE missing > Len(req.path)
      BY <3>1, GrowingFacts DEF missing, UnknownAfter
    <3>2. CASE missing <= Len(req.path)
      <4>1. index[HashOf(missing)] = <<>> /\ missing = req.local + req.fetched + 1
        BY <1>5, <3>2, GrowingFacts DEF ReqResolve, replicas, C!query, missing
      <4> QED
        BY <4>1 DEF UnknownAfter, HashOf, Path
    <3> QED
      BY <3>1, <3>2, GrowingFacts DEF missing
  <2>3. UnknownAfter(req', index', req'.local + req'.fetched)
    BY <1>1, <2>1, <2>2 DEF UnknownAfter
  <2>4. NoneAfter(req', terminalsOf(node)', n)
    BY <1>1, <1>2, <2>1 DEF NoneAfter, Own
  <2>5. n = req'.at - 1 /\ req'.at <= req'.local + req'.fetched + 1 /\ callOf(node)'.pc = "idle"
    BY <1>1, <1>2, <1>3, <2>1, GrowingFacts
  <2> QED
    BY <1>1, <1>2, <2>1, <2>3, <2>4, <2>5 DEF GrownOn, Grows, Own
<1> QED
  BY <1>4, <1>5

\* A reference to a missing block leads to another worker that has it.
LEMMA FetchNeverFails ==
    ASSUME NEW node \in Nodes, Growing(node), Indexed, InUseInv, RefsLead, ReferenceNamesItsBlock,
           \A p, q \in Paths : A!contentHash(p) = A!contentHash(q) => p = q,
           ReqFail
    PROVE  FALSE
<1>1. /\ req.pc = "resolve" /\ replicas # <<>>
      /\ fetchStatus(node, chosen, HashOf(missing)) # "Ok"
  BY DEF ReqFail, Growing
<1>2. /\ req \in Running /\ missing \in 1 .. Len(req.path)
      /\ missing = req.local + req.fetched + 1
      /\ chosen \in C!GlobalBlockRef /\ chosen \in C!Elements(index[HashOf(missing)])
  BY <1>1, ChosenFacts DEF Growing, Seen, PartsInv
<1>3. PICK other \in Nodes, s \in Slots, g \in 1 .. MaxGeneration :
         other = chosen.node_id /\ s = chosen.block_id /\ g = chosen.generation
  BY <1>2 DEF C!GlobalBlockRef
<1>4. HashOf(missing) \in Hashes /\ Path(missing) \in Paths
  BY <1>2, RunningFacts
<1>5. /\ recordsOf(other)[s].generation = g /\ g # 0
      /\ terminalsOf(other)[kvOf(other)[s]] = s
      /\ recordsOf(other)[s].hash = HashOf(missing)
  <2>1. g # 0
    BY <1>3, GenerationBound
  <2> QED
    BY <1>2, <1>3, <1>4, <2>1 DEF RefsLead, ReferenceNamesItsBlock
<1>6. kvOf(other)[s] = Path(missing)
  <2>1. kvOf(other)[s] \in Paths /\ A!contentHash(kvOf(other)[s]) = A!contentHash(Path(missing))
    BY <1>5 DEF Growing, Seen, PartsInv, WorkersInv, HashOf
  <2> QED
    BY <1>4, <2>1
<1>7. NoSlot \notin Slots
  BY GrowingFacts
<1>8. other # node
  <2>1. NoneAfter(req, terminalsOf(node), req.local) /\ missing > req.local
    BY <1>1, <1>2, GrowingFacts DEF Growing, Grows
  <2>2. terminalsOf(node)[Path(missing)] = NoSlot
    BY <1>2, <2>1 DEF NoneAfter, Own, Path
  <2> QED
    BY <1>5, <1>6, <1>7, <2>2
<1>9. recordsOf(other)[s].state = "Ready"
  <2>1. callOf(other) = A!Idle /\ A!Idle.pc = "idle"
    BY <1>1, GrowingFacts DEF Growing, Seen, PartsInv, ReqInv, OneCall
  <2>2. blockNodeOf(other)[s] # A!NoPath
    BY <1>4, <1>5, <1>6, <1>7, IndexHas DEF Indexed, Growing, Seen
  <2> QED
    BY <2>1, <2>2 DEF Indexed, IndexOf
<1>10. fetchStatus(node, chosen, HashOf(missing)) = "Ok"
  <2>1. CASE other = "a"
    BY <1>3, <1>5, <1>8, <1>9, <2>1
       DEF fetchStatus, A!BM!fetchLocalStatus, recordsOf, Of, A!BM!Slots, Slots
  <2>2. CASE other = "b"
    BY <1>3, <1>5, <1>8, <1>9, <2>2
       DEF fetchStatus, B!BM!fetchLocalStatus, recordsOf, Of, B!BM!Slots, Slots
  <2> QED
    BY <2>1, <2>2 DEF Nodes
<1> QED
  BY <1>1, <1>10

\* The next block can be admitted if and only if the result has all blocks before it.
LEMMA NextBlock ==
    ASSUME NEW node \in Nodes, Growing(node), req.pc = "remote", callOf(node) = A!Idle,
           req.at <= req.local + req.fetched
    PROVE  /\ req.at \in 1 .. Len(req.path) /\ Path(req.at) \in Paths
           /\ Len(req.reusable) = req.at - 1 <=> admitStatus(node, Path(req.at)) = "Proceed"
<1> DEFINE T == terminalsOf(node)
           n == Len(req.reusable)
           p == Path(req.at)
<1>1. req.at \in 1 .. Len(req.path) /\ n \in Nat
  BY GrowingFacts
<1>2. /\ n = req.at - 1 \/ n < req.at - 1
      /\ NoneAfter(req, T, n)
  BY GrowingFacts DEF Growing, Grows
<1>3. /\ p \in Paths /\ Len(p) = req.at
      /\ \A i \in 1 .. req.at : SubSeq(p, 1, i) = SubSeq(req.path, 1, i)
      /\ p = SubSeq(req.path, 1, req.at)
  <2>1. req.path \in Paths
    BY GrowingFacts
  <2> QED
    BY <1>1, <2>1, PrefixOf DEF Path
<1> HIDE DEF p
<1>4. FoundInv /\ WorkersInv
  BY DEF Growing, Seen, PartsInv
<1>5. ASSUME n = req.at - 1
      PROVE  admitStatus(node, p) = "Proceed"
  <2>1. T[p] = NoSlot
    BY <1>1, <1>2, <1>3, <1>5 DEF NoneAfter, Own
  <2>2. ASSUME NEW i \in 1 .. Len(p) - 1
        PROVE  T[SubSeq(p, 1, i)] # NoSlot
    <3>1. i \in 1 .. n /\ i \in 1 .. req.at
      BY <1>1, <1>3, <1>5
    <3>2. Own(req, T, i) \in Slots /\ NoSlot \notin Slots
      BY <3>1, GrowingFacts
    <3> QED
      BY <1>3, <3>1, <3>2 DEF Own
  <2> QED
    BY <1>3, <1>4, <2>1, <2>2, StatusOfChain
<1>6. ASSUME n < req.at - 1, admitStatus(node, p) = "Proceed"
      PROVE  FALSE
  <2>1. n + 1 \in 1 .. Len(p) - 1 /\ n + 1 \in 1 .. req.at /\ n + 1 \in 1 .. Len(req.path)
    BY <1>1, <1>3, <1>6
  <2>2. T[SubSeq(p, 1, n + 1)] # NoSlot
    BY <1>3, <1>4, <1>6, <2>1, StatusOfChain
  <2>3. T[SubSeq(req.path, 1, n + 1)] = NoSlot
    BY <1>1, <1>2, <2>1 DEF NoneAfter, Own
  <2> QED
    BY <1>3, <2>1, <2>2, <2>3
<1> QED
  BY <1>1, <1>2, <1>3, <1>5, <1>6 DEF p

LEMMA GrowsSkip ==
    ASSUME NEW node \in Nodes, Growing(node), ReqSkip
    PROVE  GrownOn(node)
<1> DEFINE n == Len(req.reusable)
<1>1. /\ req.pc \in {"remote", "computed"} /\ req.at <= Last /\ callOf(node) = A!Idle
      /\ admitStatus(node, Path(req.at)) # "Proceed"
      /\ req' = [req EXCEPT !.at = @ + 1]
      /\ UNCHANGED <<terminalsOf(node), callOf(node), freeListOf(node), index>>
  BY DEF ReqSkip, Growing, AllKept, ContentKept, MapsKept, PoolKept, KeepsIndex
<1>2. /\ req'.path = req.path /\ req'.pc = req.pc /\ req'.reusable = req.reusable
      /\ req'.local = req.local /\ req'.fetched = req.fetched /\ req'.at = req.at + 1
  BY <1>1, GrowingFacts
<1>3. CASE req.pc = "remote"
  <2>1. req.at <= req.local + req.fetched
    BY <1>1, <1>3 DEF Last
  <2>2. n # req.at - 1
    BY <1>1, <1>3, <2>1, NextBlock
  <2>3. n < req'.at - 1 /\ req'.at <= req.local + req.fetched + 1
    BY <1>2, <1>3, <2>1, <2>2, GrowingFacts DEF Growing, Grows
  <2> QED
    BY <1>1, <1>2, <1>3, <2>1, <2>2, <2>3
       DEF Growing, GrownOn, Grows, NoneAfter, Own, UnknownAfter
<1>4. CASE req.pc = "computed"
  <2>1. n \in Nat /\ req.at \in Nat /\ req.at > n
    BY <1>4, GrowingFacts DEF Growing, Grows
  <2>2. req'.at > n /\ req'.at # n + 1
    BY <1>2, <2>1
  <2> QED
    BY <1>1, <1>2, <1>4, <2>2 DEF Growing, GrownOn, Grows, Own
<1> QED
  BY <1>1, <1>3, <1>4

LEMMA GrowsStart ==
    ASSUME NEW node \in Nodes, Growing(node), ReqStart(node)
    PROVE  GrownOn(node)
<1>1. /\ req.pc \in {"remote", "computed"} /\ req.at <= Last /\ callOf(node) = A!Idle
      /\ admitStatus(node, Path(req.at)) = "Proceed"
      /\ callOf(node)'.pc \in {"space", "create"}
      /\ UNCHANGED <<terminalsOf(node), freeListOf(node), index, req>>
  BY DEF ReqStart, StartsAdmission, ContentKept, MapsKept, PoolKept, KeepsIndex
<1>2. A!Idle.pc = "idle"
  BY GrowingFacts
<1>3. CASE req.pc = "remote"
  <2>1. req.at <= req.local + req.fetched
    BY <1>1, <1>3 DEF Last
  <2>2. Len(req.reusable) = req.at - 1
    BY <1>1, <1>3, <2>1, NextBlock
  <2> QED
    BY <1>1, <1>2, <1>3, <2>1, <2>2 DEF Growing, GrownOn, Grows, NoneAfter, Own, UnknownAfter
<1>4. CASE req.pc = "computed"
  BY <1>1, <1>4 DEF Growing, GrownOn, Grows, Own, UnknownAfter
<1> QED
  BY <1>1, <1>3, <1>4

\* The steps of an admission
LEMMA GrowsAdmitStep ==
    ASSUME NEW node \in Nodes, Growing(node), SpaceIsNeeded, ViewsInv', IndexOf(node)',
           ReqAdmitStep(node), ~ Evicts(node)
    PROVE  GrownOn(node)
<1> DEFINE T == terminalsOf(node)
           n == Len(req.reusable)
           c == callOf(node)
<1>0. A!Idle.pc = "idle"
  BY GrowingFacts
<1>1. /\ c # A!Idle /\ req.pc \in {"remote", "computed"}
      /\ UNCHANGED index
      /\ UNCHANGED req \/ callOf(node)' = A!Idle
      /\ callOf(node)' = A!Idle => req' = [req EXCEPT !.at = @ + 1]
  BY <1>0 DEF ReqAdmitStep, AdmitsOn, GivesUp, BeginsEviction, Evicts, Creates, FindsNoSlot,
              Publishes, KeepsIndex
<1>2. /\ req.at \in 1 .. Len(req.path) /\ c.path = Path(req.at) /\ n \in Nat
      /\ n <= Len(req.path) /\ T \in [Paths -> Slots \cup {NoSlot}]
      /\ \A i \in 1 .. n : req.reusable[i] = Own(req, T, i)
  BY <1>1, GrowingFacts
<1>3. /\ req.pc = "remote" =>
            /\ n = req.at - 1 /\ req.at <= req.local + req.fetched
            /\ req.at <= req.local + req.fetched + 1
            /\ UnknownAfter(req, index, req.local + req.fetched)
            /\ NoneAfter(req, T, IF c.pc \in {"ready", "acquire"} THEN n + 1 ELSE n)
      /\ req.pc = "computed" =>
            /\ req.at > n
            /\ req.at = n + 1 => freeListOf(node) = <<>> \/ UnknownAfter(req, index, n)
  BY <1>1 DEF Growing, Grows
<1>4. CASE GivesUp(node) \/ FindsNoSlot(node)
  <2>1. /\ callOf(node)' = A!Idle /\ c.pc \in {"space", "create"}
        /\ freeListOf(node) = <<>>
        /\ UNCHANGED <<terminalsOf(node), freeListOf(node)>>
    BY <1>4 DEF GivesUp, FindsNoSlot, SpaceIsNeeded, ContentKept, MapsKept, PoolKept
  <2>2. /\ req'.path = req.path /\ req'.pc = req.pc /\ req'.reusable = req.reusable
        /\ req'.local = req.local /\ req'.fetched = req.fetched /\ req'.at = req.at + 1
    BY <1>1, <2>1, GrowingFacts
  <2>3. n < req'.at - 1 \/ req.pc = "computed"
    BY <1>1, <1>2, <1>3, <2>2
  <2>4. req.pc = "computed" => req'.at > n /\ req'.at # n + 1
    BY <1>2, <1>3, <2>2
  <2>5. req.pc = "remote" => req'.at <= req.local + req.fetched + 1
    BY <1>2, <1>3, <2>2, GrowingFacts
  <2> HIDE DEF n, T
  <2> QED
    BY <1>0, <1>1, <1>2, <1>3, <2>1, <2>2, <2>3, <2>4, <2>5
       DEF GrownOn, Grows, NoneAfter, Own, UnknownAfter, n, T
<1>5. CASE BeginsEviction(node) \/ Publishes(node)
  <2>1. /\ callOf(node)' # A!Idle
        /\ callOf(node)'.pc \in {"ready", "acquire"} <=> c.pc \in {"ready", "acquire"}
        /\ UNCHANGED <<terminalsOf(node), freeListOf(node)>>
    BY <1>0, <1>5 DEF BeginsEviction, Publishes, MapsKept, PoolKept
  <2>2. UNCHANGED <<req, index>>
    BY <1>1, <2>1
  <2> QED
    BY <1>1, <1>2, <1>3, <2>1, <2>2 DEF GrownOn, Grows, NoneAfter, Own, UnknownAfter
<1>6. CASE Creates(node)
  <2>1. /\ callOf(node)' # A!Idle /\ callOf(node)'.pc = "ready" /\ c.pc = "create"
        /\ freeListOf(node) # <<>>
    BY <1>0, <1>6 DEF Creates
  <2>2. UNCHANGED <<req, index>>
    BY <1>1, <2>1
  <2>3. terminalsOf(node)' = [T EXCEPT ![Path(req.at)] = callOf(node)'.id]
    BY <1>2, <1>6, CreateIsOneEntry DEF Growing, Seen, PartsInv
  <2>4. ASSUME NEW i \in 1 .. Len(req.path), i # req.at
        PROVE  Own(req, terminalsOf(node)', i) = Own(req, T, i)
    <3>1. req.path \in Paths
      BY GrowingFacts
    <3>2. /\ SubSeq(req.path, 1, i) \in Paths /\ Len(SubSeq(req.path, 1, i)) = i
          /\ Len(Path(req.at)) = req.at
      BY <1>2, <3>1, PrefixOf DEF Path
    <3> QED
      BY <1>2, <2>3, <2>4, <3>2 DEF Own
  <2>5. \A i \in 1 .. n : i \in 1 .. Len(req.path) /\ i # req.at
    BY <1>1, <1>2, <1>3, GrowingFacts
  <2>6. \A i \in 1 .. n : req.reusable[i] = Own(req, terminalsOf(node)', i)
    BY <1>2, <2>4, <2>5
  <2>7. ASSUME req.pc = "remote"
        PROVE  NoneAfter(req, terminalsOf(node)', n + 1)
    <3>1. NoneAfter(req, T, n) /\ n = req.at - 1 /\ n \in Nat /\ req.at \in Nat
      BY <1>2, <1>3, <2>1, <2>7, GrowingFacts
    <3> HIDE DEF n, T
    <3>2. \A i \in 1 .. Len(req.path) : i > n + 1 => i # req.at /\ i > n
      BY <3>1
    <3> QED
      BY <2>4, <3>1, <3>2 DEF NoneAfter
  <2> HIDE DEF n, T
  <2> QED
    BY <1>1, <1>2, <1>3, <2>1, <2>2, <2>6, <2>7 DEF GrownOn, Grows, UnknownAfter, n
<1> QED
  BY <1>4, <1>5, <1>6 DEF ReqAdmitStep, AdmitsOn

LEMMA GrowsAdmit ==
    ASSUME NEW node \in Nodes, Growing(node), ReqAdmit(node)
    PROVE  GrownOn(node)
<1> DEFINE T == terminalsOf(node)
           n == Len(req.reusable)
           c == callOf(node)
<1>0. A!Idle.pc = "idle"
  BY GrowingFacts
<1>1. /\ c.pc = "acquire" /\ c # A!Idle /\ callOf(node)' = A!Idle
      /\ req.pc \in {"remote", "computed"}
      /\ req' = IF req.pc = "remote"
                THEN [req EXCEPT !.at = @ + 1, !.reusable = Append(@, c.id)]
                ELSE [req EXCEPT !.pc = "announce", !.slot = c.id]
      /\ UNCHANGED <<terminalsOf(node), freeListOf(node), index>>
  BY <1>0 DEF ReqAdmit, EndsAdmission, ContentKept, MapsKept, PoolKept, KeepsIndex
<1>2. /\ req.at \in 1 .. Len(req.path) /\ c.path = Path(req.at) /\ n \in Nat
      /\ n <= Len(req.path) /\ T \in [Paths -> Slots \cup {NoSlot}]
      /\ \A i \in 1 .. n : req.reusable[i] = Own(req, T, i)
  BY <1>1, GrowingFacts
<1>3. Own(req, T, req.at) = c.id /\ c.id \in Slots
  <2>1. c.id \in Slots
    BY <1>1, CallTypes DEF Growing, Seen, PartsInv, WorkersInv
  <2> QED
    BY <1>1, <1>2, <2>1 DEF Growing, IndexOf, Own, Path
<1>4. CASE req.pc = "remote"
  <2>1. /\ n = req.at - 1 /\ req.at <= req.local + req.fetched
        /\ UnknownAfter(req, index, req.local + req.fetched) /\ NoneAfter(req, T, n + 1)
    BY <1>1, <1>4 DEF Growing, Grows
  <2>2. /\ req'.path = req.path /\ req'.pc = "remote"
        /\ req'.reusable = Append(req.reusable, c.id)
        /\ req'.local = req.local /\ req'.fetched = req.fetched /\ req'.at = req.at + 1
    BY <1>1, <1>4, GrowingFacts
  <2>3. /\ Len(req'.reusable) = n + 1 /\ req'.reusable[n + 1] = c.id
        /\ \A i \in 1 .. n : req'.reusable[i] = req.reusable[i]
    BY <1>3, <2>2, GrowingFacts, AppendProperties
  <2> HIDE DEF n, T, c
  <2>4. \A i \in 1 .. n + 1 : req'.reusable[i] = Own(req', terminalsOf(node)', i)
    BY <1>1, <1>2, <1>3, <2>1, <2>2, <2>3 DEF Own, T
  <2>5. /\ n + 1 <= Len(req.path) /\ n + 1 = req'.at - 1
        /\ req'.at <= req'.local + req'.fetched + 1
    BY <1>2, <2>1, <2>2, GrowingFacts
  <2> QED
    BY <1>0, <1>1, <2>1, <2>2, <2>3, <2>4, <2>5
       DEF GrownOn, Grows, NoneAfter, Own, UnknownAfter, T
<1>5. CASE req.pc = "computed"
  <2>1. /\ req.at > n
        /\ req.at = n + 1 => freeListOf(node) = <<>> \/ UnknownAfter(req, index, n)
    BY <1>5 DEF Growing, Grows
  <2>2. /\ req'.path = req.path /\ req'.pc = "announce" /\ req'.reusable = req.reusable
        /\ req'.at = req.at /\ req'.slot = c.id
    BY <1>1, <1>5, GrowingFacts
  <2> QED
    BY <1>1, <1>2, <1>3, <2>1, <2>2 DEF GrownOn, Grows, Own, UnknownAfter
<1> QED
  BY <1>1, <1>4, <1>5

LEMMA GrowsAssemble ==
    ASSUME NEW node \in Nodes, Growing(node), ReqAssemble
    PROVE  GrownOn(node)
<1> DEFINE n == Len(req.reusable)
<1>1. /\ req.pc = "remote" /\ req.at > req.local + req.fetched /\ callOf(node) = A!Idle
      /\ req' = [req EXCEPT !.pc = "computed", !.at = n + 1]
      /\ UNCHANGED <<terminalsOf(node), freeListOf(node), index>>
  BY DEF ReqAssemble, Last, AllKept, ContentKept, MapsKept, PoolKept, KeepsIndex
<1>2. /\ req'.path = req.path /\ req'.pc = "computed" /\ req'.reusable = req.reusable
      /\ req'.at = n + 1 /\ n \in Nat
  BY <1>1, GrowingFacts
<1>3. /\ req.at <= req.local + req.fetched + 1
      /\ UnknownAfter(req, index, req.local + req.fetched)
      /\ n = req.at - 1 \/ freeListOf(node) = <<>>
  BY <1>1 DEF Growing, Grows
<1>4. req.at - 1 = req.local + req.fetched
  BY <1>1, <1>3, GrowingFacts
<1>5. freeListOf(node) = <<>> \/ UnknownAfter(req, index, n)
  BY <1>3, <1>4
<1>6. req'.at > n
  BY <1>2
<1> QED
  BY <1>1, <1>2, <1>5, <1>6 DEF Growing, GrownOn, Grows, Own, UnknownAfter

LEMMA GrowsAnnounce ==
    ASSUME NEW node \in Nodes, Growing(node), ReqAnnounce(node)
    PROVE  GrownOn(node)
<1> DEFINE n == Len(req.reusable)
<1>1. /\ req.pc = "announce"
      /\ req' = [req EXCEPT !.pc = "computed", !.at = @ + 1]
      /\ UNCHANGED <<terminalsOf(node), freeListOf(node)>>
  BY DEF ReqAnnounce, Releases, ContentKept, MapsKept, PoolKept
<1>2. /\ req'.path = req.path /\ req'.pc = "computed" /\ req'.reusable = req.reusable
      /\ req'.at = req.at + 1 /\ n \in Nat /\ req.at \in Nat
  BY <1>1, GrowingFacts
<1>3. req.at > n
  BY <1>1 DEF Growing, Grows
<1>4. req'.at > n /\ req'.at # n + 1
  BY <1>2, <1>3
<1> QED
  BY <1>1, <1>2, <1>4 DEF Growing, GrownOn, Grows, Own

LEMMA GrowsRoute ==
    ASSUME Seen, Closed, NEW node \in Nodes, NEW p \in Paths, ReqRoute(node, p)
    PROVE  /\ req'.node = node
           /\ GrownOn(node)
<1> DEFINE T == terminalsOf(node)
           f == found(node, p)
<1>1. /\ req'.pc = IF f = <<>> THEN "resolve" ELSE "lookup"
      /\ req'.node = node /\ req'.path = p /\ req'.local = 0 /\ req'.reusable = <<>>
      /\ terminalsOf(node)' = T
      /\ f # <<>> => callOf(node)'.todo = f
  BY DEF ReqRoute, ContentKept, MapsKept
<1>2. /\ Len(f) \in 0 .. Len(p) /\ Len(p) \in Nat \ {0}
      /\ \A i \in 1 .. Len(f) : f[i] = T[SubSeq(p, 1, i)]
  <2>1. Len(p) \in Nat \ {0}
    BY PathsAssumption
  <2> QED
    BY <2>1 DEF Seen, PartsInv, WorkersInv, FoundInv
<1>3. ASSUME NEW i \in 1 .. Len(p), i > Len(f)
      PROVE  T[SubSeq(p, 1, i)] = NoSlot
  <2> SUFFICES ASSUME T[SubSeq(p, 1, i)] # NoSlot
               PROVE  FALSE
    OBVIOUS
  <2>1. /\ SubSeq(p, 1, i) \in Paths /\ Len(SubSeq(p, 1, i)) = i
        /\ \A j \in 1 .. i : SubSeq(SubSeq(p, 1, i), 1, j) = SubSeq(p, 1, j)
    BY PrefixOf
  <2>2. \A j \in 1 .. i : T[SubSeq(p, 1, j)] # NoSlot
    BY <2>1 DEF Closed
  <2>3. i \in 0 .. Len(p)
    BY <1>2
  <2>4. i <= Len(f)
    BY <2>2, <2>3 DEF Seen, FoundInv
  <2> QED
    BY <1>2, <1>3, <2>4
<1> HIDE DEF f, T
<1>4. Len(<<>>) = 0 /\ (f = <<>> => Len(f) = 0)
  OBVIOUS
<1>5. Len(req'.reusable) = 0 /\ 0 <= Len(req'.path)
  BY <1>1, <1>2, <1>4
<1>6. NoneAfter(req', terminalsOf(node)', Len(f)) /\ Len(f) \in Nat
  BY <1>1, <1>2, <1>3 DEF NoneAfter, Own
<1>7. \A j \in 1 .. Len(f) : f[j] = Own(req', terminalsOf(node)', j) /\ 0 + j = j
  BY <1>1, <1>2 DEF Own
<1>8. CASE f = <<>>
  BY <1>1, <1>4, <1>5, <1>6, <1>8 DEF GrownOn, Grows
<1>9. CASE f # <<>>
  <2>1. callOf(node)'.todo = f /\ req'.pc = "lookup" /\ 0 + Len(f) = Len(f)
    BY <1>1, <1>6, <1>9
  <2> QED
    BY <1>1, <1>5, <1>6, <1>7, <2>1 DEF GrownOn, Grows
<1> QED
  BY <1>1, <1>8, <1>9

\* A reference that comes to the index is the one that the request announces.
LEMMA NewReferences ==
    ASSUME Seen, ClusterDid, CoordInv
    PROVE  /\ C!TypeOK'
           /\ \A hash \in Hashes : \A ref \in C!Elements(index'[hash]) :
                 \/ ref \in C!Elements(index[hash])
                 \/ /\ req \in Running /\ req.pc = "announce" /\ req.at \in 1 .. Len(req.path)
                    /\ hash = HashOf(req.at) /\ ref.node_id = req.node
                    /\ ref.block_id = req.slot
                    /\ ref.generation = recordsOf(req.node)[req.slot].generation
<1>1. CASE KeepsIndex
  BY <1>1 DEF KeepsIndex, CoordInv, C!TypeOK
<1>2. CASE ReqFail
  <2>1. chosen \in C!GlobalBlockRef
    BY <1>2, ChosenFacts DEF ReqFail, Seen, PartsInv
  <2>2. CASE C!invalidate(chosen)
    BY <2>1, <2>2, CoordinatorFacts DEF CoordInv
  <2> QED
    BY <1>1, <1>2, <2>2 DEF ReqFail
<1>3. CASE \E node \in Nodes : req \in Running /\ req.node = node /\ ReqAnnounce(node)
  <2>1. PICK node \in Nodes : req \in Running /\ req.node = node /\ ReqAnnounce(node)
    BY <1>3
  <2> DEFINE new == [node_id |-> node, block_id |-> req.slot,
                     generation |-> recordsOf(node)[req.slot].generation]
  <2>2. req.pc = "announce" /\ C!announce(HashOf(req.at), new)
    BY <2>1 DEF ReqAnnounce
  <2>3. /\ req.slot \in Slots /\ req.at \in 1 .. Len(req.path)
        /\ recordsOf(node)[req.slot].generation # 0
    BY <2>1, <2>2 DEF Seen, PartsInv, ReqInv, ToAnnounce
  <2>4. recordsOf(node)[req.slot].generation \in 1 .. MaxGeneration
    BY <2>3, GenerationBound DEF Seen, PartsInv, WorkersInv
  <2>5. new \in C!GlobalBlockRef /\ HashOf(req.at) \in Hashes
    BY <2>1, <2>3, <2>4, RunningFacts DEF C!GlobalBlockRef
  <2>6. /\ CoordInv'
        /\ \A other \in Hashes :
              C!Elements(index'[other]) =
                 IF other = HashOf(req.at) THEN C!Elements(index[other]) \cup {new}
                 ELSE C!Elements(index[other])
    BY <2>2, <2>5, CoordinatorFacts
  <2>7. new.node_id = req.node /\ new.block_id = req.slot
        /\ new.generation = recordsOf(req.node)[req.slot].generation
    BY <2>1
  <2> HIDE DEF new
  <2>8. \A hash \in Hashes : \A ref \in C!Elements(index'[hash]) :
           ref \in C!Elements(index[hash]) \/ (hash = HashOf(req.at) /\ ref = new)
    BY <2>6
  <2> QED
    BY <2>1, <2>2, <2>3, <2>6, <2>7, <2>8 DEF CoordInv
<1>4. CASE ReqNodes
  BY <1>4, CoordinatorFacts DEF ReqNodes, CoordInv
<1> QED
  BY <1>1, <1>2, <1>3, <1>4, ZenonT(40)
     DEF ClusterDid, RequestMoved, ReqRoute, ReqLookup, ReqResolve, ReqFetch, ReqSkip, ReqStart,
         ReqAdmitStep, ReqAdmit, ReqAssemble, ReqFinish, ReqDrop, ReqNothing

\* What a step does to one worker
WorkerDid(n) ==
    \/ /\ ContentKept(n)
       /\ \/ UNCHANGED callOf(n)
          \/ callOf(n)' = A!Idle
          \/ callOf(n)'.pc \in {"lookup", "create"}
          \/ callOf(n)'.pc = "space" /\ freeListOf(n) = <<>>
    \/ BeginsEviction(n) \/ Evicts(n) \/ Creates(n) \/ Publishes(n)
LEMMA WorkerMoves ==
    ASSUME ClusterDid, NEW n \in Nodes
    PROVE  WorkerDid(n)
<1>1. CASE AllKept(n)
  BY <1>1 DEF AllKept, WorkerDid
<1>2. CASE \E p \in Paths : ReqRoute(n, p)
  BY <1>2 DEF ReqRoute, WorkerDid
<1>3. CASE ReqLookup(n)
  BY <1>3 DEF ReqLookup, LooksUp, WorkerDid
<1>4. CASE ReqFetch
  BY <1>4 DEF ReqFetch, WorkerDid
<1>5. CASE ReqStart(n)
  BY <1>5 DEF ReqStart, StartsAdmission, WorkerDid
<1>6. CASE ReqAdmitStep(n)
  BY <1>6 DEF ReqAdmitStep, AdmitsOn, GivesUp, FindsNoSlot, WorkerDid
<1>7. CASE ReqAdmit(n)
  BY <1>7 DEF ReqAdmit, EndsAdmission, WorkerDid
<1>8. CASE ReqAnnounce(n) \/ ReqDrop(n)
  BY <1>8 DEF ReqAnnounce, ReqDrop, Releases, WorkerDid
<1>9. ASSUME NEW node \in Nodes, OthersKept(node), node # n
      PROVE  AllKept(n)
  BY <1>9 DEF OthersKept
<1>10. CASE \E node \in Nodes, p \in Paths : ReqRoute(node, p)
  BY <1>1, <1>2, <1>9, <1>10 DEF ReqRoute
<1>11. CASE \E node \in Nodes : RequestMoved(node)
  <2>1. PICK node \in Nodes : RequestMoved(node)
    BY <1>11
  <2>2. CASE ReqResolve \/ ReqFetch \/ ReqFail \/ ReqSkip \/ ReqAssemble \/ ReqFinish
    BY <1>1, <1>4, <2>2 DEF ReqResolve, ReqFail, ReqSkip, ReqAssemble, ReqFinish
  <2>3. CASE ReqLookup(node) \/ ReqStart(node) \/ ReqAdmitStep(node) \/ ReqAdmit(node)
             \/ ReqAnnounce(node)
    <3>1. OthersKept(node)
      BY <2>3 DEF ReqLookup, ReqStart, ReqAdmitStep, ReqAdmit, ReqAnnounce
    <3> QED
      BY <1>1, <1>3, <1>5, <1>6, <1>7, <1>8, <1>9, <2>3, <3>1
  <2> QED
    BY <2>1, <2>2, <2>3 DEF RequestMoved
<1>12. CASE \E node \in Nodes : ReqDrop(node)
  BY <1>1, <1>8, <1>9, <1>12 DEF ReqDrop
<1>13. CASE ReqNothing \/ ReqNodes
  BY <1>1, <1>13 DEF ReqNothing, ReqNodes
<1> QED
  BY <1>10, <1>11, <1>12, <1>13 DEF ClusterDid

\* Without an eviction, only the creation of a block changes what a worker has.
LEMMA ContentMoves ==
    ASSUME NEW n \in Nodes, WorkerDid(n), ~ Evicts(n)
    PROVE  \/ /\ UNCHANGED <<terminalsOf(n), kvOf(n)>>
              /\ \A s \in Slots : recordsOf(n)'[s].generation = recordsOf(n)[s].generation
           \/ Creates(n)
<1>1. CASE ContentKept(n)
  BY <1>1 DEF ContentKept, MapsKept, SlotsKept, SameSlot
<1>2. CASE BeginsEviction(n) \/ Publishes(n)
  BY <1>2 DEF BeginsEviction, Publishes, ToState, MapsKept, SameSlot
<1> QED
  BY <1>1, <1>2 DEF WorkerDid

LEMMA SpaceNext ==
    ASSUME NEW n \in Nodes, WorkerDid(n), ~ Evicts(n), SpaceIsNeeded,
           callOf(n)'.pc \in {"space", "evict"}
    PROVE  freeListOf(n)' = <<>>
<1>1. A!Idle.pc = "idle"
  BY DEF A!Idle
<1>2. CASE ContentKept(n) /\ UNCHANGED callOf(n)
  BY <1>2 DEF ContentKept, PoolKept, SpaceIsNeeded
<1>3. CASE ContentKept(n) /\ callOf(n)'.pc = "space" /\ freeListOf(n) = <<>>
  BY <1>3 DEF ContentKept, PoolKept
<1>4. CASE BeginsEviction(n)
  BY <1>4 DEF BeginsEviction, PoolKept, SpaceIsNeeded
<1> QED
  BY <1>1, <1>2, <1>3, <1>4 DEF WorkerDid, Creates, Publishes

LEMMA ClosedNext ==
    ASSUME Seen, ViewsInv', Closed, NEW n \in Nodes, WorkerDid(n), ~ Evicts(n),
           IndexOf(n), IndexOf(n)', NEW p \in Paths, terminalsOf(n)'[p] # NoSlot,
           NEW i \in 1 .. Len(p)
    PROVE  terminalsOf(n)'[SubSeq(p, 1, i)] # NoSlot
<1>1. CASE UNCHANGED terminalsOf(n)
  BY <1>1 DEF Closed
<1>2. CASE Creates(n)
  <2> DEFINE T == terminalsOf(n)
             new == callOf(n)'.id
             path == callOf(n).path
  <2>1. /\ path \in Paths /\ new \in Slots
        /\ terminalsOf(n)' = [T EXCEPT ![path] = new]
    BY <1>2, CreateIsOneEntry DEF Seen, PartsInv
  <2>2. /\ T \in [Paths -> Slots \cup {NoSlot}] /\ NoSlot \notin Slots
    BY CapacityAssumption DEF Seen, ViewsInv, NoSlot, Slots
  <2>3. /\ Len(p) \in Nat \ {0} /\ SubSeq(p, 1, Len(p)) = p /\ SubSeq(p, 1, i) \in Paths
    BY PrefixOf
  <2>4. CASE p = path
    <3>1. \A j \in 1 .. Len(path) - 1 : T[SubSeq(path, 1, j)] # NoSlot
      BY <1>2 DEF Creates, IndexOf
    <3>2. new # NoSlot
      BY <2>1, <2>2
    <3> HIDE DEF T, path, new
    <3>3. CASE i = Len(p)
      BY <2>1, <2>2, <2>3, <2>4, <3>2, <3>3
    <3>4. CASE i # Len(p)
      <4>1. \A k \in Nat \ {0} : \A j \in 1 .. k : j # k => j \in 1 .. k - 1
        OBVIOUS
      <4>2. i \in 1 .. Len(p) - 1
        <5>1. Len(p) \in Nat \ {0}
          BY <2>3
        <5> QED
          BY <3>4, <4>1, <5>1, Zenon
      <4>3. T[SubSeq(p, 1, i)] # NoSlot
        BY <2>4, <3>1, <4>2
      <4> QED
        BY <2>1, <2>2, <2>3, <3>2, <4>3
    <3> QED
      BY <3>3, <3>4
  <2>5. CASE p # path
    <3>1. T[p] # NoSlot
      BY <2>1, <2>2, <2>5
    <3>2. T[SubSeq(p, 1, i)] # NoSlot
      BY <3>1 DEF Closed
    <3> HIDE DEF T, path, new
    <3> QED
      BY <2>1, <2>2, <2>3, <3>2
  <2> QED
    BY <2>4, <2>5
<1> QED
  BY <1>1, <1>2, ContentMoves

\* A block that a prefix leads to stays there.
LEMMA LeadsNext ==
    ASSUME Seen, ViewsInv', NEW n \in Nodes, WorkerDid(n), ~ Evicts(n),
           IndexOf(n), IndexOf(n)', NEW s \in Slots, recordsOf(n)[s].generation # 0,
           terminalsOf(n)[kvOf(n)[s]] = s
    PROVE  /\ recordsOf(n)'[s].generation = recordsOf(n)[s].generation
           /\ terminalsOf(n)'[kvOf(n)'[s]] = s
<1>1. CASE UNCHANGED <<terminalsOf(n), kvOf(n)>>
           /\ \A t \in Slots : recordsOf(n)'[t].generation = recordsOf(n)[t].generation
  BY <1>1
<1>2. CASE Creates(n)
  <2>1. kvOf(n)[s] \in Paths
    BY DEF Seen, PartsInv, WorkersInv
  <2>2. NoSlot \notin Slots
    BY CapacityAssumption DEF NoSlot, Slots
  <2>3. terminalsOf(n)[kvOf(n)[s]] # NoSlot
    BY <2>2
  <2>4. blockNodeOf(n)[s] # A!NoPath
    BY <2>1, <2>3, IndexHas DEF Seen
  <2>5. /\ callOf(n).path \in Paths
        /\ terminalsOf(n)' = [terminalsOf(n) EXCEPT ![callOf(n).path] = callOf(n)'.id]
        /\ SameSlot(n, s) /\ kvOf(n)'[s] = kvOf(n)[s]
    BY <1>2, <2>4, CreateIsOneEntry DEF Seen, PartsInv
  <2>6. terminalsOf(n)[callOf(n).path] = NoSlot
    BY <1>2 DEF Creates, IndexOf
  <2>7. kvOf(n)[s] # callOf(n).path
    BY <2>3, <2>6
  <2>8. terminalsOf(n) \in [Paths -> Slots \cup {NoSlot}]
    BY DEF Seen, ViewsInv
  <2> QED
    BY <2>1, <2>5, <2>7, <2>8 DEF SameSlot
<1> QED
  BY <1>1, <1>2, ContentMoves

LEMMA RefsNext ==
    ASSUME Seen, ViewsInv', CoordInv, ClusterDid, Indexed, Indexed', RefsLead,
           ResultGrows, \A n \in Nodes : ~ Evicts(n)
    PROVE  RefsLead'
<1> SUFFICES ASSUME NEW hash \in Hashes, NEW ref \in C!Elements(index'[hash])
             PROVE  /\ recordsOf(ref.node_id)'[ref.block_id].generation = ref.generation
                    /\ terminalsOf(ref.node_id)'[kvOf(ref.node_id)'[ref.block_id]] = ref.block_id
  BY DEF RefsLead
<1>1. ref \in C!GlobalBlockRef
  <2>1. index'[hash] \in Seq(C!GlobalBlockRef)
    BY NewReferences DEF C!TypeOK
  <2> QED
    BY <2>1 DEF C!Elements
<1>2. PICK n \in Nodes, s \in Slots, g \in 1 .. MaxGeneration :
         n = ref.node_id /\ s = ref.block_id /\ g = ref.generation
  BY <1>1 DEF C!GlobalBlockRef
<1>3. WorkerDid(n) /\ ~ Evicts(n) /\ IndexOf(n) /\ IndexOf(n)' /\ g # 0
  BY <1>2, WorkerMoves, GenerationBound DEF Indexed
<1>4. recordsOf(n)[s].generation = g /\ terminalsOf(n)[kvOf(n)[s]] = s
  <2>1. CASE ref \in C!Elements(index[hash])
    BY <1>2, <2>1 DEF RefsLead
  <2>2. CASE ref \notin C!Elements(index[hash])
    <3>1. /\ req \in Running /\ req.pc = "announce" /\ req.at \in 1 .. Len(req.path)
          /\ n = req.node /\ s = req.slot /\ g = recordsOf(n)[s].generation
      BY <1>2, <2>2, NewReferences
    <3>2. kvOf(n)[s] = Path(req.at)
      BY <3>1 DEF Seen, PartsInv, ReqInv, ToAnnounce
    <3>3. terminalsOf(n)[Path(req.at)] = s
      BY <3>1 DEF ResultGrows, Grows, Own, Path
    <3> QED
      BY <3>1, <3>2, <3>3
  <2> QED
    BY <2>1, <2>2
<1>5. /\ recordsOf(n)'[s].generation = g
      /\ terminalsOf(n)'[kvOf(n)'[s]] = s
  BY <1>3, <1>4, LeadsNext
<1> QED
  BY <1>2, <1>5

\* The generations of a worker only grow; an eviction takes the one of its victim past 1.
LEMMA NoEviction ==
    ASSUME Seen, ViewsInv', InUseInv, ClusterDid, NothingEvicted'
    PROVE  NothingEvicted /\ \A n \in Nodes : ~ Evicts(n)
<1>1. ASSUME NEW n \in Nodes, NEW s \in Slots
      PROVE  generationsOf(n)'[s] <= 1
  BY <1>1 DEF NothingEvicted, generationsOf, Of
<1>2. ASSUME NEW n \in Nodes, Evicts(n)
      PROVE  FALSE
  <2>1. PICK v \in Slots : /\ v = callOf(n).victim /\ recordsOf(n)[v].state = "Evicting"
                           /\ generationsOf(n)' = [generationsOf(n) EXCEPT ![v] = @ + 1]
    BY <1>2 DEF Evicts, ToState
  <2>2. generationsOf(n) \in [Slots -> Nat] /\ generationsOf(n)[v] > 0
    BY <2>1 DEF InUseInv, Seen, ViewsInv
  <2>3. generationsOf(n)'[v] = generationsOf(n)[v] + 1 /\ generationsOf(n)[v] \in Nat
    BY <2>1, <2>2
  <2> QED
    BY <1>1, <2>2, <2>3
<1>3. ASSUME NEW n \in Nodes, NEW s \in Slots
      PROVE  generationsOf(n)[s] <= 1
  <2>1. generationsOf(n) \in [Slots -> Nat] /\ generationsOf(n)'[s] <= 1
    BY <1>1 DEF Seen, ViewsInv
  <2>2. CASE UNCHANGED generationsOf(n)
    BY <2>1, <2>2
  <2>3. CASE Creates(n)
    <3> DEFINE new == freeListOf(n)[Len(freeListOf(n))]
    <3>1. generationsOf(n)' =
             [generationsOf(n) EXCEPT
                 ![new] = IF generationsOf(n)[new] = 0 THEN 1 ELSE generationsOf(n)[new]]
      BY <2>3 DEF Creates
    <3> HIDE DEF new
    <3> QED
      BY <2>1, <3>1
  <2> QED
    BY <1>2, <2>2, <2>3, WorkerMoves
       DEF WorkerDid, ContentKept, BeginsEviction, Publishes, PoolKept
<1>4. NothingEvicted
  <2>1. "a" \in Nodes /\ "b" \in Nodes
    BY DEF Nodes
  <2>2. generationsOf("a") = a_generations /\ generationsOf("b") = b_generations
    BY DEF generationsOf, Of
  <2> QED
    BY <1>3, <2>1, <2>2 DEF NothingEvicted
<1> QED
  BY <1>2, <1>4

LEMMA GrowsNext ==
    ASSUME Seen, ViewsInv', InUseInv, Indexed, Indexed', Unevicted, ReferenceNamesItsBlock,
           \A p, q \in Paths : A!contentHash(p) = A!contentHash(q) => p = q,
           ClusterDid, \A n \in Nodes : ~ Evicts(n)
    PROVE  ResultGrows'
<1>1. ASSUME NEW node \in Nodes, req \in Running, req.node = node, RequestMoved(node)
      PROVE  req' = NoRequest \/ (req'.node = node /\ GrownOn(node))
  <2>1. Growing(node) /\ IndexOf(node)'
    BY <1>1 DEF Growing, Unevicted, ResultGrows, Indexed
  <2>2. ~ ReqFail
    BY <2>1, FetchNeverFails DEF Unevicted
  <2>3. CASE ReqFinish
    BY <2>3 DEF ReqFinish
  <2>4. CASE ~ ReqFinish
    <3>1. req'.node = node
      BY <1>1, <2>1, <2>2, <2>4, GrowingFacts
         DEF RequestMoved, ReqLookup, ReqResolve, ReqFetch, ReqSkip, ReqStart, ReqAdmitStep,
             ReqAdmit, ReqAssemble, ReqAnnounce
    <3>2. SpaceIsNeeded
      BY DEF Unevicted
    <3> QED
      BY <1>1, <2>1, <2>2, <2>4, <3>1, <3>2, GrowsLookup, GrowsResolve, GrowsSkip, GrowsStart,
         GrowsAdmitStep, GrowsAdmit, GrowsAssemble, GrowsAnnounce
         DEF RequestMoved
  <2> QED
    BY <2>3, <2>4
<1>2. NoRequest \notin Running
  BY DEF Running
<1> SUFFICES ASSUME NEW node \in Nodes, req' \in Running, req'.node = node
             PROVE  GrownOn(node)
  BY DEF ResultGrows, GrownOn
<1>3. CASE \E n \in Nodes, p \in Paths : ReqRoute(n, p)
  BY <1>3, GrowsRoute DEF Unevicted
<1>4. CASE \E n \in Nodes : req \in Running /\ req.node = n /\ RequestMoved(n)
  BY <1>1, <1>2, <1>4
<1>5. CASE (\E n \in Nodes : ReqDrop(n)) \/ ReqNodes
  BY <1>2, <1>5 DEF ReqDrop, ReqNodes
<1>6. CASE ReqNothing
  <2>1. UNCHANGED <<req, index, terminalsOf(node), callOf(node), freeListOf(node)>>
    BY <1>6 DEF ReqNothing, AllKept, ContentKept, MapsKept, PoolKept, KeepsIndex
  <2>2. Grows(req, terminalsOf(node), callOf(node), freeListOf(node), index)
    BY <2>1 DEF Unevicted, ResultGrows
  <2> QED
    BY <2>1, <2>2 DEF GrownOn
<1> QED
  BY <1>3, <1>4, <1>5, <1>6 DEF ClusterDid

LEMMA UnevictedNext ==
    ASSUME Seen, ViewsInv', InUseInv, Indexed, Indexed', Unevicted, ReferenceNamesItsBlock,
           CoordInv, \A p, q \in Paths : A!contentHash(p) = A!contentHash(q) => p = q,
           ClusterDid, \A n \in Nodes : ~ Evicts(n)
    PROVE  Unevicted'
<1>1. \A n \in Nodes : WorkerDid(n) /\ IndexOf(n) /\ IndexOf(n)'
  BY WorkerMoves DEF Indexed
<1>2. SpaceIsNeeded'
  BY <1>1, SpaceNext DEF SpaceIsNeeded, Unevicted
<1>3. Closed'
  BY <1>1, ClosedNext DEF Closed, Unevicted
<1>4. RefsLead'
  BY RefsNext DEF Unevicted
<1>5. ResultGrows'
  BY GrowsNext
<1> QED
  BY <1>2, <1>3, <1>4, <1>5 DEF Unevicted

LEMMA CompleteNow ==
    ASSUME Seen, InUseInv, Indexed, Unevicted
    PROVE  RemoteReuseIsComplete
<1> SUFFICES ASSUME Assembled
             PROVE  /\ \A i \in 1 .. Len(req.reusable) :
                          recordsOf(req.node)[req.reusable[i]].hash = HashOf(i)
                    /\ req.at = Len(req.reusable) + 1 =>
                          \/ Len(req.reusable) = Len(req.path)
                          \/ Of(req.node, a_free_list, b_free_list) = <<>>
                          \/ index[HashOf(Len(req.reusable) + 1)] = <<>>
  BY DEF RemoteReuseIsComplete, ResultIsContiguous
<1>1. req.pc \in {"computed", "announce"}
  BY DEF Assembled
<1>2. req \in Running /\ req.node \in Nodes
  BY <1>1, RunningNode DEF Seen, PartsInv
<1>3. PICK node \in Nodes : node = req.node /\ Growing(node)
  BY <1>2 DEF Growing, Indexed, Unevicted, ResultGrows
<1>4. ASSUME NEW i \in 1 .. Len(req.reusable)
      PROVE  recordsOf(node)[req.reusable[i]].hash = HashOf(i)
  <2> DEFINE s == req.reusable[i]
  <2>1. /\ s = Own(req, terminalsOf(node), i) /\ s \in Slots /\ NoSlot \notin Slots
        /\ i \in 1 .. Len(req.path) /\ req.path \in Paths
    BY <1>3, GrowingFacts
  <2>2. PICK p \in Paths : p = SubSeq(req.path, 1, i)
    BY <2>1, PrefixOf
  <2> HIDE DEF s
  <2>3. terminalsOf(node)[p] = s
    BY <2>1, <2>2 DEF Own
  <2>4. kvOf(node)[s] = p /\ recordsOf(node)[s].state # "Free"
    BY <1>3, <2>1, <2>3, IndexHas DEF Growing, Seen
  <2>5. recordsOf(node)[s].generation # 0
    BY <2>1, <2>4 DEF InUseInv, Seen, ViewsInv
  <2>6. recordsOf(node)[s].hash = A!contentHash(p)
    BY <2>1, <2>4, <2>5 DEF Seen, PartsInv, WorkersInv
  <2> QED
    BY <2>2, <2>6 DEF HashOf, Path, s
<1>5. req.at = Len(req.reusable) + 1 =>
         \/ Len(req.reusable) = Len(req.path)
         \/ Of(req.node, a_free_list, b_free_list) = <<>>
         \/ index[HashOf(Len(req.reusable) + 1)] = <<>>
  BY <1>1, <1>3 DEF Growing, Grows, UnknownAfter, HashOf, Path, freeListOf
<1> QED
  BY <1>3, <1>4, <1>5

-----------------------------------------------------------------------------
(* The steps of the benchmark on these views *)

Known == PartsInv /\ ViewsInv /\ FoundInv /\ RequestInv /\ CountersType

KeepsTotals == UNCHANGED <<hits, total_prefix_possible>>
KeepsCounts == UNCHANGED <<counts, streamed>>
Counts(type) == streamed' = [t \in StreamTypes |-> streamed[t] + IF t \in type THEN 1 ELSE 0]

DidRoute(node) ==
    LET p == W(requests + 1)
    IN /\ ReqRoute(node, p) /\ requests + 1 \in 1 .. NumRequests /\ node \in chooseNode(p)
       /\ total_prefix_possible' = total_prefix_possible + Len(p) - 1
       /\ admitted_count' = 0
       /\ KeepsCounts /\ UNCHANGED hits
DidLookup(node) == ReqLookup(node) /\ KeepsCounts /\ KeepsTotals /\ UNCHANGED admitted_count
DidResolve == ReqResolve /\ KeepsCounts /\ KeepsTotals /\ UNCHANGED admitted_count
DidFetch ==
    /\ ReqFetch /\ Counts({"remote_fetch_started", "remote_fetch_completed"})
    /\ KeepsTotals /\ UNCHANGED <<counts, admitted_count>>
DidFail ==
    /\ ReqFail /\ Counts({"remote_fetch_started", "remote_fetch_failed"})
    /\ KeepsTotals /\ UNCHANGED <<counts, admitted_count>>
DidSkip ==
    /\ ReqSkip /\ countAdmitted(admitStatus(req.node, Path(req.at)))
    /\ KeepsCounts /\ KeepsTotals
DidStart(node) == ReqStart(node) /\ KeepsCounts /\ KeepsTotals /\ UNCHANGED admitted_count
DidAdmitStep(node) ==
    /\ ReqAdmitStep(node)
    /\ \/ (GivesUp(node) \/ BeginsEviction(node) \/ FindsNoSlot(node) \/ Creates(node))
          /\ KeepsCounts
       \/ /\ Evicts(node) /\ Counts({"block_evicted"})
          /\ counts' = [counts EXCEPT ![node].evictions = @ + 1]
       \/ /\ Publishes(node) /\ Counts({"block_admitted"})
          /\ counts' = [counts EXCEPT ![node].admissions = @ + 1]
    /\ KeepsTotals /\ UNCHANGED admitted_count
DidAdmit(node) ==
    /\ ReqAdmit(node)
    /\ admitted_count' = IF req.pc = "remote" THEN admitted_count + 1 ELSE admitted_count
    /\ KeepsCounts /\ KeepsTotals
DidAssemble(node) ==
    /\ ReqAssemble /\ KeepsCounts
    /\ hits' = [hits EXCEPT ![node].local_hits = @ + req.local,
                            ![node].remote_hits = @ + admitted_count]
    /\ UNCHANGED <<total_prefix_possible, admitted_count>>
DidAnnounce(node) == ReqAnnounce(node) /\ KeepsCounts /\ KeepsTotals /\ UNCHANGED admitted_count
DidFinish == ReqFinish /\ KeepsCounts /\ KeepsTotals /\ UNCHANGED admitted_count
DidDrop(node) == ReqDrop(node) /\ KeepsCounts /\ KeepsTotals /\ UNCHANGED admitted_count
DidNothing == ReqNothing /\ KeepsCounts /\ KeepsTotals /\ UNCHANGED admitted_count

RequestDid(node) ==
    \/ DidLookup(node) \/ DidResolve \/ DidFetch \/ DidFail \/ DidSkip \/ DidStart(node)
    \/ DidAdmitStep(node) \/ DidAdmit(node) \/ DidAssemble(node) \/ DidAnnounce(node) \/ DidFinish
BenchDid ==
    /\ UNCHANGED args /\ CountersType'
    /\ \/ \E node \in Nodes : DidRoute(node)
       \/ \E node \in Nodes : /\ req \in Running /\ req.node = node
                              /\ RequestDid(node)
       \/ \E node \in Nodes : DidDrop(node)
       \/ DidNothing

LEMMA DidRouteStep ==
    ASSUME Known, benchRoute
    PROVE  BenchDid
<1> DEFINE p == W(requests + 1)
<1>1. /\ req = NoRequest /\ requests \in 0 .. NumRequests /\ requests < NumRequests
      /\ NumRequests \in Nat /\ args \in BenchArgs
  BY BenchAssumption DEF benchRoute, route, Known, RequestInv
<1>2. requests + 1 \in 1 .. NumRequests
  BY <1>1
<1>3. p \in Paths /\ Len(p) \in Nat \ {0}
  BY <1>1, <1>2, WorkloadFacts DEF Blocks
<1>4. PICK node \in chooseNode(p) : route(node, p)
  BY DEF benchRoute, W
<1>5. node \in Nodes
  <2>1. args.lo \in [{q[1] : q \in BenchPaths} -> 0 .. 1]
    BY <1>1 DEF BenchArgs
  <2>2. p \in BenchPaths
    BY <1>3, WorkloadIsGenerated
  <2>3. args.lo[p[1]] \in 0 .. 1
    BY <2>1, <2>2
  <2>4. hashRouting(p) \in Nodes
    BY <2>3 DEF hashRouting, Workers, Nodes
  <2> QED
    BY <1>4, <2>4 DEF chooseNode, randomRouting
<1>7. /\ total_prefix_possible' = total_prefix_possible + Len(p) - 1
      /\ admitted_count' = 0
      /\ UNCHANGED <<args, access_count, hits, counts, streamed>>
  BY DEF benchRoute, W
<1>8. ReqRoute(node, p)
  BY <1>3, <1>4, <1>5, MovesRoute DEF Known, Seen
<1> HIDE DEF p
<1>10. CountersType'
  BY <1>3, <1>7 DEF Known, CountersType
<1>11. DidRoute(node)
  BY <1>2, <1>4, <1>7, <1>8 DEF DidRoute, p, KeepsCounts
<1> QED
  BY <1>5, <1>7, <1>10, <1>11 DEF BenchDid

LEMMA AccessType ==
    ASSUME CountersType, NEW node \in Nodes, NEW s \in Slots
    PROVE  /\ accessed(node, s) => access_count' \in [Nodes -> [Slots -> Nat]]
           /\ access_count' = [access_count EXCEPT ![node][s] = 0] =>
                 access_count' \in [Nodes -> [Slots -> Nat]]
<1>1. access_count[node] \in [Slots -> Nat]
  BY DEF CountersType
<1>2. ASSUME NEW n \in Nat
      PROVE  [access_count EXCEPT ![node][s] = n] \in [Nodes -> [Slots -> Nat]]
  <2>1. [access_count[node] EXCEPT ![s] = n] \in [Slots -> Nat]
    BY <1>1
  <2> QED
    BY <2>1 DEF CountersType
<1> QED
  BY <1>1, <1>2 DEF accessed

LEMMA DidLookupStep ==
    ASSUME Known, benchLookup
    PROVE  BenchDid
<1>1. /\ req \in Running /\ req.node \in Nodes
      /\ \A node \in Nodes : node = req.node => ReqLookup(node)
  BY MovesLookup DEF Known, Seen, benchLookup
<1>2. PICK node \in Nodes : node = req.node
  BY <1>1
<1> DEFINE slot == Head(callOf(node).todo)
           hit == Of(node, A!BM!Acquirable(slot), B!BM!Acquirable(slot))
<1>3. /\ IF hit THEN accessed(node, slot) ELSE UNCHANGED access_count
      /\ UNCHANGED <<args, admitted_count, hits, counts, streamed, total_prefix_possible>>
  BY <1>2 DEF benchLookup
<1>4. callOf(node) \in A!Calls /\ callOf(node).pc = "lookup"
  BY <1>1, <1>2 DEF Known, PartsInv, WorkersInv, LooksUp, ReqLookup
<1>5. slot \in Slots
  <2>1. callOf(node).todo \in Seq(Slots) /\ callOf(node).todo # <<>>
    BY <1>4, CallFields
  <2> QED
    BY <2>1, HeadTailProperties
<1> HIDE DEF hit, slot
<1>6. CountersType'
  BY <1>3, <1>5, AccessType DEF Known, CountersType
<1>7. DidLookup(node)
  BY <1>1, <1>2, <1>3 DEF DidLookup, KeepsCounts, KeepsTotals
<1> QED
  BY <1>1, <1>2, <1>3, <1>6, <1>7 DEF BenchDid, RequestDid

LEMMA DidFetchStep ==
    ASSUME Known, benchFetch
    PROVE  BenchDid
<1>1. req \in Running /\ req.node \in Nodes /\ ReqFetch
  BY MovesFetch DEF Known, Seen, benchFetch
<1>2. /\ accessed(chosen.node_id, chosen.block_id)
      /\ UNCHANGED <<args, admitted_count, hits, total_prefix_possible>>
  BY DEF benchFetch
<1>3. chosen \in C!GlobalBlockRef
  BY <1>1, ChosenFacts DEF Known, PartsInv, ReqFetch
<1>4. PICK other \in Nodes, s \in Slots, g \in 1 .. MaxGeneration :
         other = chosen.node_id /\ s = chosen.block_id /\ g = chosen.generation
  BY <1>3 DEF C!GlobalBlockRef
<1> DEFINE e == Ev!RemoteFetchStarted(HashOf(missing), chosen.node_id)
           f == Ev!RemoteFetchCompleted(HashOf(missing), chosen.node_id)
<1>7. recorded(req.node, <<e, f>>)
  BY DEF benchFetch
<1>8. e.kind = "RemoteFetchStarted" /\ f.kind = "RemoteFetchCompleted"
  BY DEF Ev!RemoteFetchStarted, Ev!RemoteFetchCompleted
<1> HIDE DEF e, f
<1>9. /\ counts' = counts
      /\ Counts({"remote_fetch_started", "remote_fetch_completed"})
      /\ streamed' \in [StreamTypes -> Nat]
  <2>1. PICK node \in Nodes : node = req.node
    BY <1>1
  <2>2. recorded(node, <<e, f>>)
    BY <1>7, <2>1
  <2> QED
    BY <1>8, <2>2, RecordsFetch DEF Known, Counts
<1>10. access_count' \in [Nodes -> [Slots -> Nat]]
  BY <1>2, <1>4, AccessType DEF Known
<1>11. CountersType'
  BY <1>2, <1>9, <1>10 DEF Known, CountersType
<1>12. DidFetch
  BY <1>1, <1>2, <1>9 DEF DidFetch, KeepsTotals
<1> QED
  BY <1>1, <1>2, <1>11, <1>12 DEF BenchDid, RequestDid

LEMMA DidFailStep ==
    ASSUME Known, benchFetchFails
    PROVE  BenchDid
<1>1. req \in Running /\ req.node \in Nodes /\ ReqFail
  BY MovesFail DEF Known, Seen, benchFetchFails
<1>2. UNCHANGED <<args, access_count, admitted_count, hits, total_prefix_possible>>
  BY DEF benchFetchFails
<1> DEFINE e == Ev!RemoteFetchStarted(HashOf(missing), chosen.node_id)
           f == Ev!RemoteFetchFailed(HashOf(missing), chosen.node_id,
                                     fetchStatus(req.node, chosen, HashOf(missing)))
<1>7. recorded(req.node, <<e, f>>)
  BY DEF benchFetchFails
<1>8. e.kind = "RemoteFetchStarted" /\ f.kind = "RemoteFetchFailed"
  BY DEF Ev!RemoteFetchStarted, Ev!RemoteFetchFailed
<1> HIDE DEF e, f
<1>9. /\ counts' = counts
      /\ Counts({"remote_fetch_started", "remote_fetch_failed"})
      /\ streamed' \in [StreamTypes -> Nat]
  <2>1. PICK node \in Nodes : node = req.node
    BY <1>1
  <2>2. recorded(node, <<e, f>>)
    BY <1>7, <2>1
  <2> QED
    BY <1>8, <2>2, RecordsFetch DEF Known, Counts
<1>11. CountersType'
  BY <1>2, <1>9 DEF Known, CountersType
<1>12. DidFail
  BY <1>1, <1>2, <1>9 DEF DidFail, KeepsTotals
<1> QED
  BY <1>1, <1>2, <1>11, <1>12 DEF BenchDid, RequestDid

LEMMA DidSkipStep ==
    ASSUME Known, benchSkip
    PROVE  BenchDid
<1>1. req \in Running /\ req.node \in Nodes /\ ReqSkip
  BY MovesSkip DEF Known, Seen, benchSkip
<1>2. /\ countAdmitted(admitStatus(req.node, Path(req.at)))
      /\ UNCHANGED <<args, access_count, hits, counts, streamed, total_prefix_possible>>
  BY DEF benchSkip
<1>3. CountersType'
  BY <1>2 DEF Known, CountersType, countAdmitted
<1>4. DidSkip
  BY <1>1, <1>2 DEF DidSkip, KeepsCounts, KeepsTotals
<1> QED
  BY <1>1, <1>2, <1>3, <1>4 DEF BenchDid, RequestDid

LEMMA DidAdmitSteps ==
    ASSUME Known, benchMakeSpace \/ benchEvict \/ benchCreate \/ benchReady
    PROVE  BenchDid
<1>0. admitStep /\ UNCHANGED <<args, admitted_count, hits, total_prefix_possible>>
  BY DEF benchMakeSpace, benchEvict, benchCreate, benchReady
<1>1. /\ req \in Running /\ req.node \in Nodes
      /\ \A node \in Nodes : node = req.node => ReqAdmitStep(node)
  BY <1>0, MovesAdmitStep DEF Known, Seen
<1>2. PICK node \in Nodes : node = req.node
  BY <1>1
<1>3. ReqAdmitStep(node) /\ AdmitsOn(node)
  BY <1>1, <1>2 DEF ReqAdmitStep
<1>4. SUFFICES /\ CountersType'
               /\ \/ (GivesUp(node) \/ BeginsEviction(node) \/ FindsNoSlot(node) \/ Creates(node))
                     /\ KeepsCounts
                  \/ /\ Evicts(node) /\ Counts({"block_evicted"})
                     /\ counts' = [counts EXCEPT ![node].evictions = @ + 1]
                  \/ /\ Publishes(node) /\ Counts({"block_admitted"})
                     /\ counts' = [counts EXCEPT ![node].admissions = @ + 1]
  <2>1. DidAdmitStep(node)
    BY <1>0, <1>3, <1>4 DEF DidAdmitStep, KeepsTotals
  <2> QED
    BY <1>0, <1>1, <1>2, <1>4, <2>1 DEF BenchDid, RequestDid
<1>5. CASE benchMakeSpace
  <2>1. callOf(node).pc = "space" /\ UNCHANGED <<access_count, counts, streamed>>
    BY <1>2, <1>5 DEF benchMakeSpace
  <2>2. CountersType'
    BY <1>0, <2>1 DEF Known, CountersType
  <2> QED
    BY <1>3, <2>1, <2>2
       DEF AdmitsOn, Evicts, Creates, FindsNoSlot, Publishes, KeepsCounts
<1>6. CASE benchEvict
  <2> DEFINE e == Ev!BlockEvicted(callOf(node).victim)
  <2>1. callOf(node).pc = "evict" /\ UNCHANGED access_count /\ recorded(node, <<e>>)
    BY <1>2, <1>6 DEF benchEvict
  <2>2. e.kind = "BlockEvicted" /\ Ev!serializeEvent(e).type = "block_evicted"
    BY DEF Ev!BlockEvicted, Ev!serializeEvent, Ev!evictedJson
  <2> HIDE DEF e
  <2>3. /\ \A other \in Nodes \ {node} : counts'[other] = counts[other]
        /\ counts'[node] = [admissions |-> counts[node].admissions + 0,
                            evictions |-> counts[node].evictions + 1]
        /\ Counts({"block_evicted"})
        /\ counts' \in [Nodes -> [admissions : Nat, evictions : Nat]]
        /\ streamed' \in [StreamTypes -> Nat]
    BY <2>1, <2>2, RecordsOne DEF Known, Counts
  <2>4. counts' = [counts EXCEPT ![node].evictions = @ + 1]
    BY <2>3 DEF Known, CountersType
  <2>5. CountersType'
    BY <1>0, <2>1, <2>3 DEF Known, CountersType
  <2> QED
    BY <1>3, <2>1, <2>3, <2>4, <2>5
       DEF AdmitsOn, GivesUp, BeginsEviction, Creates, FindsNoSlot, Publishes
<1>7. CASE benchCreate
  <2> DEFINE slot == Of(node, A!BM!allocated, B!BM!allocated)
  <2>1. /\ callOf(node).pc = "create" /\ UNCHANGED <<counts, streamed>>
        /\ access_count' = [access_count EXCEPT ![node][slot] = 0]
    BY <1>2, <1>7 DEF benchCreate
  <2> HIDE DEF slot
  <2>2. access_count' \in [Nodes -> [Slots -> Nat]]
    <3>1. CASE slot \in Slots
      BY <2>1, <3>1, AccessType DEF Known
    <3>2. CASE slot \notin Slots
      <4>1. access_count \in [Nodes -> [Slots -> Nat]] /\ access_count[node] \in [Slots -> Nat]
        BY DEF Known, CountersType
      <4>2. [access_count[node] EXCEPT ![slot] = 0] = access_count[node]
        BY <3>2, <4>1
      <4> QED
        BY <2>1, <4>1, <4>2
    <3> QED
      BY <3>1, <3>2
  <2>3. CountersType'
    BY <1>0, <2>1, <2>2 DEF Known, CountersType
  <2> QED
    BY <1>3, <2>1, <2>3 DEF AdmitsOn, GivesUp, BeginsEviction, Evicts, Publishes, KeepsCounts
<1>8. CASE benchReady
  <2> DEFINE e == Ev!BlockAdmitted(callOf(node).id, "GpuSim",
                      IF req.pc = "remote" THEN "RemoteFetch" ELSE "LocallyComputed")
  <2>1. callOf(node).pc = "ready" /\ UNCHANGED access_count /\ recorded(node, <<e>>)
    BY <1>2, <1>8 DEF benchReady
  <2>2. e.kind = "BlockAdmitted" /\ Ev!serializeEvent(e).type = "block_admitted"
    BY DEF Ev!BlockAdmitted, Ev!serializeEvent, Ev!admittedJson
  <2> HIDE DEF e
  <2>3. /\ \A other \in Nodes \ {node} : counts'[other] = counts[other]
        /\ counts'[node] = [admissions |-> counts[node].admissions + 1,
                            evictions |-> counts[node].evictions + 0]
        /\ Counts({"block_admitted"})
        /\ counts' \in [Nodes -> [admissions : Nat, evictions : Nat]]
        /\ streamed' \in [StreamTypes -> Nat]
    BY <2>1, <2>2, RecordsOne DEF Known, Counts
  <2>4. counts' = [counts EXCEPT ![node].admissions = @ + 1]
    BY <2>3 DEF Known, CountersType
  <2>5. CountersType'
    BY <1>0, <2>1, <2>3 DEF Known, CountersType
  <2> QED
    BY <1>3, <2>1, <2>3, <2>4, <2>5
       DEF AdmitsOn, GivesUp, BeginsEviction, Creates, FindsNoSlot, Evicts
<1> QED
  BY <1>5, <1>6, <1>7, <1>8

LEMMA DidAdmitEnd ==
    ASSUME Known, benchAdmitted
    PROVE  BenchDid
<1>1. /\ req \in Running /\ req.node \in Nodes
      /\ \A node \in Nodes : node = req.node => ReqAdmit(node)
  BY MovesAdmit DEF Known, Seen, benchAdmitted
<1>2. PICK node \in Nodes : node = req.node
  BY <1>1
<1>3. /\ accessed(node, callOf(node).id)
      /\ admitted_count' = IF req.pc = "remote" THEN admitted_count + 1 ELSE admitted_count
      /\ UNCHANGED <<args, hits, counts, streamed, total_prefix_possible>>
  BY <1>2 DEF benchAdmitted, countAdmitted
<1>4. callOf(node).id \in Slots
  BY <1>1, <1>2 DEF ReqAdmit, EndsAdmission, Known, PartsInv, WorkersInv
<1>5. access_count' \in [Nodes -> [Slots -> Nat]]
  BY <1>3, <1>4, AccessType DEF Known
<1>6. CountersType'
  BY <1>3, <1>5 DEF Known, CountersType
<1>7. DidAdmit(node)
  BY <1>1, <1>2, <1>3 DEF DidAdmit, KeepsCounts, KeepsTotals
<1> QED
  BY <1>1, <1>2, <1>3, <1>6, <1>7 DEF BenchDid, RequestDid

LEMMA DidAssembleStep ==
    ASSUME Known, benchAssemble
    PROVE  BenchDid
<1>1. req \in Running /\ req.node \in Nodes /\ ReqAssemble
  BY MovesEnd DEF Known, Seen, benchAssemble
<1>2. PICK node \in Nodes : node = req.node
  BY <1>1
<1>3. /\ hits' = [hits EXCEPT ![node].local_hits = @ + req.local,
                              ![node].remote_hits = @ + admitted_count]
      /\ UNCHANGED <<args, access_count, admitted_count, counts, streamed,
                     total_prefix_possible>>
  BY <1>2 DEF benchAssemble
<1>6. hits' \in [Nodes -> [local_hits : Nat, remote_hits : Nat]]
  <2>1. req.local \in Nat /\ admitted_count \in Nat
    BY <1>1, RunningFacts DEF Known, CountersType
  <2>2. hits \in [Nodes -> [local_hits : Nat, remote_hits : Nat]]
    BY DEF Known, CountersType
  <2>3. hits' = [hits EXCEPT ![node] = [local_hits |-> hits[node].local_hits + req.local,
                                        remote_hits |-> hits[node].remote_hits + admitted_count]]
    <3> DEFINE h == [hits EXCEPT ![node].local_hits = @ + req.local]
    <3>1. hits' = [h EXCEPT ![node].remote_hits = @ + admitted_count]
      BY <1>3
    <3>2. /\ h = [hits EXCEPT ![node] = h[node]]
          /\ h[node] = [local_hits |-> hits[node].local_hits + req.local,
                        remote_hits |-> hits[node].remote_hits]
      BY <2>2
    <3> HIDE DEF h
    <3>3. [h[node] EXCEPT !.remote_hits = @ + admitted_count]
             = [local_hits |-> hits[node].local_hits + req.local,
                remote_hits |-> hits[node].remote_hits + admitted_count]
      BY <3>2
    <3> QED
      BY <2>2, <3>1, <3>2, <3>3
  <2>4. hits[node].local_hits + req.local \in Nat /\ hits[node].remote_hits + admitted_count \in Nat
    BY <2>1, <2>2
  <2> QED
    BY <2>2, <2>3, <2>4
<1>7. CountersType'
  BY <1>3, <1>6 DEF Known, CountersType
<1>8. DidAssemble(node)
  BY <1>1, <1>3 DEF DidAssemble, KeepsCounts
<1> QED
  BY <1>1, <1>2, <1>3, <1>7, <1>8 DEF BenchDid, RequestDid

LEMMA DidUncounted ==
    ASSUME Known, benchUncounted
    PROVE  BenchDid
<1>0. UNCHANGED <<args, access_count, admitted_count, hits, counts, streamed,
                  total_prefix_possible>>
  BY DEF benchUncounted
<1>1. /\ CountersType' /\ UNCHANGED args /\ KeepsCounts /\ KeepsTotals
      /\ UNCHANGED admitted_count
  BY <1>0 DEF Known, CountersType, KeepsCounts, KeepsTotals
<1>2. CASE admitStart
  <2>1. /\ req \in Running /\ req.node \in Nodes
        /\ \A node \in Nodes : node = req.node => ReqStart(node)
    BY <1>2, MovesStart DEF Known, Seen
  <2> QED
    BY <1>1, <2>1 DEF DidStart, BenchDid, RequestDid
<1>3. CASE resolved
  <2>1. req \in Running /\ req.node \in Nodes /\ ReqResolve
    BY <1>3, MovesResolved DEF Known, Seen
  <2> QED
    BY <1>1, <2>1 DEF DidResolve, BenchDid, RequestDid
<1>4. CASE announce
  <2>1. /\ req \in Running /\ req.node \in Nodes
        /\ \A node \in Nodes : node = req.node => ReqAnnounce(node)
    BY <1>4, MovesAnnounce DEF Known, Seen
  <2> QED
    BY <1>1, <2>1 DEF DidAnnounce, BenchDid, RequestDid
<1>5. CASE finish
  <2>1. req \in Running /\ req.node \in Nodes /\ ReqFinish
    BY <1>5, MovesEnd DEF Known, Seen
  <2> QED
    BY <1>1, <2>1 DEF DidFinish, BenchDid, RequestDid
<1>6. CASE \E node \in Nodes, h \in Handles : dropHandle(node, h)
  <2>1. PICK node \in Nodes, h \in Handles : dropHandle(node, h)
    BY <1>6
  <2>2. ReqDrop(node)
    BY <2>1, MovesDrop DEF Known, Seen
  <2> QED
    BY <1>1, <2>2 DEF DidDrop, BenchDid
<1> QED
  BY <1>2, <1>3, <1>4, <1>5, <1>6 DEF benchUncounted

\* Every step of the benchmark is one of these.
LEMMA BenchStep ==
    ASSUME Known, [BenchNext]_benchVars
    PROVE  BenchDid
<1>1. CASE UNCHANGED benchVars
  <2>1. /\ UNCHANGED <<aVars, bVars, coordVars, req, requests>>
        /\ UNCHANGED <<args, access_count, admitted_count, hits, counts, streamed,
                       total_prefix_possible>>
    BY <1>1 DEF benchVars, vars, aVars, bVars, coordVars
  <2>2. \A n \in Nodes : AllKept(n)
    BY <2>1, StandsStill DEF Nodes
  <2>3. DidNothing /\ CountersType'
    BY <2>1, <2>2 DEF DidNothing, ReqNothing, KeepsIndex, KeepsCounts, KeepsTotals, coordVars,
                      Known, CountersType
  <2> QED
    BY <2>1, <2>3 DEF BenchDid
<1> QED
  BY <1>1, DidRouteStep, DidLookupStep, DidFetchStep, DidFailStep, DidSkipStep, DidAdmitSteps,
     DidAdmitEnd, DidAssembleStep, DidUncounted
     DEF BenchNext, Done

-----------------------------------------------------------------------------
(* What the steps of the benchmark keep *)

\* Neither the requests nor where they go depend on what happened so far.
LEMMA SameWorkload ==
    ASSUME UNCHANGED args
    PROVE  /\ \A k : W(k)' = W(k) /\ Blocks(k)' = Blocks(k)
           /\ \A p : chooseNode(p)' = chooseNode(p) /\ hashRouting(p)' = hashRouting(p)
           /\ \A node, k : RoutedTo(node, k)' <=> RoutedTo(node, k)
<1>1. \A k : W(k)' = W(k)
  BY DEF W
<1>2. \A p : hashRouting(p)' = hashRouting(p)
  BY DEF hashRouting
<1>3. \A p : chooseNode(p)' = chooseNode(p)
  BY <1>2 DEF chooseNode
<1>4. \A node, k : RoutedTo(node, k)' <=> RoutedTo(node, k)
  BY <1>1, <1>2 DEF RoutedTo
<1> QED
  BY <1>1, <1>2, <1>3, <1>4 DEF Blocks

LEMMA RequestStays ==
    ASSUME req \in Running, NEW node, RequestDid(node)
    PROVE  /\ requests' = requests
           /\ req' # NoRequest => req'.path = req.path /\ req'.node = req.node
<1>1. req \in [pc : {"lookup", "resolve", "remote", "computed", "announce"},
               node : Nodes, path : Paths, local : Nat, fetched : Nat, at : Nat,
               reusable : Seq(Slots), slot : Slots \cup {NoSlot},
               failed : C!GlobalBlockRef \cup {NoRef}]
  BY RunningFacts
<1>2. requests' = requests
  BY DEF RequestDid, DidLookup, ReqLookup, DidResolve, ReqResolve, DidFetch, ReqFetch,
         DidFail, ReqFail, DidSkip, ReqSkip, DidStart, ReqStart, DidAdmitStep,
         ReqAdmitStep,
         DidAdmit, ReqAdmit, DidAssemble, ReqAssemble, DidAnnounce, ReqAnnounce,
         DidFinish, ReqFinish
<1>3. CASE DidLookup(node)
  BY <1>1, <1>3 DEF DidLookup, ReqLookup
<1>4. CASE DidResolve \/ DidFetch \/ DidFail \/ DidSkip
  BY <1>1, <1>4 DEF DidResolve, ReqResolve, DidFetch, ReqFetch, DidFail, ReqFail,
                    DidSkip, ReqSkip
<1>5. CASE DidStart(node) \/ DidAdmitStep(node) \/ DidAdmit(node)
  BY <1>1, <1>5 DEF DidStart, ReqStart, DidAdmitStep, ReqAdmitStep, DidAdmit, ReqAdmit
<1>6. CASE DidAssemble(node) \/ DidAnnounce(node) \/ DidFinish
  BY <1>1, <1>6 DEF DidAssemble, ReqAssemble, DidAnnounce, ReqAnnounce, DidFinish, ReqFinish
<1> QED
  BY <1>2, <1>3, <1>4, <1>5, <1>6 DEF RequestDid

LEMMA RequestNext ==
    ASSUME Known, BenchDid
    PROVE  RequestInv'
<1>1. UNCHANGED args
  BY DEF BenchDid
<1>2. /\ \A k : W(k)' = W(k)
      /\ \A p : chooseNode(p)' = chooseNode(p)
  BY <1>1, SameWorkload
<1>3. NumRequests \in Nat /\ args \in BenchArgs /\ requests \in 0 .. NumRequests
  BY BenchAssumption DEF Known, RequestInv
<1>4. CASE \E node \in Nodes : DidRoute(node)
  <2>1. PICK node \in Nodes : DidRoute(node)
    BY <1>4
  <2>2. /\ requests' = requests + 1 /\ requests + 1 \in 1 .. NumRequests
        /\ req'.path = W(requests + 1) /\ req'.node = node /\ node \in chooseNode(W(requests + 1))
    BY <2>1 DEF DidRoute, ReqRoute
  <2>3. W(requests)' = W(requests')
    BY <1>2, <2>2 DEF W
  <2>4. chooseNode(req.path)' = chooseNode(req'.path)
    BY <1>1 DEF chooseNode, hashRouting
  <2> QED
    BY <1>1, <1>3, <2>2, <2>3, <2>4 DEF RequestInv
<1>5. CASE requests' = requests /\ (req' # NoRequest =>
              /\ req # NoRequest /\ req'.path = req.path /\ req'.node = req.node)
  <2>1. W(requests)' = W(requests)
    BY <1>1, <1>5 DEF W
  <2>2. req' # NoRequest => chooseNode(req.path)' = chooseNode(req.path)
    BY <1>1, <1>5 DEF chooseNode, hashRouting
  <2> QED
    BY <1>1, <1>3, <1>5, <2>1, <2>2 DEF Known, RequestInv
<1>6. CASE \E node \in Nodes : req \in Running /\ RequestDid(node)
  BY <1>5, <1>6, RequestStays DEF Running
<1>7. CASE DidNothing \/ \E node \in Nodes : DidDrop(node)
  BY <1>5, <1>7 DEF DidNothing, ReqNothing, DidDrop, ReqDrop
<1> QED
  BY <1>4, <1>6, <1>7 DEF BenchDid

\* A worker that only looked on, or started or ended something
LEMMA ResidentsStay ==
    ASSUME NEW node \in Nodes, ResidentsOf(node), counts'[node] = counts[node],
           ContentKept(node),
           UNCHANGED callOf(node) \/ callOf(node).pc # "evict"
    PROVE  ResidentsOf(node)'
<1>1. \A s \in Slots : recordsOf(node)'[s].state = recordsOf(node)[s].state
  BY DEF ContentKept, SlotsKept, SameSlot
<1>2. Resident(node)' = Resident(node)
  BY <1>1 DEF Resident
<1> QED
  BY <1>1, <1>2 DEF ResidentsOf

LEMMA ResidentsFinite ==
    ASSUME NEW node
    PROVE  IsFiniteSet(Resident(node)) /\ Cardinality(Resident(node)) \in Nat
<1>1. IsFiniteSet(Slots)
  BY FS_Interval, CapacityAssumption DEF Slots
<1>2. Resident(node) \subseteq Slots
  BY DEF Resident
<1> QED
  BY <1>1, <1>2, FS_Subset, FS_CardinalityType

LEMMA ResidentsAdmitStep ==
    ASSUME Known, NEW node \in Nodes, DidAdmitStep(node), ResidentsOf(node)
    PROVE  ResidentsOf(node)'
<1>0. /\ IsFiniteSet(Resident(node)) /\ Cardinality(Resident(node)) \in Nat
      /\ counts \in [Nodes -> [admissions : Nat, evictions : Nat]]
      /\ callOf(node) \in A!Calls
  BY ResidentsFinite DEF Known, CountersType, PartsInv, WorkersInv
<1>1. CASE (GivesUp(node) \/ FindsNoSlot(node)) /\ KeepsCounts
  BY <1>1, ResidentsStay DEF GivesUp, FindsNoSlot, KeepsCounts
<1>2. CASE BeginsEviction(node) /\ KeepsCounts
  <2> DEFINE v == callOf(node)'.victim
  <2>1. /\ v \in Slots /\ recordsOf(node)[v].state = "Ready"
        /\ recordsOf(node)'[v].state = "Evicting"
        /\ \A s \in Slots \ {v} : recordsOf(node)'[s].state = recordsOf(node)[s].state
        /\ callOf(node).pc = "space" /\ callOf(node)'.pc = "evict"
    BY <1>2 DEF BeginsEviction, ToState, SameSlot
  <2> HIDE DEF v
  <2>2. Resident(node)' = Resident(node)
    BY <2>1 DEF Resident
  <2>3. counts'[node] = counts[node]
    BY <1>2 DEF KeepsCounts
  <2>4. \A s \in Slots : recordsOf(node)[s].state # "Evicting"
    BY <2>1 DEF ResidentsOf
  <2>5. \A s \in Slots : recordsOf(node)'[s].state = "Evicting" => s = v
    BY <2>1, <2>4
  <2> QED
    BY <2>1, <2>2, <2>3, <2>5 DEF ResidentsOf, v
<1>3. CASE Creates(node) /\ KeepsCounts
  <2> DEFINE new == freeListOf(node)[Len(freeListOf(node))]
  <2>1. /\ freeListOf(node) \in Seq(Slots) /\ freeListOf(node) # <<>>
        /\ callOf(node).pc = "create" /\ recordsOf(node)'[new].state = "Admitting"
        /\ \A s \in Slots \ {new} : recordsOf(node)'[s].state = recordsOf(node)[s].state
    BY <1>3 DEF Creates, Known, ViewsInv, SameSlot
  <2>2. Len(freeListOf(node)) \in 1 .. Len(freeListOf(node)) /\ new \in Slots
    BY <2>1
  <2>3. recordsOf(node)[new].state = "Free"
    BY <2>2 DEF Known, ViewsInv
  <2> HIDE DEF new
  <2>4. Resident(node)' = Resident(node)
    BY <2>1, <2>2, <2>3 DEF Resident
  <2>5. counts'[node] = counts[node]
    BY <1>3 DEF KeepsCounts
  <2>6. \A s \in Slots : recordsOf(node)'[s].state # "Evicting"
    BY <2>1, <2>2 DEF ResidentsOf
  <2> QED
    BY <2>4, <2>5, <2>6 DEF ResidentsOf
<1>4. CASE Evicts(node) /\ counts' = [counts EXCEPT ![node].evictions = @ + 1]
  <2> DEFINE v == callOf(node).victim
  <2>1. /\ v \in Slots /\ recordsOf(node)[v].state = "Evicting"
        /\ recordsOf(node)'[v].state = "Free"
        /\ \A s \in Slots \ {v} : recordsOf(node)'[s].state = recordsOf(node)[s].state
    BY <1>4 DEF Evicts, ToState, SameSlot
  <2>2. \A s \in Slots \ {v} : recordsOf(node)[s].state # "Evicting"
    BY DEF ResidentsOf
  <2> HIDE DEF v
  <2>3. Resident(node)' = Resident(node) \ {v} /\ v \in Resident(node)
    BY <2>1 DEF Resident
  <2>4. Cardinality(Resident(node)') = Cardinality(Resident(node)) - 1
    BY <1>0, <2>3, FS_RemoveElement
  <2>5. /\ counts'[node].admissions = counts[node].admissions
        /\ counts'[node].evictions = counts[node].evictions + 1
    BY <1>0, <1>4
  <2>6. counts'[node].admissions - counts'[node].evictions = Cardinality(Resident(node)')
    BY <1>0, <2>4, <2>5 DEF ResidentsOf
  <2>7. \A s \in Slots : recordsOf(node)'[s].state # "Evicting"
    BY <2>1, <2>2
  <2> QED
    BY <2>6, <2>7 DEF ResidentsOf
<1>5. CASE Publishes(node) /\ counts' = [counts EXCEPT ![node].admissions = @ + 1]
  <2> DEFINE v == callOf(node).id
  <2>1. /\ v \in Slots /\ recordsOf(node)[v].state = "Admitting"
        /\ recordsOf(node)'[v].state = "Ready"
        /\ \A s \in Slots \ {v} : recordsOf(node)'[s].state = recordsOf(node)[s].state
        /\ callOf(node).pc = "ready"
    BY <1>5 DEF Publishes, ToState, SameSlot
  <2> HIDE DEF v
  <2>2. \A s \in Slots : recordsOf(node)[s].state # "Evicting"
    BY <2>1 DEF ResidentsOf
  <2>3. Resident(node)' = Resident(node) \cup {v} /\ v \notin Resident(node)
    BY <2>1 DEF Resident
  <2>4. Cardinality(Resident(node)') = Cardinality(Resident(node)) + 1
    BY <1>0, <2>3, FS_AddElement
  <2>5. /\ counts'[node].admissions = counts[node].admissions + 1
        /\ counts'[node].evictions = counts[node].evictions
    BY <1>0, <1>5
  <2>6. counts'[node].admissions - counts'[node].evictions = Cardinality(Resident(node)')
    BY <1>0, <2>4, <2>5 DEF ResidentsOf
  <2>7. \A s \in Slots : recordsOf(node)'[s].state # "Evicting"
    BY <2>1, <2>2
  <2> QED
    BY <2>6, <2>7 DEF ResidentsOf
<1> QED
  BY <1>1, <1>2, <1>3, <1>4, <1>5 DEF DidAdmitStep, ReqAdmitStep

LEMMA ResidentsNext ==
    ASSUME Known, BenchDid, ResidentsCounted
    PROVE  ResidentsCounted'
<1> SUFFICES ASSUME NEW n \in Nodes
             PROVE  ResidentsOf(n)'
  BY DEF ResidentsCounted
<1>0. ResidentsOf(n) /\ A!Idle.pc = "idle"
  BY DEF ResidentsCounted, A!Idle
<1>1. CASE AllKept(n) /\ counts'[n] = counts[n]
  BY <1>0, <1>1, ResidentsStay DEF AllKept
<1>2. CASE \E node \in Nodes : DidRoute(node)
  BY <1>0, <1>2, ResidentsStay DEF DidRoute, ReqRoute, KeepsCounts
<1>3. CASE \E node \in Nodes : DidDrop(node)
  <2>1. PICK node \in Nodes : DidDrop(node)
    BY <1>3
  <2>2. CASE n = node
    BY <1>0, <2>1, <2>2, ResidentsStay DEF DidDrop, ReqDrop, Releases, KeepsCounts
  <2>3. CASE n # node
    BY <1>1, <2>1, <2>3 DEF DidDrop, ReqDrop, OthersKept, KeepsCounts
  <2> QED
    BY <2>2, <2>3
<1>4. CASE DidNothing
  BY <1>1, <1>4 DEF DidNothing, ReqNothing, KeepsCounts
<1>5. CASE \E node \in Nodes : RequestDid(node)
  <2>1. PICK node \in Nodes : RequestDid(node)
    BY <1>5
  <2>2. CASE DidResolve \/ DidFail \/ DidSkip \/ DidAssemble(node) \/ DidFinish
    BY <1>1, <2>2 DEF DidResolve, ReqResolve, DidFail, ReqFail, DidSkip, ReqSkip,
                      DidAssemble, ReqAssemble, DidFinish, ReqFinish, KeepsCounts
  <2>3. CASE DidFetch
    BY <1>0, <2>3, ResidentsStay DEF DidFetch, ReqFetch
  <2>4. CASE n # node /\ (DidLookup(node) \/ DidStart(node) \/ DidAdmit(node) \/ DidAnnounce(node))
    BY <1>1, <2>4 DEF DidLookup, ReqLookup, DidStart, ReqStart, DidAdmit, ReqAdmit,
                      DidAnnounce, ReqAnnounce, OthersKept, KeepsCounts
  <2>5. CASE n # node /\ DidAdmitStep(node)
    <3>1. counts'[n] = counts[n]
      BY <2>5 DEF DidAdmitStep, ReqAdmitStep, KeepsCounts, Known, CountersType
    <3> QED
      BY <1>1, <2>5, <3>1 DEF DidAdmitStep, ReqAdmitStep, OthersKept
  <2>6. CASE n = node /\ DidAdmitStep(node)
    BY <1>0, <2>6, ResidentsAdmitStep
  <2>7. CASE n = node /\ (DidLookup(node) \/ DidStart(node) \/ DidAdmit(node) \/ DidAnnounce(node))
    BY <1>0, <2>7, ResidentsStay
       DEF DidLookup, ReqLookup, DidStart, ReqStart, DidAdmit, ReqAdmit, DidAnnounce,
           ReqAnnounce, LooksUp, StartsAdmission, EndsAdmission,
           Releases, KeepsCounts
  <2> QED
    BY <2>1, <2>2, <2>3, <2>4, <2>5, <2>6, <2>7 DEF RequestDid
<1> QED
  BY <1>2, <1>3, <1>4, <1>5 DEF BenchDid

LEMMA StreamNext ==
    ASSUME Known, BenchDid, StreamCounted
    PROVE  StreamCounted'
<1>0. /\ counts \in [Nodes -> [admissions : Nat, evictions : Nat]]
      /\ streamed \in [StreamTypes -> Nat]
      /\ Nodes = {"a", "b"}
      /\ {"block_admitted", "block_evicted", "remote_fetch_started", "remote_fetch_completed",
          "remote_fetch_failed"} = StreamTypes
  BY DEF Known, CountersType, Nodes, StreamTypes
<1>1. /\ results.admissions = counts["a"].admissions + counts["b"].admissions
      /\ results.evictions = counts["a"].evictions + counts["b"].evictions
      /\ results'.admissions = counts'["a"].admissions + counts'["b"].admissions
      /\ results'.evictions = counts'["a"].evictions + counts'["b"].evictions
  BY DEF results
<1>2. CASE KeepsCounts
  BY <1>1, <1>2 DEF KeepsCounts, StreamCounted
<1>3. CASE DidFetch \/ DidFail
  <2>1. UNCHANGED counts
    BY <1>3 DEF DidFetch, ReqFetch, DidFail, ReqFail
  <2>2. PICK ended \in {"remote_fetch_completed", "remote_fetch_failed"} :
           Counts({"remote_fetch_started", ended})
    BY <1>3 DEF DidFetch, ReqFetch, DidFail, ReqFail
  <2>3. \A type \in StreamTypes :
           streamed'[type] = streamed[type] + IF type \in {"remote_fetch_started",
           ended} THEN 1 ELSE 0
    BY <2>2 DEF Counts
  <2> QED
    BY <1>0, <1>1, <2>1, <2>3 DEF StreamCounted
<1>4. CASE \E node \in Nodes : DidAdmitStep(node)
  <2>1. PICK node \in Nodes : DidAdmitStep(node)
    BY <1>4
  <2>2. CASE Counts({"block_evicted"}) /\ counts' = [counts EXCEPT ![node].evictions = @ + 1]
    <3>1. results'.evictions = results.evictions + 1 /\ results'.admissions = results.admissions
      BY <1>0, <1>1, <2>2
    <3> QED
      BY <1>0, <2>2, <3>1 DEF Counts, StreamCounted
  <2>3. CASE Counts({"block_admitted"}) /\ counts' = [counts EXCEPT ![node].admissions = @ + 1]
    <3>1. results'.admissions = results.admissions + 1 /\ results'.evictions = results.evictions
      BY <1>0, <1>1, <2>3
    <3> QED
      BY <1>0, <2>3, <3>1 DEF Counts, StreamCounted
  <2> QED
    BY <1>2, <2>1, <2>2, <2>3 DEF DidAdmitStep, ReqAdmitStep
<1> QED
  BY <1>2, <1>3, <1>4 DEF BenchDid, RequestDid, DidRoute, ReqRoute, DidLookup,
                          ReqLookup, DidResolve, ReqResolve, DidSkip, ReqSkip, DidStart,
                          ReqStart,
                          DidAdmit, ReqAdmit, DidAssemble, ReqAssemble, DidAnnounce,
                          ReqAnnounce, DidFinish, ReqFinish, DidDrop, ReqDrop,
                          DidNothing, ReqNothing

\* A request finds less than all of its blocks.
LEMMA LastBlockMissedNext ==
    ASSUME Known, BenchDid, LastBlockIsNew, LastBlockIsMissed
    PROVE  LastBlockIsMissed'
<1> SUFFICES ASSUME Resolving'
             PROVE  LastBlockIsMissed'
  BY DEF LastBlockIsMissed
<1>0. NoRequest.pc = "none" /\ NumRequests \in Nat /\ requests \in 0 .. NumRequests
      /\ args \in BenchArgs
  BY BenchAssumption DEF NoRequest, Known, RequestInv
<1>1. CASE \E node \in Nodes : DidRoute(node)
  <2>1. PICK node \in Nodes : DidRoute(node)
    BY <1>1
  <2> DEFINE p == W(requests + 1)
  <2>2. /\ req = NoRequest /\ requests + 1 \in 1 .. NumRequests
        /\ req'.local = 0 /\ req'.fetched = 0 /\ req'.path = p /\ req'.node = node
        /\ req'.pc = IF found(node, p) = <<>> THEN "resolve" ELSE "lookup"
        /\ found(node, p) # <<>> => callOf(node)'.todo = found(node, p)
    BY <2>1 DEF DidRoute, ReqRoute
  <2>3. p \in Paths /\ Len(p) \in Nat \ {0} /\ SubSeq(p, 1, Len(p)) = p
    <3>1. p \in Paths /\ Len(p) \in Nat \ {0}
      BY <1>0, <2>2, WorkloadFacts DEF Blocks
    <3>2. p \in Seq(UNION {{q[i] : i \in 1 .. Len(q)} : q \in Paths})
      BY <3>1, PathsAssumption
    <3> QED
      BY <3>1, <3>2, SubSeqFull
  <2>4. terminalsOf(node)[p] = NoSlot
    BY <1>0, <2>2 DEF LastBlockIsNew, Computed, Resolving
  <2> HIDE DEF p
  <2>5. Len(found(node, p)) \in 0 .. Len(p) /\ found(node, p) \in Seq(Slots)
    BY <2>3 DEF Known, PartsInv, WorkersInv
  <2>6. Len(found(node, p)) # Len(p)
    <3> SUFFICES ASSUME Len(found(node, p)) = Len(p)
                 PROVE  FALSE
      OBVIOUS
    <3>1. Len(p) \in 1 .. Len(found(node, p))
      BY <2>3
    <3>2. terminalsOf(node)[SubSeq(p, 1, Len(p))] # NoSlot
      BY <2>3, <3>1 DEF Known, FoundInv
    <3> QED
      BY <2>3, <2>4, <3>2
  <2>7. Len(found(node, p)) < Len(p)
    BY <2>3, <2>5, <2>6
  <2>8. callOf(req.node)' = callOf(node)'
    BY <2>2 DEF callOf
  <2> QED
    BY <2>2, <2>3, <2>5, <2>7, <2>8 DEF LastBlockIsMissed
<1>2. CASE \E node \in Nodes : req \in Running /\ req.node = node /\ RequestDid(node)
  <2>1. PICK node \in Nodes : req \in Running /\ req.node = node /\ RequestDid(node)
    BY <1>2
  <2>2. /\ req \in [pc : {"lookup", "resolve", "remote", "computed", "announce"},
                    node : Nodes, path : Paths, local : Nat, fetched : Nat, at : Nat,
                    reusable : Seq(Slots), slot : Slots \cup {NoSlot},
                    failed : C!GlobalBlockRef \cup {NoRef}]
        /\ Len(req.path) \in Nat \ {0}
    BY <2>1, RunningFacts
  <2>3. req # NoRequest /\ (Resolving <=> req.pc \in {"lookup", "resolve", "remote"})
    BY <2>1 DEF Running, Resolving
  <2>4. CASE DidLookup(node)
    <3>1. req.local + Len(callOf(node).todo) < Len(req.path) /\ req.local + req.fetched < Len(req.path)
      BY <2>1, <2>3, <2>4 DEF DidLookup, ReqLookup, LastBlockIsMissed
    <3>2. /\ callOf(node).todo \in Seq(Slots) /\ callOf(node).todo # <<>>
          /\ req.fetched = 0
      <4>1. callOf(node) \in A!Calls /\ callOf(node).pc = "lookup"
        BY <2>4 DEF DidLookup, ReqLookup, LooksUp, Known, PartsInv, WorkersInv
      <4> QED
        BY <2>1, <2>4, <4>1, CallFields DEF DidLookup, ReqLookup, Known, PartsInv,
                                            ReqInv, InRange
    <3>3. Len(callOf(node).todo) \in Nat \ {0}
          /\ Len(Tail(callOf(node).todo)) = Len(callOf(node).todo) - 1
      BY <3>2, HeadTailProperties
    <3>4. /\ req'.path = req.path /\ req'.node = node /\ req'.fetched = 0
          /\ req'.local = IF Hit(node, Head(callOf(node).todo)) THEN req.local + 1 ELSE req.local
          /\ req'.pc = IF callOf(node)' = A!Idle THEN "resolve" ELSE "lookup"
      BY <2>1, <2>2, <2>4, <3>2 DEF DidLookup, ReqLookup
    <3>5. req'.local + req'.fetched < Len(req'.path)
      BY <2>2, <3>1, <3>3, <3>4
    <3>6. req'.pc = "lookup" => req'.local + Len(callOf(node)'.todo) < Len(req'.path)
      BY <2>2, <2>4, <3>1, <3>3, <3>4 DEF DidLookup, ReqLookup, LooksUp
    <3>7. callOf(req.node)' = callOf(node)'
      BY <3>4 DEF callOf
    <3> QED
      BY <3>5, <3>6, <3>7 DEF LastBlockIsMissed
  <2>5. CASE DidFetch
    <3>1. /\ req.pc = "resolve" /\ replicas # <<>>
          /\ req'.path = req.path /\ req'.local = req.local /\ req'.fetched = req.fetched + 1
          /\ req'.pc = "resolve"
      BY <2>2, <2>5 DEF DidFetch, ReqFetch
    <3>2. missing \in 1 .. Len(req.path) /\ missing = req.local + req.fetched + 1
      BY <3>1, ChosenFacts DEF Known, PartsInv
    <3>3. requests > 0 /\ req.path = W(requests)
      BY <2>3 DEF Known, RequestInv
    <3>4. index[A!contentHash(req.path)] = <<>>
      BY <1>0, <2>3, <3>1, <3>3 DEF LastBlockIsNew, Computed
    <3>5. missing # Len(req.path)
      <4> SUFFICES ASSUME missing = Len(req.path)
                   PROVE  FALSE
        OBVIOUS
      <4>1. req.path \in Seq(UNION {{q[i] : i \in 1 .. Len(q)} : q \in Paths})
        BY <2>2, PathsAssumption
      <4>2. Path(missing) = req.path
        BY <2>2, <4>1, SubSeqFull DEF Path
      <4>3. replicas = <<>>
        BY <3>2, <3>4, <4>2 DEF replicas, HashOf, C!query
      <4> QED
        BY <3>1, <4>3
    <3> QED
      BY <2>2, <3>1, <3>2, <3>5 DEF LastBlockIsMissed
  <2>6. CASE DidResolve \/ DidFail \/ DidSkip \/ DidStart(node) \/ DidAdmitStep(node) \/ DidAdmit(node)
    <3>1. /\ req'.path = req.path /\ req'.local = req.local /\ req'.fetched = req.fetched
          /\ req'.pc \in {"remote", "computed", "announce"}
          /\ req.pc \in {"resolve", "remote"} \/ req'.pc # "remote"
      BY <2>2, <2>6 DEF DidResolve, ReqResolve, DidFail, ReqFail, DidSkip, ReqSkip,
                        DidStart, ReqStart, DidAdmitStep, ReqAdmitStep, DidAdmit,
                        ReqAdmit
    <3> QED
      BY <2>3, <3>1 DEF LastBlockIsMissed, Resolving
  <2>7. CASE DidAssemble(node) \/ DidAnnounce(node) \/ DidFinish
    BY <1>0, <2>2, <2>7 DEF DidAssemble, ReqAssemble, DidAnnounce, ReqAnnounce,
                            DidFinish, ReqFinish, Resolving
  <2> QED
    BY <2>1, <2>4, <2>5, <2>6, <2>7 DEF RequestDid
<1>3. CASE \E node \in Nodes : DidDrop(node)
  BY <1>0, <1>3 DEF DidDrop, ReqDrop, Resolving
<1>4. CASE DidNothing
  <2>1. req' = req /\ Resolving
    BY <1>4 DEF DidNothing, ReqNothing, Resolving
  <2>2. req \in Running
    BY <2>1 DEF Resolving, Running, Known, PartsInv, ReqInv
  <2>3. req.node \in Nodes
    BY <2>2, RunningFacts
  <2>4. PICK node \in Nodes : node = req.node
    BY <2>3
  <2>5. callOf(node)' = callOf(node) /\ callOf(req.node)' = callOf(node)'
    BY <1>4, <2>1, <2>4 DEF DidNothing, ReqNothing, AllKept, callOf
  <2> QED
    BY <2>1, <2>4, <2>5 DEF LastBlockIsMissed
<1> QED
  BY <1>1, <1>2, <1>3, <1>4 DEF BenchDid

\* A prefix that comes to an index is one of the request's, up to the block that it
\* is at.
LEMMA NewPrefixes ==
    ASSUME Known, BenchDid, HitsCounted, NEW n \in Nodes, NEW q \in Paths,
           terminalsOf(n)'[q] # NoSlot, terminalsOf(n)[q] = NoSlot
    PROVE  /\ req \in Running /\ req.node = n /\ req.pc \in {"remote", "computed"}
           /\ req.at \in 1 .. Len(req.path)
           /\ req.pc = "remote" => req.at <= req.local + req.fetched
           /\ \E i \in 1 .. req.at : q = SubSeq(req.path, 1, i)
           /\ callOf(n).pc = "create"
<1>1. ~ MapsKept(n)
  BY DEF MapsKept
<1>2. PICK node \in Nodes : req \in Running /\ req.node = node /\ DidAdmitStep(node)
  BY <1>1, ZenonT(40)
     DEF BenchDid, RequestDid, DidRoute, ReqRoute, DidLookup, ReqLookup,
         DidResolve, ReqResolve, DidFetch, ReqFetch, DidFail, ReqFail, DidSkip,
         ReqSkip,
         DidStart, ReqStart, DidAdmit, ReqAdmit, DidAssemble, ReqAssemble,
         DidAnnounce, ReqAnnounce, DidFinish, ReqFinish, DidDrop, ReqDrop,
         DidNothing, ReqNothing,
         LooksUp, StartsAdmission, EndsAdmission, Releases, OthersKept, AllKept,
         ContentKept
<1>3. node = n
  BY <1>1, <1>2 DEF DidAdmitStep, ReqAdmitStep, OthersKept, AllKept, ContentKept
<1>4. Creates(n) \/ Evicts(n)
  BY <1>1, <1>2, <1>3 DEF DidAdmitStep, ReqAdmitStep, GivesUp, BeginsEviction,
                          FindsNoSlot, Publishes, ContentKept
<1>5. ~ Evicts(n)
  <2> SUFFICES ASSUME Evicts(n)
               PROVE  FALSE
    OBVIOUS
  <2>1. terminalsOf(n) \in [Paths -> Slots \cup {NoSlot}]
    BY DEF Known, ViewsInv
  <2> QED
    BY <2>1 DEF Evicts
<1>6. Creates(n)
  BY <1>4, <1>5
<1>7. callOf(n).pc = "create"
  BY <1>6 DEF Creates
<1>8. callOf(n) # A!Idle
  BY <1>7 DEF A!Idle
<1>9. /\ req.pc \in {"remote", "computed"} /\ req.at \in 1 .. Len(req.path)
      /\ callOf(n).path = Path(req.at)
  <2>1. OneCall
    BY DEF Known, PartsInv, ReqInv
  <2> QED
    BY <1>7, <1>8, <2>1 DEF OneCall
<1>10. PICK i \in 1 .. Len(Path(req.at)) : q = SubSeq(Path(req.at), 1, i)
  BY <1>6, <1>9 DEF Creates
<1>11. i \in 1 .. req.at /\ q = SubSeq(req.path, 1, i)
  <2>1. req.path \in Paths
    BY <1>2, RunningFacts
  <2>2. Len(Path(req.at)) = req.at
    BY <1>9, <2>1, PrefixOf DEF Path
  <2>3. i \in 1 .. req.at
    BY <2>2
  <2> QED
    BY <1>9, <1>10, <2>1, <2>3, PrefixOf DEF Path
<1>12. req.pc = "remote" => req.at <= req.local + req.fetched
  <2>1. req.at \in Nat /\ req.local \in Nat /\ req.fetched \in Nat
    BY <1>2, RunningFacts
  <2>2. req.pc = "remote" => req.at - req.local <= req.fetched
    BY <1>2, <1>3, <1>8 DEF HitsCounted, Resolving, Running
  <2> QED
    BY <2>1, <2>2
<1> QED
  BY <1>2, <1>3, <1>7, <1>9, <1>11, <1>12

LEMMA BenchIsCluster == Known /\ BenchDid => Seen /\ ClusterDid
<1>1. Known => Seen
  BY DEF Known, Seen
<1>2. ASSUME BenchDid
      PROVE  ClusterDid
  <2>1. CASE \E node \in Nodes : DidRoute(node)
    BY <2>1 DEF DidRoute, ReqRoute, ClusterDid
  <2>2. CASE \E node \in Nodes : req \in Running /\ req.node = node /\ RequestDid(node)
    BY <2>2 DEF RequestDid, DidLookup, DidResolve, DidFetch, DidFail, DidSkip, DidStart,
                DidAdmitStep, DidAdmit, DidAssemble, DidAnnounce, DidFinish,
                ClusterDid, RequestMoved
  <2>3. CASE (\E node \in Nodes : DidDrop(node)) \/ DidNothing
    BY <2>3 DEF DidDrop, DidNothing, ClusterDid
  <2> QED
    BY <1>2, <2>1, <2>2, <2>3 DEF BenchDid
<1> QED
  BY <1>1, <1>2

\* What is computed only grows.
LEMMA ComputedGrows ==
    ASSUME Known, BenchDid
    PROVE  Computed' >= Computed /\ Computed \in Int /\ Computed' \in Int
<1>1. requests \in Nat /\ NoRequest.pc = "none" /\ requests' \in Nat
  <2>1. RequestInv'
    BY RequestNext
  <2> QED
    BY <2>1, BenchAssumption DEF Known, RequestInv, NoRequest
<1>2. CASE \E node \in Nodes : DidRoute(node)
  <2>1. /\ req = NoRequest /\ requests' = requests + 1
        /\ req' # NoRequest /\ req'.pc \in {"resolve", "lookup"}
    BY <1>1, <1>2 DEF DidRoute, ReqRoute
  <2> QED
    BY <1>1, <2>1 DEF Computed, Resolving
<1>3. CASE UNCHANGED <<req, requests>>
  BY <1>1, <1>3 DEF Computed, Resolving
<1>4. CASE \E node \in Nodes : req \in Running /\ RequestDid(node)
  <2>1. PICK node \in Nodes : req \in Running /\ RequestDid(node)
    BY <1>4
  <2>2. requests' = requests
    BY <2>1, RequestStays
  <2>3. req \in [pc : {"lookup", "resolve", "remote", "computed", "announce"},
                 node : Nodes, path : Paths, local : Nat, fetched : Nat, at : Nat,
                 reusable : Seq(Slots), slot : Slots \cup {NoSlot},
                 failed : C!GlobalBlockRef \cup {NoRef}]
    BY <2>1, RunningFacts
  <2>4. req.pc \notin {"lookup", "resolve", "remote"} =>
           req' = NoRequest \/ req'.pc \notin {"lookup", "resolve", "remote"}
    BY <2>1, <2>3
       DEF RequestDid, DidLookup, ReqLookup, DidResolve, ReqResolve, DidFetch, ReqFetch,
           DidFail, ReqFail, DidSkip, ReqSkip, DidStart, ReqStart, DidAdmitStep,
           ReqAdmitStep,
           DidAdmit, ReqAdmit, DidAssemble, ReqAssemble, DidAnnounce, ReqAnnounce,
           DidFinish, ReqFinish
  <2>5. Resolving' => Resolving
    BY <1>1, <2>1, <2>4 DEF Resolving, Running
  <2> QED
    BY <1>1, <2>2, <2>5 DEF Computed
<1> QED
  BY <1>2, <1>3, <1>4 DEF BenchDid, DidDrop, ReqDrop, DidNothing, ReqNothing

LEMMA LastBlockNewNext ==
    ASSUME Known, BenchDid, CoordInv, HitsCounted, LastBlockIsNew, LastBlockIsMissed
    PROVE  LastBlockIsNew'
<1> SUFFICES ASSUME NEW k \in 1 .. NumRequests, k > Computed'
             PROVE  /\ index'[A!contentHash(W(k))] = <<>>
                    /\ \A n \in Nodes : terminalsOf(n)'[W(k)] = NoSlot
  <2>1. UNCHANGED args
    BY DEF BenchDid
  <2>3. \A m : W(m)' = W(m) /\ A!contentHash(W(m))' = A!contentHash(W(m))
    BY <2>1 DEF W, A!contentHash
  <2> QED
    BY <2>3 DEF LastBlockIsNew
<1>1. /\ args \in BenchArgs /\ NumRequests \in Nat /\ requests \in 0 .. NumRequests
  BY BenchAssumption DEF Known, RequestInv
<1>2. k > Computed
  BY <1>1, ComputedGrows
<1>3. index[A!contentHash(W(k))] = <<>> /\ \A n \in Nodes : terminalsOf(n)[W(k)] = NoSlot
  BY <1>2 DEF LastBlockIsNew
<1>4. W(k) \in Paths /\ A!contentHash(W(k)) \in Hashes
  BY <1>1, WorkloadFacts DEF Hashes
\* The request has no part in what is not computed yet.
<1>5. ASSUME req \in Running, NEW i \in 1 .. Len(req.path),
             req.pc \in {"remote", "computed", "announce"},
             req.pc = "remote" => i <= req.local + req.fetched,
             W(k) = SubSeq(req.path, 1, i) \/ A!contentHash(W(k)) = HashOf(i)
      PROVE  FALSE
  <2>1. requests \in 1 .. NumRequests /\ req.path = W(requests) /\ Blocks(requests) = Len(req.path)
    BY <1>1, <1>5 DEF Known, RequestInv, Running, Blocks
  <2>2. HashOf(i) = <<i, req.path[i]>>
    BY <1>5, RunningFacts, PrefixOf DEF HashOf, Path
  <2>3. k = requests /\ i = Len(req.path)
    BY <1>1, <1>5, <2>1, <2>2, LastBlockOwn
  <2>4. req # NoRequest
    BY <1>5 DEF Running
  <2>5. req.pc = "remote"
    BY <1>1, <1>2, <1>5, <2>3, <2>4 DEF Computed, Resolving
  <2>6. req.local + req.fetched < Len(req.path)
    BY <2>4, <2>5 DEF LastBlockIsMissed, Resolving
  <2>7. req.local \in Nat /\ req.fetched \in Nat /\ Len(req.path) \in Nat
    BY <1>5, RunningFacts
  <2> QED
    BY <1>5, <2>3, <2>5, <2>6, <2>7
<1>6. \A n \in Nodes : terminalsOf(n)'[W(k)] = NoSlot
  <2> SUFFICES ASSUME NEW n \in Nodes, terminalsOf(n)'[W(k)] # NoSlot
               PROVE  FALSE
    OBVIOUS
  <2>1. /\ req \in Running /\ req.pc \in {"remote", "computed"}
        /\ req.at \in 1 .. Len(req.path)
        /\ req.pc = "remote" => req.at <= req.local + req.fetched
        /\ \E i \in 1 .. req.at : W(k) = SubSeq(req.path, 1, i)
    BY <1>3, <1>4, NewPrefixes
  <2>2. PICK i \in 1 .. req.at : W(k) = SubSeq(req.path, 1, i)
    BY <2>1
  <2>3. Len(req.path) \in Nat /\ req.local \in Nat /\ req.fetched \in Nat
    BY <2>1, RunningFacts
  <2>4. i \in 1 .. Len(req.path) /\ (req.pc = "remote" => i <= req.local + req.fetched)
    BY <2>1, <2>2, <2>3
  <2> QED
    BY <1>5, <2>1, <2>2, <2>4
<1>7. index'[A!contentHash(W(k))] = <<>>
  <2>1. C!TypeOK'
    BY BenchIsCluster, NewReferences
  <2>2. index'[A!contentHash(W(k))] \in Seq(C!GlobalBlockRef)
    BY <1>4, <2>1 DEF C!TypeOK
  <2> SUFFICES ASSUME index'[A!contentHash(W(k))] # <<>>
               PROVE  FALSE
    OBVIOUS
  <2> DEFINE ref == index'[A!contentHash(W(k))][1]
  <2>3. ref \in C!Elements(index'[A!contentHash(W(k))])
    BY <2>2 DEF C!Elements
  <2>4. ref \notin C!Elements(index[A!contentHash(W(k))])
    BY <1>3 DEF C!Elements
  <2>5. /\ req \in Running /\ req.pc = "announce" /\ req.at \in 1 .. Len(req.path)
        /\ A!contentHash(W(k)) = HashOf(req.at)
    BY <1>4, <2>3, <2>4, BenchIsCluster, NewReferences
  <2> QED
    BY <1>5, <2>5
<1> QED
  BY <1>6, <1>7

\* What is found and admitted is counted once.
LEMMA HitsNext ==
    ASSUME Known, BenchDid, LastBlockIsMissed, HitsCounted
    PROVE  HitsCounted'
<1> DEFINE remote == results.remote_hits
           total == results.local_hits + results.remote_hits
           completed == streamed["remote_fetch_completed"]
<1>0. /\ hits \in [Nodes -> [local_hits : Nat, remote_hits : Nat]]
      /\ completed \in Nat /\ admitted_count \in Nat /\ total_prefix_possible \in Nat
      /\ Nodes = {"a", "b"} /\ NoRequest.pc = "none"
      /\ {"remote_fetch_completed"} \subseteq StreamTypes
  BY DEF Known, CountersType, Nodes, StreamTypes, NoRequest
<1>1. /\ remote = hits["a"].remote_hits + hits["b"].remote_hits
      /\ total = (hits["a"].local_hits + hits["b"].local_hits)
                    + (hits["a"].remote_hits + hits["b"].remote_hits)
      /\ remote' = hits'["a"].remote_hits + hits'["b"].remote_hits
      /\ total' = (hits'["a"].local_hits + hits'["b"].local_hits)
                    + (hits'["a"].remote_hits + hits'["b"].remote_hits)
      /\ remote \in Nat /\ total \in Nat
  <2>1. /\ hits["a"] \in [local_hits : Nat, remote_hits : Nat]
        /\ hits["b"] \in [local_hits : Nat, remote_hits : Nat]
    BY <1>0
  <2>2. /\ hits["a"].local_hits \in Nat /\ hits["a"].remote_hits \in Nat
        /\ hits["b"].local_hits \in Nat /\ hits["b"].remote_hits \in Nat
    BY <2>1
  <2> QED
    BY <2>2 DEF results
<1>2. UNCHANGED hits => remote' = remote /\ total' = total
  BY DEF results
<1>3. remote + Pending <= completed /\ total + PendingHits <= total_prefix_possible
  BY <1>1 DEF HitsCounted
<1>4. HitsCounted' <=>
         /\ Resolving' => IF req'.pc = "remote"
                          THEN /\ admitted_count' < req'.at - req'.local
                               /\ req'.at - req'.local - 1 <= req'.fetched
                               /\ callOf(req.node)' # A!Idle => req'.at - req'.local <= req'.fetched
                          ELSE admitted_count' = 0
         /\ remote' + Pending' <= completed'
         /\ total' + PendingHits' <= total_prefix_possible'
  <2>1. A!Idle' = A!Idle
    BY DEF A!Idle
  <2> QED
    BY <2>1 DEF HitsCounted
<1>n. remote \in Nat /\ total \in Nat /\ completed \in Nat /\ total_prefix_possible \in Nat
  BY <1>0, <1>1
<1> HIDE DEF remote, total, completed
<1>5. CASE \E node \in Nodes : DidRoute(node)
  <2>1. PICK node \in Nodes : DidRoute(node)
    BY <1>5
  <2> DEFINE p == W(requests + 1)
  <2>2. /\ req = NoRequest /\ requests + 1 \in 1 .. NumRequests
        /\ req'.fetched = 0 /\ req'.path = p /\ req'.pc \in {"resolve", "lookup"}
        /\ total_prefix_possible' = total_prefix_possible + Len(p) - 1
        /\ admitted_count' = 0 /\ UNCHANGED <<hits, streamed>>
    BY <2>1 DEF DidRoute, ReqRoute, KeepsCounts
  <2>3. Len(p) \in Nat \ {0}
    BY <2>2, WorkloadFacts DEF Blocks, Known, RequestInv
  <2> HIDE DEF p
  <2>4. Pending = 0 /\ PendingHits = 0 /\ Pending' = 0 /\ PendingHits' = Len(p) - 1
    BY <1>0, <2>2 DEF Pending, PendingHits, Resolving
  <2>5. completed' = completed
    BY <2>2 DEF completed
  <2>6. remote' + Pending' <= completed'
    BY <1>0, <1>1, <1>2, <1>3, <2>2, <2>4, <2>5
  <2>7. total' + PendingHits' <= total_prefix_possible'
    <3>1. total' = total /\ total <= total_prefix_possible
      BY <1>n, <1>1, <1>3, <2>2, <2>4
    <3>2. \A t, m, q \in Nat : t <= q => t + (m - 1) <= q + m - 1
      OBVIOUS
    <3> QED
      BY <1>n, <2>2, <2>3, <2>4, <3>1, <3>2
  <2> QED
    BY <1>4, <2>2, <2>6, <2>7
<1>6. CASE \E node \in Nodes : req \in Running /\ req.node = node /\ RequestDid(node)
  <2>1. PICK node \in Nodes : req \in Running /\ req.node = node /\ RequestDid(node)
    BY <1>6
  <2>2. /\ req \in [pc : {"lookup", "resolve", "remote", "computed", "announce"},
                    node : Nodes, path : Paths, local : Nat, fetched : Nat, at : Nat,
                    reusable : Seq(Slots), slot : Slots \cup {NoSlot},
                    failed : C!GlobalBlockRef \cup {NoRef}]
        /\ Len(req.path) \in Nat \ {0}
    BY <2>1, RunningFacts
  <2>3. req # NoRequest /\ (Resolving <=> req.pc \in {"lookup", "resolve", "remote"})
    BY <2>1 DEF Running, Resolving
  <2>4. /\ Pending = IF req.pc \in {"lookup", "resolve", "remote"} THEN req.fetched ELSE 0
        /\ PendingHits = IF req.pc \in {"lookup", "resolve", "remote"} THEN Len(req.path) - 1 ELSE 0
    BY <2>3 DEF Pending, PendingHits
  <2>5. (req' # NoRequest /\ req'.pc \in {"lookup", "resolve", "remote"} <=> Resolving')
    BY DEF Resolving
  <2>6. /\ Pending' = IF Resolving' THEN req'.fetched ELSE 0
        /\ PendingHits' = IF Resolving' THEN Len(req'.path) - 1 ELSE 0
    BY DEF Pending, PendingHits
  <2>7. /\ req.pc = "remote" => /\ admitted_count < req.at - req.local
                                /\ req.at - req.local - 1 <= req.fetched
                                /\ callOf(node) # A!Idle => req.at - req.local <= req.fetched
        /\ req.pc \in {"lookup", "resolve"} => admitted_count = 0
    BY <2>1, <2>3 DEF HitsCounted
  <2>8. UNCHANGED streamed => completed' = completed
    BY DEF completed
  <2>9. req'.node = node => callOf(req.node)' = callOf(node)'
    BY DEF callOf
  <2>10. CASE DidLookup(node)
    <3>1. /\ req.pc = "lookup" /\ req'.pc \in {"lookup", "resolve"}
          /\ req'.fetched = req.fetched /\ req'.path = req.path
          /\ UNCHANGED <<hits, streamed, admitted_count, total_prefix_possible>>
      BY <2>2, <2>10 DEF DidLookup, ReqLookup, KeepsCounts, KeepsTotals
    <3> QED
      BY <1>0, <1>1, <1>2, <1>3, <1>4, <2>4, <2>5, <2>6, <2>7, <2>8, <3>1
  <2>11. CASE DidResolve \/ DidFail
    <3>1. /\ req.pc = "resolve" /\ req'.pc = "remote" /\ req'.node = node
          /\ req'.fetched = req.fetched /\ req'.path = req.path /\ req'.local = req.local
          /\ req'.at = req.local + 1 /\ callOf(node)' = callOf(node)
          /\ UNCHANGED <<hits, admitted_count, total_prefix_possible>>
      BY <2>1, <2>2, <2>11 DEF DidResolve, ReqResolve, DidFail, ReqFail, KeepsTotals, AllKept
    <3>2. completed' = completed
      <4>1. CASE DidResolve
        BY <2>8, <4>1 DEF DidResolve, ReqResolve, KeepsCounts
      <4>2. CASE DidFail
        <5>1. Counts({"remote_fetch_started", "remote_fetch_failed"})
          BY <4>2 DEF DidFail, ReqFail
        <5> QED
          BY <1>0, <5>1 DEF Counts, completed
      <4> QED
        BY <2>11, <4>1, <4>2
    <3>3. callOf(node) = A!Idle
      <4>1. OneCall
        BY DEF Known, PartsInv, ReqInv
      <4> QED
        BY <2>1, <3>1, <4>1 DEF OneCall
    <3>4. remote' + Pending' <= completed' /\ total' + PendingHits' <= total_prefix_possible'
      <4>1. Resolving'
        BY <1>0, <2>5, <3>1
      <4>2. Pending' = Pending /\ PendingHits' = PendingHits
        BY <2>4, <2>6, <3>1, <4>1
      <4> QED
        BY <1>2, <1>3, <3>1, <3>2, <4>2
    <3>5. /\ admitted_count' < req'.at - req'.local
          /\ req'.at - req'.local - 1 <= req'.fetched
      BY <2>2, <2>7, <3>1
    <3> QED
      BY <1>4, <2>9, <3>1, <3>3, <3>4, <3>5
  <2>12. CASE DidFetch
    <3>1. /\ req.pc = "resolve" /\ req'.pc = "resolve"
          /\ req'.fetched = req.fetched + 1 /\ req'.path = req.path
          /\ UNCHANGED <<hits, admitted_count, total_prefix_possible>>
          /\ Counts({"remote_fetch_started", "remote_fetch_completed"})
      BY <2>2, <2>12 DEF DidFetch, ReqFetch, KeepsTotals
    <3>2. completed' = completed + 1
      BY <1>0, <3>1 DEF Counts, completed
    <3>3. Resolving'
      BY <2>3, <2>5, <3>1, <1>0
    <3>4. remote' + Pending' <= completed'
      <4>1. req.fetched \in Nat /\ Pending = req.fetched /\ Pending' = req.fetched + 1
        BY <2>2, <2>4, <2>6, <3>1, <3>3
      <4>2. remote' = remote
        BY <1>2, <3>1
      <4> QED
        BY <1>n, <1>3, <3>2, <4>1, <4>2
    <3>5. total' + PendingHits' <= total_prefix_possible'
      BY <1>2, <1>3, <2>4, <2>6, <3>1, <3>3
    <3> QED
      BY <1>4, <2>7, <3>1, <3>4, <3>5
  \* The loop of admissions goes on or stays where it is.
  <2>13. CASE /\ req.pc = "remote" /\ req'.pc = "remote" /\ req'.node = node
              /\ req'.fetched = req.fetched /\ req'.path = req.path /\ req'.local = req.local
              /\ UNCHANGED <<hits, total_prefix_possible, completed>>
              /\ \/ /\ req'.at = req.at /\ admitted_count' = admitted_count
                    /\ callOf(node)' # A!Idle => req.at - req.local <= req.fetched
                 \/ /\ req'.at = req.at + 1 /\ req.at - req.local <= req.fetched
                    /\ admitted_count' \in {admitted_count, admitted_count + 1}
                    /\ callOf(node)' = A!Idle
    <3>1. Resolving'
      BY <1>0, <2>5, <2>13
    <3>2. remote' + Pending' <= completed' /\ total' + PendingHits' <= total_prefix_possible'
      BY <1>2, <1>3, <2>4, <2>6, <2>13, <3>1
    <3>3. /\ admitted_count' < req'.at - req'.local
          /\ req'.at - req'.local - 1 <= req'.fetched
      BY <1>0, <2>2, <2>7, <2>13
    <3>4. callOf(req.node)' # A!Idle => req'.at - req'.local <= req'.fetched
      BY <2>9, <2>13
    <3> QED
      BY <1>4, <2>13, <3>2, <3>3, <3>4
  <2>14. CASE /\ req.pc \in {"computed", "announce"}
              /\ req' = NoRequest \/ req'.pc \in {"computed", "announce"}
              /\ UNCHANGED <<hits, total_prefix_possible, streamed>>
    BY <1>0, <1>1, <1>2, <1>3, <1>4, <2>4, <2>5, <2>6, <2>8, <2>14
  <2>15. CASE DidSkip
    <3>1. /\ req.pc \in {"remote", "computed"} /\ req'.pc = req.pc /\ req.at <= Last
          /\ req'.fetched = req.fetched /\ req'.path = req.path /\ req'.local = req.local
          /\ req'.at = req.at + 1 /\ req'.node = node
          /\ UNCHANGED <<hits, total_prefix_possible, streamed>>
          /\ admitted_count' \in {admitted_count, admitted_count + 1}
          /\ callOf(node) = A!Idle /\ callOf(node)' = callOf(node)
      BY <2>1, <2>2, <2>15 DEF DidSkip, ReqSkip, KeepsTotals, KeepsCounts,
                               countAdmitted, AllKept
    <3>2. req.pc = "remote" => req.at - req.local <= req.fetched
      BY <2>2, <3>1 DEF Last
    <3> QED
      BY <2>8, <2>13, <2>14, <3>1, <3>2
  <2>16. CASE DidStart(node)
    <3>1. /\ req.pc \in {"remote", "computed"} /\ req' = req /\ req.at <= Last
          /\ UNCHANGED <<hits, total_prefix_possible, streamed, admitted_count>>
      BY <2>16 DEF DidStart, ReqStart, KeepsTotals, KeepsCounts
    <3>2. req.pc = "remote" => req.at - req.local <= req.fetched
      BY <2>2, <3>1 DEF Last
    <3> QED
      BY <2>1, <2>8, <2>13, <2>14, <3>1, <3>2
  <2>17. CASE DidAdmitStep(node)
    <3>1. /\ req.pc \in {"remote", "computed"}
          /\ req' = IF callOf(node)' = A!Idle THEN [req EXCEPT !.at = @ + 1] ELSE req
          /\ UNCHANGED <<hits, total_prefix_possible, admitted_count>>
      BY <2>17 DEF DidAdmitStep, ReqAdmitStep, KeepsTotals
    <3>2. callOf(node) # A!Idle
      BY <2>17 DEF DidAdmitStep, ReqAdmitStep, GivesUp, BeginsEviction, FindsNoSlot,
                   Creates, Evicts, Publishes,
                   A!Idle
    <3>3. req.pc = "remote" => req.at - req.local <= req.fetched
      BY <2>7, <3>2
    <3>4. completed' = completed
      <4>1. CASE KeepsCounts
        BY <2>8, <4>1 DEF KeepsCounts
      <4>2. CASE Counts({"block_evicted"}) \/ Counts({"block_admitted"})
        BY <1>0, <4>2 DEF Counts, completed
      <4> QED
        BY <2>17, <4>1, <4>2 DEF DidAdmitStep, ReqAdmitStep
    <3>5. CASE req.pc = "remote"
      <4>1. /\ req'.pc = "remote" /\ req'.node = node /\ req'.fetched = req.fetched
            /\ req'.path = req.path /\ req'.local = req.local
            /\ req'.at = IF callOf(node)' = A!Idle THEN req.at + 1 ELSE req.at
        BY <2>1, <2>2, <3>1, <3>5
      <4> QED
        BY <2>13, <3>1, <3>3, <3>4, <3>5, <4>1
    <3>6. CASE req.pc = "computed"
      <4>1. req'.pc = "computed"
        BY <2>2, <3>1, <3>6
      <4> QED
        BY <1>0, <1>1, <1>2, <1>3, <1>4, <2>4, <2>5, <2>6, <3>1, <3>4, <3>6, <4>1
    <3> QED
      BY <3>1, <3>5, <3>6
  <2>18. CASE DidAdmit(node)
    <3>1. /\ req.pc \in {"remote", "computed"}
          /\ req' = IF req.pc = "remote"
                    THEN [req EXCEPT !.at = @ + 1, !.reusable = Append(@, callOf(node).id)]
                    ELSE [req EXCEPT !.pc = "announce", !.slot = callOf(node).id]
          /\ admitted_count' = IF req.pc = "remote" THEN admitted_count + 1 ELSE admitted_count
          /\ callOf(node)' = A!Idle /\ callOf(node).pc = "acquire"
          /\ UNCHANGED <<hits, total_prefix_possible, streamed>>
      BY <2>18 DEF DidAdmit, ReqAdmit, KeepsTotals, KeepsCounts, EndsAdmission
    <3>2. callOf(node) # A!Idle
      BY <3>1 DEF A!Idle
    <3>3. req.pc = "remote" => req.at - req.local <= req.fetched
      BY <2>7, <3>2
    <3>4. CASE req.pc = "remote"
      <4>1. /\ req'.pc = "remote" /\ req'.node = node /\ req'.fetched = req.fetched
            /\ req'.path = req.path /\ req'.local = req.local /\ req'.at = req.at + 1
        BY <2>1, <2>2, <3>1, <3>4
      <4> QED
        BY <2>8, <2>13, <3>1, <3>3, <3>4, <4>1
    <3>5. CASE req.pc = "computed"
      <4>1. req'.pc = "announce"
        BY <2>2, <3>1, <3>5
      <4> QED
        BY <2>14, <3>1, <3>5, <4>1
    <3> QED
      BY <3>1, <3>4, <3>5
  <2>19. CASE DidAssemble(node)
    <3>1. /\ req.pc = "remote" /\ req'.pc = "computed"
          /\ hits' = [hits EXCEPT ![node].local_hits = @ + req.local,
                                  ![node].remote_hits = @ + admitted_count]
          /\ UNCHANGED <<total_prefix_possible, streamed>>
      BY <2>2, <2>19 DEF DidAssemble, ReqAssemble, KeepsCounts
    <3>2. /\ hits'[node].local_hits = hits[node].local_hits + req.local
          /\ hits'[node].remote_hits = hits[node].remote_hits + admitted_count
          /\ \A n \in Nodes \ {node} : hits'[n] = hits[n]
      BY <1>0, <3>1
    <3>3. remote' = remote + admitted_count /\ total' = total + req.local + admitted_count
      <4>0. /\ hits["a"].local_hits \in Nat /\ hits["a"].remote_hits \in Nat
            /\ hits["b"].local_hits \in Nat /\ hits["b"].remote_hits \in Nat
            /\ req.local \in Nat /\ admitted_count \in Nat
        <5>1. /\ hits["a"] \in [local_hits : Nat, remote_hits : Nat]
              /\ hits["b"] \in [local_hits : Nat, remote_hits : Nat]
          BY <1>0
        <5> QED
          BY <1>0, <2>2, <5>1
      <4>1. CASE node = "a"
        <5>1. hits'["b"] = hits["b"]
          BY <1>0, <3>2, <4>1
        <5> QED
          BY <1>1, <3>2, <4>0, <4>1, <5>1
      <4>2. CASE node = "b"
        <5>1. hits'["a"] = hits["a"]
          BY <1>0, <3>2, <4>2
        <5> QED
          BY <1>1, <3>2, <4>0, <4>2, <5>1
      <4> QED
        BY <1>0, <4>1, <4>2
    <3>4. admitted_count <= req.fetched
      BY <1>0, <2>2, <2>7, <3>1
    <3>5. req.local + req.fetched < Len(req.path)
      BY <2>3, <3>1 DEF LastBlockIsMissed
    <3>6. ~ Resolving'
      BY <2>5, <3>1
    <3>7. remote' + 0 <= completed /\ total' + 0 <= total_prefix_possible
      <4>1. /\ req.local \in Nat /\ req.fetched \in Nat /\ Len(req.path) \in Nat
            /\ Pending = req.fetched /\ PendingHits = Len(req.path) - 1
        BY <2>2, <2>4, <3>1
      <4>2. admitted_count \in Nat
        BY <1>0
      <4>3. remote + req.fetched <= completed
            /\ total + (Len(req.path) - 1) <= total_prefix_possible
        BY <1>3, <4>1
      <4>4. remote' + 0 <= completed
        BY <1>n, <3>3, <3>4, <4>1, <4>2, <4>3
      <4>5. total + req.local + admitted_count <= total_prefix_possible
        <5>1. \A t, l, c, f, m, p \in Nat :
                 l + f < m /\ c <= f /\ t + (m - 1) <= p => t + l + c <= p
          OBVIOUS
        <5>2. total \in Nat /\ total_prefix_possible \in Nat
          BY <1>n
        <5> QED
          BY <3>4, <3>5, <4>1, <4>2, <4>3, <5>1, <5>2
      <4> QED
        BY <1>n, <3>3, <4>1, <4>2, <4>4, <4>5
    <3> QED
      BY <1>4, <2>6, <2>8, <3>1, <3>6, <3>7
  <2>20. CASE DidAnnounce(node) \/ DidFinish
    <3>1. /\ req.pc \in {"computed", "announce"}
          /\ req' = NoRequest \/ req'.pc \in {"computed", "announce"}
          /\ UNCHANGED <<hits, total_prefix_possible, streamed>>
      BY <2>2, <2>20 DEF DidAnnounce, ReqAnnounce, DidFinish, ReqFinish, KeepsTotals,
                         KeepsCounts
    <3> QED
      BY <2>14, <3>1
  <2> QED
    BY <2>1, <2>10, <2>11, <2>12, <2>15, <2>16, <2>17, <2>18, <2>19, <2>20 DEF RequestDid
<1>7. CASE DidNothing \/ \E node \in Nodes : DidDrop(node)
  <2>1. UNCHANGED <<req, hits, total_prefix_possible, streamed, admitted_count>>
    BY <1>7 DEF DidNothing, ReqNothing, DidDrop, ReqDrop, KeepsTotals, KeepsCounts
  <2>2. Pending' = Pending /\ PendingHits' = PendingHits /\ completed' = completed
        /\ (Resolving' <=> Resolving)
    BY <2>1 DEF Pending, PendingHits, Resolving, completed
  <2>3. Resolving => callOf(req.node)' = callOf(req.node)
    <3> SUFFICES ASSUME Resolving
                 PROVE  callOf(req.node)' = callOf(req.node)
      OBVIOUS
    <3>1. req # NoRequest /\ req \in Running
      BY DEF Resolving, Running, Known, PartsInv, ReqInv
    <3>2. DidNothing
      BY <1>7, <3>1 DEF DidDrop, ReqDrop
    <3>3. PICK node \in Nodes : node = req.node
      BY <3>1, RunningFacts
    <3>4. callOf(node)' = callOf(node)
      BY <3>2 DEF DidNothing, ReqNothing, AllKept
    <3> QED
      BY <2>1, <3>3, <3>4 DEF callOf
  <2> QED
    BY <1>2, <1>3, <1>4, <2>1, <2>2, <2>3 DEF HitsCounted
<1> QED
  BY <1>5, <1>6, <1>7 DEF BenchDid

\* Blocks and references are where requests were routed, and with hash routing
\* nothing is fetched: the one who has a block is the one who asks for it.
LEMMA RoutedNext ==
    ASSUME Known, BenchDid, CoordInv, HitsCounted, Routed
    PROVE  Routed'
<1>1. /\ UNCHANGED args /\ args \in BenchArgs /\ NumRequests \in Nat
      /\ requests \in 0 .. NumRequests /\ requests' \in 0 .. NumRequests /\ requests' >= requests
  <2>1. RequestInv'
    BY RequestNext
  <2>2. requests' = requests \/ requests' = requests + 1
    BY RequestStays DEF BenchDid, DidRoute, ReqRoute, DidDrop, ReqDrop, DidNothing, ReqNothing
  <2> QED
    BY <2>1, <2>2, BenchAssumption DEF BenchDid, Known, RequestInv
<1>2. /\ \A k : W(k)' = W(k) /\ Blocks(k)' = Blocks(k)
      /\ \A node, k : RoutedTo(node, k)' <=> RoutedTo(node, k)
  BY <1>1, SameWorkload
<1>3. ASSUME req \in Running
      PROVE  /\ requests \in 1 .. requests' /\ req.path = W(requests)
             /\ requests \in 1 .. NumRequests
             /\ RoutedTo(req.node, requests)
  <2>1. requests > 0 /\ req.path = W(requests) /\ req.node \in chooseNode(req.path)
    BY <1>3 DEF Running, Known, RequestInv
  <2> QED
    BY <1>1, <2>1 DEF RoutedTo, chooseNode
<1>4. ASSUME NEW node \in Nodes, NEW q \in Paths, terminalsOf(node)'[q] # NoSlot
      PROVE  \E k \in 1 .. requests' : /\ \E i \in 1 .. Blocks(k) : q = SubSeq(W(k), 1, i)
                                       /\ RoutedTo(node, k)
  <2>1. CASE terminalsOf(node)[q] # NoSlot
    <3>1. PICK k \in 1 .. requests : /\ \E i \in 1 .. Blocks(k) : q = SubSeq(W(k), 1, i)
                                     /\ RoutedTo(node, k)
      BY <2>1 DEF Routed
    <3>2. k \in 1 .. requests'
      BY <1>1
    <3> QED
      BY <3>1, <3>2
  <2>2. CASE terminalsOf(node)[q] = NoSlot
    <3>1. /\ req \in Running /\ req.node = node /\ req.at \in 1 .. Len(req.path)
          /\ \E i \in 1 .. req.at : q = SubSeq(req.path, 1, i)
      BY <1>4, <2>2, NewPrefixes
    <3>2. PICK i \in 1 .. req.at : q = SubSeq(req.path, 1, i)
      BY <3>1
    <3>3. Len(req.path) \in Nat /\ i \in 1 .. Len(req.path)
      BY <3>1, RunningFacts
    <3> QED
      BY <1>3, <3>1, <3>2, <3>3 DEF Blocks
  <2> QED
    BY <2>1, <2>2
<1>5. ASSUME NEW hash \in Hashes, NEW ref \in C!Elements(index'[hash])
      PROVE  \E k \in 1 .. requests' : /\ \E i \in 1 .. Blocks(k) : hash = <<i, W(k)[i]>>
                                       /\ RoutedTo(ref.node_id, k)
  <2>1. CASE ref \in C!Elements(index[hash])
    <3>1. PICK k \in 1 .. requests : /\ \E i \in 1 .. Blocks(k) : hash = <<i, W(k)[i]>>
                                     /\ RoutedTo(ref.node_id, k)
      BY <2>1 DEF Routed
    <3>2. k \in 1 .. requests'
      BY <1>1
    <3> QED
      BY <3>1, <3>2
  <2>2. CASE ref \notin C!Elements(index[hash])
    <3>1. /\ req \in Running /\ req.at \in 1 .. Len(req.path)
          /\ hash = HashOf(req.at) /\ ref.node_id = req.node
      BY <1>5, <2>2, BenchIsCluster, NewReferences
    <3>2. HashOf(req.at) = <<req.at, req.path[req.at]>>
      BY <3>1, RunningFacts, PrefixOf DEF HashOf, Path
    <3> QED
      BY <1>3, <3>1, <3>2 DEF Blocks
  <2> QED
    BY <2>1, <2>2
<1>6. ASSUME args.routing = "hash_first_block"
      PROVE  streamed'["remote_fetch_completed"] = 0
  <2>0. /\ streamed \in [StreamTypes -> Nat] /\ streamed["remote_fetch_completed"] = 0
        /\ "remote_fetch_completed" \in StreamTypes
    BY <1>6 DEF Known, CountersType, Routed, StreamTypes
  <2>1. CASE DidFetch
    <3>1. /\ req.pc = "resolve" /\ replicas # <<>>
          /\ fetchStatus(req.node, chosen, HashOf(missing)) = "Ok"
      BY <2>1 DEF DidFetch, ReqFetch
    <3>2. /\ req \in Running /\ missing \in 1 .. Len(req.path)
          /\ chosen \in C!Elements(index[HashOf(missing)])
      BY <3>1, ChosenFacts DEF Known, PartsInv
    <3>3. HashOf(missing) = <<missing, req.path[missing]>> /\ HashOf(missing) \in Hashes
      BY <3>2, RunningFacts, PrefixOf DEF HashOf, Path
    <3>4. PICK k \in 1 .. requests :
             /\ \E i \in 1 .. Blocks(k) : HashOf(missing) = <<i, W(k)[i]>>
             /\ RoutedTo(chosen.node_id, k)
      BY <3>2, <3>3 DEF Routed
    <3>5. W(k)[missing] = W(requests)[missing]
      BY <1>3, <3>2, <3>3, <3>4
    <3>6. W(k)[1] = W(requests)[1]
      <4>1. k \in 1 .. NumRequests /\ requests \in 1 .. NumRequests
        BY <1>1, <1>3, <3>2
      <4>2. missing \in 1 .. Blocks(requests)
        BY <1>3, <3>2 DEF Blocks
      <4>3. \A i \in 1 .. Blocks(requests) :
               W(requests)[i] = W(k)[i] => W(requests)[1] = W(k)[1]
        BY <1>1, <4>1, WorkloadFacts
      <4> QED
        BY <3>5, <4>2, <4>3
    <3>7. hashRouting(W(k)) = hashRouting(W(requests))
      BY <3>6 DEF hashRouting
    <3>8. chosen.node_id = req.node
      BY <1>3, <1>6, <3>2, <3>4, <3>7 DEF RoutedTo
    <3> QED
      BY <3>1, <3>8 DEF fetchStatus
  <2>2. CASE UNCHANGED streamed
    BY <2>0, <2>2
  <2>3. CASE \/ Counts({"remote_fetch_started", "remote_fetch_failed"})
             \/ Counts({"block_evicted"}) \/ Counts({"block_admitted"})
    BY <2>0, <2>3 DEF Counts
  <2> QED
    BY <2>1, <2>2, <2>3, ZenonT(40)
       DEF BenchDid, RequestDid, DidRoute, ReqRoute, DidLookup, ReqLookup, DidResolve,
           ReqResolve, DidFail, ReqFail, DidSkip, ReqSkip, DidStart, ReqStart,
           DidAdmitStep, ReqAdmitStep, DidAdmit, ReqAdmit, DidAssemble, ReqAssemble,
           DidAnnounce, ReqAnnounce, DidFinish, ReqFinish, DidDrop, ReqDrop, DidNothing,
           ReqNothing, KeepsCounts
<1> QED
  BY <1>1, <1>2, <1>4, <1>5, <1>6 DEF Routed

\* Every step of the benchmark is one of the cluster: what it picks, the requests,
\* the workers and the victims, is among what the cluster may pick.
LEMMA BenchNextIsNext ==
    ASSUME args \in BenchArgs, requests \in 0 .. NumRequests, ReqInv, [BenchNext]_benchVars
    PROVE  [Next]_vars
<1>1. CASE benchRoute
  <2> DEFINE p == W(requests + 1)
  <2>1. requests + 1 \in 1 .. NumRequests
    BY <1>1, BenchAssumption DEF benchRoute
  <2>2. PICK node \in chooseNode(p) : route(node, p)
    BY <1>1 DEF benchRoute, W
  <2>3. p \in Paths
    BY <2>1, WorkloadFacts
  <2>4. node \in Nodes
    <3>1. args.lo \in [{q[1] : q \in BenchPaths} -> 0 .. 1]
      BY DEF BenchArgs
    <3>2. args.lo[p[1]] \in 0 .. 1
      BY <2>3, <3>1, WorkloadIsGenerated
    <3>3. hashRouting(p) \in Nodes
      BY <3>2 DEF hashRouting, Workers, Nodes
    <3> QED
      BY <2>2, <3>3 DEF chooseNode, randomRouting
  <2> HIDE DEF p
  <2> QED
    BY <2>2, <2>3, <2>4 DEF Next
<1>2. CASE benchLookup \/ benchFetch \/ benchFetchFails \/ benchSkip
  BY <1>2 DEF benchLookup, benchFetch, benchFetchFails, benchSkip, Next, requestStep
<1>3. CASE benchMakeSpace \/ benchEvict \/ benchCreate \/ benchReady
  BY <1>3 DEF benchMakeSpace, benchEvict, benchCreate, benchReady, Next, requestStep
<1>4. CASE benchAdmitted \/ benchAssemble \/ benchUncounted
  BY <1>4 DEF benchAdmitted, benchAssemble, benchUncounted, Next, requestStep
<1>5. CASE Done \/ UNCHANGED benchVars
  BY <1>5 DEF Done, benchVars
<1> QED
  BY <1>1, <1>2, <1>3, <1>4, <1>5 DEF BenchNext

-----------------------------------------------------------------------------
(* The benchmark: what holds between its requests, counters and caches *)

BenchPart ==
    /\ RequestInv /\ CountersType
    /\ ResidentsCounted /\ StreamCounted
    /\ LastBlockIsNew /\ LastBlockIsMissed /\ HitsCounted
    /\ Routed

LEMMA BenchPartInit == BenchInit => BenchPart
<1> SUFFICES ASSUME BenchInit
             PROVE  BenchPart
  OBVIOUS
<1>1. Init /\ args \in BenchArgs
  BY DEF BenchInit
<1>2. req = NoRequest /\ requests = 0 /\ NumRequests \in Nat
  BY <1>1, BenchAssumption DEF Init
<1>3. RequestInv
  BY <1>1, <1>2 DEF RequestInv
<1>4. CountersType
  BY DEF BenchInit, CountersType
<1>5. \A node \in Nodes : /\ \A s \in Slots : recordsOf(node)[s].state = "Free"
                          /\ \A q \in Paths : terminalsOf(node)[q] = NoSlot
  BY <1>1 DEF Init, A!Init, B!Init, A!BM!Init, B!BM!Init, A!BM!storeInit, B!BM!storeInit,
              A!PM!Init, B!PM!Init, A!BM!Slots, B!BM!Slots, Slots, recordsOf, terminalsOf, Of,
              A!NoSlot, B!NoSlot, NoSlot
<1>6. ResidentsCounted
  <2>1. ASSUME NEW node \in Nodes
        PROVE  ResidentsOf(node)
    <3>1. Resident(node) = {}
      BY <1>5 DEF Resident
    <3>2. Cardinality(Resident(node)) = 0
      BY <3>1, FS_EmptySet
    <3>3. counts[node].admissions - counts[node].evictions = 0
      BY DEF BenchInit
    <3> QED
      BY <1>5, <3>2, <3>3 DEF ResidentsOf
  <2> QED
    BY <2>1 DEF ResidentsCounted
<1>7. StreamCounted
  BY DEF BenchInit, StreamCounted, results, StreamTypes, Nodes
<1>8. ~ Resolving
  BY <1>2 DEF Resolving
<1>9. LastBlockIsMissed /\ HitsCounted
  BY <1>8 DEF LastBlockIsMissed, HitsCounted, Pending, PendingHits, BenchInit, results, StreamTypes,
              Nodes
<1>10. \A hash \in Hashes : index[hash] = <<>>
  BY <1>1 DEF Init
<1>11. LastBlockIsNew
  <2>1. \A k \in 1 .. NumRequests : W(k) \in Paths
    BY <1>1, WorkloadFacts
  <2> QED
    BY <1>5, <1>10, <2>1 DEF LastBlockIsNew, Hashes
<1>12. Routed
  BY <1>5, <1>10 DEF Routed, C!Elements, BenchInit, StreamTypes
<1> QED
  BY <1>3, <1>4, <1>6, <1>7, <1>9, <1>11, <1>12 DEF BenchPart

LEMMA BenchPartNext ==
    ASSUME Known, CoordInv, BenchPart, [BenchNext]_benchVars
    PROVE  BenchPart' /\ [Next]_vars
<1>1. [Next]_vars
  BY BenchNextIsNext DEF BenchPart, RequestInv, Known, PartsInv
<1>2. BenchDid
  BY BenchStep
<1> QED
  BY <1>1, <1>2, RequestNext, ResidentsNext, StreamNext, LastBlockMissedNext,
     LastBlockNewNext, HitsNext, RoutedNext
     DEF BenchPart, BenchDid

LEMMA ReportAgrees ==
    ASSUME Known, BenchPart
    PROVE  /\ CountersAgree
           /\ req = NoRequest =>
                 results.local_hits + results.remote_hits <= total_prefix_possible
<1> SUFFICES ASSUME req = NoRequest
             PROVE  /\ CountersAgree
                    /\ results.local_hits + results.remote_hits <= total_prefix_possible
  BY DEF CountersAgree
<1>1. ReqInv /\ ~ Resolving
  BY DEF Known, PartsInv, Resolving
<1>2. results.local_hits \in Nat /\ results.remote_hits \in Nat
  BY DEF Known, CountersType, results, Nodes
<1>3. \A node \in Nodes : callOf(node) = A!Idle
  BY <1>1 DEF ReqInv, OneCall, Running
<1>4. ASSUME NEW node \in Nodes
      PROVE  counts[node].admissions - counts[node].evictions
               = Cardinality({s \in Slots : recordsOf(node)[s].state = "Ready"})
  <2>1. ResidentsOf(node)
    BY DEF BenchPart, ResidentsCounted
  <2>2. callOf(node).pc # "evict"
    BY <1>3 DEF A!Idle
  <2>3. Resident(node) = {s \in Slots : recordsOf(node)[s].state = "Ready"}
    BY <2>1, <2>2 DEF ResidentsOf, Resident
  <2> QED
    BY <2>1, <2>3 DEF ResidentsOf
<1>5. results.remote_hits <= streamed["remote_fetch_completed"]
  BY <1>1, <1>2 DEF BenchPart, HitsCounted, Pending
<1>6. results.local_hits + results.remote_hits <= total_prefix_possible
  BY <1>1, <1>2 DEF BenchPart, HitsCounted, PendingHits
<1> QED
  BY <1>4, <1>5, <1>6 DEF BenchPart, StreamCounted, CountersAgree

LEMMA RoutedIsLocal ==
    ASSUME Known, Routed, HitsCounted
    PROVE  HashRoutingStaysLocal
<1> SUFFICES ASSUME args.routing = "hash_first_block"
             PROVE  /\ results.remote_hits = 0
                    /\ streamed["remote_fetch_completed"] = 0
                    /\ \A node \in Nodes, p \in Paths :
                          terminalsOf(node)[p] # NoSlot => node \in chooseNode(p)
  BY DEF HashRoutingStaysLocal
<1>1. streamed["remote_fetch_completed"] = 0
  BY DEF Routed
<1>2. results.remote_hits = 0
  <2>1. results.remote_hits \in Nat
    BY DEF Known, CountersType, results, Nodes
  <2>2. Pending \in Nat
    <3>1. Resolving => req \in Running
      BY DEF Known, PartsInv, ReqInv, Running, Resolving
    <3> QED
      BY <3>1, RunningFacts DEF Pending
  <2> QED
    BY <1>1, <2>1, <2>2 DEF HitsCounted
<1>3. ASSUME NEW node \in Nodes, NEW p \in Paths, terminalsOf(node)[p] # NoSlot
      PROVE  node \in chooseNode(p)
  <2>1. PICK k \in 1 .. requests : /\ \E i \in 1 .. Blocks(k) : p = SubSeq(W(k), 1, i)
                                   /\ RoutedTo(node, k)
    BY <1>3 DEF Routed
  <2>2. PICK i \in 1 .. Blocks(k) : p = SubSeq(W(k), 1, i)
    BY <2>1
  <2>3. k \in 1 .. NumRequests
    BY BenchAssumption DEF Known, RequestInv
  <2>4. W(k) \in Paths /\ Blocks(k) \in Nat \ {0}
    BY <2>3, WorkloadFacts DEF Known, RequestInv
  <2>5. p[1] = W(k)[1]
    BY <2>2, <2>4, PrefixOf DEF Blocks
  <2> QED
    BY <2>1, <2>5 DEF RoutedTo, hashRouting, chooseNode
<1> QED
  BY <1>1, <1>2, <1>3

-----------------------------------------------------------------------------
(* The initial states *)

LEMMA InitialParts ==
    ASSUME Init
    PROVE  CoordInv /\ ReqInv /\ ReferenceNamesItsBlock /\ Unevicted
<1>1. /\ CoordInv
      /\ \A h \in Hashes : C!Elements(index[h]) = {}
  <2>1. <<>> \in Seq(C!GlobalBlockRef) /\ Len(<<>>) = 0
    BY EmptySeq
  <2> QED
    BY <2>1 DEF Init, CoordInv, C!TypeOK, C!ReplicasAreDistinct, C!Elements
<1>2. \A node \in Nodes : /\ callOf(node) = A!Idle
                          /\ \A q \in Paths : terminalsOf(node)[q] = NoSlot
  BY DEF Init, A!Init, B!Init, A!PM!Init, B!PM!Init, terminalsOf, callOf, Of,
         A!NoSlot, B!NoSlot, NoSlot, A!Idle, B!Idle
<1>3. req = NoRequest /\ req \notin Running /\ A!Idle.pc = "idle"
  BY DEF Init, Running, A!Idle
<1>4. ReqInv
  <2>1. requests \in 0 .. Len(Workload)
    BY WorkloadAssumption DEF Init
  <2> QED
    BY <1>2, <1>3, <2>1 DEF ReqInv, InRange, ToAnnounce, OneCall, Running, Requests, NoRequest
<1>5. Unevicted
  BY <1>1, <1>2, <1>3 DEF Unevicted, Closed, RefsLead, SpaceIsNeeded, ResultGrows
<1> QED
  BY <1>1, <1>4, <1>5 DEF ReferenceNamesItsBlock

-----------------------------------------------------------------------------
(* The views of a worker from its variables: records R, handles H, terminals T, *)
(* block nodes N, contents K, free list F, generations G and call c             *)

ViewOf(R, H, T, N, K, F, G) ==
    /\ R \in [Slots -> A!BM!BlockRecord]
    /\ H \in [Handles -> Slots \cup {NoSlot}]
    /\ T \in [Paths -> Slots \cup {NoSlot}]
    /\ N \in [Slots -> Paths \cup {A!NoPath}]
    /\ K \in [Slots -> Paths \cup {A!NoPath}]
    /\ F \in Seq(Slots)
    /\ G \in [Slots -> Nat]
    /\ \A i, j \in 1 .. Len(F) : F[i] = F[j] => i = j
    /\ \A s \in Slots : R[s].state = "Free" <=> \E i \in 1 .. Len(F) : F[i] = s
    /\ \A s \in Slots : R[s].state # "Free" => R[s].generation = G[s] /\ G[s] > 0
    /\ \A h \in Handles : H[h] # NoSlot => R[H[h]].refcount > 0

FoundAt(T, p, L) ==
    /\ \A i \in 1 .. Len(L) : L[i] = T[SubSeq(p, 1, i)] /\ T[SubSeq(p, 1, i)] # NoSlot
    /\ \A i \in 0 .. Len(p) :
          (\A j \in 1 .. i : T[SubSeq(p, 1, j)] # NoSlot) => i <= Len(L)

OffChain(T, c) ==
    c.pc = "evict" => \A i \in 1 .. Len(c.path) - 1 : T[SubSeq(c.path, 1, i)] # c.victim

IndexAt(R, T, N, K, c) ==
    /\ \A p \in Paths, s \in Slots : T[p] = s <=> N[s] = p
    /\ \A p \in Paths : T[p] # NoSlot => K[T[p]] = p
    /\ \A s \in Slots :
          N[s] # A!NoPath <=> \/ R[s].state = "Ready"
                              \/ c.pc = "ready" /\ s = c.id
                              \/ c.pc = "evict" /\ s = c.victim
    /\ \A s \in Slots : R[s].state # "Free" => N[s] # A!NoPath
    /\ c.pc = "ready" => R[c.id].state = "Admitting"
    /\ c.pc = "evict" => R[c.victim].state = "Evicting"
    /\ c.pc \in {"space", "evict", "create"} =>
          /\ T[c.path] = NoSlot
          /\ \A i \in 1 .. Len(c.path) - 1 : T[SubSeq(c.path, 1, i)] # NoSlot
    /\ c.pc \in {"ready", "acquire"} => T[c.path] = c.id

AView == ViewOf(a_records, a_handles, a_terminals, a_block_node, a_kv, a_free_list, a_generations)
BView == ViewOf(b_records, b_handles, b_terminals, b_block_node, b_kv, b_free_list, b_generations)

LEMMA ViewsFrom ==
    ASSUME AView, BView,
           \A p \in Paths : FoundAt(a_terminals, p, A!PM!lookup(p)),
           \A p \in Paths : FoundAt(b_terminals, p, B!PM!lookup(p))
    PROVE  ViewsInv /\ FoundInv /\ InUseInv
<1> SUFFICES ASSUME NEW node \in Nodes
             PROVE  /\ ViewsInv!(node) /\ \A s \in Slots : InUseInv!(node, s)
                    /\ \A p \in Paths : FoundInv!(node, p)
  BY DEF ViewsInv, FoundInv, InUseInv
<1>1. CASE node = "a"
  BY <1>1 DEF AView, ViewOf, FoundAt, recordsOf, kvOf, handlesOf, terminalsOf, blockNodeOf,
              freeListOf, generationsOf, found, Of
<1>2. CASE node = "b"
  BY <1>2 DEF BView, ViewOf, FoundAt, recordsOf, kvOf, handlesOf, terminalsOf, blockNodeOf,
              freeListOf, generationsOf, found, Of
<1> QED
  BY <1>1, <1>2 DEF Nodes

LEMMA IndexedFrom ==
    /\ IndexAt(a_records, a_terminals, a_block_node, a_kv, a_call) => IndexOf("a")
    /\ IndexAt(b_records, b_terminals, b_block_node, b_kv, b_call) => IndexOf("b")
  BY DEF IndexAt, IndexOf, recordsOf, kvOf, callOf, terminalsOf, blockNodeOf, Of

LEMMA SameCalls == A!Calls = B!Calls
  BY DEF A!Calls, B!Calls, A!Idle, B!Idle, A!TM!Tiers, B!TM!Tiers, A!Slots, B!Slots

-----------------------------------------------------------------------------
(* The shared prompt: who has its blocks, with room for one request        *)

Shared ==
    /\ args.workload = "shared_system_prompt" /\ NumRequests > 0
    /\ Capacity >= PrefixBlocks + SuffixBlocks

\* The first i blocks of the prompt, and what the coordinator files them under
Pre(i) == [j \in 1 .. i |-> shared(j)]
PreHash(i) == A!contentHash(Pre(i))

\* An index T has the first d blocks of the prompt, and no block of a single request.
Depth(T, d) == \A i \in 1 .. PrefixBlocks : T[Pre(i)] # NoSlot <=> i <= d
NoSuffix(T) == \A k \in 1 .. NumRequests : T[W(k)] = NoSlot

\* The first request computes the prompt, the other ones find it.
First == requests = 0 \/ (requests = 1 /\ req # NoRequest)
Assembling == req # NoRequest /\ req.pc \in {"computed", "announce"}

\* A worker that has no request has all of the prompt, or nothing.
SteadyOn(node) ==
    \/ Depth(terminalsOf(node), 0) /\ NoSuffix(terminalsOf(node))
    \/ ~ First /\ Depth(terminalsOf(node), PrefixBlocks)
Steady == \A node \in Nodes : (req # NoRequest => req.node # node) => SteadyOn(node)

\* The coordinator knows what the first request has announced, and leads to it.
ToldOf(i) == First => Assembling /\ i < req.at
Leads(i) ==
    \A ref \in C!Elements(index[PreHash(i)]) :
        /\ recordsOf(ref.node_id)[ref.block_id].generation = ref.generation
        /\ terminalsOf(ref.node_id)[Pre(i)] = ref.block_id
Announced ==
    /\ First /\ ~ Assembling => index[PreHash(1)] = <<>>
    /\ \A i \in 1 .. PrefixBlocks : (ToldOf(i) => index[PreHash(i)] # <<>>) /\ Leads(i)

\* The k-th request r, on a worker with index T, call c and handles hs, when m fetched
\* blocks are admitted: it finds, or fetches and admits, all of the prompt, and holds
\* it when a block must go.  The first one computes it, into an empty pool.
All(k) == IF k = 1 THEN 0 ELSE PrefixBlocks
Reach(r, c) == IF c.pc \in {"ready", "acquire"} \/ r.pc = "announce" THEN r.at ELSE r.at - 1

Holding(r, T, hs, k) ==
    /\ Len(r.reusable) <= All(k)
    /\ \A i \in 1 .. Len(r.reusable) :
          r.reusable[i] = T[Pre(i)] /\ \E h \in Handles : hs[h] = r.reusable[i]
AtLookup(r, T, c, k) ==
    r.pc = "lookup" =>
        /\ r.local = Len(r.reusable) /\ r.local + Len(c.todo) = PrefixBlocks
        /\ k # 1 /\ Depth(T, PrefixBlocks)
        /\ \A j \in 1 .. Len(c.todo) : c.todo[j] = T[Pre(r.local + j)]
AtResolve(r, T, k) ==
    r.pc = "resolve" =>
        /\ r.local = Len(r.reusable)
        /\ \/ r.local = PrefixBlocks /\ r.fetched = 0 /\ Depth(T, PrefixBlocks)
           \/ r.local = 0 /\ r.fetched <= All(k) /\ Depth(T, 0) /\ NoSuffix(T)
AtRemote(r, T, c, k, m) ==
    r.pc = "remote" =>
        /\ r.local + r.fetched = All(k)
        /\ r.local + m = Len(r.reusable) /\ r.at = Len(r.reusable) + 1
        /\ \/ r.local = PrefixBlocks /\ Depth(T, PrefixBlocks)
           \/ NoSuffix(T) /\ Depth(T, Reach(r, c))
AtComputed(r, T, c, k) ==
    r.pc \in {"computed", "announce"} =>
        /\ Len(r.reusable) = All(k) /\ r.at > All(k)
        /\ Depth(T, Reach(r, c))
        /\ k = 1 /\ Reach(r, c) <= PrefixBlocks => NoSuffix(T)
        /\ r.pc = "announce" => r.slot = T[SubSeq(r.path, 1, r.at)]
AtEviction(r, T, c, k) ==
    c.pc \in {"space", "evict"} =>
        /\ r.pc = "computed" /\ k # 1
        /\ c.pc = "evict" => \A i \in 1 .. PrefixBlocks : T[Pre(i)] # c.victim
Stage(r, T, c, hs, k, m) ==
    /\ Holding(r, T, hs, k)
    /\ AtLookup(r, T, c, k) /\ AtResolve(r, T, k) /\ AtRemote(r, T, c, k, m)
    /\ AtComputed(r, T, c, k) /\ AtEviction(r, T, c, k)
StageOn(node) ==
    Stage(req, terminalsOf(node), callOf(node), handlesOf(node), requests, admitted_count)
Staged == \A node \in Nodes : req # NoRequest /\ req.node = node => StageOn(node)

\* Every request but the first has the prompt counted, once it is assembled.
HitsExact ==
    results.local_hits + results.remote_hits
      + (IF requests >= 1 THEN PrefixBlocks ELSE 0)
      + (IF Resolving /\ requests >= 2 THEN PrefixBlocks ELSE 0) = total_prefix_possible

SharedPart == Steady /\ Announced /\ Staged /\ HitsExact

\* The prefixes of the requests with a shared prompt
LEMMA SharedPaths ==
    ASSUME Shared, args \in BenchArgs
    PROVE  /\ PrefixBlocks \in Nat \ {0} /\ NumRequests \in Nat \ {0}
           /\ \A k \in 1 .. NumRequests :
                 /\ W(k) \in Paths /\ Len(W(k)) = PrefixBlocks + 1 /\ Blocks(k) = PrefixBlocks + 1
                 /\ SubSeq(W(k), 1, PrefixBlocks + 1) = W(k)
                 /\ \A i \in 1 .. PrefixBlocks : SubSeq(W(k), 1, i) = Pre(i)
           /\ \A i \in 1 .. PrefixBlocks :
                 /\ Pre(i) \in Paths /\ Len(Pre(i)) = i /\ PreHash(i) = <<i, shared(i)>>
                 /\ PreHash(i) \in Hashes
                 /\ \A j \in 1 .. PrefixBlocks : Pre(i) = Pre(j) => i = j
                 /\ \A k \in 1 .. NumRequests : Pre(i) # W(k)
<1>1. PrefixBlocks \in Nat \ {0} /\ NumRequests \in Nat \ {0}
  BY BenchAssumption DEF Shared
<1>2. ASSUME NEW k \in 1 .. NumRequests
      PROVE  /\ W(k) \in Paths /\ Len(W(k)) = PrefixBlocks + 1
             /\ SubSeq(W(k), 1, PrefixBlocks + 1) = W(k)
             /\ \A i \in 1 .. PrefixBlocks : SubSeq(W(k), 1, i) = Pre(i)
  <2>1. W(k) = [i \in 1 .. PrefixBlocks + 1 |->
                   IF i <= PrefixBlocks THEN shared(i) ELSE fresh(k, i)]
    BY DEF Shared, W, generateWorkload, generateSharedSystemPrompt, SuffixBlocks
  <2>2. W(k) \in Paths
    BY WorkloadFacts
  <2>3. Len(W(k)) = PrefixBlocks + 1
    BY <1>1, <2>1
  <2>4. ASSUME NEW i \in 1 .. PrefixBlocks
        PROVE  SubSeq(W(k), 1, i) = Pre(i)
    <3>1. i \in 1 .. Len(W(k)) /\ i \in Nat
      BY <1>1, <2>3
    <3>2. SubSeq(W(k), 1, i) = [j \in 1 .. i |-> W(k)[j]]
      BY <1>1, <2>2, <3>1, PathsAssumption
    <3>3. \A j \in 1 .. i : W(k)[j] = shared(j)
      BY <1>1, <2>1, <3>1
    <3> QED
      BY <3>2, <3>3 DEF Pre
  <2> QED
    BY <1>1, <2>2, <2>3, <2>4, PrefixOf
<1>3. ASSUME NEW i \in 1 .. PrefixBlocks
      PROVE  /\ Pre(i) \in Paths /\ Len(Pre(i)) = i /\ PreHash(i) = <<i, shared(i)>>
             /\ PreHash(i) \in Hashes
  <2>1. 1 \in 1 .. NumRequests /\ i \in 1 .. Len(W(1)) /\ i \in Nat
    BY <1>1, <1>2
  <2>2. Pre(i) \in Paths
    <3>1. SubSeq(W(1), 1, i) \in Paths /\ SubSeq(W(1), 1, i) = Pre(i)
      BY <1>2, <2>1, PrefixOf
    <3> QED
      BY <3>1
  <2>3. Len(Pre(i)) = i
    BY <2>1 DEF Pre
  <2>4. PreHash(i) = <<i, shared(i)>>
    BY <2>1, <2>3 DEF PreHash, A!contentHash, Pre
  <2> QED
    BY <2>2, <2>3, <2>4 DEF PreHash, Hashes
<1>4. \A i \in 1 .. PrefixBlocks : i # PrefixBlocks + 1
  BY <1>1
<1> QED
  BY <1>1, <1>2, <1>3, <1>4 DEF Blocks

\* What a worker has is the prompt and blocks of single requests.
LEMMA HeldPaths ==
    ASSUME Shared, args \in BenchArgs, requests \in 0 .. NumRequests, Routed,
           NEW node \in Nodes, NEW q \in Paths, terminalsOf(node)[q] # NoSlot
    PROVE  \/ \E i \in 1 .. PrefixBlocks : q = Pre(i)
           \/ \E k \in 1 .. NumRequests : q = W(k)
<1>1. PICK k \in 1 .. requests : \E i \in 1 .. Blocks(k) : q = SubSeq(W(k), 1, i)
  BY DEF Routed
<1>2. PICK i \in 1 .. Blocks(k) : q = SubSeq(W(k), 1, i)
  BY <1>1
<1>3. k \in 1 .. NumRequests /\ PrefixBlocks \in Nat
  BY SharedPaths
<1>4. i \in 1 .. PrefixBlocks \/ i = PrefixBlocks + 1
  BY <1>3, SharedPaths
<1> QED
  BY <1>2, <1>3, <1>4, SharedPaths

\* A pool without blocks of single requests has a free slot.
LEMMA Room ==
    ASSUME Shared, args \in BenchArgs, requests \in 0 .. NumRequests, Routed, ViewsInv,
           NEW node \in Nodes, IndexOf(node), NoSuffix(terminalsOf(node))
    PROVE  freeListOf(node) # <<>>
<1> SUFFICES ASSUME freeListOf(node) = <<>>
             PROVE  FALSE
  OBVIOUS
<1> DEFINE N == blockNodeOf(node)
<1>1. ASSUME NEW s \in Slots
      PROVE  \E i \in 1 .. PrefixBlocks : N[s] = Pre(i)
  <2>1. recordsOf(node)[s].state # "Free"
    BY EmptySeq DEF ViewsInv
  <2>2. N[s] \in Paths
    BY <2>1 DEF ViewsInv, IndexOf
  <2>3. terminalsOf(node)[N[s]] = s /\ s # NoSlot
    BY <2>2, CapacityAssumption DEF IndexOf, NoSlot, Slots
  <2> QED
    BY <2>2, <2>3, HeldPaths DEF NoSuffix
<1> DEFINE f == [s \in Slots |-> CHOOSE i \in 1 .. PrefixBlocks : N[s] = Pre(i)]
<1>2. \A s \in Slots : f[s] \in 1 .. PrefixBlocks /\ N[s] = Pre(f[s])
  BY <1>1
<1>3. f \in [Slots -> 1 .. PrefixBlocks]
  BY <1>2
<1>4. /\ IsFiniteSet(Slots) /\ Cardinality(Slots) = Capacity
      /\ IsFiniteSet(1 .. PrefixBlocks) /\ Cardinality(1 .. PrefixBlocks) = PrefixBlocks
      /\ PrefixBlocks < Capacity
  <2>1. PrefixBlocks \in Nat /\ Capacity \in Nat
    BY SharedPaths, CapacityAssumption
  <2>2. PrefixBlocks < Capacity
    BY <2>1 DEF Shared, SuffixBlocks
  <2> QED
    BY <2>1, <2>2, FS_Interval DEF Slots
<1> HIDE DEF f, N
<1>5. PICK x, y \in Slots : x # y /\ f[x] = f[y]
  BY <1>3, <1>4, FS_PigeonHole
<1>6. N[x] = N[y] /\ N[x] \in Paths
  BY <1>2, <1>5, SharedPaths
<1>7. terminalsOf(node)[N[x]] = x /\ terminalsOf(node)[N[x]] = y
  BY <1>6 DEF IndexOf, N
<1> QED
  BY <1>5, <1>7

\* The request in progress on its worker, and after a step that leaves both
Sharing(node) ==
    /\ Shared /\ Known /\ BenchPart /\ Indexed /\ InUseInv
    /\ req \in Running /\ req.node = node /\ StageOn(node)
StagedOn(node) ==
    Stage(req', terminalsOf(node)', callOf(node)', handlesOf(node)', requests', admitted_count')

LEMMA SharingFacts ==
    ASSUME NEW node \in Nodes, Sharing(node)
    PROVE  /\ PrefixBlocks \in Nat \ {0} /\ requests \in 1 .. NumRequests
           /\ req \in [pc : {"lookup", "resolve", "remote", "computed", "announce"},
                       node : Nodes, path : Paths, local : Nat, fetched : Nat, at : Nat,
                       reusable : Seq(Slots), slot : Slots \cup {NoSlot},
                       failed : C!GlobalBlockRef \cup {NoRef}]
           /\ Len(req.path) = PrefixBlocks + 1 /\ Len(req.reusable) \in Nat
           /\ \A i \in 1 .. PrefixBlocks : Path(i) = Pre(i) /\ Pre(i) \in Paths
           /\ Path(PrefixBlocks + 1) = W(requests) /\ W(requests) \in Paths
           /\ req.pc \in {"remote", "computed"} => req.at >= 1
           /\ callOf(node) # A!Idle =>
                 \/ req.pc = "lookup" /\ callOf(node).pc = "lookup"
                 \/ /\ req.pc \in {"remote", "computed"}
                    /\ callOf(node).pc \in {"space", "evict", "create", "ready", "acquire"}
                    /\ req.at \in 1 .. PrefixBlocks + 1
                    /\ callOf(node).path = Path(req.at)
           /\ terminalsOf(node) \in [Paths -> Slots \cup {NoSlot}]
           /\ admitted_count \in Nat
           /\ NoSlot \notin Slots /\ A!Idle.pc = "idle"
<1>1. /\ args \in BenchArgs /\ requests \in 0 .. NumRequests /\ requests > 0
      /\ req.path = W(requests)
  BY DEF Sharing, Known, RequestInv, Running
<1>2. PrefixBlocks \in Nat \ {0} /\ requests \in 1 .. NumRequests
  BY <1>1, SharedPaths DEF Sharing
<1>3. /\ Len(req.path) = PrefixBlocks + 1
      /\ \A i \in 1 .. PrefixBlocks : Path(i) = Pre(i) /\ Pre(i) \in Paths
      /\ Path(PrefixBlocks + 1) = W(requests) /\ W(requests) \in Paths
  BY <1>1, <1>2, SharedPaths DEF Sharing, Path
<1>4. /\ req \in [pc : {"lookup", "resolve", "remote", "computed", "announce"},
                  node : Nodes, path : Paths, local : Nat, fetched : Nat, at : Nat,
                  reusable : Seq(Slots), slot : Slots \cup {NoSlot},
                  failed : C!GlobalBlockRef \cup {NoRef}]
  BY RunningFacts DEF Sharing
<1>5. req.pc \in {"remote", "computed"} => req.at >= 1
  BY DEF Sharing, Known, PartsInv, ReqInv, InRange
<1>6. callOf(node) # A!Idle =>
         \/ req.pc = "lookup" /\ callOf(node).pc = "lookup"
         \/ /\ req.pc \in {"remote", "computed"}
            /\ callOf(node).pc \in {"space", "evict", "create", "ready", "acquire"}
            /\ req.at \in 1 .. PrefixBlocks + 1
            /\ callOf(node).path = Path(req.at)
  BY <1>3 DEF Sharing, Known, PartsInv, ReqInv, OneCall
<1>7. /\ terminalsOf(node) \in [Paths -> Slots \cup {NoSlot}] /\ admitted_count \in Nat
  BY DEF Sharing, Known, ViewsInv, CountersType
<1>8. NoSlot \notin Slots /\ A!Idle.pc = "idle" /\ Len(req.reusable) \in Nat
  BY <1>4, CapacityAssumption DEF NoSlot, Slots, A!Idle
<1> QED
  BY <1>2, <1>3, <1>4, <1>5, <1>6, <1>7, <1>8

LEMMA StageLookup ==
    ASSUME NEW node \in Nodes, Sharing(node), ReqLookup(node), UNCHANGED admitted_count
    PROVE  StagedOn(node)
<1> DEFINE T == terminalsOf(node)
           todo == callOf(node).todo
           n == Len(req.reusable)
<1>1. /\ req.pc = "lookup" /\ callOf(node).pc = "lookup" /\ LooksUp(node)
      /\ terminalsOf(node)' = T /\ requests' = requests
  BY DEF ReqLookup, LooksUp, ContentKept, MapsKept
<1>2. todo \in Seq(Slots) /\ todo # <<>>
  BY <1>1, CallFields DEF Sharing, Known, PartsInv, WorkersInv
<1>3. /\ Len(todo) \in Nat \ {0} /\ Head(todo) = todo[1] /\ todo[1] \in Slots
      /\ Len(Tail(todo)) = Len(todo) - 1
      /\ \A i \in 1 .. Len(todo) - 1 : Tail(todo)[i] = todo[i + 1]
  BY <1>2, EmptySeq, HeadTailProperties
<1>4. /\ n = req.local /\ n \in Nat /\ n + Len(todo) = PrefixBlocks /\ requests # 1
      /\ \A j \in 1 .. Len(todo) : todo[j] = T[Pre(n + j)]
      /\ \A i \in 1 .. n : req.reusable[i] = T[Pre(i)]
                           /\ \E h \in Handles : handlesOf(node)[h] = req.reusable[i]
      /\ Depth(T, PrefixBlocks)
  BY <1>1, SharingFacts DEF Sharing, StageOn, Stage, AtLookup, Holding
<1>5. n + 1 \in 1 .. PrefixBlocks /\ todo[1] = T[Pre(n + 1)] /\ Pre(n + 1) \in Paths
      /\ PrefixBlocks \in Nat
  <2>1. 1 \in 1 .. Len(todo) /\ n + 1 \in 1 .. PrefixBlocks
    BY <1>3, <1>4, SharingFacts
  <2> QED
    BY <1>4, <2>1, SharingFacts
<1>6. Hit(node, Head(todo))
  <2>1. blockNodeOf(node)[todo[1]] # A!NoPath /\ recordsOf(node)[todo[1]].state # "Free"
    BY <1>3, <1>5, SharingFacts, IndexHas DEF Sharing, Known, Indexed
  <2>2. recordsOf(node)[todo[1]].state = "Ready"
    BY <1>1, <1>3, <2>1 DEF Sharing, Indexed, IndexOf
  <2>3. recordsOf(node)[todo[1]].generation # 0
    BY <1>3, <2>1 DEF InUseInv, Sharing, Known, ViewsInv
  <2> QED
    BY <1>3, <2>2, <2>3 DEF Hit
<1>7. /\ callOf(node)' = IF Len(todo) = 1 THEN A!Idle ELSE [pc |-> "lookup", todo |-> Tail(todo)]
      /\ req' = [req EXCEPT !.pc = IF callOf(node)' = A!Idle THEN "resolve" ELSE "lookup",
                            !.local = @ + 1, !.reusable = Append(@, Head(todo))]
      /\ Pins(node, todo[1])
  BY <1>1, <1>3, <1>6 DEF LooksUp, ReqLookup
<1>8. /\ req'.local = n + 1 /\ req'.fetched = req.fetched
      /\ req'.reusable = Append(req.reusable, todo[1])
      /\ req'.pc = IF Len(todo) = 1 THEN "resolve" ELSE "lookup"
      /\ Len(todo) # 1 => callOf(node)'.todo = Tail(todo)
      /\ callOf(node)'.pc \in {"idle", "lookup"}
  BY <1>3, <1>4, <1>7, SharingFacts DEF A!Idle
<1>9. /\ Len(req'.reusable) = n + 1 /\ req'.reusable[n + 1] = todo[1]
      /\ \A i \in 1 .. n : req'.reusable[i] = req.reusable[i]
  BY <1>3, <1>8, SharingFacts, AppendProperties
<1>10. /\ \E h \in Handles : handlesOf(node)'[h] = todo[1]
       /\ \A s \in Slots : (\E h \in Handles : handlesOf(node)[h] = s) =>
             \E h \in Handles : handlesOf(node)'[h] = s
  BY <1>7, SharingFacts DEF Pins, Sharing, Known, ViewsInv
<1>11. req.fetched = 0
  BY <1>1 DEF Sharing, Known, PartsInv, ReqInv, InRange
<1>a. /\ Len(todo) \in Nat \ {0} /\ Len(Tail(todo)) = Len(todo) - 1
      /\ \A i \in 1 .. n : req.reusable[i] \in Slots
  BY <1>3, SharingFacts
<1> HIDE DEF T, todo, n
<1>12. ASSUME NEW i \in 1 .. n + 1
       PROVE  /\ req'.reusable[i] = T[Pre(i)]
              /\ \E h \in Handles : handlesOf(node)'[h] = req'.reusable[i]
  <2>1. i \in 1 .. n \/ i = n + 1
    BY <1>4
  <2>2. CASE i \in 1 .. n
    <3>1. req'.reusable[i] = T[Pre(i)] /\ req'.reusable[i] \in Slots
          /\ \E h \in Handles : handlesOf(node)[h] = req'.reusable[i]
      BY <1>4, <1>9, <1>a, <2>2
    <3> QED
      BY <1>10, <3>1
  <2> QED
    BY <1>5, <1>9, <1>10, <2>1, <2>2
<1>13. Holding(req', T, handlesOf(node)', requests)
  BY <1>4, <1>5, <1>9, <1>12 DEF Holding, All
<1>14. CASE Len(todo) = 1
  <2>1. n + 1 = PrefixBlocks
    BY <1>4, <1>14
  <2> QED
    BY <1>1, <1>4, <1>8, <1>9, <1>11, <1>13, <1>14, <2>1
       DEF StagedOn, Stage, AtLookup, AtResolve, AtRemote, AtComputed, AtEviction, T
<1>15. CASE Len(todo) # 1
  <2>1. /\ callOf(node)'.todo = Tail(todo) /\ Len(callOf(node)'.todo) = Len(todo) - 1
        /\ (n + 1) + (Len(todo) - 1) = PrefixBlocks
    <3>1. callOf(node)'.todo = Tail(todo)
      BY <1>8, <1>15
    <3>2. n \in Nat /\ Len(todo) \in Nat /\ n + Len(todo) = PrefixBlocks
      BY <1>4, <1>a
    <3> QED
      BY <1>a, <3>1, <3>2
  <2>2. ASSUME NEW j \in 1 .. Len(todo) - 1
        PROVE  Tail(todo)[j] = T[Pre((n + 1) + j)]
    <3>1. j + 1 \in 1 .. Len(todo) /\ n + (j + 1) = (n + 1) + j
      BY <1>4, <1>a
    <3> QED
      BY <1>3, <1>4, <3>1
  <2> QED
    BY <1>1, <1>4, <1>8, <1>9, <1>13, <1>15, <2>1, <2>2
       DEF StagedOn, Stage, AtLookup, AtResolve, AtRemote, AtComputed, AtEviction, T
<1> QED
  BY <1>14, <1>15

\* The coordinator knows every block of the prompt that a worker misses, and no other one.
LEMMA WhatIsMissing ==
    ASSUME NEW node \in Nodes, Sharing(node), Announced, req.pc = "resolve"
    PROVE  /\ missing = req.local + req.fetched + 1
           /\ replicas = <<>> => req.local + req.fetched = All(requests)
           /\ replicas # <<>> =>
                 /\ missing \in 1 .. PrefixBlocks /\ req.local = 0 /\ req.fetched + 1 <= All(requests)
                 /\ Depth(terminalsOf(node), 0) /\ HashOf(missing) = PreHash(missing)
<1> DEFINE P == PrefixBlocks
           T == terminalsOf(node)
<1>1. /\ missing = req.local + req.fetched + 1 /\ req.local \in Nat /\ req.fetched \in Nat
      /\ P \in Nat \ {0} /\ requests \in 1 .. NumRequests
      /\ replicas = IF missing > P + 1 THEN <<>> ELSE index[HashOf(missing)]
  BY SharingFacts DEF missing, replicas, C!query
<1>2. /\ req.local <= All(requests)
      /\ \/ req.local = P /\ req.fetched = 0
         \/ req.local = 0 /\ req.fetched <= All(requests) /\ Depth(T, 0)
  BY DEF Sharing, StageOn, Stage, Holding, AtResolve
<1>3. req # NoRequest /\ Resolving /\ ~ Assembling /\ (First <=> requests = 1)
  BY <1>1, BenchAssumption DEF Sharing, Running, Resolving, Assembling, First
<1>4. missing = P + 1 => replicas = <<>>
  <2>1. Computed = requests - 1
    BY <1>3 DEF Computed
  <2>2. requests > requests - 1
    BY <1>1, BenchAssumption
  <2>3. index[A!contentHash(W(requests))] = <<>>
    BY <1>1, <2>1, <2>2 DEF Sharing, BenchPart, LastBlockIsNew
  <2>4. HashOf(P + 1) = A!contentHash(W(requests))
    BY SharingFacts DEF HashOf
  <2> QED
    BY <1>1, <2>3, <2>4
<1>5. ASSUME missing \in 1 .. P
      PROVE  HashOf(missing) = PreHash(missing) /\ replicas = index[PreHash(missing)]
  BY <1>1, <1>5, SharingFacts DEF HashOf, PreHash
<1>6. CASE requests = 1
  <2>1. All(requests) = 0 /\ req.local = 0 /\ req.fetched = 0 /\ missing = 1
    BY <1>1, <1>2, <1>6 DEF All
  <2>2. replicas = <<>>
    BY <1>1, <1>3, <1>5, <1>6, <2>1 DEF Announced
  <2> QED
    BY <1>1, <2>1, <2>2
<1>7. CASE requests # 1
  <2>1. All(requests) = P
    BY <1>7 DEF All
  <2>2. ASSUME missing \in 1 .. P
        PROVE  replicas # <<>>
    BY <1>3, <1>5, <1>7, <2>2 DEF Announced, ToldOf
  <2>3. missing \in 1 .. P \/ missing = P + 1
    BY <1>1, <1>2, <2>1
  <2>4. CASE missing = P + 1
    BY <1>1, <1>4, <2>1, <2>4
  <2>5. CASE missing \in 1 .. P
    BY <1>1, <1>2, <1>5, <2>1, <2>2, <2>5
  <2> QED
    BY <2>3, <2>4, <2>5
<1> QED
  BY <1>6, <1>7

LEMMA StageResolve ==
    ASSUME NEW node \in Nodes, Sharing(node), Announced, ReqResolve \/ ReqFetch,
           UNCHANGED admitted_count
    PROVE  StagedOn(node)
<1> DEFINE T == terminalsOf(node)
           n == Len(req.reusable)
<1>1. /\ req.pc = "resolve" /\ callOf(node) = A!Idle
      /\ UNCHANGED <<terminalsOf(node), callOf(node), handlesOf(node), requests>>
  BY SharingFacts DEF ReqResolve, ReqFetch, AllKept, ContentKept, MapsKept
<1>2. /\ Holding(req, T, handlesOf(node), requests) /\ req.local = n
      /\ \/ req.local = PrefixBlocks /\ req.fetched = 0 /\ Depth(T, PrefixBlocks)
         \/ req.local = 0 /\ req.fetched <= All(requests) /\ Depth(T, 0) /\ NoSuffix(T)
  BY <1>1 DEF Sharing, StageOn, Stage, AtResolve
<1>3. callOf(node)'.pc = "idle" /\ req.local \in Nat /\ req.fetched \in Nat
  BY <1>1, SharingFacts
<1>4. CASE ReqFetch
  <2>1. req'.pc = "resolve" /\ req'.reusable = req.reusable /\ req'.local = req.local
        /\ req'.fetched = req.fetched + 1
    BY <1>1, <1>4, SharingFacts DEF ReqFetch
  <2>2. req.local = 0 /\ req.fetched + 1 <= All(requests) /\ PrefixBlocks # 0
    BY <1>1, <1>4, WhatIsMissing, SharingFacts DEF ReqFetch
  <2>3. Holding(req', T, handlesOf(node), requests)
    BY <1>2, <2>1 DEF Holding
  <2> QED
    BY <1>1, <1>2, <1>3, <2>1, <2>2, <2>3
       DEF StagedOn, Stage, AtLookup, AtResolve, AtRemote, AtComputed, AtEviction
<1>5. CASE ReqResolve
  <2>1. /\ req'.pc = "remote" /\ req'.reusable = req.reusable
        /\ req'.local = req.local /\ req'.fetched = req.fetched /\ req'.at = n + 1
    BY <1>2, <1>5, SharingFacts DEF ReqResolve
  <2>2. req.local + req.fetched = All(requests) /\ n \in Nat
    BY <1>1, <1>5, WhatIsMissing, SharingFacts DEF ReqResolve
  <2>3. admitted_count = 0 /\ n + 1 - 1 = n /\ n + 0 = n
    BY <1>1, <2>2 DEF Sharing, BenchPart, HitsCounted, Resolving, Running
  <2>4. Reach(req', callOf(node)') = n
    BY <1>3, <2>1, <2>3 DEF Reach
  <2>5. Holding(req', T, handlesOf(node), requests)
    BY <1>2, <2>1 DEF Holding
  <2>6. AtRemote(req', T, callOf(node)', requests, 0)
    BY <1>2, <2>1, <2>2, <2>3, <2>4 DEF AtRemote
  <2> QED
    BY <1>1, <1>3, <2>1, <2>3, <2>5, <2>6
       DEF StagedOn, Stage, AtLookup, AtResolve, AtComputed, AtEviction
<1> QED
  BY <1>4, <1>5

\* A block of the prompt that a worker misses is fetched from the other one.
LEMMA SharedFetchNeverFails ==
    ASSUME NEW node \in Nodes, Sharing(node), Announced, ReferenceNamesItsBlock, ReqFail
    PROVE  FALSE
<1>1. /\ req.pc = "resolve" /\ replicas # <<>>
      /\ fetchStatus(node, chosen, HashOf(missing)) # "Ok"
  BY DEF ReqFail, Sharing
<1>2. /\ missing \in 1 .. PrefixBlocks /\ HashOf(missing) = PreHash(missing)
      /\ Depth(terminalsOf(node), 0) /\ PrefixBlocks \in Nat
  BY <1>1, WhatIsMissing, SharingFacts
<1>3. /\ chosen \in C!GlobalBlockRef /\ chosen \in C!Elements(index[PreHash(missing)])
  BY <1>1, <1>2, ChosenFacts DEF Sharing, Known, PartsInv
<1>4. PICK other \in Nodes, s \in Slots, g \in 1 .. MaxGeneration :
         other = chosen.node_id /\ s = chosen.block_id /\ g = chosen.generation
  BY <1>3 DEF C!GlobalBlockRef
<1>5. PICK p \in Paths : p = Pre(missing) /\ PreHash(missing) \in Hashes
  BY <1>2, SharedPaths DEF Sharing, Known, RequestInv
<1>6. recordsOf(other)[s].generation = g /\ terminalsOf(other)[p] = s
  BY <1>2, <1>3, <1>4, <1>5 DEF Announced, Leads
<1>7. g # 0 /\ recordsOf(other)[s].hash = HashOf(missing) /\ s # NoSlot
  <2>1. g # 0 /\ s # NoSlot
    BY <1>4, GenerationBound, CapacityAssumption DEF NoSlot, Slots
  <2> QED
    BY <1>2, <1>3, <1>4, <1>5, <1>6, <2>1 DEF ReferenceNamesItsBlock
<1>8. other # node
  <2>1. terminalsOf(node)[p] = NoSlot
    <3>1. ~ (missing <= 0)
      BY <1>2
    <3> QED
      BY <1>2, <1>5, <3>1 DEF Depth
  <2> QED
    BY <1>6, <1>7, <2>1
<1>9. recordsOf(other)[s].state = "Ready"
  <2>1. callOf(other) = A!Idle /\ A!Idle.pc = "idle"
    BY <1>8, SharingFacts DEF Sharing, Known, PartsInv, ReqInv, OneCall
  <2>2. blockNodeOf(other)[s] # A!NoPath
    BY <1>6, <1>7, IndexHas DEF Indexed, Sharing, Known
  <2> QED
    BY <2>1, <2>2 DEF Sharing, Indexed, IndexOf
<1>10. fetchStatus(node, chosen, HashOf(missing)) = "Ok"
  <2>1. CASE other = "a"
    BY <1>4, <1>6, <1>7, <1>8, <1>9, <2>1
       DEF fetchStatus, A!BM!fetchLocalStatus, recordsOf, Of, A!BM!Slots, Slots
  <2>2. CASE other = "b"
    BY <1>4, <1>6, <1>7, <1>8, <1>9, <2>2
       DEF fetchStatus, B!BM!fetchLocalStatus, recordsOf, Of, B!BM!Slots, Slots
  <2> QED
    BY <2>1, <2>2 DEF Nodes
<1> QED
  BY <1>1, <1>10

\* As long as the prompt is not all there, the pool has room for it.
LEMMA OnThePrompt ==
    ASSUME NEW node \in Nodes, Sharing(node), req.pc \in {"remote", "computed"},
           req.at <= Last \/ callOf(node) # A!Idle
    PROVE  LET c == callOf(node)
           IN /\ req.at \in 1 .. PrefixBlocks + 1 /\ Path(req.at) \in Paths
              /\ Depth(terminalsOf(node), Reach(req, c))
              /\ c.pc \notin {"ready", "acquire"} => Reach(req, c) = req.at - 1
              /\ c.pc \in {"ready", "acquire"} => Reach(req, c) = req.at
              /\ req.pc = "remote" =>
                    /\ req.at <= PrefixBlocks /\ requests # 1 /\ NoSuffix(terminalsOf(node))
                    /\ req.at = Len(req.reusable) + 1 /\ req.local + req.fetched = PrefixBlocks
              /\ (req.pc = "remote" \/ requests = 1) /\ c.pc \notin {"ready", "acquire"} =>
                    NoSuffix(terminalsOf(node)) /\ freeListOf(node) # <<>>
<1> DEFINE P == PrefixBlocks
           T == terminalsOf(node)
           c == callOf(node)
<1>1. /\ P \in Nat \ {0} /\ req.at \in Nat /\ req.at >= 1 /\ req.local \in Nat /\ req.fetched \in Nat
      /\ Len(req.reusable) \in Nat /\ admitted_count \in Nat
      /\ Len(req.path) = P + 1
      /\ c # A!Idle => req.at \in 1 .. P + 1
      /\ \A i \in 1 .. P : Path(i) \in Paths
      /\ Path(P + 1) \in Paths
  BY SharingFacts
<1>2. /\ c.pc \notin {"ready", "acquire"} => Reach(req, c) = req.at - 1
      /\ c.pc \in {"ready", "acquire"} => Reach(req, c) = req.at
  BY DEF Reach
<1>3. ASSUME req.pc = "remote"
      PROVE  /\ req.at <= P /\ requests # 1 /\ NoSuffix(T)
             /\ req.at = Len(req.reusable) + 1 /\ req.local + req.fetched = P
             /\ Depth(T, Reach(req, c))
  <2>1. /\ req.local + req.fetched = All(requests)
        /\ req.local + admitted_count = Len(req.reusable) /\ req.at = Len(req.reusable) + 1
        /\ (req.local = P /\ Depth(T, P)) \/ (NoSuffix(T) /\ Depth(T, Reach(req, c)))
    BY <1>3 DEF Sharing, StageOn, Stage, AtRemote
  <2>2. req.at <= req.local + req.fetched
    <3>1. CASE req.at <= Last
      BY <1>3, <3>1 DEF Last
    <3>2. CASE c # A!Idle
      <4>1. req.at - req.local <= req.fetched
        BY <1>3, <3>2 DEF Sharing, BenchPart, HitsCounted, Resolving, Running
      <4> QED
        BY <1>1, <4>1
    <3> QED
      BY <3>1, <3>2
  <2>3. req.at <= P /\ requests # 1 /\ All(requests) = P
    BY <1>1, <2>1, <2>2 DEF All
  <2>4. req.local # P
    BY <1>1, <2>1, <2>3
  <2> QED
    BY <2>1, <2>3, <2>4
<1>4. ASSUME req.pc = "computed"
      PROVE  Depth(T, Reach(req, c)) /\ req.at \in 1 .. P + 1
  <2>1. req.at \in 1 .. P + 1
    BY <1>1, <1>4 DEF Last
  <2> QED
    BY <1>4, <2>1 DEF Sharing, StageOn, Stage, AtComputed
<1>5. req.at \in 1 .. P + 1
  BY <1>1, <1>3, <1>4
<1>6. Path(req.at) \in Paths
  <2>1. req.at \in 1 .. P \/ req.at = P + 1
    BY <1>1, <1>5
  <2> QED
    BY <1>1, <2>1
<1>7. ASSUME req.pc = "remote" \/ requests = 1, c.pc \notin {"ready", "acquire"}
      PROVE  NoSuffix(T) /\ freeListOf(node) # <<>>
  <2>1. NoSuffix(T)
    <3>1. CASE req.pc = "remote"
      BY <1>3, <3>1
    <3>2. CASE req.pc = "computed"
      <4>1. requests = 1 /\ Reach(req, c) <= P
        BY <1>1, <1>2, <1>5, <1>7, <3>2
      <4> QED
        BY <3>2, <4>1 DEF Sharing, StageOn, Stage, AtComputed
    <3> QED
      BY <3>1, <3>2
  <2>2. freeListOf(node) # <<>>
    BY <2>1, Room DEF Sharing, Known, RequestInv, BenchPart, Indexed
  <2> QED
    BY <2>1, <2>2
<1> QED
  BY <1>2, <1>3, <1>4, <1>5, <1>6, <1>7

\* The worker goes on past its last block of the prompt.
LEMMA StageMovesOn ==
    ASSUME NEW node \in Nodes, Sharing(node), req.pc = "computed", req.at > PrefixBlocks,
           callOf(node).pc \notin {"ready", "acquire"}, callOf(node)' = A!Idle,
           req' = [req EXCEPT !.at = @ + 1],
           UNCHANGED <<terminalsOf(node), handlesOf(node), requests>>
    PROVE  StagedOn(node)
<1> DEFINE T == terminalsOf(node)
<1>1. /\ req'.pc = "computed" /\ req'.reusable = req.reusable /\ req'.at = req.at + 1
      /\ req.at \in Nat /\ PrefixBlocks \in Nat /\ callOf(node)'.pc = "idle"
  BY SharingFacts
<1>2. Reach(req, callOf(node)) = req.at - 1 /\ Reach(req', callOf(node)') = req.at
  BY <1>1 DEF Reach
<1>3. /\ Holding(req, T, handlesOf(node), requests)
      /\ Len(req.reusable) = All(requests) /\ req.at > All(requests) /\ Depth(T, req.at - 1)
  BY <1>2 DEF Sharing, StageOn, Stage, AtComputed
<1>4. All(requests) \in Nat
  BY <1>1 DEF All
<1>5. /\ Depth(T, req.at) /\ req.at + 1 > All(requests) /\ ~ (req.at <= PrefixBlocks)
  BY <1>1, <1>3, <1>4 DEF Depth
<1>6. Holding(req', T, handlesOf(node), requests)
  BY <1>1, <1>3 DEF Holding
<1> QED
  BY <1>1, <1>2, <1>3, <1>5, <1>6
     DEF StagedOn, Stage, AtLookup, AtResolve, AtRemote, AtComputed, AtEviction

\* No block of the prompt is skipped.
LEMMA StageSkip ==
    ASSUME NEW node \in Nodes, Sharing(node), ReqSkip
    PROVE  req.pc = "computed" /\ req.at > PrefixBlocks /\ StagedOn(node)
<1> DEFINE T == terminalsOf(node)
           p == Path(req.at)
<1>1. /\ req.pc \in {"remote", "computed"} /\ req.at <= Last /\ callOf(node) = A!Idle
      /\ admitStatus(node, p) # "Proceed" /\ req' = [req EXCEPT !.at = @ + 1]
      /\ UNCHANGED <<terminalsOf(node), callOf(node), handlesOf(node), requests>>
  BY DEF ReqSkip, Sharing, AllKept, ContentKept, MapsKept
<1>2. callOf(node).pc = "idle" /\ PrefixBlocks \in Nat
  BY <1>1, SharingFacts
<1>3. /\ req.at \in 1 .. PrefixBlocks + 1 /\ Depth(T, req.at - 1)
      /\ req.pc = "remote" => req.at <= PrefixBlocks
  BY <1>1, <1>2, OnThePrompt
<1>4. ASSUME req.at <= PrefixBlocks
      PROVE  FALSE
  <2>1. req.at \in 1 .. PrefixBlocks
    BY <1>2, <1>3, <1>4
  <2>2. /\ p \in Paths /\ p = Pre(req.at) /\ Len(p) = req.at
        /\ \A i \in 1 .. req.at - 1 : SubSeq(p, 1, i) = Pre(i) /\ i \in 1 .. PrefixBlocks
    <3>1. /\ p \in Paths /\ p = Pre(req.at) /\ Len(p) = req.at
      BY <2>1, SharingFacts, SharedPaths DEF Sharing, Known, RequestInv
    <3>2. \A i \in 1 .. req.at - 1 : i \in 1 .. req.at /\ i \in 1 .. PrefixBlocks
      BY <1>2, <2>1
    <3>3. \A i \in 1 .. req.at : SubSeq(p, 1, i) = Path(i)
      BY <1>2, <2>1, SharingFacts, PrefixOf DEF Path
    <3> QED
      BY <3>1, <3>2, <3>3, SharingFacts
  <2> HIDE DEF p
  <2>3. T[p] = NoSlot /\ \A i \in 1 .. req.at - 1 : T[Pre(i)] # NoSlot
    BY <1>2, <1>3, <2>1, <2>2 DEF Depth
  <2>4. \A i \in 1 .. Len(p) - 1 : T[SubSeq(p, 1, i)] # NoSlot
    BY <2>2, <2>3
  <2>5. FoundInv /\ WorkersInv
    BY DEF Sharing, Known, PartsInv
  <2>6. admitStatus(node, p) = "Proceed"
    BY <2>2, <2>3, <2>4, <2>5, StatusOfChain
  <2> QED
    BY <1>1, <2>6
<1>5. req.pc = "computed" /\ req.at > PrefixBlocks
  BY <1>1, <1>2, <1>3, <1>4
<1> QED
  BY <1>1, <1>2, <1>5, StageMovesOn

LEMMA StageStart ==
    ASSUME NEW node \in Nodes, Sharing(node), ReqStart(node), UNCHANGED admitted_count
    PROVE  StagedOn(node)
<1> DEFINE T == terminalsOf(node)
<1>1. /\ req.pc \in {"remote", "computed"} /\ req.at <= Last /\ callOf(node) = A!Idle
      /\ callOf(node)'.pc = IF freeListOf(node) = <<>> THEN "space" ELSE "create"
      /\ UNCHANGED <<terminalsOf(node), handlesOf(node), requests, req>>
  BY DEF ReqStart, StartsAdmission, ContentKept, MapsKept
<1>2. callOf(node).pc = "idle"
  BY <1>1, SharingFacts
<1>3. Reach(req, callOf(node)') = Reach(req, callOf(node))
  BY <1>1, <1>2 DEF Reach
<1>4. callOf(node)'.pc = "space" => req.pc = "computed" /\ requests # 1
  BY <1>1, <1>2, OnThePrompt
<1>5. callOf(node)'.pc # "evict"
  BY <1>1
<1>6. StageOn(node)
  BY DEF Sharing
<1> QED
  BY <1>1, <1>3, <1>4, <1>5, <1>6
     DEF StageOn, StagedOn, Stage, Holding, AtLookup, AtResolve, AtRemote, AtComputed, AtEviction

\* Making space: the request holds the prompt, so its blocks are not evicted.
LEMMA StageSpace ==
    ASSUME NEW node \in Nodes, Sharing(node), ReqAdmitStep(node), UNCHANGED admitted_count,
           GivesUp(node) \/ FindsNoSlot(node)
    PROVE  req.pc = "computed" /\ req.at > PrefixBlocks /\ StagedOn(node)
<1>1. /\ callOf(node).pc \in {"space", "create"} /\ callOf(node)' = A!Idle
      /\ callOf(node).pc = "create" => freeListOf(node) = <<>>
      /\ req.pc \in {"remote", "computed"} /\ req' = [req EXCEPT !.at = @ + 1]
      /\ UNCHANGED <<terminalsOf(node), handlesOf(node), requests>>
  BY DEF ReqAdmitStep, GivesUp, FindsNoSlot, ContentKept, MapsKept
<1>2. callOf(node) # A!Idle
  BY <1>1, SharingFacts
<1>3. req.pc = "computed" /\ requests # 1
  <2>1. CASE callOf(node).pc = "space"
    BY <2>1 DEF Sharing, StageOn, Stage, AtEviction
  <2>2. CASE callOf(node).pc = "create"
    BY <1>1, <1>2, <2>2, OnThePrompt
  <2> QED
    BY <1>1, <2>1, <2>2
<1>4. req.at > PrefixBlocks
  BY <1>3 DEF Sharing, StageOn, Stage, AtComputed, All
<1> QED
  BY <1>1, <1>3, <1>4, StageMovesOn

LEMMA StageBeginsEviction ==
    ASSUME NEW node \in Nodes, Sharing(node), ReqAdmitStep(node), UNCHANGED admitted_count,
           BeginsEviction(node)
    PROVE  StagedOn(node)
<1> DEFINE T == terminalsOf(node)
           v == callOf(node)'.victim
<1>1. /\ callOf(node).pc = "space" /\ callOf(node)'.pc = "evict"
      /\ recordsOf(node)[v].refcount = 0 /\ req' = req
      /\ UNCHANGED <<terminalsOf(node), handlesOf(node), requests>>
  BY DEF ReqAdmitStep, BeginsEviction, MapsKept, A!Idle
<1>2. StageOn(node) /\ ViewsInv
  BY DEF Sharing, Known
<1>3. req.pc = "computed" /\ requests # 1
  BY <1>1, <1>2 DEF StageOn, Stage, AtEviction
<1>4. Len(req.reusable) = PrefixBlocks
  BY <1>2, <1>3 DEF StageOn, Stage, AtComputed, All
<1> HIDE DEF v
<1>5. ASSUME NEW i \in 1 .. PrefixBlocks
      PROVE  T[Pre(i)] # v
  <2>1. PICK h \in Handles : handlesOf(node)[h] = T[Pre(i)] /\ T[Pre(i)] = req.reusable[i]
    BY <1>2, <1>4 DEF StageOn, Stage, Holding
  <2>2. req.reusable[i] \in Slots /\ NoSlot \notin Slots
    BY <1>4, SharingFacts
  <2>3. recordsOf(node)[T[Pre(i)]].refcount > 0
    BY <1>2, <2>1, <2>2 DEF ViewsInv
  <2> QED
    BY <1>1, <2>3
<1>6. Reach(req, callOf(node)') = Reach(req, callOf(node))
  BY <1>1 DEF Reach
<1> QED
  BY <1>1, <1>2, <1>3, <1>5, <1>6
     DEF StageOn, StagedOn, Stage, AtLookup, AtResolve, AtRemote, AtComputed, AtEviction, v

LEMMA StageEvicts ==
    ASSUME NEW node \in Nodes, Sharing(node), ReqAdmitStep(node), UNCHANGED admitted_count,
           Evicts(node)
    PROVE  StagedOn(node)
<1> DEFINE T == terminalsOf(node)
           v == callOf(node).victim
<1>1. /\ callOf(node).pc = "evict" /\ callOf(node)'.pc = "create" /\ req' = req
      /\ v \in Slots
      /\ terminalsOf(node)' = IF blockNodeOf(node)[v] = A!NoPath THEN T
                              ELSE [T EXCEPT ![blockNodeOf(node)[v]] = NoSlot]
      /\ UNCHANGED <<handlesOf(node), requests>>
  BY DEF ReqAdmitStep, Evicts, ToState, A!Idle
<1>2. StageOn(node) /\ IndexOf(node)
  BY DEF Sharing, Indexed
<1>3. /\ req.pc = "computed" /\ requests # 1
      /\ \A i \in 1 .. PrefixBlocks : T[Pre(i)] # v
  BY <1>1, <1>2 DEF StageOn, Stage, AtEviction
<1> HIDE DEF v
<1>4. ASSUME NEW i \in 1 .. PrefixBlocks
      PROVE  terminalsOf(node)'[Pre(i)] = T[Pre(i)]
  <2>1. Pre(i) \in Paths /\ T \in [Paths -> Slots \cup {NoSlot}]
    BY SharingFacts
  <2>2. blockNodeOf(node)[v] # Pre(i)
    BY <1>1, <1>2, <1>3, <2>1 DEF IndexOf
  <2> QED
    BY <1>1, <2>1, <2>2
<1>5. Reach(req, callOf(node)') = Reach(req, callOf(node))
  BY <1>1 DEF Reach
<1>6. /\ Len(req.reusable) = PrefixBlocks /\ Holding(req, T, handlesOf(node), requests)
      /\ req.at > All(requests) /\ Depth(T, Reach(req, callOf(node)))
      /\ All(requests) = PrefixBlocks
  BY <1>2, <1>3 DEF StageOn, Stage, AtComputed, All
<1>7. Depth(terminalsOf(node)', Reach(req, callOf(node)'))
  BY <1>4, <1>5, <1>6 DEF Depth
<1>8. Holding(req, terminalsOf(node)', handlesOf(node), requests)
  BY <1>4, <1>6 DEF Holding
<1> QED
  BY <1>1, <1>3, <1>6, <1>7, <1>8
     DEF StagedOn, Stage, AtLookup, AtResolve, AtRemote, AtComputed, AtEviction

LEMMA StageCreates ==
    ASSUME NEW node \in Nodes, Sharing(node), ReqAdmitStep(node), UNCHANGED admitted_count,
           Creates(node), ViewsInv', IndexOf(node)'
    PROVE  StagedOn(node)
<1> DEFINE P == PrefixBlocks
           T == terminalsOf(node)
           U == terminalsOf(node)'
           id == callOf(node)'.id
<1>1. /\ callOf(node).pc = "create" /\ callOf(node)'.pc = "ready" /\ req' = req
      /\ req.pc \in {"remote", "computed"} /\ UNCHANGED <<handlesOf(node), requests>>
  BY DEF ReqAdmitStep, Creates, A!Idle
<1>2. callOf(node) # A!Idle
  BY <1>1, SharingFacts
<1>3. /\ callOf(node).path = Path(req.at) /\ req.at \in 1 .. P + 1 /\ P \in Nat /\ req.at \in Nat
      /\ Path(req.at) \in Paths /\ T \in [Paths -> Slots \cup {NoSlot}] /\ NoSlot \notin Slots
  BY <1>1, <1>2, SharingFacts, OnThePrompt
<1>4. U = [T EXCEPT ![Path(req.at)] = id] /\ id \in Slots
  BY <1>3, CreateIsOneEntry DEF Sharing, Indexed, Known, PartsInv
<1>5. /\ Depth(T, req.at - 1)
      /\ req.pc = "remote" \/ requests = 1 => NoSuffix(T)
      /\ req.pc = "remote" => req.at <= P
  BY <1>1, <1>2, OnThePrompt
<1>6. Reach(req, callOf(node)') = req.at
  BY <1>1 DEF Reach
<1>7. /\ \A i \in 1 .. P : Pre(i) \in Paths
      /\ req.at <= P => Path(req.at) = Pre(req.at)
      /\ req.at = P + 1 => Path(req.at) = W(requests) /\ requests \in 1 .. NumRequests
  BY <1>3, SharingFacts
<1>8. \A i \in 1 .. P : i # req.at => Pre(i) # Path(req.at)
  <2>1. /\ \A i, j \in 1 .. P : Pre(i) = Pre(j) => i = j
        /\ \A i \in 1 .. P : \A k \in 1 .. NumRequests : Pre(i) # W(k)
    BY SharedPaths DEF Sharing, Known, RequestInv
  <2>2. req.at \in 1 .. P \/ req.at = P + 1
    BY <1>3
  <2> QED
    BY <1>3, <1>7, <2>1, <2>2
<1> HIDE DEF U, T, id
<1>9. \A i \in 1 .. P : U[Pre(i)] = IF i = req.at THEN id ELSE T[Pre(i)]
  BY <1>3, <1>4, <1>7, <1>8
<1>10. Depth(U, req.at)
  <2> SUFFICES ASSUME NEW i \in 1 .. P
               PROVE  U[Pre(i)] # NoSlot <=> i <= req.at
    BY DEF Depth
  <2>1. T[Pre(i)] # NoSlot <=> i <= req.at - 1
    BY <1>5 DEF Depth
  <2> QED
    BY <1>3, <1>4, <1>9, <2>1
<1>11. ASSUME req.at <= P, NoSuffix(T)
       PROVE  NoSuffix(U)
  <2>1. \A k \in 1 .. NumRequests : W(k) \in Paths /\ W(k) # Path(req.at)
    BY <1>3, <1>7, <1>11, SharedPaths DEF Sharing, Known, RequestInv
  <2> QED
    BY <1>3, <1>4, <1>11, <2>1 DEF NoSuffix
<1>12. StageOn(node) /\ Len(req.reusable) <= P /\ Len(req.reusable) < req.at
  <2>1. StageOn(node) /\ Len(req.reusable) \in Nat
    BY SharingFacts DEF Sharing
  <2>2. Len(req.reusable) <= P
    BY <1>3, <2>1 DEF StageOn, Stage, Holding, All
  <2>3. CASE req.pc = "remote"
    BY <1>2, <1>3, <2>1, <2>2, <2>3, OnThePrompt
  <2>4. CASE req.pc = "computed"
    BY <2>1, <2>2, <2>4 DEF StageOn, Stage, AtComputed
  <2> QED
    BY <1>1, <2>1, <2>2, <2>3, <2>4
<1>13. Holding(req, U, handlesOf(node), requests)
  <2>1. \A i \in 1 .. Len(req.reusable) : i \in 1 .. P /\ i # req.at
    BY <1>3, <1>12, SharingFacts
  <2> QED
    BY <1>9, <1>12, <2>1 DEF StageOn, Stage, Holding, T
<1>14. AtRemote(req, U, callOf(node)', requests, admitted_count)
  BY <1>5, <1>6, <1>10, <1>11, <1>12 DEF StageOn, Stage, AtRemote
<1>15. AtComputed(req, U, callOf(node)', requests)
  BY <1>1, <1>5, <1>6, <1>10, <1>11, <1>12 DEF StageOn, Stage, AtComputed
<1> QED
  BY <1>1, <1>13, <1>14, <1>15 DEF StagedOn, Stage, AtLookup, AtResolve, AtEviction, U

LEMMA StagePublishes ==
    ASSUME NEW node \in Nodes, Sharing(node), ReqAdmitStep(node), UNCHANGED admitted_count,
           Publishes(node)
    PROVE  StagedOn(node)
<1>1. /\ callOf(node).pc = "ready" /\ callOf(node)'.pc = "acquire" /\ req' = req
      /\ req.pc \in {"remote", "computed"}
      /\ UNCHANGED <<terminalsOf(node), handlesOf(node), requests>>
  BY DEF ReqAdmitStep, Publishes, MapsKept, A!Idle
<1>2. Reach(req, callOf(node)') = Reach(req, callOf(node))
  BY <1>1 DEF Reach
<1> QED
  BY <1>1, <1>2
     DEF Sharing, StageOn, StagedOn, Stage, AtLookup, AtResolve, AtRemote, AtComputed, AtEviction

LEMMA StageAdmit ==
    ASSUME NEW node \in Nodes, Sharing(node), DidAdmit(node)
    PROVE  StagedOn(node)
<1> DEFINE T == terminalsOf(node)
           c == callOf(node)
           n == Len(req.reusable)
<1>1. /\ c.pc = "acquire" /\ callOf(node)' = A!Idle /\ Pins(node, c.id)
      /\ req.pc \in {"remote", "computed"}
      /\ req' = IF req.pc = "remote"
                THEN [req EXCEPT !.at = @ + 1, !.reusable = Append(@, c.id)]
                ELSE [req EXCEPT !.pc = "announce", !.slot = c.id]
      /\ admitted_count' = IF req.pc = "remote" THEN admitted_count + 1 ELSE admitted_count
      /\ UNCHANGED <<terminalsOf(node), requests>>
  BY DEF DidAdmit, ReqAdmit, EndsAdmission, ContentKept, MapsKept
<1>2. c # A!Idle /\ callOf(node)'.pc = "idle"
  BY <1>1, SharingFacts
<1>3. /\ c.path = Path(req.at) /\ req.at \in 1 .. PrefixBlocks + 1 /\ PrefixBlocks \in Nat
      /\ n \in Nat /\ req.at \in Nat
  BY <1>1, <1>2, SharingFacts
<1>4. c.id \in Slots /\ T[Path(req.at)] = c.id
  <2>1. c.id \in Slots
    BY <1>1, CallTypes DEF Sharing, Known, PartsInv, WorkersInv
  <2> QED
    BY <1>1, <1>3, <2>1 DEF Sharing, Indexed, IndexOf
<1>5. /\ \E h \in Handles : handlesOf(node)'[h] = c.id
      /\ \A s \in Slots : (\E h \in Handles : handlesOf(node)[h] = s) =>
            \E h \in Handles : handlesOf(node)'[h] = s
  BY <1>1, SharingFacts DEF Pins, Sharing, Known, ViewsInv
<1>6. /\ Depth(T, req.at) /\ Reach(req, c) = req.at
      /\ req.pc = "remote" =>
            /\ req.at <= PrefixBlocks /\ requests # 1 /\ NoSuffix(T)
            /\ req.at = n + 1 /\ req.local + req.fetched = PrefixBlocks
  BY <1>1, <1>2, OnThePrompt
<1>7. /\ n <= All(requests)
      /\ \A i \in 1 .. n : /\ req.reusable[i] = T[Pre(i)]
                           /\ \E h \in Handles : handlesOf(node)'[h] = req.reusable[i]
  <2>1. \A i \in 1 .. n : req.reusable[i] \in Slots
    BY SharingFacts
  <2> QED
    BY <1>5, <2>1 DEF Sharing, StageOn, Stage, Holding
<1>8. CASE req.pc = "remote"
  <2>1. /\ req'.pc = "remote" /\ req'.reusable = Append(req.reusable, c.id)
        /\ req'.local = req.local /\ req'.fetched = req.fetched /\ req'.at = req.at + 1
    BY <1>1, <1>8, SharingFacts
  <2>2. /\ Len(req'.reusable) = n + 1 /\ req'.reusable[n + 1] = c.id
        /\ \A i \in 1 .. n : req'.reusable[i] = req.reusable[i]
    BY <1>4, <2>1, SharingFacts, AppendProperties
  <2>3. T[Pre(n + 1)] = c.id /\ n + 1 <= PrefixBlocks /\ All(requests) = PrefixBlocks
    <3>1. n + 1 \in 1 .. PrefixBlocks /\ req.at = n + 1
      BY <1>3, <1>6, <1>8
    <3> QED
      BY <1>4, <1>6, <1>8, <3>1, SharingFacts DEF All
  <2>4. Reach(req', callOf(node)') = req.at /\ req'.at = (n + 1) + 1
        /\ req.local + (admitted_count + 1) = n + 1
    <3>1. req.local + admitted_count = n
      BY <1>8 DEF Sharing, StageOn, Stage, AtRemote
    <3>2. Reach(req', callOf(node)') = req.at
      BY <1>2, <1>3, <2>1 DEF Reach
    <3> QED
      BY <1>6, <1>8, <2>1, <3>1, <3>2, SharingFacts
  <2> HIDE DEF n, T, c
  <2>5. Holding(req', T, handlesOf(node)', requests)
    <3> SUFFICES ASSUME NEW i \in 1 .. n + 1
                 PROVE  /\ req'.reusable[i] = T[Pre(i)]
                        /\ \E h \in Handles : handlesOf(node)'[h] = req'.reusable[i]
      BY <2>2, <2>3 DEF Holding
    <3>1. i \in 1 .. n \/ i = n + 1
      BY <1>3
    <3> QED
      BY <1>5, <1>7, <2>2, <2>3, <3>1
  <2>6. AtRemote(req', T, callOf(node)', requests, admitted_count + 1)
    BY <1>6, <1>8, <2>1, <2>2, <2>3, <2>4 DEF AtRemote
  <2> QED
    BY <1>1, <1>2, <1>8, <2>1, <2>5, <2>6
       DEF StagedOn, Stage, AtLookup, AtResolve, AtComputed, AtEviction, T
<1>9. CASE req.pc = "computed"
  <2>1. /\ req'.pc = "announce" /\ req'.reusable = req.reusable /\ req'.path = req.path
        /\ req'.at = req.at /\ req'.slot = c.id
    BY <1>1, <1>9, SharingFacts
  <2>2. Reach(req', callOf(node)') = Reach(req, c)
    BY <1>6, <2>1 DEF Reach
  <2>3. Holding(req', T, handlesOf(node)', requests)
    BY <1>7, <2>1 DEF Holding
  <2>4. AtComputed(req', T, callOf(node)', requests)
    BY <1>4, <1>6, <1>9, <2>1, <2>2 DEF Sharing, StageOn, Stage, AtComputed, Path
  <2> QED
    BY <1>1, <1>2, <2>1, <2>3, <2>4
       DEF StagedOn, Stage, AtLookup, AtResolve, AtRemote, AtEviction
<1> QED
  BY <1>1, <1>8, <1>9

\* Every request but the first has all of the prompt when its result is assembled.
LEMMA StageAssemble ==
    ASSUME NEW node \in Nodes, Sharing(node), ReqAssemble, UNCHANGED admitted_count
    PROVE  StagedOn(node) /\ req.local + admitted_count = All(requests)
<1> DEFINE T == terminalsOf(node)
           n == Len(req.reusable)
<1>1. /\ req.pc = "remote" /\ req.at > req.local + req.fetched /\ callOf(node) = A!Idle
      /\ req' = [req EXCEPT !.pc = "computed", !.at = n + 1]
      /\ UNCHANGED <<terminalsOf(node), callOf(node), handlesOf(node), requests>>
  BY DEF ReqAssemble, Last, AllKept, ContentKept, MapsKept
<1>2. /\ req'.pc = "computed" /\ req'.reusable = req.reusable /\ req'.at = n + 1 /\ n \in Nat
      /\ callOf(node).pc = "idle" /\ PrefixBlocks \in Nat \ {0} /\ req.at \in Nat
  BY <1>1, SharingFacts
<1>3. /\ Holding(req, T, handlesOf(node), requests) /\ n <= All(requests)
      /\ req.local + req.fetched = All(requests)
      /\ req.local + admitted_count = n /\ req.at = n + 1
      /\ (req.local = PrefixBlocks /\ Depth(T, PrefixBlocks))
            \/ (NoSuffix(T) /\ Depth(T, Reach(req, callOf(node))))
  BY <1>1 DEF Sharing, StageOn, Stage, AtRemote, Holding
<1>4. n = All(requests)
  BY <1>1, <1>2, <1>3, SharingFacts DEF All
<1>5. Reach(req, callOf(node)) = n /\ Reach(req', callOf(node)') = n
  BY <1>1, <1>2, <1>3 DEF Reach
<1>6. Depth(T, n) /\ (requests = 1 => NoSuffix(T))
  <2>1. CASE NoSuffix(T) /\ Depth(T, Reach(req, callOf(node)))
    BY <1>5, <2>1
  <2>2. CASE req.local = PrefixBlocks /\ Depth(T, PrefixBlocks)
    <3>1. requests # 1 /\ n = PrefixBlocks
      BY <1>2, <1>3, <1>4, <2>2, SharingFacts DEF All
    <3> QED
      BY <2>2, <3>1
  <2> QED
    BY <1>3, <2>1, <2>2
<1>7. Holding(req', T, handlesOf(node), requests)
  BY <1>2, <1>3 DEF Holding
<1>8. n + 1 > All(requests)
  BY <1>2, <1>4
<1> QED
  BY <1>1, <1>2, <1>3, <1>4, <1>5, <1>6, <1>7, <1>8
     DEF StagedOn, Stage, AtLookup, AtResolve, AtRemote, AtComputed, AtEviction

\* The handle of the announced block is none of those of the result.
LEMMA StageAnnounce ==
    ASSUME NEW node \in Nodes, Sharing(node), ReqAnnounce(node)
    PROVE  StagedOn(node)
<1> DEFINE T == terminalsOf(node)
           n == Len(req.reusable)
<1>1. /\ req.pc = "announce" /\ callOf(node) = A!Idle /\ callOf(node)' = A!Idle
      /\ req' = [req EXCEPT !.pc = "computed", !.at = @ + 1]
      /\ UNCHANGED <<terminalsOf(node), requests>>
  BY DEF ReqAnnounce, Releases, ContentKept, MapsKept
<1>2. PICK g \in Handles : /\ handlesOf(node)[g] = req.slot
                           /\ handlesOf(node)' = [handlesOf(node) EXCEPT ![g] = NoSlot]
  BY DEF ReqAnnounce, Releases
<1>3. /\ req'.pc = "computed" /\ req'.reusable = req.reusable /\ req'.at = req.at + 1
      /\ n \in Nat /\ req.at \in Nat /\ PrefixBlocks \in Nat /\ callOf(node)'.pc = "idle"
  BY <1>1, SharingFacts
<1>4. /\ n = All(requests) /\ req.at > n /\ req.slot = T[Path(req.at)]
      /\ Depth(T, req.at) /\ (requests = 1 /\ req.at <= PrefixBlocks => NoSuffix(T))
      /\ \A i \in 1 .. n : /\ req.reusable[i] = T[Pre(i)]
                           /\ \E h \in Handles : handlesOf(node)[h] = req.reusable[i]
      /\ n <= PrefixBlocks
  BY <1>1, <1>3 DEF Sharing, StageOn, Stage, Holding, AtComputed, Reach, Path, All
<1>5. req.slot \in Slots /\ req.at \in 1 .. PrefixBlocks + 1
  BY <1>1, SharingFacts DEF Sharing, Known, PartsInv, ReqInv, ToAnnounce
<1>6. ASSUME NEW i \in 1 .. n
      PROVE  req.reusable[i] # req.slot
  <2>1. i \in 1 .. PrefixBlocks /\ i \in 1 .. PrefixBlocks + 1 /\ i # req.at
    BY <1>3, <1>4
  <2>2. PICK p \in Paths : p = Path(req.at) /\ Len(p) = req.at
    <3>1. req.path \in Paths /\ req.at \in 1 .. Len(req.path)
      BY <1>5, SharingFacts
    <3>2. Path(req.at) \in Paths /\ Len(Path(req.at)) = req.at
      BY <3>1, PrefixOf DEF Path
    <3> QED
      BY <3>2
  <2>3. PICK q \in Paths : q = Pre(i) /\ Len(q) = i
    BY <2>1, SharedPaths DEF Sharing, Known, RequestInv
  <2>4. p # q
    BY <2>1, <2>2, <2>3
  <2>5. T[p] = req.slot
    BY <1>4, <2>2
  <2>6. T[q] # req.slot
    BY <1>5, <2>4, <2>5 DEF Sharing, Indexed, IndexOf
  <2> QED
    BY <1>4, <2>3, <2>6
<1>7. ASSUME NEW i \in 1 .. n
      PROVE  \E h \in Handles : handlesOf(node)'[h] = req.reusable[i]
  <2>1. PICK h \in Handles : handlesOf(node)[h] = req.reusable[i]
    BY <1>4
  <2>2. handlesOf(node) \in [Handles -> Slots \cup {NoSlot}]
    BY DEF Sharing, Known, ViewsInv
  <2> QED
    BY <1>2, <1>6, <2>1, <2>2
<1>8. Holding(req', T, handlesOf(node)', requests)
  BY <1>3, <1>4, <1>7 DEF Holding
<1>9. Reach(req', callOf(node)') = req.at /\ req.at + 1 > n
  BY <1>3, <1>4 DEF Reach
<1> QED
  BY <1>1, <1>3, <1>4, <1>8, <1>9
     DEF StagedOn, Stage, AtLookup, AtResolve, AtRemote, AtComputed, AtEviction

\* A worker has all of the prompt or nothing when it gets a request.
LEMMA StageRoute ==
    ASSUME Shared, Known, LastBlockIsNew, Steady, NEW node \in Nodes, DidRoute(node)
    PROVE  req'.node = node /\ StagedOn(node)
<1> DEFINE P == PrefixBlocks
           T == terminalsOf(node)
           p == W(requests + 1)
           f == found(node, p)
<1>1. /\ req = NoRequest /\ requests + 1 \in 1 .. NumRequests
      /\ req'.pc = IF f = <<>> THEN "resolve" ELSE "lookup"
      /\ req'.node = node /\ req'.local = 0 /\ req'.fetched = 0 /\ req'.reusable = <<>>
      /\ terminalsOf(node)' = T /\ requests' = requests + 1 /\ callOf(node)'.pc \in {"idle", "lookup"}
      /\ f # <<>> => callOf(node)'.todo = f
  BY DEF DidRoute, ReqRoute, ContentKept, MapsKept, A!Idle
<1>2. /\ P \in Nat \ {0} /\ p \in Paths /\ Len(p) = P + 1 /\ args \in BenchArgs
      /\ \A i \in 1 .. P : SubSeq(p, 1, i) = Pre(i)
      /\ SubSeq(p, 1, P + 1) = p
  BY <1>1, SharedPaths DEF Known, RequestInv
<1>3. requests \in Nat /\ Len(f) \in 0 .. P + 1
  BY <1>2, BenchAssumption DEF Known, RequestInv, PartsInv, WorkersInv
<1>4. SteadyOn(node)
  BY <1>1 DEF Steady
<1>5. Len(req'.reusable) = 0 /\ 0 <= All(requests + 1)
  BY <1>1, <1>2 DEF All
<1> HIDE DEF p
<1>6. Holding(req', T, handlesOf(node)', requests + 1)
  BY <1>5 DEF Holding
<1>9. \A i \in 1 .. P : T[SubSeq(p, 1, i)] = T[Pre(i)]
  BY <1>2
<1>10. /\ \A i \in 1 .. Len(f) : f[i] = T[SubSeq(p, 1, i)] /\ T[SubSeq(p, 1, i)] # NoSlot
       /\ \A i \in 0 .. Len(p) :
             (\A j \in 1 .. i : T[SubSeq(p, 1, j)] # NoSlot) => i <= Len(f)
  BY <1>2 DEF Known, FoundInv
<1>7. CASE f = <<>>
  <2>1. Len(f) = 0 /\ 1 \in 0 .. Len(p) /\ 1 \in 1 .. P
    BY <1>2, <1>7
  <2>2. T[Pre(1)] = NoSlot
    <3> SUFFICES ASSUME T[Pre(1)] # NoSlot
                 PROVE  FALSE
      OBVIOUS
    <3>1. T[SubSeq(p, 1, 1)] # NoSlot
      BY <1>9, <2>1
    <3>2. \A j \in 1 .. 1 : j = 1
      OBVIOUS
    <3>3. \A j \in 1 .. 1 : T[SubSeq(p, 1, j)] # NoSlot
      BY <3>1, <3>2
    <3>4. 1 <= Len(f)
      BY <1>10, <2>1, <3>3
    <3> QED
      BY <2>1, <3>4
  <2>3. Depth(T, 0) /\ NoSuffix(T)
    BY <1>2, <1>4, <2>1, <2>2 DEF SteadyOn, Depth
  <2> QED
    BY <1>1, <1>5, <1>6, <1>7, <2>3
       DEF StagedOn, Stage, AtLookup, AtResolve, AtRemote, AtComputed, AtEviction
<1>8. CASE f # <<>>
  <2>1. Len(f) \in 1 .. P + 1
    BY <1>2, <1>3, <1>8, EmptySeq DEF Known, PartsInv, WorkersInv
  <2> HIDE DEF f, T
  <2>3. 1 \in 1 .. P /\ T[Pre(1)] # NoSlot
    <3>1. 1 \in 1 .. P /\ 1 \in 1 .. Len(f)
      BY <1>2, <2>1
    <3> QED
      BY <1>9, <1>10, <3>1
  <2>4. ~ First /\ Depth(T, P)
    BY <1>4, <2>3 DEF SteadyOn, Depth, T
  <2>5. Len(f) # P + 1
    <3>1. requests + 1 > Computed
      BY <1>1, <1>3 DEF Computed, Resolving
    <3>2. T[p] = NoSlot
      BY <1>1, <3>1 DEF LastBlockIsNew, p, T
    <3> QED
      BY <1>2, <1>10, <2>1, <3>2
  <2>6. P <= Len(f)
    <3>1. \A j \in 1 .. P : T[SubSeq(p, 1, j)] # NoSlot
      BY <1>9, <2>4 DEF Depth
    <3>2. P \in 0 .. Len(p)
      BY <1>2
    <3> QED
      BY <1>10, <3>1, <3>2
  <2>7. Len(f) = P
    BY <1>2, <2>1, <2>5, <2>6
  <2>8. requests + 1 # 1
    BY <1>1, <1>3, <2>4 DEF First
  <2>9. \A j \in 1 .. P : f[j] = T[Pre(0 + j)]
    BY <1>9, <1>10, <2>7
  <2> QED
    BY <1>1, <1>2, <1>5, <1>6, <1>8, <2>4, <2>7, <2>8, <2>9
       DEF StagedOn, Stage, AtLookup, AtResolve, AtRemote, AtComputed, AtEviction
<1> QED
  BY <1>1, <1>7, <1>8

\* Before a step, and after one
SharedState ==
    /\ Shared /\ Known /\ BenchPart /\ Indexed /\ InUseInv /\ CoordInv
    /\ ReferenceNamesItsBlock /\ SharedPart
SharedMoves == SharedState /\ BenchDid /\ ViewsInv' /\ Indexed'

LEMMA IsSharing ==
    ASSUME SharedState, NEW node \in Nodes, req \in Running, req.node = node
    PROVE  Sharing(node)
  BY DEF SharedState, SharedPart, Staged, Sharing, Running

\* A victim is no block of the prompt, so none of the chain that is extended.
LEMMA VictimOffPrompt ==
    ASSUME SharedState, NEW node \in Nodes, callOf(node).pc = "evict"
    PROVE  /\ \A i \in 1 .. PrefixBlocks : terminalsOf(node)[Pre(i)] # callOf(node).victim
           /\ OffChain(terminalsOf(node), callOf(node))
<1> DEFINE T == terminalsOf(node)
           c == callOf(node)
<1>1. c # A!Idle
  BY DEF A!Idle
<1>2. req \in Running /\ req.node = node
  BY <1>1 DEF SharedState, Known, PartsInv, ReqInv, OneCall
<1>3. Sharing(node)
  BY <1>2, IsSharing
<1>4. \A i \in 1 .. PrefixBlocks : T[Pre(i)] # c.victim
  BY <1>3 DEF Sharing, StageOn, Stage, AtEviction
<1>5. /\ req.at \in 1 .. PrefixBlocks + 1 /\ c.path = Path(req.at) /\ PrefixBlocks \in Nat
      /\ req.path \in Paths /\ Len(req.path) = PrefixBlocks + 1
      /\ \A i \in 1 .. PrefixBlocks : Path(i) = Pre(i)
  BY <1>1, <1>3, SharingFacts
<1>6. /\ Len(c.path) = req.at
      /\ \A i \in 1 .. req.at : SubSeq(c.path, 1, i) = Path(i)
  BY <1>5, PrefixOf DEF Path
<1> HIDE DEF T, c
<1>7. ASSUME NEW i \in 1 .. Len(c.path) - 1
      PROVE  T[SubSeq(c.path, 1, i)] # c.victim
  <2>1. i \in 1 .. req.at /\ i \in 1 .. PrefixBlocks
    BY <1>5, <1>6
  <2> QED
    BY <1>4, <1>5, <1>6, <2>1
<1> QED
  BY <1>4, <1>7 DEF OffChain, T, c

\* A block of the prompt stays where it is.
LEMMA PrefixKept ==
    ASSUME SharedMoves, NEW n \in Nodes, NEW i \in 1 .. PrefixBlocks,
           terminalsOf(n)[Pre(i)] # NoSlot
    PROVE  LET s == terminalsOf(n)[Pre(i)]
           IN /\ terminalsOf(n)'[Pre(i)] = s
              /\ s \in Slots /\ recordsOf(n)'[s].generation = recordsOf(n)[s].generation
<1> DEFINE T == terminalsOf(n)
           c == callOf(n)
           s == T[Pre(i)]
<1>1. /\ Known /\ ViewsInv /\ IndexOf(n) /\ IndexOf(n)' /\ ViewsInv' /\ WorkersInv /\ SharedState
  BY DEF SharedMoves, SharedState, Known, Indexed, PartsInv
<1>2. Pre(i) \in Paths /\ T \in [Paths -> Slots \cup {NoSlot}]
  BY <1>1, SharedPaths DEF SharedState, Known, RequestInv, ViewsInv
<1>3. /\ s \in Slots /\ blockNodeOf(n)[s] = Pre(i) /\ blockNodeOf(n)[s] # A!NoPath
  BY <1>1, <1>2, IndexHas
<1>4. WorkerDid(n)
  BY BenchIsCluster, WorkerMoves DEF SharedMoves, SharedState
<1>5. CASE Creates(n)
  <2>1. /\ c.path \in Paths /\ terminalsOf(n)' = [T EXCEPT ![c.path] = callOf(n)'.id]
        /\ SameSlot(n, s)
    BY <1>1, <1>3, <1>5, CreateIsOneEntry
  <2>2. T[c.path] = NoSlot
    BY <1>1, <1>5 DEF Creates, IndexOf
  <2> HIDE DEF T
  <2> QED
    BY <1>2, <1>3, <2>1, <2>2 DEF SameSlot, T
<1>6. CASE Evicts(n)
  <2>1. /\ c.pc = "evict" /\ c.victim \in Slots
        /\ terminalsOf(n)' = IF blockNodeOf(n)[c.victim] = A!NoPath THEN T
                             ELSE [T EXCEPT ![blockNodeOf(n)[c.victim]] = NoSlot]
        /\ \A other \in Slots : recordsOf(n)'[other].generation = recordsOf(n)[other].generation
    BY <1>6 DEF Evicts, ToState, SameSlot
  <2>2. s # c.victim
    BY <1>1, <2>1, VictimOffPrompt
  <2>3. blockNodeOf(n)[c.victim] # Pre(i)
    BY <1>1, <1>2, <2>1, <2>2 DEF IndexOf
  <2> HIDE DEF T, c
  <2> QED
    BY <1>2, <1>3, <2>1, <2>3 DEF T
<1> QED
  BY <1>3, <1>4, <1>5, <1>6, ContentMoves

\* What a step of the request in progress keeps, and which ones announce or assemble
LEMMA SharedProgress ==
    ASSUME SharedMoves, NEW node \in Nodes, req \in Running, req.node = node, RequestDid(node)
    PROVE  /\ \/ ReqFinish
              \/ req' # NoRequest /\ req'.node = node /\ StagedOn(node)
           /\ KeepsIndex \/ ReqAnnounce(node)
           /\ Assembling => ReqFinish \/ Assembling'
           /\ Assembling' =>
                 \/ ReqAssemble
                 \/ /\ Assembling
                    /\ \/ req'.at = req.at \/ req.at > PrefixBlocks
                       \/ ReqAnnounce(node) /\ req'.at = req.at + 1
           /\ \/ DidAssemble(node) /\ req.local + admitted_count = All(requests)
              \/ KeepsTotals /\ (Resolving' <=> Resolving)
<1>1. Sharing(node) /\ Announced /\ ReferenceNamesItsBlock /\ IndexOf(node)' /\ ViewsInv'
  BY IsSharing DEF SharedMoves, SharedState, SharedPart, Indexed
<1>2. req \in [pc : {"lookup", "resolve", "remote", "computed", "announce"},
               node : Nodes, path : Paths, local : Nat, fetched : Nat, at : Nat,
               reusable : Seq(Slots), slot : Slots \cup {NoSlot},
               failed : C!GlobalBlockRef \cup {NoRef}]
  BY <1>1, SharingFacts
<1>3. NoRequest.pc = "none" /\ req # NoRequest
  BY DEF NoRequest, Running
<1>4. CASE DidLookup(node)
  <2>1. /\ req.pc = "lookup" /\ req'.pc \in {"lookup", "resolve"} /\ req'.node = node
        /\ KeepsIndex /\ KeepsTotals
    BY <1>2, <1>4 DEF DidLookup, ReqLookup
  <2> QED
    BY <1>1, <1>3, <1>4, <2>1, StageLookup DEF DidLookup, Assembling, Resolving
<1>5. CASE DidResolve \/ DidFetch
  <2>1. /\ req.pc = "resolve" /\ req'.pc \in {"remote", "resolve"} /\ req'.node = node
        /\ KeepsIndex /\ KeepsTotals /\ UNCHANGED admitted_count
    BY <1>2, <1>5 DEF DidResolve, ReqResolve, DidFetch, ReqFetch
  <2> QED
    BY <1>1, <1>3, <1>5, <2>1, StageResolve DEF DidResolve, DidFetch, Assembling, Resolving
<1>6. ~ DidFail
  BY <1>1, SharedFetchNeverFails DEF DidFail
<1>7. CASE DidSkip
  <2>1. req.pc = "computed" /\ req.at > PrefixBlocks /\ StagedOn(node)
    BY <1>1, <1>7, StageSkip DEF DidSkip
  <2>2. req'.pc = "computed" /\ req'.node = node /\ KeepsIndex /\ KeepsTotals
    BY <1>2, <1>7, <2>1 DEF DidSkip, ReqSkip
  <2> QED
    BY <1>3, <2>1, <2>2 DEF Assembling, Resolving
<1>8. CASE DidStart(node)
  <2>1. req' = req /\ KeepsIndex /\ KeepsTotals
    BY <1>8 DEF DidStart, ReqStart
  <2> QED
    BY <1>1, <1>3, <1>8, <2>1, StageStart DEF DidStart, Assembling, Resolving
<1>9. CASE DidAdmitStep(node)
  <2>1. ReqAdmitStep(node) /\ UNCHANGED admitted_count /\ KeepsIndex /\ KeepsTotals
    BY <1>9 DEF DidAdmitStep, ReqAdmitStep
  <2>2. CASE GivesUp(node) \/ FindsNoSlot(node)
    <3>1. req.pc = "computed" /\ req.at > PrefixBlocks /\ StagedOn(node)
      BY <1>1, <2>1, <2>2, StageSpace
    <3>2. req'.pc = "computed" /\ req'.node = node
      BY <1>2, <2>1, <3>1 DEF ReqAdmitStep
    <3> QED
      BY <1>3, <2>1, <3>1, <3>2 DEF Assembling, Resolving
  <2>3. CASE BeginsEviction(node) \/ Evicts(node) \/ Creates(node) \/ Publishes(node)
    <3>1. StagedOn(node)
      BY <1>1, <2>1, <2>3, StageBeginsEviction, StageEvicts, StageCreates, StagePublishes
    <3>2. req' = req
      BY <2>1, <2>3 DEF ReqAdmitStep, BeginsEviction, Evicts, Creates, Publishes, A!Idle
    <3> QED
      BY <1>3, <2>1, <3>1, <3>2 DEF Assembling, Resolving
  <2> QED
    BY <2>1, <2>2, <2>3 DEF ReqAdmitStep, AdmitsOn
<1>10. CASE DidAdmit(node)
  <2>1. /\ \/ req.pc = "remote" /\ req'.pc = "remote"
           \/ req.pc = "computed" /\ req'.pc = "announce" /\ req'.at = req.at
        /\ req'.node = node /\ KeepsIndex /\ KeepsTotals
    BY <1>2, <1>10 DEF DidAdmit, ReqAdmit
  <2> QED
    BY <1>1, <1>3, <1>10, <2>1, StageAdmit DEF Assembling, Resolving
<1>11. CASE DidAssemble(node)
  <2>1. req.pc = "remote" /\ req'.pc = "computed" /\ req'.node = node /\ KeepsIndex
    BY <1>2, <1>11 DEF DidAssemble, ReqAssemble
  <2>2. ReqAssemble /\ UNCHANGED admitted_count
    BY <1>11 DEF DidAssemble
  <2> QED
    BY <1>1, <1>3, <1>11, <2>1, <2>2, StageAssemble DEF Assembling
<1>12. CASE DidAnnounce(node)
  <2>1. /\ req.pc = "announce" /\ req'.pc = "computed" /\ req'.node = node
        /\ req'.at = req.at + 1 /\ KeepsTotals /\ ReqAnnounce(node)
    BY <1>2, <1>12 DEF DidAnnounce, ReqAnnounce
  <2> QED
    BY <1>1, <1>3, <2>1, StageAnnounce DEF Assembling, Resolving
<1>13. CASE DidFinish
  <2>1. ReqFinish /\ req.pc = "computed" /\ req' = NoRequest /\ KeepsIndex /\ KeepsTotals
    BY <1>13 DEF DidFinish, ReqFinish
  <2> QED
    BY <1>3, <2>1 DEF Assembling, Resolving
<1> QED
  BY <1>4, <1>5, <1>6, <1>7, <1>8, <1>9, <1>10, <1>11, <1>12, <1>13 DEF RequestDid

\* The three kinds of steps
SharedKinds ==
    \/ \E node \in Nodes : DidRoute(node)
    \/ \E node \in Nodes : req \in Running /\ req.node = node /\ RequestDid(node)
    \/ /\ UNCHANGED <<req, requests>> /\ KeepsIndex /\ KeepsTotals
       /\ \A n \in Nodes : UNCHANGED terminalsOf(n)
       /\ req = NoRequest \/ (UNCHANGED admitted_count /\ \A n \in Nodes : AllKept(n))

LEMMA SharedKind ==
    ASSUME BenchDid
    PROVE  SharedKinds
<1>1. CASE \E node \in Nodes : DidDrop(node)
  <2>1. PICK node \in Nodes : DidDrop(node)
    BY <1>1
  <2>2. ASSUME NEW n \in Nodes
        PROVE  UNCHANGED terminalsOf(n)
    BY <2>1 DEF DidDrop, ReqDrop, OthersKept, AllKept, Releases, ContentKept, MapsKept
  <2> QED
    BY <2>1, <2>2 DEF DidDrop, ReqDrop, SharedKinds
<1>2. CASE DidNothing
  BY <1>2 DEF DidNothing, ReqNothing, AllKept, ContentKept, MapsKept, SharedKinds
<1> QED
  BY <1>1, <1>2 DEF BenchDid, SharedKinds

\* Stages do not depend on what happened so far.
LEMMA SameStage ==
    ASSUME UNCHANGED args, NEW node \in Nodes, StagedOn(node)
    PROVE  StageOn(node)'
<1>1. \A k : W(k)' = W(k)
  BY SameWorkload
<1> QED
  BY <1>1 DEF StagedOn, StageOn, Stage, Holding, AtLookup, AtResolve, AtRemote, AtComputed,
              AtEviction, Depth, NoSuffix

LEMMA StagedNext ==
    ASSUME SharedMoves
    PROVE  Staged'
<1> SUFFICES ASSUME NEW node \in Nodes, req' # NoRequest, req'.node = node
             PROVE  StageOn(node)'
  BY DEF Staged
<1>1. UNCHANGED args
  BY DEF SharedMoves, BenchDid
<1> SUFFICES StagedOn(node)
  BY <1>1, SameStage
<1>2. CASE \E n \in Nodes : DidRoute(n)
  BY <1>2, StageRoute DEF SharedMoves, SharedState, BenchPart, SharedPart
<1>3. CASE \E n \in Nodes : req \in Running /\ req.node = n /\ RequestDid(n)
  BY <1>3, SharedProgress DEF ReqFinish
<1>4. CASE /\ UNCHANGED <<req, requests>>
           /\ req = NoRequest \/ (UNCHANGED admitted_count /\ \A n \in Nodes : AllKept(n))
  <2>1. StageOn(node)
    BY <1>4 DEF SharedMoves, SharedState, SharedPart, Staged
  <2>2. UNCHANGED <<terminalsOf(node), callOf(node), handlesOf(node), admitted_count>>
    BY <1>4 DEF AllKept, ContentKept, MapsKept
  <2> QED
    BY <1>4, <2>1, <2>2 DEF StageOn, StagedOn
<1> QED
  BY <1>2, <1>3, <1>4, SharedKind DEF SharedMoves, SharedKinds

\* Who is first does not change before the request is done.
LEMMA FirstNext ==
    ASSUME SharedMoves
    PROVE  /\ First' => First
           /\ First => First' \/ (req \in Running /\ ReqFinish)
<1>1. requests \in Nat /\ (req # NoRequest => requests > 0)
  BY BenchAssumption DEF SharedMoves, SharedState, Known, RequestInv
<1>2. CASE \E n \in Nodes : DidRoute(n)
  <2>1. PICK n \in Nodes : DidRoute(n)
    BY <1>2
  <2>2. req = NoRequest /\ requests' = requests + 1 /\ req'.pc # "none"
    BY <2>1 DEF DidRoute, ReqRoute
  <2> QED
    BY <1>1, <2>2 DEF First, NoRequest
<1>3. CASE \E n \in Nodes : req \in Running /\ req.node = n /\ RequestDid(n)
  <2>1. PICK n \in Nodes : req \in Running /\ req.node = n /\ RequestDid(n)
    BY <1>3
  <2>2. requests' = requests /\ req # NoRequest /\ (req' # NoRequest \/ ReqFinish)
    BY <2>1, RequestStays, SharedProgress DEF Running
  <2> QED
    BY <1>1, <2>1, <2>2 DEF First, ReqFinish
<1>4. CASE UNCHANGED <<req, requests>>
  BY <1>4 DEF First
<1> QED
  BY <1>2, <1>3, <1>4, SharedKind DEF SharedMoves, SharedKinds

\* What a request changes, it changes on its own worker.
LEMMA OthersKeepTheirs ==
    ASSUME SharedMoves, NEW n \in Nodes, req # NoRequest => req.node # n \/ ReqFinish
    PROVE  UNCHANGED terminalsOf(n)
<1>1. CASE \E node \in Nodes : DidRoute(node)
  BY <1>1 DEF DidRoute, ReqRoute, ContentKept, MapsKept
<1>2. CASE \E node \in Nodes : req \in Running /\ req.node = node /\ RequestDid(node)
  <2>1. PICK node \in Nodes : req \in Running /\ req.node = node /\ RequestDid(node)
    BY <1>2
  <2>2. CASE ReqFinish \/ DidResolve \/ DidFetch \/ DidFail \/ DidSkip \/ DidAssemble(node)
    BY <2>2 DEF ReqFinish, DidResolve, ReqResolve, DidFetch, ReqFetch, DidFail, ReqFail,
                DidSkip, ReqSkip, DidAssemble, ReqAssemble, AllKept, ContentKept, MapsKept
  <2>3. CASE ~ ReqFinish /\ (DidLookup(node) \/ DidStart(node) \/ DidAdmitStep(node)
                             \/ DidAdmit(node) \/ DidAnnounce(node))
    <3>1. OthersKept(node)
      BY <2>3 DEF DidLookup, ReqLookup, DidStart, ReqStart, DidAdmitStep, ReqAdmitStep,
                  DidAdmit, ReqAdmit, DidAnnounce, ReqAnnounce
    <3>2. n # node
      BY <2>1, <2>3 DEF Running
    <3> QED
      BY <3>1, <3>2 DEF OthersKept, AllKept, ContentKept, MapsKept
  <2> QED
    BY <2>1, <2>2, <2>3 DEF RequestDid, DidFinish
<1>3. CASE \A m \in Nodes : UNCHANGED terminalsOf(m)
  BY <1>3
<1> QED
  BY <1>1, <1>2, <1>3, SharedKind DEF SharedMoves, SharedKinds

LEMMA SteadyNext ==
    ASSUME SharedMoves
    PROVE  Steady'
<1> SUFFICES ASSUME NEW n \in Nodes, req' # NoRequest => req'.node # n
             PROVE  SteadyOn(n)'
  BY DEF Steady
<1> DEFINE T == terminalsOf(n)
<1>1. UNCHANGED args /\ \A k : W(k)' = W(k)
  BY SameWorkload DEF SharedMoves, BenchDid
<1>2. ASSUME SteadyOn(n), UNCHANGED terminalsOf(n)
      PROVE  SteadyOn(n)'
  <2>1. /\ Depth(T, 0) => Depth(T, 0)'
        /\ Depth(T, PrefixBlocks) => Depth(T, PrefixBlocks)'
        /\ NoSuffix(T) => NoSuffix(T)'
    BY <1>1, <1>2 DEF Depth, NoSuffix
  <2> QED
    BY <1>2, <2>1, FirstNext DEF SteadyOn
<1>3. CASE req # NoRequest => req.node # n
  BY <1>2, <1>3, OthersKeepTheirs DEF SharedMoves, SharedState, SharedPart, Steady
<1>4. CASE req # NoRequest /\ req.node = n
  <2>1. \E node \in Nodes : req \in Running /\ req.node = node /\ RequestDid(node)
    BY <1>4, SharedKind DEF SharedMoves, SharedKinds, DidRoute, ReqRoute
  <2>2. req \in Running /\ RequestDid(n)
    BY <1>4, <2>1
  <2>3. ReqFinish /\ Sharing(n)
    BY <1>4, <2>2, SharedProgress, IsSharing DEF SharedMoves
  <2>4. UNCHANGED T
    BY <1>4, <2>3, OthersKeepTheirs
  <2>5. /\ req.pc = "computed" /\ req.at > Last /\ callOf(n) = A!Idle /\ req' = NoRequest
        /\ UNCHANGED requests
    BY <2>3 DEF ReqFinish
  <2>6. ~ First'
    <3>1. requests' >= 1
      BY <2>3, <2>5, SharingFacts, BenchAssumption
    <3> QED
      BY <2>5, <3>1 DEF First
  <2>7. Depth(T, PrefixBlocks)
    <3>1. Depth(T, req.at - 1)
      BY <2>3, <2>5, SharingFacts DEF Sharing, StageOn, Stage, AtComputed, Reach
    <3>2. req.at > PrefixBlocks + 1 /\ req.at \in Nat /\ PrefixBlocks \in Nat
      BY <2>3, <2>5, SharingFacts DEF Last
    <3> QED
      BY <3>1, <3>2 DEF Depth
  <2>8. Depth(T, PrefixBlocks)'
    BY <2>4, <2>7 DEF Depth
  <2> QED
    BY <2>6, <2>8 DEF SteadyOn
<1> QED
  BY <1>3, <1>4

\* What is counted is All of every request whose result is assembled.
LEMMA HitsExactNext ==
    ASSUME SharedMoves
    PROVE  HitsExact'
<1> DEFINE total == results.local_hits + results.remote_hits
           P == PrefixBlocks
<1>1. /\ hits \in [Nodes -> [local_hits : Nat, remote_hits : Nat]] /\ admitted_count \in Nat
      /\ total_prefix_possible \in Nat /\ requests \in Nat /\ P \in Nat \ {0}
      /\ Nodes = {"a", "b"} /\ args \in BenchArgs /\ Shared
  BY BenchAssumption, SharedPaths
     DEF SharedMoves, SharedState, Known, CountersType, Nodes, RequestInv
<1>2. /\ total = (hits["a"].local_hits + hits["b"].local_hits)
                    + (hits["a"].remote_hits + hits["b"].remote_hits)
      /\ total' = (hits'["a"].local_hits + hits'["b"].local_hits)
                    + (hits'["a"].remote_hits + hits'["b"].remote_hits)
      /\ total \in Nat
  <2>1. /\ hits["a"].local_hits \in Nat /\ hits["a"].remote_hits \in Nat
        /\ hits["b"].local_hits \in Nat /\ hits["b"].remote_hits \in Nat
    BY <1>1
  <2> QED
    BY <2>1 DEF results
<1>3. total + (IF requests >= 1 THEN P ELSE 0)
            + (IF Resolving /\ requests >= 2 THEN P ELSE 0) = total_prefix_possible
  BY DEF SharedMoves, SharedState, SharedPart, HitsExact
<1>4. UNCHANGED hits => total' = total
  BY DEF results
<1>5. HitsExact' <=>
         total' + (IF requests' >= 1 THEN P ELSE 0)
                + (IF Resolving' /\ requests' >= 2 THEN P ELSE 0) = total_prefix_possible'
  BY DEF HitsExact
<1>6. CASE \E node \in Nodes : DidRoute(node)
  <2>1. PICK node \in Nodes : DidRoute(node)
    BY <1>6
  <2>2. /\ req = NoRequest /\ requests' = requests + 1 /\ requests + 1 \in 1 .. NumRequests
        /\ req'.pc \in {"resolve", "lookup"} /\ UNCHANGED hits
        /\ total_prefix_possible' = total_prefix_possible + Len(W(requests + 1)) - 1
    BY <2>1 DEF DidRoute, ReqRoute
  <2>3. Len(W(requests + 1)) = P + 1
    BY <1>1, <2>2, SharedPaths
  <2>4. ~ Resolving /\ Resolving'
    BY <2>2 DEF Resolving, NoRequest
  <2>5. requests = 0 => total + 0 + 0 = total_prefix_possible
    BY <1>3, <2>4
  <2>6. requests >= 1 => total + P + 0 = total_prefix_possible
    BY <1>3, <2>4
  <2>7. total_prefix_possible' = total_prefix_possible + P /\ total' = total
    BY <1>1, <1>4, <2>2, <2>3
  <2> HIDE DEF total, P
  <2>8. CASE requests = 0
    BY <1>1, <1>2, <1>5, <2>2, <2>5, <2>7, <2>8
  <2>9. CASE requests >= 1
    <3>1. requests' >= 1 /\ requests' >= 2
      BY <1>1, <2>2, <2>9
    <3>2. (IF Resolving' /\ requests' >= 2 THEN P ELSE 0) = P
      BY <2>4, <3>1
    <3>3. (IF requests' >= 1 THEN P ELSE 0) = P
      BY <3>1
    <3>4. total' + P + P = total_prefix_possible'
      BY <1>1, <1>2, <2>6, <2>7, <2>9
    <3> QED
      BY <1>5, <3>2, <3>3, <3>4
  <2> QED
    BY <1>1, <2>8, <2>9
<1>7. CASE KeepsTotals /\ UNCHANGED requests /\ (Resolving' <=> Resolving)
  <2> HIDE DEF total, P
  <2> QED
    BY <1>3, <1>4, <1>5, <1>7 DEF KeepsTotals
<1>8. ASSUME NEW node \in Nodes, req \in Running, req.node = node, DidAssemble(node),
             req.local + admitted_count = All(requests)
      PROVE  HitsExact'
  <2>1. /\ req.pc = "remote" /\ req'.pc = "computed" /\ UNCHANGED <<requests, total_prefix_possible>>
        /\ hits' = [hits EXCEPT ![node].local_hits = @ + req.local,
                                ![node].remote_hits = @ + admitted_count]
        /\ req.local \in Nat /\ requests \in 1 .. NumRequests
    BY <1>8, IsSharing, SharingFacts DEF DidAssemble, ReqAssemble, SharedMoves
  <2>2. total' = total + (req.local + admitted_count)
    <3>1. CASE node = "a"
      BY <1>1, <1>2, <2>1, <3>1
    <3>2. CASE node = "b"
      BY <1>1, <1>2, <2>1, <3>2
    <3> QED
      BY <1>1, <3>1, <3>2
  <2>3. Resolving /\ ~ Resolving'
    BY <1>8, <2>1 DEF Resolving, Running
  <2> HIDE DEF total, P
  <2> QED
    BY <1>1, <1>2, <1>3, <1>5, <1>8, <2>1, <2>2, <2>3, BenchAssumption DEF All, P
<1>9. CASE \E node \in Nodes : req \in Running /\ req.node = node /\ RequestDid(node)
  BY <1>7, <1>8, <1>9, SharedProgress, RequestStays
<1>10. CASE UNCHANGED <<req, requests>> /\ KeepsTotals
  BY <1>7, <1>10 DEF Resolving
<1> QED
  BY <1>6, <1>9, <1>10, SharedKind DEF SharedMoves, SharedKinds

\* The list of an announced block has the announced reference.
LEMMA AnnouncementKept ==
    ASSUME SharedMoves, NEW node \in Nodes, req \in Running, req.node = node, ReqAnnounce(node)
    PROVE  \A hash \in Hashes :
              /\ index[hash] # <<>> => index'[hash] # <<>>
              /\ hash = HashOf(req.at) => index'[hash] # <<>>
<1> DEFINE new == [node_id |-> node, block_id |-> req.slot,
                   generation |-> recordsOf(node)[req.slot].generation]
<1>1. req.pc = "announce" /\ C!announce(HashOf(req.at), new) /\ Known /\ CoordInv
  BY DEF ReqAnnounce, SharedMoves, SharedState
<1>2. /\ req.slot \in Slots /\ req.at \in 1 .. Len(req.path)
      /\ recordsOf(node)[req.slot].generation # 0
  BY <1>1 DEF Known, PartsInv, ReqInv, ToAnnounce
<1>3. recordsOf(node)[req.slot].generation \in 1 .. MaxGeneration
  BY <1>1, <1>2, GenerationBound DEF Known, PartsInv, WorkersInv
<1>4. new \in C!GlobalBlockRef /\ HashOf(req.at) \in Hashes
  BY <1>2, <1>3, RunningFacts DEF C!GlobalBlockRef
<1>5. \A other \in Hashes :
         C!Elements(index'[other]) =
            IF other = HashOf(req.at) THEN C!Elements(index[other]) \cup {new}
            ELSE C!Elements(index[other])
  BY <1>1, <1>4, CoordinatorFacts
<1> HIDE DEF new
<1>6. ASSUME NEW hash \in Hashes, index[hash] # <<>>
      PROVE  C!Elements(index[hash]) # {}
  <2>1. index[hash] \in Seq(C!GlobalBlockRef)
    BY <1>1 DEF CoordInv, C!TypeOK
  <2>2. 1 \in 1 .. Len(index[hash])
    BY <1>6, <2>1, EmptySeq
  <2> QED
    BY <2>2 DEF C!Elements
<1>7. ASSUME NEW hash \in Hashes, C!Elements(index'[hash]) # {}
      PROVE  index'[hash] # <<>>
  <2>1. Len(<<>>) = 0
    OBVIOUS
  <2> QED
    BY <1>7, <2>1 DEF C!Elements
<1> QED
  BY <1>5, <1>6, <1>7

LEMMA AnnouncedNext ==
    ASSUME SharedMoves
    PROVE  Announced'
<1> DEFINE P == PrefixBlocks
<1>1. SharedState /\ Shared /\ Known /\ args \in BenchArgs /\ Announced /\ UNCHANGED args
  BY DEF SharedMoves, SharedState, SharedPart, Known, RequestInv, BenchDid
<1>2. /\ P \in Nat \ {0} /\ NoRequest.pc = "none"
      /\ \A i \in 1 .. P : Pre(i) \in Paths /\ Len(Pre(i)) = i /\ PreHash(i) \in Hashes
                           /\ PreHash(i) = <<i, shared(i)>>
  BY <1>1, SharedPaths DEF NoRequest
<1>3. \A i : PreHash(i)' = PreHash(i) /\ Pre(i)' = Pre(i)
  BY DEF PreHash, Pre
<1>4. ASSUME NEW node \in Nodes, DidRoute(node)
      PROVE  req = NoRequest /\ req'.pc \in {"resolve", "lookup"} /\ KeepsIndex
  BY <1>4 DEF DidRoute, ReqRoute
<1>5. First' /\ ~ Assembling' => index'[PreHash(1)] = <<>>
  <2> SUFFICES ASSUME First', ~ Assembling'
               PROVE  index'[PreHash(1)] = <<>>
    OBVIOUS
  <2>1. First
    BY FirstNext
  <2>2. ~ Assembling /\ KeepsIndex
    <3>1. CASE \E node \in Nodes : DidRoute(node)
      BY <1>4, <3>1 DEF Assembling
    <3>2. CASE \E node \in Nodes : req \in Running /\ req.node = node /\ RequestDid(node)
      <4>1. PICK node \in Nodes : req \in Running /\ req.node = node /\ RequestDid(node)
        BY <3>2
      <4>2. ~ ReqFinish
        <5> SUFFICES ASSUME ReqFinish
                     PROVE  FALSE
          OBVIOUS
        <5>1. req' = NoRequest /\ requests' = requests /\ requests > 0
          BY <1>1, <4>1 DEF ReqFinish, Known, RequestInv, Running
        <5>2. requests \in Nat
          BY <1>1, BenchAssumption DEF Known, RequestInv
        <5> QED
          BY <5>1, <5>2 DEF First
      <4>3. ~ Assembling
        BY <4>1, <4>2, SharedProgress
      <4>4. ~ ReqAnnounce(node)
        BY <4>1, <4>3 DEF ReqAnnounce, Assembling, Running
      <4> QED
        BY <4>1, <4>3, <4>4, SharedProgress
    <3>3. CASE UNCHANGED <<req, requests>> /\ KeepsIndex
      BY <3>3 DEF Assembling
    <3> QED
      BY <3>1, <3>2, <3>3, SharedKind DEF SharedMoves, SharedKinds
  <2> QED
    BY <1>1, <2>1, <2>2 DEF Announced, KeepsIndex
<1>6. ASSUME NEW i \in 1 .. P, ToldOf(i)'
      PROVE  index'[PreHash(i)] # <<>>
  <2>1. ToldOf(i) => index[PreHash(i)] # <<>>
    BY <1>1 DEF Announced
  <2>2. CASE \E node \in Nodes : DidRoute(node)
    <3>1. PICK node \in Nodes : DidRoute(node)
      BY <2>2
    <3>2. ~ Assembling' /\ KeepsIndex
      BY <1>4, <3>1 DEF Assembling
    <3>3. ToldOf(i)
      BY <1>4, <1>6, <3>1, <3>2, FirstNext DEF ToldOf, Running
    <3> QED
      BY <2>1, <3>2, <3>3 DEF KeepsIndex
  <2>3. CASE \E node \in Nodes : req \in Running /\ req.node = node /\ RequestDid(node)
    <3>1. PICK node \in Nodes : req \in Running /\ req.node = node /\ RequestDid(node)
      BY <2>3
    <3>2. Sharing(node)
      BY <1>1, <3>1, IsSharing
    <3>3. req.at \in Nat /\ Len(req.path) = P + 1 /\ req # NoRequest
      BY <3>1, <3>2, SharingFacts DEF Running
    <3>4. CASE ToldOf(i)
      BY <1>2, <2>1, <3>1, <3>4, AnnouncementKept, SharedProgress DEF KeepsIndex
    <3>5. CASE ~ ToldOf(i) /\ ReqFinish
      <4>1. req.pc = "computed" /\ req.at > P + 1
        BY <3>3, <3>5 DEF ReqFinish, Last
      <4>2. Assembling /\ i < req.at
        BY <1>2, <3>3, <4>1 DEF Assembling
      <4> QED
        BY <3>5, <4>2 DEF ToldOf
    <3>6. CASE ~ ToldOf(i) /\ ~ ReqFinish
      <4>1. First /\ First' /\ ~ (Assembling /\ i < req.at)
        BY <3>6, FirstNext DEF ToldOf
      <4>2. Assembling' /\ i < req'.at
        BY <1>6, <4>1 DEF ToldOf
      <4>3. ~ ReqAssemble
        <5> SUFFICES ASSUME ReqAssemble
                     PROVE  FALSE
          OBVIOUS
        <5>1. req'.pc = "computed" /\ req'.at = Len(req.reusable) + 1 /\ requests' = requests
              /\ req'.reusable = req.reusable
          BY <3>2, SharingFacts DEF ReqAssemble
        <5>2. requests = 1
          BY <3>2, <3>3, <4>1, SharingFacts, BenchAssumption DEF First
        <5>3. StagedOn(node)
          BY <3>1, <3>6, SharedProgress
        <5>4. Len(req.reusable) = 0
          BY <5>1, <5>2, <5>3 DEF StagedOn, Stage, AtComputed, All
        <5> QED
          BY <4>2, <5>1, <5>4
      <4>4. Assembling /\ ReqAnnounce(node) /\ req'.at = req.at + 1
        BY <1>2, <3>1, <3>3, <4>1, <4>2, <4>3, SharedProgress
      <4>5. i = req.at
        BY <3>3, <4>1, <4>2, <4>4
      <4>6. HashOf(req.at) = PreHash(i)
        BY <3>2, <4>5, SharingFacts DEF HashOf, PreHash
      <4> QED
        BY <1>2, <3>1, <4>4, <4>6, AnnouncementKept
    <3> QED
      BY <3>4, <3>5, <3>6
  <2>4. CASE UNCHANGED <<req, requests>> /\ KeepsIndex
    BY <1>6, <2>1, <2>4 DEF ToldOf, First, Assembling, KeepsIndex
  <2> QED
    BY <2>2, <2>3, <2>4, SharedKind DEF SharedMoves, SharedKinds
<1>7. ASSUME NEW i \in 1 .. P, NEW ref \in C!Elements(index'[PreHash(i)])
      PROVE  /\ recordsOf(ref.node_id)'[ref.block_id].generation = ref.generation
             /\ terminalsOf(ref.node_id)'[Pre(i)] = ref.block_id
  <2>1. Seen /\ ClusterDid /\ CoordInv
    BY <1>1, BenchIsCluster DEF SharedMoves, SharedState
  <2>2. ref \in C!GlobalBlockRef
    <3>1. index'[PreHash(i)] \in Seq(C!GlobalBlockRef)
      BY <1>2, <2>1, NewReferences DEF C!TypeOK
    <3> QED
      BY <3>1 DEF C!Elements
  <2>3. PICK n \in Nodes, s \in Slots, g \in 1 .. MaxGeneration :
           n = ref.node_id /\ s = ref.block_id /\ g = ref.generation
    BY <2>2 DEF C!GlobalBlockRef
  <2>4. recordsOf(n)[s].generation = g /\ terminalsOf(n)[Pre(i)] = s
    <3>1. CASE ref \in C!Elements(index[PreHash(i)])
      BY <1>1, <2>3, <3>1 DEF Announced, Leads
    <3>2. CASE ref \notin C!Elements(index[PreHash(i)])
      <4>1. /\ req \in Running /\ req.pc = "announce" /\ req.at \in 1 .. Len(req.path)
            /\ PreHash(i) = HashOf(req.at)
            /\ n = req.node /\ s = req.slot /\ g = recordsOf(n)[s].generation
        BY <1>2, <2>1, <2>3, <3>2, NewReferences
      <4>2. Sharing(n) /\ req.path \in Paths
        BY <1>1, <4>1, IsSharing, RunningFacts
      <4>3. Len(Path(req.at)) = req.at
        BY <4>1, <4>2, PrefixOf DEF Path
      <4>4. HashOf(req.at)[1] = req.at
        BY <4>3 DEF HashOf, A!contentHash
      <4>5. req.at = i
        BY <1>2, <4>1, <4>4
      <4>6. Path(req.at) = Pre(i)
        BY <4>2, <4>5, SharingFacts
      <4>7. s = terminalsOf(n)[Path(req.at)]
        BY <4>1, <4>2 DEF Sharing, StageOn, Stage, AtComputed, Path
      <4> QED
        BY <4>1, <4>6, <4>7
    <3> QED
      BY <3>1, <3>2
  <2>5. s # NoSlot
    BY CapacityAssumption DEF NoSlot, Slots
  <2>6. recordsOf(n)'[s].generation = g /\ terminalsOf(n)'[Pre(i)] = s
    BY <2>4, <2>5, PrefixKept
  <2> QED
    BY <2>3, <2>6
<1>8. \A i \in 1 .. P : Leads(i)'
  BY <1>3, <1>7 DEF Leads
<1> QED
  BY <1>3, <1>5, <1>6, <1>8 DEF Announced

LEMMA SharedNext ==
    ASSUME SharedMoves
    PROVE  SharedPart'
  BY StagedNext, SteadyNext, AnnouncedNext, HitsExactNext DEF SharedPart

LEMMA SharedInit ==
    ASSUME BenchInit, Shared
    PROVE  SharedPart
<1>1. /\ Init /\ args \in BenchArgs /\ req = NoRequest /\ requests = 0
      /\ \A hash \in Hashes : index[hash] = <<>>
  BY DEF BenchInit, Init
<1>2. \A node \in Nodes : \A q \in Paths : terminalsOf(node)[q] = NoSlot
  BY <1>1 DEF Init, A!Init, B!Init, A!PM!Init, B!PM!Init, terminalsOf, Of,
              A!NoSlot, B!NoSlot, NoSlot
<1>3. /\ PrefixBlocks \in Nat \ {0} /\ \A k \in 1 .. NumRequests : W(k) \in Paths
      /\ \A i \in 1 .. PrefixBlocks : Pre(i) \in Paths /\ PreHash(i) \in Hashes
  BY <1>1, SharedPaths
<1>4. First /\ ~ Assembling /\ ~ Resolving
  BY <1>1 DEF First, Assembling, Resolving
<1>5. Steady
  <2>1. \A i \in 1 .. PrefixBlocks : ~ (i <= 0)
    BY <1>3
  <2> QED
    BY <1>2, <1>3, <2>1 DEF Steady, SteadyOn, Depth, NoSuffix
<1>6. Announced
  <2>1. 1 \in 1 .. PrefixBlocks /\ Len(<<>>) = 0
    BY <1>3
  <2>2. \A i \in 1 .. PrefixBlocks : C!Elements(index[PreHash(i)]) = {}
    BY <1>1, <1>3, <2>1 DEF C!Elements
  <2> QED
    BY <1>1, <1>3, <1>4, <2>1, <2>2 DEF Announced, ToldOf, Leads
<1>7. Staged
  BY <1>1 DEF Staged
<1>8. HitsExact
  BY <1>1, <1>4 DEF HitsExact, BenchInit, results, Nodes
<1> QED
  BY <1>5, <1>6, <1>7, <1>8 DEF SharedPart

-----------------------------------------------------------------------------
(* What is left to the invariants of the two workers *)

\* Without a step Evicts no worker finishes an eviction.
LEMMA NoFinish ==
    ASSUME Seen, \A n \in Nodes : ~ Evicts(n)
    PROVE  ~ A!finishEvict /\ ~ B!finishEvict
  BY ViewsOfA, ViewsOfB DEF Seen, PartsInv, Nodes

LEMMA CompleteOtherwise == ~ NothingEvicted => RemoteReuseIsComplete
  BY DEF RemoteReuseIsComplete

\* With a shared prompt an eviction leaves the chain that is extended.
LEMMA OffPrompt ==
    ASSUME SharedState
    PROVE  /\ A!finishEvict => OffChain(a_terminals, a_call)
           /\ B!finishEvict => OffChain(b_terminals, b_call)
<1>1. /\ A!finishEvict => callOf("a").pc = "evict"
      /\ B!finishEvict => callOf("b").pc = "evict"
  BY DEF A!finishEvict, B!finishEvict, callOf, Of
<1>2. /\ terminalsOf("a") = a_terminals /\ callOf("a") = a_call /\ "a" \in Nodes
      /\ terminalsOf("b") = b_terminals /\ callOf("b") = b_call /\ "b" \in Nodes
  BY DEF terminalsOf, callOf, Of, Nodes
<1> QED
  BY <1>1, <1>2, VictimOffPrompt

LEMMA SharedStays ==
    ASSUME BenchDid
    PROVE  Shared' => Shared
  BY DEF Shared, BenchDid

LEMMA TypesFrom ==
    ASSUME A!BM!TypeOK, A!PM!TypeOK, B!BM!TypeOK, B!PM!TypeOK, C!TypeOK, ReqInv, BenchPart,
           a_call \in A!Calls, b_call \in A!Calls
    PROVE  BenchTypeOK
<1>1. TypeOK
  BY SameCalls DEF ReqInv, TypeOK
<1> QED
  BY <1>1 DEF BenchPart, RequestInv, CountersType, BenchTypeOK

LEMMA HitsFollow ==
    ASSUME Known, BenchPart, Shared => SharedPart
    PROVE  HitsAreExact
<1> SUFFICES ASSUME req = NoRequest
             PROVE  LET total == results.local_hits + results.remote_hits
                    IN /\ total <= total_prefix_possible
                       /\ (/\ args.workload = "shared_system_prompt"
                           /\ Capacity >= PrefixBlocks + SuffixBlocks
                           /\ requests > 0) => total = total_prefix_possible - PrefixBlocks
  BY DEF HitsAreExact
<1>1. results.local_hits + results.remote_hits <= total_prefix_possible
  BY ReportAgrees
<1>2. ASSUME args.workload = "shared_system_prompt",
             Capacity >= PrefixBlocks + SuffixBlocks, requests > 0
      PROVE  results.local_hits + results.remote_hits = total_prefix_possible - PrefixBlocks
  <2>1. Shared /\ requests >= 1 /\ ~ Resolving
    BY <1>2, BenchAssumption DEF Shared, Known, RequestInv, Resolving
  <2>2. results.local_hits + results.remote_hits + PrefixBlocks + 0 = total_prefix_possible
    BY <2>1 DEF SharedPart, HitsExact
  <2>3. /\ results.local_hits + results.remote_hits \in Nat
        /\ total_prefix_possible \in Nat /\ PrefixBlocks \in Nat
    BY BenchAssumption DEF Known, CountersType, results, Nodes
  <2> QED
    BY <2>2, <2>3
<1> QED
  BY <1>1, <1>2

PromptStays ==
    (/\ args.workload = "shared_system_prompt"
     /\ Capacity >= PrefixBlocks + SuffixBlocks) =>
       \A i \in 1 .. PrefixBlocks :
           LET prefix == [j \in 1 .. i |-> shared(j)]
           IN /\ a_terminals[prefix] # NoSlot => a_terminals'[prefix] = a_terminals[prefix]
              /\ b_terminals[prefix] # NoSlot => b_terminals'[prefix] = b_terminals[prefix]

\* Without requests nothing comes or goes.
LEMMA PromptFollows ==
    ASSUME Known, BenchDid, Shared => SharedMoves
    PROVE  PromptStays
<1> SUFFICES ASSUME args.workload = "shared_system_prompt",
                    Capacity >= PrefixBlocks + SuffixBlocks, NEW i \in 1 .. PrefixBlocks
             PROVE  /\ a_terminals[Pre(i)] # NoSlot => a_terminals'[Pre(i)] = a_terminals[Pre(i)]
                    /\ b_terminals[Pre(i)] # NoSlot => b_terminals'[Pre(i)] = b_terminals[Pre(i)]
  BY DEF Pre, PromptStays
<1>1. /\ terminalsOf("a") = a_terminals /\ terminalsOf("b") = b_terminals
      /\ terminalsOf("a")' = a_terminals' /\ terminalsOf("b")' = b_terminals'
      /\ "a" \in Nodes /\ "b" \in Nodes
  BY DEF terminalsOf, Of, Nodes
<1>2. CASE NumRequests > 0
  <2>1. SharedMoves
    BY <1>2 DEF Shared
  <2> QED
    BY <1>1, <2>1, PrefixKept
<1>3. CASE ~ (NumRequests > 0)
  <2>1. NumRequests = 0 /\ requests = 0
    BY <1>3, BenchAssumption DEF Known, RequestInv
  <2>2. req = NoRequest /\ requests + 1 \notin 1 .. NumRequests
    BY <2>1 DEF Known, RequestInv
  <2>3. \A n \in Nodes : UNCHANGED terminalsOf(n)
    BY <2>2, SharedKind DEF SharedKinds, DidRoute, Running
  <2> QED
    BY <1>1, <2>3
<1> QED
  BY <1>2, <1>3

-----------------------------------------------------------------------------
(* Worker a is the cache that LocalCacheProofs is about, step by step. *)

AP == INSTANCE LocalCacheProofs WITH
        free_list <- a_free_list, generations <- a_generations, in_use <- a_in_use,
        records <- a_records, handles <- a_handles, terminals <- a_terminals,
        block_node <- a_block_node, call <- a_call, kv <- a_kv

\* What LocalCacheProofs requires
LEMMA ConstantsA ==
    /\ Capacity \in Nat
    /\ AP!IsFiniteSet(Handles)
    /\ MaxGeneration \in Nat /\ MaxTime \in Nat
    /\ Paths \subseteq Seq(UNION {{p[i] : i \in 1 .. Len(p)} : p \in Paths})
    /\ \A p \in Paths : Len(p) > 0
    /\ \A p \in Paths : \A i \in 1 .. Len(p) : SubSeq(p, 1, i) \in Paths
    /\ TierCapacity \in [AP!TM!Tiers -> Nat]
    /\ MaxPayloads \in Nat /\ MetadataOnly \in BOOLEAN
    /\ EvictionPolicy \in {"lru", "no_eviction", "any"}
    /\ WithTiers \in BOOLEAN /\ PinAncestors \in BOOLEAN
<1>1. AP!IsFiniteSet(Handles)
  BY HandlesAssumption DEF IsFiniteSet, AP!IsFiniteSet
<1> QED
  BY <1>1, GenerationBound, CapacityAssumption, PathsAssumption, PolicyAssumption
     DEF MaxTime, TierCapacity, AP!TM!Tiers, MaxPayloads, MetadataOnly, WithTiers, PinAncestors

LEMMA SameWorkerA == (A!Init => AP!Init) /\ (A!Next => AP!Next)
<1>0. \A S : A!Cardinality(S) = AP!Cardinality(S)
  BY DEF A!Cardinality, AP!Cardinality
<1>1. \A p : A!lookupPrefix(p) => AP!lookupPrefix(p)
  BY <1>0, Zenon DEF
     A!lookupPrefix, AP!lookupPrefix, A!Idle, AP!Idle, A!FreeHandles, AP!FreeHandles,
     A!PM!lookup, AP!PM!lookup, A!PM!matchedBlocks, AP!PM!matchedBlocks,
     A!PM!Contiguous, AP!PM!Contiguous, A!PM!Prefix, AP!PM!Prefix, A!NoSlot, AP!NoSlot,
     A!Slots, AP!Slots, A!bmVars, AP!bmVars, A!pmVars, AP!pmVars, A!tmVars, AP!tmVars
<1>2. \A p : A!admit(p) => AP!admit(p)
  BY Zenon DEF
     A!admit, AP!admit, A!Idle, AP!Idle, A!FreeHandles, AP!FreeHandles, A!admitStatus,
     AP!admitStatus, A!existingBlocks, AP!existingBlocks, A!chooseTier, AP!chooseTier,
     A!spaceNeeded, AP!spaceNeeded, A!BM!available, AP!BM!available, A!PM!Parent,
     AP!PM!Parent, A!PM!lookup, AP!PM!lookup, A!PM!matchedBlocks, AP!PM!matchedBlocks,
     A!PM!Contiguous, AP!PM!Contiguous, A!PM!Prefix, AP!PM!Prefix, A!NoSlot, AP!NoSlot,
     A!Slots, AP!Slots, A!bmVars, AP!bmVars, A!pmVars, AP!pmVars, A!tmVars, AP!tmVars,
     WithTiers, PinAncestors
<1>3. A!lookupStep => AP!lookupStep
  BY Zenon DEF
     A!lookupStep, AP!lookupStep, A!Idle, AP!Idle, A!FreeHandles, AP!FreeHandles,
     A!NoSlot, AP!NoSlot, A!BM!acquire, AP!BM!acquire, A!BM!Acquirable,
     AP!BM!Acquirable, A!BM!pinInto, AP!BM!pinInto, A!BM!Touched, AP!BM!Touched,
     A!BM!NoSlot, AP!BM!NoSlot, A!bmVars, AP!bmVars, A!pmVars, AP!pmVars, A!tmVars,
     AP!tmVars
<1>4. /\ (A!insufficientCandidates => AP!insufficientCandidates)
      /\ (\A v : A!beginEvict(v) => AP!beginEvict(v))
  BY Zenon DEF
     A!insufficientCandidates, AP!insufficientCandidates, A!beginEvict, AP!beginEvict,
     A!chooseVictim, AP!chooseVictim, A!lruVictims, AP!lruVictims, A!candidates,
     AP!candidates, A!Idle, AP!Idle, A!Slots, AP!Slots, A!bmVars, AP!bmVars, A!pmVars,
     AP!pmVars, A!tmVars, AP!tmVars, A!BM!transitionState, AP!BM!transitionState,
     A!BM!transitionAllowed, AP!BM!transitionAllowed, A!BM!isLegalTransition,
     AP!BM!isLegalTransition, A!BM!free, AP!BM!free
<1>5. A!finishEvict => AP!finishEvict
  BY Zenon DEF
     A!finishEvict, AP!finishEvict, A!BM!freeBlock, AP!BM!freeBlock, A!PM!remove,
     AP!PM!remove, A!NoSlot, AP!NoSlot, A!NoPath, AP!NoPath, A!Slots, AP!Slots,
     A!bmVars, AP!bmVars, A!pmVars, AP!pmVars, A!tmVars, AP!tmVars,
     A!BM!transitionState, AP!BM!transitionState, A!BM!transitionAllowed,
     AP!BM!transitionAllowed, A!BM!isLegalTransition, AP!BM!isLegalTransition,
     A!BM!free, AP!BM!free, WithTiers
<1>6. A!create => AP!create
  BY Zenon DEF
     A!create, AP!create, A!placeFits, AP!placeFits, A!allBlocks, AP!allBlocks,
     A!contentHash, AP!contentHash, A!Idle, AP!Idle, A!Slots, AP!Slots, A!NoSlot,
     AP!NoSlot, A!BM!available, AP!BM!available, A!BM!createBlock, AP!BM!createBlock,
     A!BM!allocate, AP!BM!allocate, A!BM!allocated, AP!BM!allocated,
     A!BM!allocatedGeneration, AP!BM!allocatedGeneration, A!BM!initialize,
     AP!BM!initialize, A!PM!insert, AP!PM!insert, A!PM!Gaps, AP!PM!Gaps, A!PM!Prefix,
     AP!PM!Prefix, A!bmVars, AP!bmVars, A!pmVars, AP!pmVars, A!tmVars, AP!tmVars,
     WithTiers
<1>7. /\ (A!ready => AP!ready)
      /\ (A!admitted => AP!admitted)
  BY Zenon DEF
     A!ready, AP!ready, A!admitted, AP!admitted, A!Idle, AP!Idle, A!FreeHandles,
     AP!FreeHandles, A!NoSlot, AP!NoSlot, A!BM!acquire, AP!BM!acquire, A!BM!Acquirable,
     AP!BM!Acquirable, A!BM!pinInto, AP!BM!pinInto, A!BM!Touched, AP!BM!Touched,
     A!BM!NoSlot, AP!BM!NoSlot, A!bmVars, AP!bmVars, A!pmVars, AP!pmVars, A!tmVars,
     AP!tmVars, A!BM!transitionState, AP!BM!transitionState, A!BM!transitionAllowed,
     AP!BM!transitionAllowed, A!BM!isLegalTransition, AP!BM!isLegalTransition,
     A!BM!free, AP!BM!free
<1>8. /\ (\A h, s, g : A!getBlock(h, s, g) => AP!getBlock(h, s, g))
      /\ (\A s, g : A!serveBlockFetch(s, g) => AP!serveBlockFetch(s, g))
      /\ (\A h : A!releaseHandle(h) => AP!releaseHandle(h))
  BY Zenon DEF
     A!getBlock, AP!getBlock, A!serveBlockFetch, AP!serveBlockFetch, A!releaseHandle,
     AP!releaseHandle, A!Idle, AP!Idle, A!BM!fetchLocal, AP!BM!fetchLocal,
     A!BM!fetchLocalStatus, AP!BM!fetchLocalStatus, A!BM!pinInto, AP!BM!pinInto,
     A!BM!Touched, AP!BM!Touched, A!BM!Slots, AP!BM!Slots, A!BM!NoSlot, AP!BM!NoSlot,
     A!BM!markAccessed, AP!BM!markAccessed, A!BM!releaseHandle, AP!BM!releaseHandle,
     A!bmVars, AP!bmVars, A!pmVars, AP!pmVars, A!tmVars, AP!tmVars
<1>9. /\ (\A m : A!promotionScan(m) => AP!promotionScan(m))
      /\ (\A m : A!demotionScan(m) => AP!demotionScan(m))
      /\ (A!advanceNs => AP!advanceNs)
  BY Zenon DEF
     A!promotionScan, AP!promotionScan, A!demotionScan, AP!demotionScan, A!advanceNs,
     AP!advanceNs, A!BM!advanceNs, AP!BM!advanceNs, A!bmVars, AP!bmVars, A!pmVars,
     AP!pmVars, A!tmVars, AP!tmVars, WithTiers
<1>10. A!Init => AP!Init
  BY Zenon DEF
     A!Init, AP!Init, A!BM!Init, AP!BM!Init, A!BM!poolInit, AP!BM!poolInit,
     A!BM!storeInit, AP!BM!storeInit, A!BM!Slots, AP!BM!Slots, A!BM!NoSlot,
     AP!BM!NoSlot, A!NoHash, AP!NoHash, A!PM!Init, AP!PM!Init, A!TM!Init, AP!TM!Init,
     A!TM!Tiers, AP!TM!Tiers, A!TM!INVALID, AP!TM!INVALID, A!TM!initialFreeList,
     AP!TM!initialFreeList, A!Idle, AP!Idle, A!Slots, AP!Slots, A!NoSlot, AP!NoSlot,
     A!NoPath, AP!NoPath
<1> QED
  BY <1>1, <1>2, <1>3, <1>4, <1>5, <1>6, <1>7, <1>8, <1>9, <1>10
     DEF A!Next, AP!Next, A!callStep, AP!callStep, A!Slots, AP!Slots

AInv == AP!BaseInv /\ AP!NamesInv

LEMMA InvariantOfA ==
    /\ A!Init => AInv
    /\ AInv /\ [A!Next]_(A!vars) => AInv' /\ NamesKept(a_records, a_records')
<1>1. AP!Init => AInv
  BY AP!BaseInit, AP!NamesInit, ConstantsA, Zenon DEF AInv
<1>2. AInv /\ [AP!Next]_(AP!vars) => AInv' /\ AP!NamesKept
  BY AP!BaseNext, AP!NamesNext, ConstantsA, Zenon DEF AInv
<1>3. AP!NamesKept => NamesKept(a_records, a_records')
  BY DEF AP!NamesKept, AP!SameBlock, AP!Slots, Slots, NamesKept
<1>4. A!vars = AP!vars /\ A!vars' = AP!vars'
  BY DEF A!vars, AP!vars
<1> QED
  BY <1>1, <1>2, <1>3, <1>4, SameWorkerA

\* What the request needs to know of worker a
LEMMA FactsOfA ==
    ASSUME AInv
    PROVE  /\ a_call \in A!Calls
           /\ \A s \in Slots :
                 /\ a_records[s].generation \in 0 .. MaxGeneration
                 /\ a_records[s].generation # 0 =>
                       a_kv[s] \in Paths /\ a_records[s].hash = A!contentHash(a_kv[s])
           /\ a_call.pc \in {"ready", "acquire"} =>
                 /\ a_call.id \in Slots
                 /\ a_records[a_call.id].generation # 0 /\ a_kv[a_call.id] = a_call.path
           /\ \A p \in Paths : /\ A!PM!lookup(p) \in Seq(Slots)
                               /\ Len(A!PM!lookup(p)) \in 0 .. Len(p)
<1>1. /\ a_call \in AP!Calls /\ AP!PM!TypeOK
      /\ \A s \in AP!Slots :
            /\ a_records[s].generation \in 0 .. MaxGeneration
            /\ a_records[s].generation # 0 =>
                  a_kv[s] \in Paths /\ a_records[s].hash = AP!contentHash(a_kv[s])
      /\ a_call.pc \in {"ready", "acquire"} =>
            /\ a_call.id \in AP!Slots
            /\ a_records[a_call.id].generation # 0 /\ a_kv[a_call.id] = a_call.path
  BY AP!NamesFacts, ConstantsA, Zenon DEF AInv
<1>2. \A p \in Paths : AP!PM!lookup(p) \in Seq(AP!Slots) /\ Len(AP!PM!lookup(p)) \in 0 .. Len(p)
  BY <1>1, AP!LookupFacts, ConstantsA, Zenon
<1>3. /\ AP!Calls = A!Calls /\ AP!Slots = Slots
      /\ \A p : AP!contentHash(p) = A!contentHash(p) /\ AP!PM!lookup(p) = A!PM!lookup(p)
  BY DEF AP!Calls, A!Calls, AP!Idle, A!Idle, AP!TM!Tiers, A!TM!Tiers, AP!Slots, A!Slots,
         Slots, AP!contentHash, A!contentHash, AP!PM!lookup, A!PM!lookup,
         AP!PM!matchedBlocks, A!PM!matchedBlocks, AP!PM!Contiguous, A!PM!Contiguous,
         AP!PM!Prefix, A!PM!Prefix, AP!NoSlot, A!NoSlot
<1> QED
  BY <1>1, <1>2, <1>3

\* What is used of worker a's invariant
LEMMA ViewsFactsA ==
    ASSUME AInv
    PROVE  /\ AView /\ \A p \in Paths : FoundAt(a_terminals, p, A!PM!lookup(p))
           /\ A!BM!TypeOK /\ A!PM!TypeOK
<1>1. /\ AP!BM!BlockRecord = A!BM!BlockRecord
      /\ \A p : AP!PM!lookup(p) = A!PM!lookup(p)
      /\ AP!BM!TypeOK => A!BM!TypeOK
      /\ AP!PM!TypeOK => A!PM!TypeOK
  BY DEF AP!BM!BlockRecord, A!BM!BlockRecord, AP!BM!States, A!BM!States, AP!Hashes, A!Hashes,
         AP!contentHash, A!contentHash, AP!NoHash, A!NoHash, AP!PM!lookup, A!PM!lookup,
         AP!PM!matchedBlocks, A!PM!matchedBlocks, AP!PM!Contiguous, A!PM!Contiguous,
         AP!PM!Prefix, A!PM!Prefix, AP!NoSlot, A!NoSlot,
         AP!BM!TypeOK, A!BM!TypeOK, AP!BM!Slots, A!BM!Slots, AP!BM!NoSlot, A!BM!NoSlot,
         AP!PM!TypeOK, A!PM!TypeOK, AP!Slots, A!Slots, AP!NoPath, A!NoPath
<1>2. AP!BaseInv
  BY DEF AInv
<1> QED
  BY <1>1, <1>2, AP!CacheFacts, ConstantsA, Zenon
     DEF AView, ViewOf, FoundAt, Slots, NoSlot, A!NoPath

AIndexed == AP!TierPart /\ AP!IndexPart /\ AP!OnlyTheCall

LEMMA IndexInA == AInv /\ AIndexed => IndexOf("a")
<1>1. AInv /\ AIndexed => IndexAt(a_records, a_terminals, a_block_node, a_kv, a_call)
  BY AP!IndexFacts, ConstantsA, Zenon DEF AInv, AIndexed, IndexAt, Slots, NoSlot, A!NoPath
<1> QED
  BY <1>1, IndexedFrom

\* The index of worker a matches its store, as long as no eviction takes a block of the
\* chain that is being extended.
LEMMA IndexedOfA ==
    /\ A!Init => AIndexed
    /\ AInv /\ AIndexed /\ [A!Next]_(A!vars)
         /\ (A!finishEvict => OffChain(a_terminals, a_call)) => AIndexed'
<1>0. AP!EnoughPayloads
  BY DEF AP!EnoughPayloads, MetadataOnly
<1>1. AP!Init => AIndexed
  BY AP!TierInit, AP!IndexInit, AP!OnlyTheCallInit, ConstantsA, Zenon DEF AIndexed
<1>2. ASSUME AP!BaseInv, AIndexed, [AP!Next]_(AP!vars),
             AP!finishEvict => AP!VictimOffChain
      PROVE  AIndexed'
  <2>1. AP!TierPart'
    BY <1>2, AP!TierNext, ConstantsA, Zenon DEF AIndexed
  <2>2. AP!IndexPart'
    BY <1>2, AP!IndexNext, ConstantsA, Zenon DEF AIndexed, AP!IndexedInv
  <2>3. AP!OnlyTheCall'
    BY <1>0, <1>2, AP!OnlyTheCallNext, ConstantsA, Zenon DEF AIndexed
  <2> QED
    BY <2>1, <2>2, <2>3 DEF AIndexed
<1>3. AP!finishEvict => A!finishEvict
  BY DEF A!finishEvict, AP!finishEvict, A!BM!freeBlock, AP!BM!freeBlock, A!PM!remove,
         AP!PM!remove, A!NoSlot, AP!NoSlot, A!NoPath, AP!NoPath, A!Slots, AP!Slots,
         A!bmVars, AP!bmVars, A!pmVars, AP!pmVars, A!tmVars, AP!tmVars,
         A!BM!transitionState, AP!BM!transitionState, A!BM!transitionAllowed,
         AP!BM!transitionAllowed, A!BM!isLegalTransition, AP!BM!isLegalTransition,
         A!BM!free, AP!BM!free, WithTiers
<1>4. A!vars = AP!vars /\ A!vars' = AP!vars'
  BY DEF A!vars, AP!vars
<1>5. OffChain(a_terminals, a_call) => AP!VictimOffChain
  BY DEF OffChain, AP!VictimOffChain, AP!PM!Prefix
<1> QED
  BY <1>1, <1>2, <1>3, <1>4, <1>5, SameWorkerA DEF AInv

-----------------------------------------------------------------------------
(* Worker b is the cache that LocalCacheProofs is about, step by step. *)

BP == INSTANCE LocalCacheProofs WITH
        free_list <- b_free_list, generations <- b_generations, in_use <- b_in_use,
        records <- b_records, handles <- b_handles, terminals <- b_terminals,
        block_node <- b_block_node, call <- b_call, kv <- b_kv

\* What LocalCacheProofs requires
LEMMA ConstantsB ==
    /\ Capacity \in Nat
    /\ BP!IsFiniteSet(Handles)
    /\ MaxGeneration \in Nat /\ MaxTime \in Nat
    /\ Paths \subseteq Seq(UNION {{p[i] : i \in 1 .. Len(p)} : p \in Paths})
    /\ \A p \in Paths : Len(p) > 0
    /\ \A p \in Paths : \A i \in 1 .. Len(p) : SubSeq(p, 1, i) \in Paths
    /\ TierCapacity \in [BP!TM!Tiers -> Nat]
    /\ MaxPayloads \in Nat /\ MetadataOnly \in BOOLEAN
    /\ EvictionPolicy \in {"lru", "no_eviction", "any"}
    /\ WithTiers \in BOOLEAN /\ PinAncestors \in BOOLEAN
<1>1. BP!IsFiniteSet(Handles)
  BY HandlesAssumption DEF IsFiniteSet, BP!IsFiniteSet
<1> QED
  BY <1>1, GenerationBound, CapacityAssumption, PathsAssumption, PolicyAssumption
     DEF MaxTime, TierCapacity, BP!TM!Tiers, MaxPayloads, MetadataOnly, WithTiers, PinAncestors

LEMMA SameWorkerB == (B!Init => BP!Init) /\ (B!Next => BP!Next)
<1>0. \A S : B!Cardinality(S) = BP!Cardinality(S)
  BY DEF B!Cardinality, BP!Cardinality
<1>1. \A p : B!lookupPrefix(p) => BP!lookupPrefix(p)
  BY <1>0, Zenon DEF
     B!lookupPrefix, BP!lookupPrefix, B!Idle, BP!Idle, B!FreeHandles, BP!FreeHandles,
     B!PM!lookup, BP!PM!lookup, B!PM!matchedBlocks, BP!PM!matchedBlocks,
     B!PM!Contiguous, BP!PM!Contiguous, B!PM!Prefix, BP!PM!Prefix, B!NoSlot, BP!NoSlot,
     B!Slots, BP!Slots, B!bmVars, BP!bmVars, B!pmVars, BP!pmVars, B!tmVars, BP!tmVars
<1>2. \A p : B!admit(p) => BP!admit(p)
  BY Zenon DEF
     B!admit, BP!admit, B!Idle, BP!Idle, B!FreeHandles, BP!FreeHandles, B!admitStatus,
     BP!admitStatus, B!existingBlocks, BP!existingBlocks, B!chooseTier, BP!chooseTier,
     B!spaceNeeded, BP!spaceNeeded, B!BM!available, BP!BM!available, B!PM!Parent,
     BP!PM!Parent, B!PM!lookup, BP!PM!lookup, B!PM!matchedBlocks, BP!PM!matchedBlocks,
     B!PM!Contiguous, BP!PM!Contiguous, B!PM!Prefix, BP!PM!Prefix, B!NoSlot, BP!NoSlot,
     B!Slots, BP!Slots, B!bmVars, BP!bmVars, B!pmVars, BP!pmVars, B!tmVars, BP!tmVars,
     WithTiers, PinAncestors
<1>3. B!lookupStep => BP!lookupStep
  BY Zenon DEF
     B!lookupStep, BP!lookupStep, B!Idle, BP!Idle, B!FreeHandles, BP!FreeHandles,
     B!NoSlot, BP!NoSlot, B!BM!acquire, BP!BM!acquire, B!BM!Acquirable,
     BP!BM!Acquirable, B!BM!pinInto, BP!BM!pinInto, B!BM!Touched, BP!BM!Touched,
     B!BM!NoSlot, BP!BM!NoSlot, B!bmVars, BP!bmVars, B!pmVars, BP!pmVars, B!tmVars,
     BP!tmVars
<1>4. /\ (B!insufficientCandidates => BP!insufficientCandidates)
      /\ (\A v : B!beginEvict(v) => BP!beginEvict(v))
  BY Zenon DEF
     B!insufficientCandidates, BP!insufficientCandidates, B!beginEvict, BP!beginEvict,
     B!chooseVictim, BP!chooseVictim, B!lruVictims, BP!lruVictims, B!candidates,
     BP!candidates, B!Idle, BP!Idle, B!Slots, BP!Slots, B!bmVars, BP!bmVars, B!pmVars,
     BP!pmVars, B!tmVars, BP!tmVars, B!BM!transitionState, BP!BM!transitionState,
     B!BM!transitionAllowed, BP!BM!transitionAllowed, B!BM!isLegalTransition,
     BP!BM!isLegalTransition, B!BM!free, BP!BM!free
<1>5. B!finishEvict => BP!finishEvict
  BY Zenon DEF
     B!finishEvict, BP!finishEvict, B!BM!freeBlock, BP!BM!freeBlock, B!PM!remove,
     BP!PM!remove, B!NoSlot, BP!NoSlot, B!NoPath, BP!NoPath, B!Slots, BP!Slots,
     B!bmVars, BP!bmVars, B!pmVars, BP!pmVars, B!tmVars, BP!tmVars,
     B!BM!transitionState, BP!BM!transitionState, B!BM!transitionAllowed,
     BP!BM!transitionAllowed, B!BM!isLegalTransition, BP!BM!isLegalTransition,
     B!BM!free, BP!BM!free, WithTiers
<1>6. B!create => BP!create
  BY Zenon DEF
     B!create, BP!create, B!placeFits, BP!placeFits, B!allBlocks, BP!allBlocks,
     B!contentHash, BP!contentHash, B!Idle, BP!Idle, B!Slots, BP!Slots, B!NoSlot,
     BP!NoSlot, B!BM!available, BP!BM!available, B!BM!createBlock, BP!BM!createBlock,
     B!BM!allocate, BP!BM!allocate, B!BM!allocated, BP!BM!allocated,
     B!BM!allocatedGeneration, BP!BM!allocatedGeneration, B!BM!initialize,
     BP!BM!initialize, B!PM!insert, BP!PM!insert, B!PM!Gaps, BP!PM!Gaps, B!PM!Prefix,
     BP!PM!Prefix, B!bmVars, BP!bmVars, B!pmVars, BP!pmVars, B!tmVars, BP!tmVars,
     WithTiers
<1>7. /\ (B!ready => BP!ready)
      /\ (B!admitted => BP!admitted)
  BY Zenon DEF
     B!ready, BP!ready, B!admitted, BP!admitted, B!Idle, BP!Idle, B!FreeHandles,
     BP!FreeHandles, B!NoSlot, BP!NoSlot, B!BM!acquire, BP!BM!acquire, B!BM!Acquirable,
     BP!BM!Acquirable, B!BM!pinInto, BP!BM!pinInto, B!BM!Touched, BP!BM!Touched,
     B!BM!NoSlot, BP!BM!NoSlot, B!bmVars, BP!bmVars, B!pmVars, BP!pmVars, B!tmVars,
     BP!tmVars, B!BM!transitionState, BP!BM!transitionState, B!BM!transitionAllowed,
     BP!BM!transitionAllowed, B!BM!isLegalTransition, BP!BM!isLegalTransition,
     B!BM!free, BP!BM!free
<1>8. /\ (\A h, s, g : B!getBlock(h, s, g) => BP!getBlock(h, s, g))
      /\ (\A s, g : B!serveBlockFetch(s, g) => BP!serveBlockFetch(s, g))
      /\ (\A h : B!releaseHandle(h) => BP!releaseHandle(h))
  BY Zenon DEF
     B!getBlock, BP!getBlock, B!serveBlockFetch, BP!serveBlockFetch, B!releaseHandle,
     BP!releaseHandle, B!Idle, BP!Idle, B!BM!fetchLocal, BP!BM!fetchLocal,
     B!BM!fetchLocalStatus, BP!BM!fetchLocalStatus, B!BM!pinInto, BP!BM!pinInto,
     B!BM!Touched, BP!BM!Touched, B!BM!Slots, BP!BM!Slots, B!BM!NoSlot, BP!BM!NoSlot,
     B!BM!markAccessed, BP!BM!markAccessed, B!BM!releaseHandle, BP!BM!releaseHandle,
     B!bmVars, BP!bmVars, B!pmVars, BP!pmVars, B!tmVars, BP!tmVars
<1>9. /\ (\A m : B!promotionScan(m) => BP!promotionScan(m))
      /\ (\A m : B!demotionScan(m) => BP!demotionScan(m))
      /\ (B!advanceNs => BP!advanceNs)
  BY Zenon DEF
     B!promotionScan, BP!promotionScan, B!demotionScan, BP!demotionScan, B!advanceNs,
     BP!advanceNs, B!BM!advanceNs, BP!BM!advanceNs, B!bmVars, BP!bmVars, B!pmVars,
     BP!pmVars, B!tmVars, BP!tmVars, WithTiers
<1>10. B!Init => BP!Init
  BY Zenon DEF
     B!Init, BP!Init, B!BM!Init, BP!BM!Init, B!BM!poolInit, BP!BM!poolInit,
     B!BM!storeInit, BP!BM!storeInit, B!BM!Slots, BP!BM!Slots, B!BM!NoSlot,
     BP!BM!NoSlot, B!NoHash, BP!NoHash, B!PM!Init, BP!PM!Init, B!TM!Init, BP!TM!Init,
     B!TM!Tiers, BP!TM!Tiers, B!TM!INVALID, BP!TM!INVALID, B!TM!initialFreeList,
     BP!TM!initialFreeList, B!Idle, BP!Idle, B!Slots, BP!Slots, B!NoSlot, BP!NoSlot,
     B!NoPath, BP!NoPath
<1> QED
  BY <1>1, <1>2, <1>3, <1>4, <1>5, <1>6, <1>7, <1>8, <1>9, <1>10
     DEF B!Next, BP!Next, B!callStep, BP!callStep, B!Slots, BP!Slots

BInv == BP!BaseInv /\ BP!NamesInv

LEMMA InvariantOfB ==
    /\ B!Init => BInv
    /\ BInv /\ [B!Next]_(B!vars) => BInv' /\ NamesKept(b_records, b_records')
<1>1. BP!Init => BInv
  BY BP!BaseInit, BP!NamesInit, ConstantsB, Zenon DEF BInv
<1>2. BInv /\ [BP!Next]_(BP!vars) => BInv' /\ BP!NamesKept
  BY BP!BaseNext, BP!NamesNext, ConstantsB, Zenon DEF BInv
<1>3. BP!NamesKept => NamesKept(b_records, b_records')
  BY DEF BP!NamesKept, BP!SameBlock, BP!Slots, Slots, NamesKept
<1>4. B!vars = BP!vars /\ B!vars' = BP!vars'
  BY DEF B!vars, BP!vars
<1> QED
  BY <1>1, <1>2, <1>3, <1>4, SameWorkerB

\* What the request needs to know of worker b
LEMMA FactsOfB ==
    ASSUME BInv
    PROVE  /\ b_call \in A!Calls
           /\ \A s \in Slots :
                 /\ b_records[s].generation \in 0 .. MaxGeneration
                 /\ b_records[s].generation # 0 =>
                       b_kv[s] \in Paths /\ b_records[s].hash = A!contentHash(b_kv[s])
           /\ b_call.pc \in {"ready", "acquire"} =>
                 /\ b_call.id \in Slots
                 /\ b_records[b_call.id].generation # 0 /\ b_kv[b_call.id] = b_call.path
           /\ \A p \in Paths : /\ B!PM!lookup(p) \in Seq(Slots)
                               /\ Len(B!PM!lookup(p)) \in 0 .. Len(p)
<1>1. /\ b_call \in BP!Calls /\ BP!PM!TypeOK
      /\ \A s \in BP!Slots :
            /\ b_records[s].generation \in 0 .. MaxGeneration
            /\ b_records[s].generation # 0 =>
                  b_kv[s] \in Paths /\ b_records[s].hash = BP!contentHash(b_kv[s])
      /\ b_call.pc \in {"ready", "acquire"} =>
            /\ b_call.id \in BP!Slots
            /\ b_records[b_call.id].generation # 0 /\ b_kv[b_call.id] = b_call.path
  BY BP!NamesFacts, ConstantsB, Zenon DEF BInv
<1>2. \A p \in Paths : BP!PM!lookup(p) \in Seq(BP!Slots) /\ Len(BP!PM!lookup(p)) \in 0 .. Len(p)
  BY <1>1, BP!LookupFacts, ConstantsB, Zenon
<1>3. /\ BP!Calls = A!Calls /\ BP!Slots = Slots
      /\ \A p : BP!contentHash(p) = A!contentHash(p) /\ BP!PM!lookup(p) = B!PM!lookup(p)
  BY DEF BP!Calls, A!Calls, BP!Idle, A!Idle, BP!TM!Tiers, A!TM!Tiers, BP!Slots, A!Slots,
         Slots, BP!contentHash, A!contentHash, BP!PM!lookup, B!PM!lookup,
         BP!PM!matchedBlocks, B!PM!matchedBlocks, BP!PM!Contiguous, B!PM!Contiguous,
         BP!PM!Prefix, B!PM!Prefix, BP!NoSlot, B!NoSlot
<1> QED
  BY <1>1, <1>2, <1>3

\* What is used of worker b's invariant
LEMMA ViewsFactsB ==
    ASSUME BInv
    PROVE  /\ BView /\ \A p \in Paths : FoundAt(b_terminals, p, B!PM!lookup(p))
           /\ B!BM!TypeOK /\ B!PM!TypeOK
<1>1. /\ BP!BM!BlockRecord = A!BM!BlockRecord
      /\ \A p : BP!PM!lookup(p) = B!PM!lookup(p)
      /\ BP!BM!TypeOK => B!BM!TypeOK
      /\ BP!PM!TypeOK => B!PM!TypeOK
  BY DEF BP!BM!BlockRecord, A!BM!BlockRecord, BP!BM!States, A!BM!States, BP!Hashes, A!Hashes,
         BP!contentHash, A!contentHash, BP!NoHash, A!NoHash, BP!PM!lookup, B!PM!lookup,
         BP!PM!matchedBlocks, B!PM!matchedBlocks, BP!PM!Contiguous, B!PM!Contiguous,
         BP!PM!Prefix, B!PM!Prefix, BP!NoSlot, B!NoSlot,
         BP!BM!TypeOK, B!BM!TypeOK, BP!BM!Slots, B!BM!Slots, BP!BM!NoSlot, B!BM!NoSlot,
         B!BM!BlockRecord, B!BM!States, B!Hashes, B!contentHash, B!NoHash,
         BP!PM!TypeOK, B!PM!TypeOK, BP!Slots, B!Slots, BP!NoPath, B!NoPath
<1>2. BP!BaseInv
  BY DEF BInv
<1> QED
  BY <1>1, <1>2, BP!CacheFacts, ConstantsB, Zenon
     DEF BView, ViewOf, FoundAt, Slots, NoSlot, A!NoPath

BIndexed == BP!TierPart /\ BP!IndexPart /\ BP!OnlyTheCall

LEMMA IndexInB == BInv /\ BIndexed => IndexOf("b")
<1>1. BInv /\ BIndexed => IndexAt(b_records, b_terminals, b_block_node, b_kv, b_call)
  BY BP!IndexFacts, ConstantsB, Zenon DEF BInv, BIndexed, IndexAt, Slots, NoSlot, A!NoPath
<1> QED
  BY <1>1, IndexedFrom

\* The index of worker b matches its store, as long as no eviction takes a block of the
\* chain that is being extended.
LEMMA IndexedOfB ==
    /\ B!Init => BIndexed
    /\ BInv /\ BIndexed /\ [B!Next]_(B!vars)
         /\ (B!finishEvict => OffChain(b_terminals, b_call)) => BIndexed'
<1>0. BP!EnoughPayloads
  BY DEF BP!EnoughPayloads, MetadataOnly
<1>1. BP!Init => BIndexed
  BY BP!TierInit, BP!IndexInit, BP!OnlyTheCallInit, ConstantsB, Zenon DEF BIndexed
<1>2. ASSUME BP!BaseInv, BIndexed, [BP!Next]_(BP!vars),
             BP!finishEvict => BP!VictimOffChain
      PROVE  BIndexed'
  <2>1. BP!TierPart'
    BY <1>2, BP!TierNext, ConstantsB, Zenon DEF BIndexed
  <2>2. BP!IndexPart'
    BY <1>2, BP!IndexNext, ConstantsB, Zenon DEF BIndexed, BP!IndexedInv
  <2>3. BP!OnlyTheCall'
    BY <1>0, <1>2, BP!OnlyTheCallNext, ConstantsB, Zenon DEF BIndexed
  <2> QED
    BY <2>1, <2>2, <2>3 DEF BIndexed
<1>3. BP!finishEvict => B!finishEvict
  BY DEF B!finishEvict, BP!finishEvict, B!BM!freeBlock, BP!BM!freeBlock, B!PM!remove,
         BP!PM!remove, B!NoSlot, BP!NoSlot, B!NoPath, BP!NoPath, B!Slots, BP!Slots,
         B!bmVars, BP!bmVars, B!pmVars, BP!pmVars, B!tmVars, BP!tmVars,
         B!BM!transitionState, BP!BM!transitionState, B!BM!transitionAllowed,
         BP!BM!transitionAllowed, B!BM!isLegalTransition, BP!BM!isLegalTransition,
         B!BM!free, BP!BM!free, WithTiers
<1>4. B!vars = BP!vars /\ B!vars' = BP!vars'
  BY DEF B!vars, BP!vars
<1>5. OffChain(b_terminals, b_call) => BP!VictimOffChain
  BY DEF OffChain, BP!VictimOffChain, BP!PM!Prefix
<1> QED
  BY <1>1, <1>2, <1>3, <1>4, <1>5, SameWorkerB DEF BInv

-----------------------------------------------------------------------------
(* The theorems *)

LEMMA WorkersFacts == AInv /\ BInv => WorkersInv
<1> SUFFICES ASSUME AInv, BInv, NEW node \in Nodes
             PROVE  WorkersInv!(node)
  BY DEF WorkersInv
<1>1. CASE node = "a"
  BY <1>1, FactsOfA DEF callOf, recordsOf, kvOf, found, Of
<1>2. CASE node = "b"
  BY <1>2, FactsOfB DEF callOf, recordsOf, kvOf, found, Of
<1> QED
  BY <1>1, <1>2 DEF Nodes

LEMMA WorkersFactsNext == AInv' /\ BInv' => WorkersInv'
  BY WorkersFacts, PTL

IInv == AInv /\ BInv /\ CoordInv /\ ReqInv /\ ReferenceNamesItsBlock

LEMMA InitIInv == Init => IInv
<1> SUFFICES ASSUME Init
             PROVE  IInv
  OBVIOUS
<1>1. AInv /\ BInv
  BY InvariantOfA, InvariantOfB DEF Init
<1> QED
  BY <1>1, InitialParts DEF IInv

LEMMA IInvStep ==
    ASSUME IInv, [Next]_vars
    PROVE  GoodStep /\ IInv'
<1>1. WorkersInv /\ PartsInv
  BY WorkersFacts DEF IInv, PartsInv, CoordInv
<1>2. CacheSteps => /\ AInv' /\ BInv'
                    /\ \A node \in Nodes : NamesKept(recordsOf(node), recordsOf(node)')
  <2>1. CacheSteps => /\ AInv' /\ NamesKept(a_records, a_records')
                      /\ BInv' /\ NamesKept(b_records, b_records')
    BY InvariantOfA, InvariantOfB DEF IInv, CacheSteps
  <2> QED
    BY <2>1, Standing
<1>3. GoodStep
  BY <1>1, <1>2, EveryStep DEF WorkersKeepNames
<1>4. AInv' /\ BInv' /\ ReqInv' /\ CoordStep
      /\ \A node \in Nodes : NamesKept(recordsOf(node), recordsOf(node)')
  BY <1>2, <1>3 DEF GoodStep
<1>5. CoordInv' /\ ReferenceNamesItsBlock'
  BY <1>1, <1>4, WorkersFactsNext, NamesStay DEF IInv
<1> QED
  BY <1>3, <1>4, <1>5 DEF IInv

LEMMA Invariant == Spec => []IInv
<1>1. IInv /\ [Next]_vars => IInv'
  BY IInvStep
<1> QED
  BY <1>1, InitIInv, PTL DEF Spec

\* However admissions, evictions, announcements and fetches of the two workers are
\* interleaved, and whatever nodes leave and join: a reference of the global index
\* (GlobalIndex::announce) names the block it was announced for or a generation that
\* its worker has left behind, never another block (InprocTransport::fetchBlock).
THEOREM ReferencesNameTheirBlock == Spec => []ReferenceNamesItsBlock
<1>1. IInv => ReferenceNamesItsBlock
  BY DEF IInv
<1> QED
  BY <1>1, Invariant, PTL

\* The pipeline calls its caches and the coordinator as they allow: to each worker,
\* every step of the cluster is a step of LocalCache or none, and to the coordinator
\* one of its calls or none.
THEOREM ClusterUsesItsParts ==
    Spec => /\ A!Init /\ [][A!Next]_(A!vars)
            /\ B!Init /\ [][B!Next]_(B!vars)
            /\ [][C!Next]_(C!coordVars)
<1>1. IInv /\ [Next]_vars =>
         [A!Next]_(A!vars) /\ [B!Next]_(B!vars) /\ [C!Next]_(C!coordVars)
  <2> SUFFICES ASSUME IInv, [Next]_vars
               PROVE  CacheSteps /\ [C!Next]_(C!coordVars)
    BY DEF CacheSteps
  <2>1. CacheSteps /\ CoordStep
    BY IInvStep DEF GoodStep
  <2> QED
    BY <2>1 DEF CoordStep, C!Next, C!coordVars, coordVars
<1>2. Init => A!Init /\ B!Init
  BY DEF Init
<1> QED
  BY <1>1, <1>2, Invariant, PTL DEF Spec

\* RemoteBlockFetcher compares the hash of what it fetched with the one it asked
\* for; a HashMismatch never happens.
THEOREM FetchesNeverMismatch == Spec => []~Fetching("HashMismatch")
<1>1. IInv => ~Fetching("HashMismatch")
  BY WorkersFacts, NoMismatch DEF IInv, PartsInv, CoordInv
<1> QED
  BY <1>1, Invariant, PTL

\* A fetch that succeeds brings the KV state of the request's own prefix where the
\* content hashes tell the prefixes apart: the reference may be to any of the blocks
\* that the slot has held, but the one that is served is of this prefix.
THEOREM FetchesBringOwnState ==
    ASSUME \A p, q \in Paths : A!contentHash(p) = A!contentHash(q) => p = q
    PROVE  Spec => FetchedStateIsOwn
<1>1. IInv /\ [Next]_vars =>
         [(req.pc = "resolve" /\ req'.pc = "resolve") =>
              kvOf(chosen.node_id)[chosen.block_id] = Path(missing)]_vars
  BY WorkersFacts, FetchIsOwn DEF IInv, PartsInv, CoordInv
<1> QED
  BY <1>1, Invariant, PTL DEF Spec, FetchedStateIsOwn

-----------------------------------------------------------------------------
(* The benchmark: its invariant, and what follows from it *)

LEMMA ViewsFacts == AInv /\ BInv => ViewsInv /\ FoundInv /\ InUseInv
  BY ViewsFactsA, ViewsFactsB, ViewsFrom

BenchInv == IInv /\ BenchPart

LEMMA BenchKnown == BenchInv => Known /\ CoordInv
  BY WorkersFacts, ViewsFacts DEF BenchInv, IInv, CoordInv, PartsInv, Known, BenchPart

LEMMA BenchInvStep ==
    ASSUME BenchInv, [BenchNext]_benchVars
    PROVE  BenchInv' /\ GoodStep /\ BenchDid /\ [Next]_vars
<1>1. BenchPart' /\ [Next]_vars /\ BenchDid
  BY BenchKnown, BenchPartNext, BenchStep DEF BenchInv
<1> QED
  BY <1>1, IInvStep DEF BenchInv

LEMMA BenchInvariant == BenchSpec => []BenchInv
<1>1. BenchInv /\ [BenchNext]_benchVars => BenchInv'
  BY BenchInvStep
<1>2. BenchInit => BenchInv
  BY InitIInv, BenchPartInit DEF BenchInv, BenchInit
<1> QED
  BY <1>1, <1>2, PTL DEF BenchSpec

\* runBench and its policies only choose among what Cluster leaves open, the
\* requests, the workers and the victims: what holds of the cluster in every
\* behaviour holds of the benchmark.
THEOREM BenchImplementsCluster == BenchSpec => Init /\ [][Next]_vars
<1>1. BenchInv /\ [BenchNext]_benchVars => [Next]_vars
  BY BenchInvStep
<1>2. BenchInit => Init
  BY DEF BenchInit
<1> QED
  BY <1>1, <1>2, BenchInvariant, PTL DEF BenchSpec

\* The rigs of runBench, their counters and the stream keep their types.
THEOREM BenchTypesCorrect == BenchSpec => []BenchTypeOK
<1>1. BenchInv => BenchTypeOK
  BY ViewsFactsA, ViewsFactsB, FactsOfA, FactsOfB, TypesFrom DEF BenchInv, IInv, CoordInv
<1> QED
  BY <1>1, BenchInvariant, PTL

\* Between two requests the report of writeJsonOutput, the JSONL stream and the caches
\* agree, for every workload, policy and capacity: CountingTeeEventSink has counted as
\* many admissions without an eviction as the worker has blocks, and every remote hit
\* was fetched.
THEOREM CountersAlwaysAgree == BenchSpec => []CountersAgree
<1>1. BenchInv => CountersAgree
  BY BenchKnown, ReportAgrees DEF BenchInv
<1> QED
  BY <1>1, BenchInvariant, PTL

\* The hit rate that runBench reports never exceeds 1, whatever is fetched, evicted or
\* admitted twice: the last block of a request is new, so no stage finds it.
THEOREM HitRateIsAtMostOne ==
    BenchSpec => [](req = NoRequest =>
                       results.local_hits + results.remote_hits <= total_prefix_possible)
<1>1. BenchInv => (req = NoRequest =>
                      results.local_hits + results.remote_hits <= total_prefix_possible)
  BY BenchKnown, ReportAgrees DEF BenchInv
<1> QED
  BY <1>1, BenchInvariant, PTL

\* HashFirstBlockRoutingPolicy keeps a prefix on one worker, for every hash of the first
\* blocks: a worker only has prefixes that are routed to it, so nothing is fetched.
THEOREM HashRoutingIsLocal == BenchSpec => []HashRoutingStaysLocal
<1>1. BenchInv => HashRoutingStaysLocal
  BY BenchKnown, RoutedIsLocal DEF BenchInv, BenchPart
<1> QED
  BY <1>1, BenchInvariant, PTL

\* In the benchmark too a reference of the global index never names another block
\* than the one that was announced, and no fetch ends in HashMismatch.
THEOREM BenchReferencesNameTheirBlock ==
    BenchSpec => [](ReferenceNamesItsBlock /\ ~Fetching("HashMismatch"))
<1>1. BenchInv => ReferenceNamesItsBlock /\ ~Fetching("HashMismatch")
  BY WorkersFacts, NoMismatch DEF BenchInv, IInv, PartsInv, CoordInv
<1> QED
  BY <1>1, BenchInvariant, PTL

-----------------------------------------------------------------------------
(* The cluster as long as nothing was evicted *)

LEMMA IndexedFacts == AInv /\ BInv /\ AIndexed /\ BIndexed => Indexed
  BY IndexInA, IndexInB DEF Indexed, Nodes

LEMMA ViewsFactsNext == AInv' /\ BInv' => ViewsInv'
<1>1. AInv /\ BInv => ViewsInv
  BY ViewsFacts
<1> QED
  BY <1>1, PTL

\* The indexes keep matching the stores where no victim is on the chain that is extended.
LEMMA IndexedNext ==
    ASSUME IInv, AIndexed, BIndexed, GoodStep, IInv',
           A!finishEvict => OffChain(a_terminals, a_call),
           B!finishEvict => OffChain(b_terminals, b_call)
    PROVE  AIndexed' /\ BIndexed' /\ Indexed'
<1>1. AIndexed' /\ BIndexed'
  BY IndexedOfA, IndexedOfB DEF IInv, GoodStep, CacheSteps
<1>2. AInv' /\ BInv' /\ AIndexed' /\ BIndexed' => Indexed'
  BY IndexedFacts, PTL
<1> QED
  BY <1>1, <1>2 DEF IInv

\* The proofs of LocalCacheProofs about the index ask for pinned ancestors; as long as
\* nothing was evicted no victim can be an ancestor, and they hold here too.
KeptInv == IInv /\ (NothingEvicted => AIndexed /\ BIndexed /\ Unevicted)

LEMMA KeptInit == Init => KeptInv
<1> SUFFICES ASSUME Init
             PROVE  KeptInv
  OBVIOUS
<1>1. IInv /\ AIndexed /\ BIndexed
  BY InitIInv, IndexedOfA, IndexedOfB DEF Init
<1> QED
  BY <1>1, InitialParts DEF KeptInv

LEMMA KeptSeen == IInv => Seen /\ InUseInv
  BY WorkersFacts, ViewsFacts DEF IInv, CoordInv, PartsInv, Seen

LEMMA KeptNext ==
    ASSUME \A p, q \in Paths : A!contentHash(p) = A!contentHash(q) => p = q,
           KeptInv, [Next]_vars
    PROVE  KeptInv'
<1>1. Seen /\ InUseInv /\ ClusterDid
  BY KeptSeen, ClusterStep DEF KeptInv
<1>2. GoodStep /\ IInv' /\ ViewsInv'
  BY IInvStep, ViewsFactsNext DEF KeptInv, IInv
<1>3. ASSUME NothingEvicted'
      PROVE  AIndexed' /\ BIndexed' /\ Unevicted'
  <2>1. NothingEvicted /\ \A n \in Nodes : ~ Evicts(n)
    BY <1>1, <1>2, <1>3, NoEviction
  <2>2. AIndexed' /\ BIndexed' /\ Indexed'
    BY <1>1, <1>2, <2>1, NoFinish, IndexedNext DEF KeptInv
  <2> QED
    BY <1>1, <1>2, <2>1, <2>2, IndexedFacts, UnevictedNext DEF KeptInv, IInv
<1> QED
  BY <1>2, <1>3 DEF KeptInv

\* As long as no pool has freed a slot, the result of resolving a request (a lookup, the
\* fetches of what the coordinator knows, their admission) is the beginning of the
\* request, and ends where neither the worker nor the coordinator knows the next block,
\* or where the worker's pool is full: whatever requests the workers have served, in
\* every interleaving, and for every workload whose content hashes tell the prefixes
\* apart.
THEOREM RemoteReuseAlwaysComplete ==
    ASSUME \A p, q \in Paths : A!contentHash(p) = A!contentHash(q) => p = q
    PROVE  Spec => []RemoteReuseIsComplete
<1>1. KeptInv /\ [Next]_vars => KeptInv'
  BY KeptNext
<1>2. KeptInv => RemoteReuseIsComplete
  BY KeptSeen, IndexedFacts, CompleteNow, CompleteOtherwise DEF KeptInv, IInv
<1> QED
  BY <1>1, <1>2, KeptInit, PTL DEF Spec

-----------------------------------------------------------------------------
(* The benchmark with a shared prompt, and room for one request *)

\* No policy decides what is proved here: the request that makes space holds the prompt,
\* so the victims are blocks of other requests and the index keeps matching the store.
SharedInv == BenchInv /\ (Shared => AIndexed /\ BIndexed /\ SharedPart)

LEMMA SharedIsState ==
    ASSUME SharedInv, Shared
    PROVE  SharedState
<1>1. /\ AInv /\ BInv /\ AIndexed /\ BIndexed /\ SharedPart
      /\ BenchPart /\ ReferenceNamesItsBlock
  BY DEF SharedInv, BenchInv, IInv
<1> QED
  BY <1>1, BenchKnown, ViewsFacts, IndexedFacts DEF SharedInv, SharedState

LEMMA SharedInvStep ==
    ASSUME SharedInv, [BenchNext]_benchVars
    PROVE  SharedInv' /\ BenchDid /\ (Shared => SharedMoves)
<1>1. BenchInv' /\ GoodStep /\ BenchDid
  BY BenchInvStep DEF SharedInv
<1>2. ASSUME Shared
      PROVE  SharedMoves /\ AIndexed' /\ BIndexed'
  <2>1. SharedState
    BY <1>2, SharedIsState
  <2>2. AIndexed' /\ BIndexed' /\ Indexed'
    BY <1>1, <1>2, <2>1, OffPrompt, IndexedNext DEF SharedInv, BenchInv
  <2> QED
    BY <1>1, <2>1, <2>2, ViewsFactsNext DEF SharedMoves, BenchInv, IInv
<1> QED
  BY <1>1, <1>2, SharedStays, SharedNext DEF SharedInv

LEMMA SharedInvariant == BenchSpec => []SharedInv
<1>1. BenchInit => SharedInv
  <2>1. BenchInit => BenchInv
    BY InitIInv, BenchPartInit DEF BenchInv, BenchInit
  <2>2. BenchInit => AIndexed /\ BIndexed
    BY IndexedOfA, IndexedOfB DEF BenchInit, Init
  <2> QED
    BY <2>1, <2>2, SharedInit DEF SharedInv
<1>2. SharedInv /\ [BenchNext]_benchVars => SharedInv'
  BY SharedInvStep
<1> QED
  BY <1>1, <1>2, PTL DEF BenchSpec

\* The benchmark never reports more hits than were possible; and with a shared prompt,
\* and room for one request on each worker, it reports exactly those of a cache that
\* computes the prompt once: every later request finds it, on its own worker or the other
\* one, for every number of requests, prompt length, capacity, routing and eviction
\* policy, whatever was evicted in between.
THEOREM HitsAlwaysExact == BenchSpec => []HitsAreExact
<1>1. SharedInv => HitsAreExact
  BY BenchKnown, HitsFollow DEF SharedInv, BenchInv
<1> QED
  BY <1>1, SharedInvariant, PTL

\* Once a worker has a block of the shared prompt, the block stays where it is: no step
\* of the benchmark evicts or moves it.
THEOREM SharedPrefixAlwaysStays == BenchSpec => SharedPrefixStays
<1>1. SharedInv /\ [BenchNext]_benchVars => PromptStays
  BY BenchKnown, SharedInvStep, PromptFollows DEF SharedInv
<1>2. BenchSpec => [][PromptStays]_benchVars
  BY <1>1, SharedInvariant, PTL DEF BenchSpec
<1> QED
  BY <1>2 DEF SharedPrefixStays, PromptStays

=============================================================================
