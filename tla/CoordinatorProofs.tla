-------------------------- MODULE CoordinatorProofs --------------------------
(***************************************************************************)
(* Proofs about Coordinator, for every set of nodes, slots and hashes.     *)
(* What has to be shown of the state is little once it is known what       *)
(* erasing from a list does; that is proved by induction along the list.   *)
(***************************************************************************)
EXTENDS Coordinator, SequenceTheorems, WellFoundedInduction, TLAPS

Distinct(s) == \A i, j \in 1 .. Len(s) : s[i] = s[j] => i = j

IInv == TypeOK /\ ReplicasAreDistinct

-----------------------------------------------------------------------------
(* Erasing from a list *)

\* Induction over the natural numbers, with the induction hypothesis as a set
LEMMA NatSetInduction ==
    ASSUME NEW G \in SUBSET Nat, 0 \in G, \A n \in G : n + 1 \in G
    PROVE  G = Nat
<1> SUFFICES ASSUME Nat \ G # {}
             PROVE  FALSE
  OBVIOUS
<1> DEFINE Less == OpToRel(<, Nat)
<1>1. IsWellFoundedOn(Less, Nat)
  BY NatLessThanWellFounded
<1>2. \A m, n \in Nat : m < n => <<m, n>> \in Less
  BY DEF OpToRel
<1> HIDE DEF Less
<1>3. PICK n \in Nat \ G : \A m \in Nat \ G : ~ (<<m, n>> \in Less)
  BY <1>1, WFMin
<1>4. n # 0 /\ n - 1 \in Nat /\ n - 1 < n
  BY <1>3
<1>5. n - 1 \in G
  BY <1>2, <1>3, <1>4
<1> QED
  BY <1>3, <1>4, <1>5

\* One step of the loop of remove_if, from the elements kept so far
Kept(s, S, k, i) ==
    IF i = 0 THEN <<>>
    ELSE IF s[i] \in S THEN k[i - 1] ELSE Append(k[i - 1], s[i])

\* The recursion of remove_if has a solution, which is what it returns.
LEMMA RemoveIfRecursion ==
    ASSUME NEW T, NEW s \in Seq(T), NEW S
    PROVE  \E k : /\ k = [i \in 0 .. Len(s) |-> Kept(s, S, k, i)]
                  /\ remove_if(s, S) = k[Len(s)]
<1> DEFINE G == {m \in Nat : \E k : k = [i \in 0 .. m |-> Kept(s, S, k, i)]}
<1>1. 0 \in G
  <2> DEFINE k == [i \in 0 .. 0 |-> <<>>]
  <2>1. k = [i \in 0 .. 0 |-> Kept(s, S, k, i)]
    BY DEF Kept
  <2> QED
    BY <2>1
<1>2. ASSUME NEW m \in G
      PROVE  m + 1 \in G
  <2>1. PICK k : k = [i \in 0 .. m |-> Kept(s, S, k, i)]
    OBVIOUS
  <2>2. m \in Nat /\ \A i \in 0 .. m : k[i] = Kept(s, S, k, i)
    BY <2>1
  <2> DEFINE h == [i \in 0 .. m + 1 |-> IF i <= m THEN k[i] ELSE Kept(s, S, k, i)]
  <2>3. ASSUME NEW i \in 0 .. m + 1
        PROVE  h[i] = Kept(s, S, h, i)
    <3>1. h[i] = Kept(s, S, k, i)
      BY <2>2
    <3>2. i # 0 => k[i - 1] = h[i - 1]
      BY <2>2
    <3> QED
      BY <3>1, <3>2 DEF Kept
  <2> HIDE DEF h
  <2>4. h = [i \in 0 .. m + 1 |-> Kept(s, S, h, i)]
    BY <2>3 DEF h
  <2> QED
    BY <2>4
<1>3. G = Nat
  <2> HIDE DEF G
  <2>1. G \in SUBSET Nat
    BY DEF G
  <2> QED
    BY <1>1, <1>2, <2>1, NatSetInduction
<1> DEFINE kept == CHOOSE k : k = [i \in 0 .. Len(s) |-> Kept(s, S, k, i)]
<1>4. kept = [i \in 0 .. Len(s) |-> Kept(s, S, kept, i)]
  <2>1. Len(s) \in G
    BY <1>3
  <2>2. \E k : k = [i \in 0 .. Len(s) |-> Kept(s, S, k, i)]
    BY <2>1
  <2> QED
    BY <2>2, Zenon
<1>5. remove_if(s, S) = kept[Len(s)]
  BY DEF remove_if, Kept
<1> QED
  BY <1>4, <1>5

\* What is left of a list of references: exactly the elements that are not to be
\* removed, none of them twice if none was there twice.
LEMMA RemoveIfFacts ==
    ASSUME NEW T, NEW s \in Seq(T), NEW S
    PROVE  /\ remove_if(s, S) \in Seq(T)
           /\ Elements(remove_if(s, S)) = Elements(s) \ S
           /\ Distinct(s) => Distinct(remove_if(s, S))
<1>1. PICK k : /\ k = [i \in 0 .. Len(s) |-> Kept(s, S, k, i)]
               /\ remove_if(s, S) = k[Len(s)]
  BY RemoveIfRecursion
<1>2. Len(s) \in Nat /\ \A i \in 0 .. Len(s) : k[i] = Kept(s, S, k, i)
  BY <1>1
<1> DEFINE Good(m) == /\ k[m] \in Seq(T)
                      /\ Elements(k[m]) = {s[i] : i \in 1 .. m} \ S
                      /\ Distinct(s) => Distinct(k[m])
           G == {m \in Nat : m <= Len(s) => Good(m)}
<1>3. 0 \in G
  <2>1. k[0] = <<>>
    BY <1>2 DEF Kept
  <2>2. Good(0)
    BY <2>1 DEF Elements, Distinct
  <2> QED
    BY <2>2
<1>4. ASSUME NEW m \in G
      PROVE  m + 1 \in G
  <2> SUFFICES ASSUME m + 1 <= Len(s)
               PROVE  Good(m + 1)
    OBVIOUS
  <2>1. Good(m) /\ m \in Nat /\ s[m + 1] \in T
    OBVIOUS
  <2>2. k[m + 1] = IF s[m + 1] \in S THEN k[m] ELSE Append(k[m], s[m + 1])
    BY <1>2, <2>1 DEF Kept
  <2>3. {s[i] : i \in 1 .. m + 1} = {s[i] : i \in 1 .. m} \cup {s[m + 1]}
    BY <2>1
  <2>4. CASE s[m + 1] \in S
    BY <2>1, <2>2, <2>3, <2>4
  <2>5. CASE s[m + 1] \notin S
    <3> DEFINE q == k[m]
    <3>1. q \in Seq(T) /\ k[m + 1] = Append(q, s[m + 1])
      BY <2>1, <2>2, <2>5
    <3>2. /\ Append(q, s[m + 1]) \in Seq(T)
          /\ Len(Append(q, s[m + 1])) = Len(q) + 1
          /\ \A i \in 1 .. Len(q) : Append(q, s[m + 1])[i] = q[i]
          /\ Append(q, s[m + 1])[Len(q) + 1] = s[m + 1]
      BY <2>1, <3>1, AppendProperties
    <3>3. Elements(k[m + 1]) = Elements(q) \cup {s[m + 1]}
      BY <3>1, <3>2 DEF Elements
    <3>4. ASSUME Distinct(s)
          PROVE  Distinct(k[m + 1])
      <4>1. s[m + 1] \notin {s[i] : i \in 1 .. m}
        BY <3>4, <2>1 DEF Distinct
      <4>2. s[m + 1] \notin Elements(q) /\ Distinct(q)
        BY <2>1, <3>4, <4>1
      <4>3. \A i \in 1 .. Len(q) : q[i] # s[m + 1]
        BY <4>2 DEF Elements
      <4> QED
        BY <3>1, <3>2, <4>2, <4>3 DEF Distinct
    <3> QED
      BY <2>1, <2>3, <2>5, <3>1, <3>2, <3>3, <3>4
  <2> QED
    BY <2>4, <2>5
<1>5. G = Nat
  <2> HIDE DEF G
  <2>1. G \in SUBSET Nat
    BY DEF G
  <2> QED
    BY <1>3, <1>4, <2>1, NatSetInduction
<1>6. Good(Len(s))
  <2> HIDE DEF G, Good
  <2>1. Len(s) \in G
    BY <1>2, <1>5
  <2> QED
    BY <1>2, <2>1 DEF G
<1> QED
  BY <1>1, <1>6 DEF Elements

-----------------------------------------------------------------------------
(* The invariant *)

\* The list of a hash is a sequence of references without repetition.
LEMMA ListFacts ==
    ASSUME IInv, NEW hash \in Hashes
    PROVE  index[hash] \in Seq(GlobalBlockRef) /\ Distinct(index[hash])
  BY DEF IInv, TypeOK, ReplicasAreDistinct, Distinct

\* What erasing the references in S from every list leaves: invalidate erases
\* one reference, removeNode all references to a node.
LEMMA EraseFacts ==
    ASSUME IInv, NEW S, index' = [hash \in Hashes |-> remove_if(index[hash], S)]
    PROVE  /\ index' \in [Hashes -> Seq(GlobalBlockRef)]
           /\ ReplicasAreDistinct'
           /\ \A hash \in Hashes : Elements(index'[hash]) = Elements(index[hash]) \ S
<1>1. ASSUME NEW hash \in Hashes
      PROVE  /\ index'[hash] \in Seq(GlobalBlockRef)
             /\ Distinct(index'[hash])
             /\ Elements(index'[hash]) = Elements(index[hash]) \ S
  <2>1. index'[hash] = remove_if(index[hash], S)
    OBVIOUS
  <2> QED
    BY <2>1, ListFacts, RemoveIfFacts
<1>2. ReplicasAreDistinct'
  BY <1>1 DEF ReplicasAreDistinct, Distinct
<1> QED
  BY <1>1, <1>2

\* The coordinator starts with empty lists and no nodes.
LEMMA InitIInv == Init => IInv
  BY DEF Init, IInv, TypeOK, ReplicasAreDistinct

\* GlobalIndex::announce appends only what is not in the list.
LEMMA AnnounceIInv ==
    ASSUME IInv, NEW hash \in Hashes, NEW ref \in GlobalBlockRef, announce(hash, ref)
    PROVE  IInv'
<1> DEFINE s == index[hash]
<1>1. s \in Seq(GlobalBlockRef) /\ Distinct(s)
  BY ListFacts
<1>2. CASE ref \in Elements(s)
  BY <1>2 DEF announce, announceRef, IInv, TypeOK, ReplicasAreDistinct
<1>3. CASE ref \notin Elements(s)
  <2>1. index' = [index EXCEPT ![hash] = Append(s, ref)] /\ workers' = workers
    BY <1>3 DEF announce, announceRef
  <2>2. /\ Append(s, ref) \in Seq(GlobalBlockRef)
        /\ Len(Append(s, ref)) = Len(s) + 1
        /\ \A i \in 1 .. Len(s) : Append(s, ref)[i] = s[i]
        /\ Append(s, ref)[Len(s) + 1] = ref
    BY <1>1, AppendProperties
  <2>3. Distinct(Append(s, ref))
    <3>1. \A i \in 1 .. Len(s) : s[i] # ref
      BY <1>3 DEF Elements
    <3> QED
      BY <1>1, <2>2, <3>1 DEF Distinct
  <2>4. TypeOK'
    BY <2>1, <2>2 DEF IInv, TypeOK
  <2>5. ASSUME NEW other \in Hashes
        PROVE  Distinct(index'[other])
    BY <2>1, <2>3, ListFacts DEF IInv, TypeOK
  <2>6. ReplicasAreDistinct'
    BY <2>5 DEF ReplicasAreDistinct, Distinct
  <2> QED
    BY <2>4, <2>6 DEF IInv
<1> QED
  BY <1>2, <1>3

\* Every call preserves the invariant.
LEMMA NextIInv == IInv /\ [Next]_coordVars => IInv'
<1> SUFFICES ASSUME IInv, [Next]_coordVars
             PROVE  IInv'
  OBVIOUS
<1>1. CASE \E hash \in Hashes, ref \in GlobalBlockRef : announce(hash, ref)
  BY <1>1, AnnounceIInv
<1>2. ASSUME NEW ref \in GlobalBlockRef, invalidate(ref)
      PROVE  IInv'
  BY <1>2, EraseFacts DEF invalidate, invalidateRef, IInv, TypeOK
<1>3. ASSUME NEW node \in Nodes, nodeJoin(node)
      PROVE  IInv'
  BY <1>3 DEF nodeJoin, IInv, TypeOK, ReplicasAreDistinct
<1>4. ASSUME NEW node \in Nodes, nodeLeave(node)
      PROVE  IInv'
  BY <1>4, EraseFacts DEF nodeLeave, removeNode, IInv, TypeOK
<1>5. CASE UNCHANGED coordVars
  BY <1>5 DEF coordVars, IInv, TypeOK, ReplicasAreDistinct
<1> QED
  BY <1>1, <1>2, <1>3, <1>4, <1>5 DEF Next

\* The invariant of the coordinator, for every set of nodes, slots and hashes
THEOREM Invariance == Spec => []IInv
<1> QED
  BY InitIInv, NextIInv, PTL DEF Spec

\* The lists of the coordinator only ever hold references.
THEOREM TypeCorrect == Spec => []TypeOK
<1>1. IInv => TypeOK
  BY DEF IInv
<1> QED
  BY <1>1, Invariance, PTL

\* GlobalIndex lists a replica at most once under a hash, in whatever order
\* workers announce again what they announced before.
THEOREM ReplicasStayDistinct == Spec => []ReplicasAreDistinct
<1>1. IInv => ReplicasAreDistinct
  BY DEF IInv
<1> QED
  BY <1>1, Invariance, PTL

-----------------------------------------------------------------------------
(* What a step may do to the lists *)

\* An announcement adds the reference to the list of its hash.
LEMMA AnnounceAdds ==
    ASSUME IInv, NEW hash \in Hashes, NEW ref \in GlobalBlockRef, announce(hash, ref),
           NEW other \in Hashes
    PROVE  Elements(index'[other]) =
              IF other = hash THEN Elements(index[other]) \cup {ref} ELSE Elements(index[other])
<1>1. CASE ref \in Elements(index[hash]) \/ other # hash
  BY <1>1 DEF announce, announceRef, IInv, TypeOK
<1>2. CASE ref \notin Elements(index[hash]) /\ other = hash
  <2>1. index'[other] = Append(index[other], ref)
    BY <1>2 DEF announce, announceRef, IInv, TypeOK
  <2>2. index[other] \in Seq(GlobalBlockRef)
    BY ListFacts
  <2> DEFINE s == index[other]
  <2>3. /\ Len(Append(s, ref)) = Len(s) + 1 /\ Len(s) \in Nat
        /\ \A i \in 1 .. Len(s) : Append(s, ref)[i] = s[i]
        /\ Append(s, ref)[Len(s) + 1] = ref
    BY <2>2, AppendProperties
  <2> HIDE DEF s
  <2>4. {Append(s, ref)[i] : i \in 1 .. Len(s) + 1} = {s[i] : i \in 1 .. Len(s)} \cup {ref}
    <3>1. 1 .. Len(s) + 1 = (1 .. Len(s)) \cup {Len(s) + 1}
      BY <2>3
    <3> QED
      BY <2>3, <3>1
  <2> QED
    BY <1>2, <2>1, <2>3, <2>4 DEF Elements, s
<1> QED
  BY <1>1, <1>2

\* No other call adds anything to a list.
LEMMA ListsShrink ==
    ASSUME IInv,
           \/ \E ref \in GlobalBlockRef : invalidate(ref)
           \/ \E node \in Nodes : nodeJoin(node) \/ nodeLeave(node)
           \/ UNCHANGED index
    PROVE  \A hash \in Hashes : Elements(index'[hash]) \subseteq Elements(index[hash])
<1>1. CASE \E ref \in GlobalBlockRef : invalidate(ref)
  BY <1>1, EraseFacts DEF invalidate, invalidateRef
<1>2. CASE \E node \in Nodes : nodeLeave(node)
  BY <1>2, EraseFacts DEF nodeLeave, removeNode
<1>3. CASE UNCHANGED index
  BY <1>3
<1> QED
  BY <1>1, <1>2, <1>3 DEF nodeJoin

\* A reference that a step drops from one list is dropped from all of them: a
\* reference reported as stale, or one to a node that left, cannot come back
\* through the list of another hash.
THEOREM DropsAreComplete == Spec => DroppedEverywhere
<1> DEFINE Dropped ==
             \A hash \in Hashes : \A ref \in Elements(index[hash]) \ Elements(index'[hash]) :
                 \A other \in Hashes : ref \notin Elements(index'[other])
<1>1. IInv /\ [Next]_coordVars => [Dropped]_coordVars
  <2> SUFFICES ASSUME IInv, Next
               PROVE  Dropped
    BY DEF coordVars
  <2>1. ASSUME NEW hash \in Hashes, NEW ref \in GlobalBlockRef, announce(hash, ref)
        PROVE  Dropped
    BY <2>1, AnnounceAdds
  <2>2. ASSUME NEW ref \in GlobalBlockRef, invalidate(ref)
        PROVE  Dropped
    <3>1. \A hash \in Hashes : Elements(index'[hash]) = Elements(index[hash]) \ {ref}
      BY <2>2, EraseFacts DEF invalidate, invalidateRef
    <3> QED
      BY <3>1
  <2>3. ASSUME NEW node \in Nodes, nodeJoin(node)
        PROVE  Dropped
    BY <2>3 DEF nodeJoin
  <2>4. ASSUME NEW node \in Nodes, nodeLeave(node)
        PROVE  Dropped
    <3>1. \A hash \in Hashes :
              Elements(index'[hash]) = Elements(index[hash]) \ RefsTo(node)
      BY <2>4, EraseFacts DEF nodeLeave, removeNode
    <3> QED
      BY <3>1
  <2> QED
    BY <2>1, <2>2, <2>3, <2>4 DEF Next
<1> QED
  BY <1>1, Invariance, PTL DEF Spec, DroppedEverywhere

\* When a node leaves the directory (CoordinatorService::nodeLeave), no list
\* names it any more.
THEOREM LeavingForgets == Spec => LeaveForgetsNode
<1> DEFINE Forgets ==
             \A node \in workers \ workers' : \A hash \in Hashes :
                 \A ref \in Elements(index'[hash]) : ref.node_id # node
<1>1. IInv /\ [Next]_coordVars => [Forgets]_coordVars
  <2> SUFFICES ASSUME IInv, Next
               PROVE  Forgets
    BY DEF coordVars
  <2>1. CASE workers \subseteq workers'
    BY <2>1
  <2>2. ASSUME NEW node \in Nodes, nodeLeave(node)
        PROVE  Forgets
    <3>1. \A hash \in Hashes :
              Elements(index'[hash]) = Elements(index[hash]) \ RefsTo(node)
      BY <2>2, EraseFacts DEF nodeLeave, removeNode
    <3>2. \A hash \in Hashes : Elements(index[hash]) \subseteq GlobalBlockRef
      BY ListFacts DEF Elements
    <3>3. workers \ workers' \subseteq {node}
      BY <2>2 DEF nodeLeave
    <3> QED
      BY <3>1, <3>2, <3>3 DEF RefsTo
  <2> QED
    BY <2>1, <2>2 DEF Next, announce, invalidate, nodeJoin
<1> QED
  BY <1>1, Invariance, PTL DEF Spec, LeaveForgetsNode

=============================================================================
