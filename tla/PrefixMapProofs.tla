--------------------------- MODULE PrefixMapProofs ---------------------------
(***************************************************************************)
(* Proofs about PrefixMap, for every set of paths and every set of blocks. *)
(* The two maps stay inverse to each other because an insertion below a    *)
(* gapless chain fills one boundary only, the last one, with a block that  *)
(* no other boundary has.                                                  *)
(***************************************************************************)
EXTENDS PrefixMap, SequenceTheorems, WellFoundedInduction, TLAPS

IInv == TypeOK /\ MapsAreInverse

-----------------------------------------------------------------------------
(* Paths and their prefixes *)

\* A path is a nonempty sequence, its prefixes are paths of their length, and
\* the last of them is the path itself.
LEMMA PathFacts ==
    ASSUME NEW p \in Paths
    PROVE  /\ Len(p) \in Nat \ {0}
           /\ Prefix(p, Len(p)) = p
           /\ \A i \in 1 .. Len(p) : Prefix(p, i) \in Paths /\ Len(Prefix(p, i)) = i
<1> DEFINE S == UNION {{q[i] : i \in 1 .. Len(q)} : q \in Paths}
<1>1. p \in Seq(S) /\ Len(p) > 0
  BY PathsAssumption
<1>2. Len(p) \in Nat \ {0}
  BY <1>1
<1>3. SubSeq(p, 1, Len(p)) = p
  BY <1>1, SubSeqFull
<1>4. ASSUME NEW i \in 1 .. Len(p)
      PROVE  SubSeq(p, 1, i) \in Paths /\ Len(SubSeq(p, 1, i)) = i
  <2>1. SubSeq(p, 1, i) \in Paths
    BY PathsAssumption
  <2>2. \A j \in 1 .. i : p[j] \in S
    BY <1>1, <1>2
  <2>3. Len(SubSeq(p, 1, i)) = i
    BY <1>1, <1>2
  <2> QED
    BY <2>1, <2>3
<1> QED
  BY <1>2, <1>3, <1>4 DEF Prefix

\* The path without its last block is a path, with the same shorter prefixes.
LEMMA ParentFacts ==
    ASSUME NEW p \in Paths, Len(p) > 1
    PROVE  /\ Parent(p) \in Paths /\ Len(Parent(p)) = Len(p) - 1
           /\ \A i \in 1 .. Len(p) - 1 : Prefix(Parent(p), i) = Prefix(p, i)
<1> DEFINE S == UNION {{q[i] : i \in 1 .. Len(q)} : q \in Paths}
<1>1. p \in Seq(S) /\ Len(p) \in Nat
  <2>1. p \in Seq(S)
    BY PathsAssumption
  <2> QED
    BY <2>1
<1>2. Parent(p) = Prefix(p, Len(p) - 1) /\ Len(p) - 1 \in 1 .. Len(p)
  BY <1>1 DEF Parent, Prefix
<1>3. Parent(p) \in Paths /\ Len(Parent(p)) = Len(p) - 1
  BY <1>2, PathFacts
<1>4. ASSUME NEW i \in 1 .. Len(p) - 1
      PROVE  SubSeq(SubSeq(p, 1, Len(p) - 1), 1, i) = SubSeq(p, 1, i)
  BY <1>1
<1> QED
  BY <1>3, <1>4 DEF Parent, Prefix

\* There is a longest gapless mapped prefix, and matchedBlocks is its length.
LEMMA MatchedFacts ==
    ASSUME NEW p \in Paths
    PROVE  /\ matchedBlocks(p) \in 0 .. Len(p)
           /\ Contiguous(p, matchedBlocks(p))
           /\ matchedBlocks(p) < Len(p) => ~ Contiguous(p, matchedBlocks(p) + 1)
<1> DEFINE Longest(k) == Contiguous(p, k) /\ (k < Len(p) => ~ Contiguous(p, k + 1))
           Less == OpToRel(<, Nat)
           T == {k \in Nat : k \in 1 .. Len(p) /\ terminals[Prefix(p, k)] = NoId}
<1>1. Len(p) \in Nat
  BY PathFacts
<1>2. \E k \in 0 .. Len(p) : Longest(k)
  <2>1. CASE T = {}
    <3>1. Len(p) \in 0 .. Len(p) /\ Longest(Len(p))
      BY <1>1, <2>1 DEF Contiguous
    <3> QED
      BY <3>1
  <2>2. CASE T # {}
    <3>1. IsWellFoundedOn(Less, Nat)
      BY NatLessThanWellFounded
    <3>2. \A m, n \in Nat : m < n => <<m, n>> \in Less
      BY DEF OpToRel
    <3>3. T \subseteq Nat
      OBVIOUS
    <3> HIDE DEF Less, T
    <3>4. PICK k \in T : \A m \in T : ~ (<<m, k>> \in Less)
      BY <2>2, <3>1, <3>3, WFMin
    <3>5. k \in 1 .. Len(p) /\ terminals[Prefix(p, k)] = NoId
      BY <3>4 DEF T
    <3>6. \A j \in 1 .. k - 1 : terminals[Prefix(p, j)] # NoId
      <4>1. ASSUME NEW j \in 1 .. k - 1, terminals[Prefix(p, j)] = NoId
            PROVE  FALSE
        <5>1. j \in T /\ j < k /\ j \in Nat /\ k \in Nat
          BY <1>1, <3>5, <4>1 DEF T
        <5> QED
          BY <3>2, <3>4, <5>1
      <4> QED
        BY <4>1
    <3>7. k - 1 \in 0 .. Len(p) /\ Longest(k - 1)
      BY <1>1, <3>5, <3>6 DEF Contiguous
    <3> QED
      BY <3>7
  <2> QED
    BY <2>1, <2>2
<1>3. matchedBlocks(p) = CHOOSE k \in 0 .. Len(p) : Longest(k)
  BY DEF matchedBlocks
<1> HIDE DEF Longest
<1>4. matchedBlocks(p) \in 0 .. Len(p) /\ Longest(matchedBlocks(p))
  BY <1>2, <1>3
<1> QED
  BY <1>4 DEF Longest

\* PrefixIndex::lookup returns the blocks mapped along the path, all of them
\* exactly when the path has no gap.
LEMMA LookupFacts ==
    ASSUME TypeOK, NEW p \in Paths
    PROVE  /\ lookup(p) \in Seq(Ids)
           /\ Len(lookup(p)) \in 0 .. Len(p)
           /\ Contiguous(p, Len(lookup(p)))
           /\ \A i \in 1 .. Len(lookup(p)) : lookup(p)[i] = terminals[Prefix(p, i)]
           /\ \A i \in 0 .. Len(p) : Contiguous(p, i) => i <= Len(lookup(p))
<1> DEFINE m == matchedBlocks(p)
<1>1. /\ Len(p) \in Nat /\ m \in 0 .. Len(p) /\ Contiguous(p, m)
      /\ m < Len(p) => ~ Contiguous(p, m + 1)
  BY PathFacts, MatchedFacts
<1>2. lookup(p) = [i \in 1 .. m |-> terminals[Prefix(p, i)]]
  BY DEF lookup
<1> HIDE DEF m
<1>3. \A i \in 1 .. m : terminals[Prefix(p, i)] \in Ids
  BY <1>1, PathFacts DEF Contiguous, TypeOK
<1>4. lookup(p) \in Seq(Ids) /\ Len(lookup(p)) = m
  BY <1>1, <1>2, <1>3
<1>5. ASSUME NEW i \in 0 .. Len(p), Contiguous(p, i)
      PROVE  i <= m
  <2>1. ASSUME m + 1 <= i
        PROVE  FALSE
    BY <1>1, <1>5, <2>1 DEF Contiguous
  <2> QED
    BY <1>1, <2>1
<1> QED
  BY <1>1, <1>2, <1>4, <1>5

\* What insertBlock does to the two maps, although it goes through the general
\* insert: it changes one entry of each.
LEMMA InsertBlockIsOneEntry ==
    ASSUME TypeOK, NEW p \in Paths, NEW b \in Ids, insertBlock(p, b)
    PROVE  /\ terminals' = [terminals EXCEPT ![p] = b]
           /\ block_node' = [block_node EXCEPT ![b] = p]
<1> DEFINE n == Len(p)
           above == [i \in 1 .. n - 1 |-> terminals[Prefix(p, i)]]
           blocks == Append(above, b)
<1>1. /\ n \in Nat \ {0} /\ Prefix(p, n) = p
      /\ \A i \in 1 .. n : Prefix(p, i) \in Paths
  BY PathFacts
<1>2. Gaps(p) = {n}
  BY <1>1 DEF insertBlock, Contiguous, Gaps
<1>3. above \in Seq(Ids \cup {NoId}) /\ Len(above) = n - 1
  <2>1. above \in [1 .. n - 1 -> Ids \cup {NoId}]
    BY <1>1 DEF TypeOK
  <2> QED
    BY <1>1, <2>1
<1>4. blocks[n] = b
  BY <1>1, <1>3
<1>5. insert(p, blocks)
  BY DEF insertBlock
<1> HIDE DEF n, blocks
<1>6. terminals' = [q \in Paths |-> IF q = p THEN b ELSE terminals[q]]
  BY <1>1, <1>2, <1>4, <1>5 DEF insert, n
<1>7. block_node' = [c \in Ids |-> IF c = b THEN p ELSE block_node[c]]
  <2>1. ASSUME NEW c \in Ids
        PROVE  block_node'[c] = IF c = b THEN p ELSE block_node[c]
    <3> DEFINE at == {i \in Gaps(p) : blocks[i] = c}
    <3>1. at = IF c = b THEN {n} ELSE {}
      BY <1>2, <1>4
    <3>2. block_node'[c] = IF at = {} THEN block_node[c]
                           ELSE Prefix(p, CHOOSE i \in at : \A j \in at : j <= i)
      BY <1>5 DEF insert
    <3>3. CASE c = b
      <4>1. (CHOOSE i \in at : \A j \in at : j <= i) = n
        BY <1>1, <3>1, <3>3 DEF n
      <4> QED
        BY <1>1, <3>1, <3>2, <3>3, <4>1
    <3>4. CASE c # b
      BY <3>1, <3>2, <3>4
    <3> QED
      BY <3>3, <3>4
  <2> QED
    BY <1>5, <2>1 DEF insert
<1> QED
  BY <1>6, <1>7 DEF TypeOK

-----------------------------------------------------------------------------
(* The invariant *)

\* A nonempty set of positions has a last one.
LEMMA LastPosition ==
    ASSUME NEW n \in Nat, NEW S \in SUBSET (1 .. n), S # {}
    PROVE  \E i \in S : \A j \in S : j <= i
<1> DEFINE Less == OpToRel(<, Nat)
           T == {k \in Nat : \A j \in S : j <= k}
<1>1. IsWellFoundedOn(Less, Nat)
  BY NatLessThanWellFounded
<1>2. \A k, m \in Nat : k < m => <<k, m>> \in Less
  BY DEF OpToRel
<1>3. T \subseteq Nat /\ n \in T
  OBVIOUS
<1> HIDE DEF Less, T
<1>4. PICK m \in T : \A k \in T : ~ (<<k, m>> \in Less)
  BY <1>1, <1>3, WFMin
<1>5. m \in Nat /\ \A j \in S : j <= m
  BY <1>4 DEF T
<1>6. m \in S
  <2> SUFFICES ASSUME m \notin S
               PROVE  FALSE
    OBVIOUS
  <2>1. PICK e : e \in S /\ e \in 1 .. n
    OBVIOUS
  <2>2. PICK k \in Nat : m = k + 1
    BY <1>5, <2>1
  <2>3. ASSUME NEW j \in S
        PROVE  j <= k
    <3>1. j \in 1 .. n /\ j <= m /\ j # m
      BY <1>5
    <3> QED
      BY <2>2, <3>1
  <2>4. k \in T
    BY <2>3 DEF T
  <2>5. k < m
    BY <2>2
  <2> QED
    BY <1>2, <1>4, <1>5, <2>4, <2>5
<1> QED
  BY <1>5, <1>6

\* PrefixIndex::insert keeps the types even when several boundaries of the path
\* have lost their block.
LEMMA InsertTypeOK ==
    ASSUME TypeOK, NEW p \in Paths, NEW blocks \in Seq(Ids), Len(blocks) = Len(p),
           insert(p, blocks)
    PROVE  TypeOK'
<1>1. /\ Len(p) \in Nat
      /\ \A i \in 1 .. Len(p) : Prefix(p, i) \in Paths /\ Len(Prefix(p, i)) = i
  BY PathFacts
<1>2. \A i \in Gaps(p) : i \in 1 .. Len(p)
  BY DEF Gaps
<1>3. terminals' \in [Paths -> Ids \cup {NoId}]
  <2>1. ASSUME NEW q \in Paths, NEW i \in Gaps(p), q = Prefix(p, i)
        PROVE  blocks[Len(q)] \in Ids
    BY <1>1, <1>2, <2>1
  <2> QED
    BY <2>1 DEF insert, TypeOK
<1>4. block_node' \in [Ids -> Paths \cup {NoPath}]
  <2>1. ASSUME NEW b \in Ids
        PROVE  block_node'[b] \in Paths \cup {NoPath}
    <3> DEFINE at == {i \in Gaps(p) : blocks[i] = b}
    <3>1. block_node'[b] = IF at = {} THEN block_node[b]
                           ELSE Prefix(p, CHOOSE i \in at : \A j \in at : j <= i)
      BY DEF insert
    <3>2. at \in SUBSET (1 .. Len(p))
      BY <1>2
    <3> HIDE DEF at
    <3>3. CASE at # {}
      <4>1. \E i \in at : \A j \in at : j <= i
        BY <1>1, <3>2, <3>3, LastPosition
      <4>2. (CHOOSE i \in at : \A j \in at : j <= i) \in at
        BY <4>1
      <4> QED
        BY <1>1, <3>1, <3>2, <3>3, <4>2
    <3> QED
      BY <3>1, <3>3 DEF TypeOK
  <2>2. block_node' = [b \in Ids |-> block_node'[b]]
    BY DEF insert
  <2> QED
    BY <2>1, <2>2
<1> QED
  BY <1>3, <1>4 DEF TypeOK

\* An empty index satisfies the invariant.
LEMMA InitIInv == Init => IInv
  BY DEF Init, IInv, TypeOK, MapsAreInverse

\* AdmissionController::admit inserts a block below its chain.
LEMMA InsertBlockIInv ==
    ASSUME IInv, NEW p \in Paths, NEW b \in Ids, insertBlock(p, b)
    PROVE  IInv'
<1>1. /\ terminals' = [terminals EXCEPT ![p] = b]
      /\ block_node' = [block_node EXCEPT ![b] = p]
  BY InsertBlockIsOneEntry DEF IInv
<1>2. block_node[b] = NoPath /\ terminals[p] = NoId
  BY DEF insertBlock
<1>3. TypeOK'
  BY <1>1 DEF IInv, TypeOK
<1>4. MapsAreInverse'
  BY <1>1, <1>2, NoneAssumption DEF IInv, TypeOK, MapsAreInverse
<1> QED
  BY <1>3, <1>4 DEF IInv

\* PrefixIndex::remove takes a block out of both maps.
LEMMA RemoveIInv ==
    ASSUME IInv, NEW b \in Ids, remove(b)
    PROVE  IInv'
<1>1. TypeOK'
  BY DEF IInv, TypeOK, remove
<1>2. MapsAreInverse'
  BY NoneAssumption DEF IInv, TypeOK, MapsAreInverse, remove
<1> QED
  BY <1>1, <1>2 DEF IInv

\* Every step preserves the invariant.
LEMMA NextIInv == IInv /\ [Next]_pmVars => IInv'
<1> SUFFICES ASSUME IInv, [Next]_pmVars
             PROVE  IInv'
  OBVIOUS
<1>1. CASE \E p \in Paths, b \in Ids : insertBlock(p, b)
  BY <1>1, InsertBlockIInv
<1>2. CASE \E b \in Ids : remove(b)
  BY <1>2, RemoveIInv
<1>3. CASE UNCHANGED pmVars
  BY <1>3 DEF IInv, TypeOK, MapsAreInverse, pmVars
<1> QED
  BY <1>1, <1>2, <1>3 DEF Next

\* The invariant of the index, for every set of paths and blocks
THEOREM Invariance == Spec => []IInv
<1> QED
  BY InitIInv, NextIInv, PTL DEF Spec

\* The two maps of the index are always inverse to each other, so that removing
\* a block (PrefixIndex::remove) leaves no prefix that still leads to it.
THEOREM MapsStayInverse == Spec => []MapsAreInverse
<1>1. IInv => MapsAreInverse
  BY DEF IInv
<1> QED
  BY <1>1, Invariance, PTL

=============================================================================
