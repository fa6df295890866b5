------------------------- MODULE LRUBlockstore_proofs -------------------------
(***************************************************************************)
(* Proofs about LRUBlockstore, for every set of CIDs, every block length,  *)
(* every limit and every number of uses.                                   *)
(***************************************************************************)
EXTENDS LRURefinement, SetLemmas, TLAPS, FiniteSetTheorems, SequenceTheorems, WellFoundedInduction

-----------------------------------------------------------------------------
(* The list, as a value. *)

\* A nonempty set of CIDs has a least recently used member.
LEMMA LeastRecentExists ==
  ASSUME NEW t \in [CIDs -> Nat], NEW S \in SUBSET CIDs, S # {}
  PROVE  \E m \in S : \A d \in S : t[m] <= t[d]
<1> DEFINE Times == {k \in Nat : \E d \in S : t[d] = k}
           R == OpToRel(<, Nat)
<1>1. Times \subseteq Nat /\ Times # {}
  OBVIOUS
<1>2. \A d \in S : t[d] \in Times
  OBVIOUS
<1>3. \A k \in Times : \E m \in S : t[m] = k
  OBVIOUS
<1>4. R = {ss \in Nat \X Nat : ss[1] < ss[2]}
  BY DEF OpToRel
<1> HIDE DEF Times
<1>5. \E k \in Times : \A j \in Times : <<j, k>> \notin R
  BY <1>1, NatLessThanWellFounded, WFMin
<1> HIDE DEF R
<1>6. PICK k \in Times : \A j \in Times : <<j, k>> \notin R
  BY <1>5
<1>7. ASSUME NEW j \in Times PROVE k <= j
  <2>1. j \in Nat /\ k \in Nat /\ <<j, k>> \notin R
    BY <1>1, <1>6
  <2>2. ~(j < k)
    BY <2>1, <1>4
  <2>3. QED
    BY <2>1, <2>2
<1>8. PICK m \in S : t[m] = k
  BY <1>3
<1>9. QED
  BY <1>2, <1>7, <1>8

\* The tail is the least recently used block: every other node has a
\* successor, which is older (car_blockstore.go:80, what evictOne drops).
LEMMA TailIsOldest ==
  ASSUME NEW l \in NodeLists, NEW S \in SUBSET CIDs, NEW t \in [CIDs -> Nat],
         Linked(l, S), ByRecency(l, S, t), S # {}
  PROVE  \A d \in S : t[l.tail] <= t[d]
<1>1. PICK m \in S : \A d \in S : t[m] <= t[d]
  BY LeastRecentExists
<1>2. m = l.tail
  <2> SUFFICES ASSUME m # l.tail PROVE FALSE
    OBVIOUS
  <2>1. l.next[m] # NoNode /\ l.next[m] \in S
    BY DEF Linked
  <2>2. t[l.next[m]] < t[m]
    BY <2>1 DEF ByRecency
  <2>3. t[m] <= t[l.next[m]]
    BY <1>1, <2>1
  <2>4. t[m] \in Nat /\ t[l.next[m]] \in Nat
    BY <2>1
  <2>5. QED
    BY <2>2, <2>3, <2>4
<1>3. QED
  BY <1>1, <1>2

\* If head and tail are the same node the list has one node: no block hides
\* in a detached cycle (car_blockstore.go:83, evictOne empties the list).
LEMMA OneNodeLeft ==
  ASSUME NEW l \in NodeLists, NEW S \in SUBSET CIDs, NEW t \in [CIDs -> Nat],
         Linked(l, S), ByRecency(l, S, t), S # {}, l.head = l.tail
  PROVE  S = {l.head}
<1>0. l.head \in S
  BY DEF Linked
<1> SUFFICES ASSUME S \ {l.head} # {} PROVE FALSE
  BY <1>0
<1>1. PICK m \in S \ {l.head} : \A d \in S \ {l.head} : t[m] <= t[d]
  BY LeastRecentExists
<1>2. l.next[m] \in S /\ l.prev[l.next[m]] = m /\ l.next[m] # NoNode
  BY <1>1 DEF Linked
<1>3. t[l.next[m]] < t[m]
  BY <1>1, <1>2 DEF ByRecency
<1>4. t[m] \in Nat /\ t[l.next[m]] \in Nat
  BY <1>1, <1>2
<1>5. l.next[m] = l.head
  BY <1>1, <1>2, <1>3, <1>4
<1>6. l.prev[l.head] = NoNode
  BY <1>0 DEF Linked
<1>7. QED
  BY <1>1, <1>2, <1>5, <1>6, NoNodeAssumption

\* addToFront links one more node, at the head.
LEMMA AddToFrontLinks ==
  ASSUME NEW l \in NodeLists, NEW S \in SUBSET CIDs, NEW n \in CIDs \ S,
         Linked(l, S)
  PROVE  /\ AddToFront(l, n) \in NodeLists
         /\ Linked(AddToFront(l, n), S \union {n})
<1>1. AddToFront(l, n) \in NodeLists
  BY DEF AddToFront, NodeLists, Pointer
<1>2. Linked(AddToFront(l, n), S \union {n})
  BY NoNodeAssumption DEF Linked, AddToFront, NodeLists, Pointer
<1>3. QED
  BY <1>1, <1>2

\* The new head is younger than the others.
LEMMA AddToFrontByRecency ==
  ASSUME NEW l \in NodeLists, NEW S \in SUBSET CIDs, NEW n \in CIDs \ S,
         NEW k \in Nat, NEW t \in [CIDs -> 0..k],
         Linked(l, S), ByRecency(l, S, t)
  PROVE  ByRecency(AddToFront(l, n), S \union {n}, [t EXCEPT ![n] = k + 1])
BY NoNodeAssumption DEF Linked, ByRecency, AddToFront, NodeLists, Pointer

\* Joining a node's neighbours takes it out of the list, head and tail
\* included.
LEMMA UnlinkLinks ==
  ASSUME NEW l \in NodeLists, NEW S \in SUBSET CIDs, NEW n \in S,
         NEW t \in [CIDs -> Nat], Linked(l, S), ByRecency(l, S, t)
  PROVE  /\ Unlink(l, n) \in NodeLists
         /\ Linked(Unlink(l, n), S \ {n})
         /\ ByRecency(Unlink(l, n), S \ {n}, t)
<1> DEFINE u == Unlink(l, n)
<1>1. u \in NodeLists
  BY DEF Unlink, NodeLists, Pointer
<1>2. CASE S = {n}
  BY <1>2, NoNodeAssumption DEF Linked, ByRecency, Unlink, NodeLists, Pointer
<1>3. CASE S # {n}
  <2>1. l.head # l.tail
    BY <1>3, OneNodeLeft DEF Linked
  <2>2. Linked(u, S \ {n})
    BY <1>3, <2>1, NoNodeAssumption DEF Linked, Unlink, NodeLists, Pointer
  <2>3. ASSUME NEW m \in S \ {n}, u.next[m] # NoNode
        PROVE  t[u.next[m]] < t[m]
    <3>1. CASE m = l.prev[n]
      <4>1. u.next[m] = l.next[n] /\ l.next[m] = n
        BY <2>3, <3>1, NoNodeAssumption DEF Linked, Unlink
      <4>2. t[n] < t[m] /\ t[l.next[n]] < t[n] /\ l.next[n] \in S
        BY <2>3, <4>1, NoNodeAssumption DEF Linked, ByRecency
      <4>3. t[m] \in Nat /\ t[n] \in Nat /\ t[l.next[n]] \in Nat
        BY <2>3, <4>2
      <4>4. QED
        BY <4>1, <4>2, <4>3
    <3>2. CASE m # l.prev[n]
      BY <2>3, <3>2 DEF Linked, ByRecency, Unlink
    <3>3. QED
      BY <3>1, <3>2
  <2>4. QED
    BY <1>1, <2>2, <2>3 DEF ByRecency
<1>4. QED
  BY <1>1, <1>2, <1>3

\* evictOne unlinks the tail.
LEMMA RemoveTailUnlinks ==
  ASSUME NEW l \in NodeLists, NEW S \in SUBSET CIDs, NEW t \in [CIDs -> Nat],
         Linked(l, S), ByRecency(l, S, t), l.tail # NoNode
  PROVE  l.tail \in S /\ RemoveTail(l) = Unlink(l, l.tail)
<1>1. S # {} /\ l.tail \in S /\ l.head \in S /\ l.tail \in CIDs
  BY DEF Linked
<1>2. CASE l.head = l.tail
  <2>1. S = {l.tail}
    BY <1>1, <1>2, OneNodeLeft
  <2>2. l.prev[l.tail] = NoNode /\ l.next[l.tail] = NoNode
    BY <1>1, <1>2 DEF Linked
  <2>3. QED
    BY <1>1, <1>2, <2>2, NoNodeAssumption DEF RemoveTail, Unlink, NodeLists, Pointer
<1>3. CASE l.head # l.tail
  <2> DEFINE p == l.prev[l.tail]
  <2>1. /\ l.next[l.tail] = NoNode
        /\ p \in S /\ p # l.tail /\ p \in CIDs
    BY <1>1, <1>3, NoNodeAssumption DEF Linked
  <2>2. QED
    BY <1>1, <1>3, <2>1, NoNodeAssumption DEF RemoveTail, Unlink, NodeLists, Pointer
<1>4. QED
  BY <1>1, <1>2, <1>3

\* moveToFront keeps the nodes and makes one of them the youngest.
LEMMA MoveToFrontLinks ==
  ASSUME NEW l \in NodeLists, NEW S \in SUBSET CIDs, NEW n \in S,
         NEW k \in Nat, NEW t \in [CIDs -> 0..k],
         Linked(l, S), ByRecency(l, S, t)
  PROVE  /\ MoveToFront(l, n) \in NodeLists
         /\ Linked(MoveToFront(l, n), S)
         /\ ByRecency(MoveToFront(l, n), S, [t EXCEPT ![n] = k + 1])
<1>1. CASE n = l.head
  BY <1>1, NoNodeAssumption DEF MoveToFront, Linked, ByRecency, NodeLists, Pointer
<1>2. CASE n # l.head
  <2> DEFINE u == Unlink(l, n)
  <2>1. t \in [CIDs -> Nat]
    OBVIOUS
  <2>2. u \in NodeLists /\ Linked(u, S \ {n}) /\ ByRecency(u, S \ {n}, t)
    BY <2>1, UnlinkLinks
  <2>3. n \in CIDs \ (S \ {n}) /\ (S \ {n}) \union {n} = S
    OBVIOUS
  <2>4. MoveToFront(l, n) = AddToFront(u, n)
    BY <1>2 DEF MoveToFront
  <2> HIDE DEF u
  <2>5. AddToFront(u, n) \in NodeLists /\ Linked(AddToFront(u, n), (S \ {n}) \union {n})
    BY <2>2, <2>3, AddToFrontLinks
  <2>6. ByRecency(AddToFront(u, n), (S \ {n}) \union {n}, [t EXCEPT ![n] = k + 1])
    BY <2>2, <2>3, AddToFrontByRecency
  <2>7. QED
    BY <2>3, <2>4, <2>5, <2>6
<1>3. QED
  BY <1>1, <1>2

-----------------------------------------------------------------------------
(* The bytes stored, as a set. *)

\* One block has as many bytes as its length says.
LEMMA BytesOfOneBlock ==
  ASSUME NEW c \in CIDs
  PROVE  /\ BlockLen[c] \in Nat
         /\ IsFiniteSet({c} \X (1..BlockLen[c]))
         /\ Cardinality({c} \X (1..BlockLen[c])) = BlockLen[c]
<1>1. BlockLen[c] \in Nat
  BY LRUAssumption
<1>2. IsFiniteSet(1..BlockLen[c]) /\ Cardinality(1..BlockLen[c]) = BlockLen[c]
  BY <1>1, FS_Interval
<1>3. IsFiniteSet({c}) /\ Cardinality({c}) = 1
  BY FS_Singleton
<1>4. /\ IsFiniteSet({c} \X (1..BlockLen[c]))
      /\ Cardinality({c} \X (1..BlockLen[c])) = Cardinality({c}) * Cardinality(1..BlockLen[c])
  BY <1>2, <1>3, FS_Product
<1>5. QED
  BY <1>1, <1>2, <1>3, <1>4

\* A new block adds its length (car_blockstore.go:71).
LEMMA BytesAfterAdd ==
  ASSUME NEW S \in SUBSET CIDs, NEW c \in CIDs \ S, IsFiniteSet(ByteSet(S))
  PROVE  /\ IsFiniteSet(ByteSet(S \union {c}))
         /\ Cardinality(ByteSet(S \union {c})) = Cardinality(ByteSet(S)) + BlockLen[c]
<1> DEFINE B == {c} \X (1..BlockLen[c])
<1>1. ByteSet(S \union {c}) = ByteSet(S) \union B
  BY DEF ByteSet
<1>2. ByteSet(S) \intersect B = {}
  BY DEF ByteSet
<1>3. IsFiniteSet(B) /\ Cardinality(B) = BlockLen[c] /\ BlockLen[c] \in Nat
  BY BytesOfOneBlock
<1> HIDE DEF B
<1>4. /\ IsFiniteSet(ByteSet(S) \union B)
      /\ Cardinality(ByteSet(S) \union B)
           = Cardinality(ByteSet(S)) + Cardinality(B) - Cardinality(ByteSet(S) \intersect B)
  BY <1>3, FS_Union
<1>5. Cardinality(ByteSet(S)) \in Nat
  BY FS_CardinalityType
<1>6. Cardinality(ByteSet(S) \intersect B) = 0
  BY <1>2, FS_EmptySet
<1>7. Cardinality(ByteSet(S) \union B) = Cardinality(ByteSet(S)) + BlockLen[c]
  BY <1>3, <1>4, <1>5, <1>6
<1>8. QED
  BY <1>1, <1>4, <1>7

\* A block that leaves subtracts its length, which the total contains: the
\* counter does not wrap (car_blockstore.go:81, 202).
LEMMA BytesAfterRemove ==
  ASSUME NEW S \in SUBSET CIDs, NEW c \in S, IsFiniteSet(ByteSet(S))
  PROVE  /\ IsFiniteSet(ByteSet(S \ {c}))
         /\ Cardinality(ByteSet(S \ {c})) = Cardinality(ByteSet(S)) - BlockLen[c]
         /\ Cardinality(ByteSet(S)) - BlockLen[c] \in Nat
<1> DEFINE B == {c} \X (1..BlockLen[c])
<1>1. ByteSet(S \ {c}) = ByteSet(S) \ B
  BY DEF ByteSet
<1>2. ByteSet(S) \intersect B = B
  BY DEF ByteSet
<1>3. Cardinality(B) = BlockLen[c] /\ BlockLen[c] \in Nat
  BY BytesOfOneBlock
<1> HIDE DEF B
<1>4. /\ IsFiniteSet(ByteSet(S) \ B)
      /\ Cardinality(ByteSet(S) \ B)
           = Cardinality(ByteSet(S)) - Cardinality(ByteSet(S) \intersect B)
  BY FS_Difference
<1>5. Cardinality(ByteSet(S) \ B) \in Nat
  BY <1>4, FS_CardinalityType
<1>6. QED
  BY <1>1, <1>2, <1>3, <1>4, <1>5

\* Nothing stored is no bytes.
LEMMA NoBytes == IsFiniteSet(ByteSet({})) /\ Cardinality(ByteSet({})) = 0
<1>1. ByteSet({}) = {}
  BY DEF ByteSet
<1>2. QED
  BY <1>1, FS_EmptySet

-----------------------------------------------------------------------------
(* The inductive invariant: the checked invariants, and that a Put in        *)
(* progress puts a block that is not stored (its node would be linked twice).*)

IInv == /\ TypeOK
        /\ ListMatchesMap
        /\ IsFiniteSet(ByteSet(blocks))
        /\ SizeIsBytesStored
        /\ LimitOrOneBlock
        /\ putting \notin blocks

LEMMA InitIInv == Init => IInv
<1> SUFFICES ASSUME Init PROVE IInv
  OBVIOUS
<1>1. TypeOK
  BY DEF Init, TypeOK, EmptyList, NodeLists, Pointer
<1>2. ListMatchesMap
  BY DEF Init, ListMatchesMap, Linked, ByRecency, EmptyList
<1>3. IsFiniteSet(ByteSet(blocks)) /\ SizeIsBytesStored
  BY NoBytes DEF Init, SizeIsBytesStored
<1>4. LimitOrOneBlock
  BY LRUAssumption DEF Init, LimitOrOneBlock
<1>5. QED
  BY <1>1, <1>2, <1>3, <1>4 DEF IInv, Init

\* A use of a stored block only reorders the list.
LEMMA UseKeepsIInv ==
  ASSUME IInv, NEW c \in blocks, list' = MoveToFront(list, c), RecordUse(c),
         UNCHANGED <<blocks, size, putting>>
  PROVE  IInv'
<1> USE DEF IInv
<1>1. /\ list \in NodeLists /\ blocks \in SUBSET CIDs /\ now \in Nat
      /\ lastUse \in [CIDs -> 0..now] /\ Linked(list, blocks) /\ ByRecency(list, blocks, lastUse)
  BY DEF TypeOK, ListMatchesMap
<1>2. /\ list' \in NodeLists /\ Linked(list', blocks)
      /\ ByRecency(list', blocks, [lastUse EXCEPT ![c] = now + 1])
  BY <1>1, MoveToFrontLinks
<1>3. TypeOK'
  BY <1>1, <1>2 DEF TypeOK, RecordUse
<1>4. ListMatchesMap'
  BY <1>2 DEF ListMatchesMap, RecordUse
<1>5. (IsFiniteSet(ByteSet(blocks)) /\ SizeIsBytesStored)'
  BY DEF SizeIsBytesStored, ByteSet
<1>6. LimitOrOneBlock'
  BY DEF LimitOrOneBlock
<1>7. QED
  BY <1>3, <1>4, <1>5, <1>6

\* A block that leaves takes its node and its bytes along.
LEMMA RemoveKeepsIInv ==
  ASSUME IInv, NEW c \in blocks, list' = Unlink(list, c), blocks' = blocks \ {c},
         size' = size - BlockLen[c], UNCHANGED <<putting, lastUse, now>>
  PROVE  IInv'
<1> USE DEF IInv
<1>1. /\ list \in NodeLists /\ blocks \in SUBSET CIDs /\ lastUse \in [CIDs -> Nat]
      /\ Linked(list, blocks) /\ ByRecency(list, blocks, lastUse) /\ size \in Nat
  BY DEF TypeOK, ListMatchesMap
<1>2. /\ list' \in NodeLists /\ Linked(list', blocks \ {c})
      /\ ByRecency(list', blocks \ {c}, lastUse)
  BY <1>1, UnlinkLinks
<1>3. /\ IsFiniteSet(ByteSet(blocks \ {c}))
      /\ Cardinality(ByteSet(blocks \ {c})) = size - BlockLen[c]
      /\ size - BlockLen[c] \in Nat
  BY <1>1, BytesAfterRemove DEF SizeIsBytesStored
<1>4. TypeOK'
  BY <1>1, <1>2, <1>3 DEF TypeOK
<1>5. ListMatchesMap'
  BY <1>2 DEF ListMatchesMap
<1>6. (IsFiniteSet(ByteSet(blocks)) /\ SizeIsBytesStored)'
  BY <1>3 DEF SizeIsBytesStored, ByteSet
<1>7. LimitOrOneBlock'
  <2>1. BlockLen[c] \in Nat /\ Limit \in Nat
    BY <1>1, LRUAssumption
  <2>2. CASE size <= Limit
    BY <1>1, <1>3, <2>1, <2>2 DEF LimitOrOneBlock
  <2>3. CASE ~(size <= Limit)
    <3>1. blocks \ {c} = {}
      BY <2>3 DEF LimitOrOneBlock
    <3>2. size' = 0
      BY <1>3, <3>1, NoBytes
    <3>3. QED
      BY <2>1, <3>2 DEF LimitOrOneBlock
  <2>4. QED
    BY <2>2, <2>3
<1>8. QED
  BY <1>4, <1>5, <1>6, <1>7

\* The end of Put: a node and its bytes join, and they fit or are alone.
LEMMA InsertKeepsIInv == ASSUME IInv, Insert PROVE IInv'
<1> USE DEF IInv, Insert
<1>1. /\ list \in NodeLists /\ blocks \in SUBSET CIDs /\ now \in Nat
      /\ lastUse \in [CIDs -> 0..now] /\ Linked(list, blocks) /\ ByRecency(list, blocks, lastUse)
      /\ size \in Nat /\ putting \in CIDs \ blocks
  BY DEF TypeOK, ListMatchesMap, Unlocked, Pointer
<1>2. /\ list' \in NodeLists /\ Linked(list', blocks')
      /\ ByRecency(list', blocks', lastUse')
  BY <1>1, AddToFrontLinks, AddToFrontByRecency DEF RecordUse
<1>3. /\ IsFiniteSet(ByteSet(blocks \union {putting}))
      /\ Cardinality(ByteSet(blocks \union {putting})) = size + BlockLen[putting]
      /\ BlockLen[putting] \in Nat
  BY <1>1, BytesAfterAdd, BytesOfOneBlock DEF SizeIsBytesStored
<1>4. TypeOK'
  <2>1. blocks' \subseteq CIDs /\ size' \in Nat
    BY <1>1, <1>3
  <2>2. putting' \in Pointer
    BY DEF Pointer
  <2>3. lastUse' \in [CIDs -> 0..now'] /\ now' \in Nat
    BY <1>1 DEF RecordUse
  <2>4. QED
    BY <1>2, <2>1, <2>2, <2>3 DEF TypeOK
<1>5. ListMatchesMap'
  BY <1>2 DEF ListMatchesMap
<1>6. (IsFiniteSet(ByteSet(blocks)) /\ SizeIsBytesStored)'
  BY <1>3 DEF SizeIsBytesStored, ByteSet
<1>7. LimitOrOneBlock'
  <2>1. CASE blocks = {}
    <3>1. size = 0
      BY <2>1, NoBytes DEF SizeIsBytesStored
    <3>2. QED
      BY <1>1, <1>3, <2>1, <3>1, LRUAssumption DEF LimitOrOneBlock
  <2>2. CASE blocks # {}
    <3>1. ~(size + BlockLen[putting] > Limit)
      BY <2>2 DEF MustEvict
    <3>2. size + BlockLen[putting] <= Limit
      BY <1>1, <1>3, <3>1, LRUAssumption
    <3>3. QED
      BY <3>2 DEF LimitOrOneBlock
  <2>3. QED
    BY <2>1, <2>2
<1>8. (putting \notin blocks)'
  BY <1>1, NoNodeAssumption
<1>9. QED
  BY <1>4, <1>5, <1>6, <1>7, <1>8

\* What evictOne drops is the tail, as DeleteBlock would.
LEMMA EvictionUnlinksTail ==
  ASSUME IInv, EvictOne
  PROVE  list.tail \in blocks /\ list' = Unlink(list, list.tail)
<1>1. /\ list \in NodeLists /\ blocks \in SUBSET CIDs /\ lastUse \in [CIDs -> Nat]
      /\ Linked(list, blocks) /\ ByRecency(list, blocks, lastUse)
  BY DEF IInv, TypeOK, ListMatchesMap
<1>2. QED
  BY <1>1, RemoveTailUnlinks DEF EvictOne

LEMMA NextKeepsIInv == IInv /\ [Next]_vars => IInv'
<1> SUFFICES ASSUME IInv, [Next]_vars PROVE IInv'
  OBVIOUS
<1>1. ASSUME NEW c \in CIDs, PutKnown(c) PROVE IInv'
  BY <1>1, UseKeepsIInv DEF PutKnown
<1>2. ASSUME NEW c \in CIDs, PutNew(c) PROVE IInv'
  BY <1>2 DEF PutNew, IInv, TypeOK, ListMatchesMap, SizeIsBytesStored, LimitOrOneBlock,
              ByteSet, Pointer
<1>3. ASSUME NEW c \in CIDs, Get(c) PROVE IInv'
  BY <1>3, UseKeepsIInv DEF Get
<1>4. ASSUME NEW c \in CIDs, DeleteBlock(c) PROVE IInv'
  BY <1>4, RemoveKeepsIInv DEF DeleteBlock
<1>5. CASE EvictOne
  BY <1>5, EvictionUnlinksTail, RemoveKeepsIInv DEF EvictOne
<1>6. CASE Insert
  BY <1>6, InsertKeepsIInv
<1>7. CASE UNCHANGED vars
  BY <1>7 DEF vars, IInv, TypeOK, ListMatchesMap, SizeIsBytesStored, LimitOrOneBlock, ByteSet
<1>8. QED
  BY <1>1, <1>2, <1>3, <1>4, <1>5, <1>6, <1>7 DEF Next

-----------------------------------------------------------------------------
(* The theorems. *)

\* IInv holds in every reachable state.
THEOREM Invariance == Spec => []IInv
BY InitIInv, NextKeepsIInv, PTL DEF Spec

\* The variables keep their types; in particular the byte counter, an
\* unsigned integer in the code, never goes below zero.
THEOREM TypeCorrect == Spec => []TypeOK
<1>1. IInv => TypeOK
  BY DEF IInv
<1>2. QED
  BY <1>1, Invariance, PTL

\* Map and list agree in every reachable state (car_blockstore.go:75-122,
\* 205-216).
THEOREM ListCorrect == Spec => []ListMatchesMap
<1>1. IInv => ListMatchesMap
  BY DEF IInv
<1>2. QED
  BY <1>1, Invariance, PTL

\* The byte counter is exact (car_blockstore.go:71, 81, 202).
THEOREM SizeCorrect == Spec => []SizeIsBytesStored
<1>1. IInv => SizeIsBytesStored
  BY DEF IInv
<1>2. QED
  BY <1>1, Invariance, PTL

\* The limit binds, up to one oversized block (car_blockstore.go:61-63).
THEOREM LimitCorrect == Spec => []LimitOrOneBlock
<1>1. IInv => LimitOrOneBlock
  BY DEF IInv
<1>2. QED
  BY <1>1, Invariance, PTL

\* Evictions follow the order of last use (car_blockstore.go:24-25, 75-90).
THEOREM EvictionOrder == Spec => EvictsLeastRecentlyUsed
<1>1. ASSUME IInv, [Next]_vars
      PROVE  [~Unlocked => \A c \in blocks \ blocks' :
                             \A d \in blocks : lastUse[c] <= lastUse[d]]_vars
  <2>1. CASE EvictOne
    <3>1. /\ list \in NodeLists /\ blocks \in SUBSET CIDs /\ lastUse \in [CIDs -> Nat]
          /\ Linked(list, blocks) /\ ByRecency(list, blocks, lastUse)
      BY <1>1 DEF IInv, TypeOK, ListMatchesMap
    <3>2. \A d \in blocks : lastUse[list.tail] <= lastUse[d]
      BY <3>1, TailIsOldest
    <3>3. QED
      BY <2>1, <3>2 DEF EvictOne
  <2>2. ASSUME NEW c \in CIDs, PutKnown(c) \/ PutNew(c) \/ Get(c) \/ DeleteBlock(c)
        PROVE  Unlocked
    BY <2>2 DEF PutKnown, PutNew, Get, DeleteBlock
  <2>3. CASE Insert
    BY <2>3 DEF Insert
  <2>4. QED
    BY <1>1, <2>1, <2>2, <2>3 DEF Next
<1>2. QED
  BY <1>1, Invariance, PTL DEF Spec, EvictsLeastRecentlyUsed

-----------------------------------------------------------------------------
(* The list as a sequence. *)

\* The sequence s spells the list l of the nodes of S out: it follows the
\* next pointers from the head to the tail and meets every node once.
Spells(s, l, S) ==
  /\ s \in Seq(CIDs)
  /\ \A i \in 1..Len(s) : s[i] \in S
  /\ \A c \in S : \E i \in 1..Len(s) : s[i] = c
  /\ \A i, j \in 1..Len(s) : s[i] = s[j] => i = j
  /\ Len(s) # 0 => s[1] = l.head /\ s[Len(s)] = l.tail
  /\ \A i \in 1..(Len(s) - 1) : l.next[s[i]] = s[i + 1]

LEMMA NothingSpelled == \A l : Spells(<< >>, l, {})
BY DEF Spells

\* A sequence without the element at a position, position by position.
LEMMA WithoutOne ==
  ASSUME NEW s \in Seq(CIDs), NEW k \in 1..Len(s)
  PROVE  /\ RemoveAt(s, k) \in Seq(CIDs)
         /\ Len(RemoveAt(s, k)) = Len(s) - 1
         /\ \A i \in 1..(Len(s) - 1) : RemoveAt(s, k)[i] = IF i < k THEN s[i] ELSE s[i + 1]
<1> DEFINE front == SubSeq(s, 1, k - 1)
           back == SubSeq(s, k + 1, Len(s))
<1>1. Len(s) \in Nat
  OBVIOUS
<1>2. front \in Seq(CIDs) /\ Len(front) = k - 1 /\ \A j \in 1..(k - 1) : front[j] = s[j]
  BY <1>1
<1>3. back \in Seq(CIDs) /\ Len(back) = Len(s) - k /\ \A j \in 1..(Len(s) - k) : back[j] = s[k + j]
  BY <1>1
<1> HIDE DEF front, back
<1>4. /\ front \o back \in Seq(CIDs)
      /\ Len(front \o back) = Len(front) + Len(back)
      /\ \A i \in 1..(Len(front) + Len(back)) :
           (front \o back)[i] = IF i <= Len(front) THEN front[i] ELSE back[i - Len(front)]
  BY <1>2, <1>3, ConcatProperties
<1>5. Len(front) + Len(back) = Len(s) - 1
  BY <1>1, <1>2, <1>3
<1>6. ASSUME NEW i \in 1..(Len(s) - 1)
      PROVE  (front \o back)[i] = IF i < k THEN s[i] ELSE s[i + 1]
  <2>1. CASE i < k
    BY <1>1, <1>2, <1>4, <1>5, <2>1
  <2>2. CASE ~(i < k)
    <3>1. i - (k - 1) \in 1..(Len(s) - k) /\ k + (i - (k - 1)) = i + 1
      BY <1>1, <2>2
    <3>2. (front \o back)[i] = back[i - Len(front)]
      BY <1>1, <1>2, <1>4, <1>5, <2>2
    <3>3. QED
      BY <1>2, <1>3, <2>2, <3>1, <3>2
  <2>3. QED
    BY <2>1, <2>2
<1>7. RemoveAt(s, k) = front \o back
  BY DEF RemoveAt, front, back
<1>8. QED
  BY <1>4, <1>5, <1>6, <1>7

\* A sequence with one more element in front, position by position.
LEMMA WithOneInFront ==
  ASSUME NEW s \in Seq(CIDs), NEW c \in CIDs
  PROVE  /\ <<c>> \o s \in Seq(CIDs)
         /\ Len(<<c>> \o s) = Len(s) + 1
         /\ \A i \in 1..(Len(s) + 1) : (<<c>> \o s)[i] = IF i = 1 THEN c ELSE s[i - 1]
<1>1. <<c>> \in Seq(CIDs) /\ Len(<<c>>) = 1 /\ <<c>>[1] = c
  OBVIOUS
<1>2. Len(s) \in Nat
  OBVIOUS
<1>3. /\ <<c>> \o s \in Seq(CIDs)
      /\ Len(<<c>> \o s) = Len(<<c>>) + Len(s)
      /\ \A i \in 1..(Len(<<c>>) + Len(s)) : (<<c>> \o s)[i] = IF i <= Len(<<c>>) THEN <<c>>[i] ELSE s[i - Len(<<c>>)]
  BY <1>1, ConcatProperties
<1>4. QED
  BY <1>1, <1>2, <1>3

\* addToFront puts the node in front (car_blockstore.go:92-104).
LEMMA AddToFrontSpells ==
  ASSUME NEW l \in NodeLists, NEW S \in SUBSET CIDs, Linked(l, S), NEW s, Spells(s, l, S),
         NEW n \in CIDs \ S
  PROVE  Spells(<<n>> \o s, AddToFront(l, n), S \union {n})
<1> DEFINE r == <<n>> \o s
           m == AddToFront(l, n)
<1>1. s \in Seq(CIDs) /\ Len(s) \in Nat
  BY DEF Spells
<1>2. /\ r \in Seq(CIDs) /\ Len(r) = Len(s) + 1
      /\ \A i \in 1..Len(r) : r[i] = IF i = 1 THEN n ELSE s[i - 1]
  BY <1>1, WithOneInFront
<1> HIDE DEF r
<1>3. \A i \in 1..Len(r) : i # 1 => i - 1 \in 1..Len(s) /\ r[i] \in S /\ r[i] = s[i - 1]
  BY <1>1, <1>2 DEF Spells
<1>4. \A i \in 1..Len(r) : r[i] \in S \union {n}
  BY <1>2, <1>3
<1>5. \A c \in S \union {n} : \E i \in 1..Len(r) : r[i] = c
  <2>1. r[1] = n /\ 1 \in 1..Len(r)
    BY <1>1, <1>2
  <2>2. ASSUME NEW c \in S PROVE \E i \in 1..Len(r) : r[i] = c
    <3>1. PICK i \in 1..Len(s) : s[i] = c
      BY DEF Spells
    <3>2. i + 1 \in 1..Len(r) /\ r[i + 1] = c
      BY <1>1, <1>2, <3>1
    <3>3. QED
      BY <3>2
  <2>3. QED
    BY <2>1, <2>2
<1>6. ASSUME NEW i \in 1..Len(r), NEW j \in 1..Len(r), r[i] = r[j] PROVE i = j
  <2>1. CASE i = 1 \/ j = 1
    <3>1. r[1] = n /\ n \notin S
      BY <1>1, <1>2
    <3>2. QED
      BY <1>3, <1>6, <2>1, <3>1
  <2>2. CASE i # 1 /\ j # 1
    <3>1. i - 1 \in 1..Len(s) /\ j - 1 \in 1..Len(s) /\ s[i - 1] = s[j - 1]
      BY <1>3, <1>6, <2>2
    <3>2. i - 1 = j - 1
      BY <3>1 DEF Spells
    <3>3. QED
      BY <1>1, <1>2, <3>2
  <2>3. QED
    BY <2>1, <2>2
<1>7. m.head = n /\ m.tail = (IF l.tail = NoNode THEN n ELSE l.tail) /\ m.next = [l.next EXCEPT ![n] = l.head]
  BY DEF AddToFront
<1>8. r[1] = m.head
  BY <1>1, <1>2, <1>7
<1>9. r[Len(r)] = m.tail
  <2>1. CASE Len(s) = 0
    <3>1. S = {}
      BY <2>1 DEF Spells
    <3>2. QED
      BY <1>2, <1>7, <2>1, <3>1 DEF Linked
  <2>2. CASE Len(s) # 0
    <3>1. s[Len(s)] = l.tail /\ l.tail \in S
      BY <1>1, <2>2 DEF Spells
    <3>2. r[Len(r)] = s[Len(s)]
      BY <1>1, <1>2, <2>2
    <3>3. QED
      BY <1>7, <3>1, <3>2, NoNodeAssumption
  <2>3. QED
    BY <2>1, <2>2
<1>10. ASSUME NEW i \in 1..(Len(r) - 1) PROVE m.next[r[i]] = r[i + 1]
  <2>0. l.next \in [CIDs -> Pointer]
    BY DEF NodeLists
  <2>1. CASE i = 1
    <3>1. Len(s) # 0 /\ r[2] = s[1] /\ r[1] = n
      BY <1>1, <1>2, <2>1
    <3>2. s[1] = l.head
      BY <3>1 DEF Spells
    <3>3. QED
      BY <1>7, <2>0, <2>1, <3>1, <3>2
  <2>2. CASE i # 1
    <3>1. i - 1 \in 1..(Len(s) - 1) /\ r[i] = s[i - 1] /\ r[i + 1] = s[i] /\ i - 1 + 1 = i
      BY <1>1, <1>2, <2>2
    <3>2. l.next[s[i - 1]] = s[i] /\ r[i] \in S
      <4>1. l.next[s[i - 1]] = s[i - 1 + 1]
        BY <3>1 DEF Spells
      <4>2. QED
        BY <1>1, <1>2, <1>3, <2>2, <3>1, <4>1
    <3>3. QED
      BY <1>7, <2>0, <3>1, <3>2
  <2>3. QED
    BY <2>1, <2>2
<1> HIDE DEF m
<1>11. QED
  BY <1>2, <1>4, <1>5, <1>6, <1>8, <1>9, <1>10 DEF Spells, r, m

\* Unlink takes the node out, wherever it is (car_blockstore.go:75-90, 106-122).
LEMMA UnlinkSpells ==
  ASSUME NEW l \in NodeLists, NEW S \in SUBSET CIDs, Linked(l, S), NEW s, Spells(s, l, S),
         NEW k \in 1..Len(s)
  PROVE  Spells(RemoveAt(s, k), Unlink(l, s[k]), S \ {s[k]})
<1> DEFINE r == RemoveAt(s, k)
           n == s[k]
           m == Unlink(l, n)
<1>1. s \in Seq(CIDs) /\ Len(s) \in Nat /\ n \in S
  BY DEF Spells
<1>2. /\ r \in Seq(CIDs) /\ Len(r) = Len(s) - 1
      /\ \A i \in 1..(Len(s) - 1) : r[i] = IF i < k THEN s[i] ELSE s[i + 1]
  BY <1>1, WithoutOne
<1> HIDE DEF r
<1>3. ASSUME NEW i \in 1..Len(r) PROVE r[i] \in S \ {n}
  <2>1. CASE i < k
    <3>1. i \in 1..Len(s) /\ i # k /\ r[i] = s[i]
      BY <1>1, <1>2, <2>1
    <3>2. QED
      BY <3>1 DEF Spells
  <2>2. CASE ~(i < k)
    <3>1. i + 1 \in 1..Len(s) /\ i + 1 # k /\ r[i] = s[i + 1]
      BY <1>1, <1>2, <2>2
    <3>2. QED
      BY <3>1 DEF Spells
  <2>3. QED
    BY <2>1, <2>2
<1>4. ASSUME NEW c \in S \ {n} PROVE \E i \in 1..Len(r) : r[i] = c
  <2>1. PICK i \in 1..Len(s) : s[i] = c
    BY DEF Spells
  <2>2. i # k
    BY <2>1
  <2>3. CASE i < k
    <3>1. i \in 1..Len(r) /\ r[i] = s[i]
      BY <1>1, <1>2, <2>3
    <3>2. QED
      BY <2>1, <3>1
  <2>4. CASE k < i
    <3>1. i - 1 \in 1..Len(r) /\ r[i - 1] = s[i]
      BY <1>1, <1>2, <2>4
    <3>2. QED
      BY <2>1, <3>1
  <2>5. QED
    BY <1>1, <2>2, <2>3, <2>4
<1>5. ASSUME NEW i \in 1..Len(r), NEW j \in 1..Len(r), r[i] = r[j] PROVE i = j
  <2>1. PICK a \in 1..Len(s) : a = (IF i < k THEN i ELSE i + 1) /\ r[i] = s[a]
    BY <1>1, <1>2
  <2>2. PICK b \in 1..Len(s) : b = (IF j < k THEN j ELSE j + 1) /\ r[j] = s[b]
    BY <1>1, <1>2
  <2>3. a = b
    <3>1. s[a] = s[b]
      BY <1>5, <2>1, <2>2
    <3> HIDE DEF m, n
    <3>2. QED
      BY <3>1 DEF Spells
  <2>4. QED
    BY <2>1, <2>2, <2>3
<1>6. l.next \in [CIDs -> Pointer] /\ l.prev \in [CIDs -> Pointer]
  BY DEF NodeLists
<1>7. ASSUME k # 1 PROVE l.prev[n] = s[k - 1] /\ k - 1 \in 1..Len(s)
  <2>1. k - 1 \in 1..(Len(s) - 1) /\ k - 1 \in 1..Len(s) /\ k - 1 + 1 = k
    BY <1>1, <1>7
  <2>2. l.next[s[k - 1]] = n /\ s[k - 1] \in S
    BY <2>1 DEF Spells
  <2>3. n # NoNode
    BY <1>1, NoNodeAssumption
  <2>4. QED
    BY <2>1, <2>2, <2>3 DEF Linked
<1>8. ASSUME k # Len(s) PROVE l.next[n] = s[k + 1] /\ k + 1 \in 1..Len(s) /\ n # l.tail
  <2>1. k \in 1..(Len(s) - 1) /\ k + 1 \in 1..Len(s)
    BY <1>1, <1>8
  <2>2. l.next[n] = s[k + 1] /\ s[k + 1] \in S
    BY <2>1 DEF Spells
  <2>3. s[k + 1] # NoNode
    BY <2>2, NoNodeAssumption
  <2>4. QED
    BY <1>1, <2>1, <2>2, <2>3 DEF Linked
<1>9. Len(s) # 0 /\ s[1] = l.head /\ s[Len(s)] = l.tail
  BY <1>1 DEF Spells
<1>10. ASSUME Len(r) # 0 PROVE r[1] = m.head /\ r[Len(r)] = m.tail
  <2>1. 1 \in 1..(Len(s) - 1) /\ Len(r) \in 1..(Len(s) - 1)
    BY <1>1, <1>2, <1>10
  <2>2. m.head = (IF n = l.head THEN l.next[n] ELSE l.head) /\ m.tail = (IF n = l.tail THEN l.prev[n] ELSE l.tail)
    BY DEF Unlink
  <2>3. r[1] = m.head
    <3>1. CASE k = 1
      BY <1>1, <1>2, <1>8, <1>9, <2>1, <2>2, <3>1
    <3>2. CASE k # 1
      <4>1. r[1] = s[1]
        BY <1>1, <1>2, <2>1, <3>2
      <4>2. n # l.head
        BY <1>1, <1>9, <3>2 DEF Spells
      <4>3. QED
        BY <1>9, <2>2, <4>1, <4>2
    <3>3. QED
      BY <3>1, <3>2
  <2>4. r[Len(r)] = m.tail
    <3>1. CASE k = Len(s)
      <4>1. k # 1 /\ Len(r) = k - 1 /\ r[k - 1] = s[k - 1]
        BY <1>1, <1>2, <2>1, <3>1
      <4>2. QED
        BY <1>7, <1>9, <2>2, <3>1, <4>1
    <3>2. CASE k # Len(s)
      <4>1. r[Len(r)] = s[Len(s)]
        BY <1>1, <1>2, <2>1, <3>2
      <4>2. QED
        BY <1>8, <1>9, <2>2, <3>2, <4>1
    <3>3. QED
      BY <3>1, <3>2
  <2>5. QED
    BY <2>3, <2>4
<1>11. ASSUME NEW i \in 1..(Len(r) - 1) PROVE m.next[r[i]] = r[i + 1]
  <2>1. m.next = [x \in CIDs |-> IF x = n THEN NoNode ELSE IF x = l.prev[n] THEN l.next[n] ELSE l.next[x]]
    BY DEF Unlink
  <2>2. i \in 1..Len(r) /\ i + 1 \in 1..Len(r) /\ i \in 1..(Len(s) - 1) /\ i + 1 \in 1..(Len(s) - 1)
    BY <1>1, <1>2
  <2>3. r[i] \in CIDs /\ r[i] # n
    BY <1>1, <1>3, <2>2
  <2>4. m.next[r[i]] = IF r[i] = l.prev[n] THEN l.next[n] ELSE l.next[r[i]]
    BY <2>1, <2>3
  <2>5. CASE i + 1 = k
    <3>1. r[i] = s[k - 1] /\ r[i + 1] = s[k + 1] /\ k # 1 /\ k # Len(s)
      BY <1>1, <1>2, <2>2, <2>5
    <3>2. QED
      BY <1>7, <1>8, <2>4, <3>1
  <2>6. ASSUME i + 1 # k, r[i] = l.prev[n] PROVE FALSE
    <3>1. CASE k = 1
      <4>1. l.prev[n] = NoNode
        BY <1>1, <1>9, <3>1 DEF Linked
      <4>2. QED
        BY <2>3, <2>6, <4>1, NoNodeAssumption
    <3>2. CASE k # 1
      <4>1. l.next[l.prev[n]] = n
        <5>1. s[k - 1] \in S
          BY <1>7, <3>2 DEF Spells
        <5>2. QED
          BY <1>1, <1>7, <3>2, <5>1, NoNodeAssumption DEF Linked
      <4>2. CASE i < k
        <5>1. r[i] = s[i] /\ i \in 1..Len(s) /\ i # k - 1
          BY <1>1, <1>2, <2>2, <2>6, <4>2
        <5>2. QED
          BY <1>7, <2>6, <3>2, <5>1 DEF Spells
      <4>3. CASE ~(i < k)
        <5>1. r[i] = s[i + 1] /\ i + 1 \in 1..Len(s) /\ i + 1 # k - 1
          BY <1>1, <1>2, <2>2, <4>3
        <5>2. QED
          BY <1>7, <2>6, <3>2, <5>1 DEF Spells
      <4>4. QED
        BY <4>2, <4>3
    <3>3. QED
      BY <3>1, <3>2
  <2>7. CASE i + 1 # k
    <3>1. m.next[r[i]] = l.next[r[i]]
      BY <2>4, <2>6, <2>7
    <3>2. CASE i + 1 < k
      <4>1. r[i] = s[i] /\ r[i + 1] = s[i + 1] /\ i \in 1..(Len(s) - 1)
        BY <1>1, <1>2, <2>2, <3>2
      <4>2. l.next[s[i]] = s[i + 1]
        BY <4>1 DEF Spells
      <4>3. QED
        BY <3>1, <4>1, <4>2
    <3>3. CASE k < i + 1
      <4>1. r[i] = s[i + 1] /\ r[i + 1] = s[i + 1 + 1] /\ i + 1 \in 1..(Len(s) - 1)
        BY <1>1, <1>2, <2>2, <3>3
      <4>2. l.next[s[i + 1]] = s[i + 1 + 1]
        BY <4>1 DEF Spells
      <4>3. QED
        BY <3>1, <4>1, <4>2
    <3>4. QED
      BY <1>1, <2>2, <2>7, <3>2, <3>3
  <2>8. QED
    BY <2>5, <2>7
<1> HIDE DEF m
<1>12. QED
  BY <1>2, <1>3, <1>4, <1>5, <1>10, <1>11 DEF Spells, r, m

\* A sequence that spells a list has as many elements as the list has nodes.
LEMMA SpelledLength ==
  ASSUME NEW S \in SUBSET CIDs, NEW l, NEW s, Spells(s, l, S)
  PROVE  Cardinality(S) = Len(s) /\ Len(s) \in Nat /\ IsFiniteSet(S)
<1>1. s \in Seq(CIDs) /\ Len(s) \in Nat /\ s \in [1..Len(s) -> CIDs]
  BY DEF Spells
<1>2. s \in [1..Len(s) -> S]
  BY <1>1 DEF Spells
<1>3. s \in Bijection(1..Len(s), S)
  <2>1. s \in Injection(1..Len(s), S)
    <3>1. \A i, j \in 1..Len(s) : s[i] = s[j] => i = j
      BY DEF Spells
    <3>2. QED
      BY <1>2, <3>1 DEF Injection, IsInjective
  <2>2. s \in Surjection(1..Len(s), S)
    <3>1. \A c \in S : \E i \in 1..Len(s) : s[i] = c
      BY DEF Spells
    <3>2. QED
      BY <1>2, <3>1 DEF Surjection
  <2>3. QED
    BY <2>1, <2>2 DEF Bijection
<1>4. ExistsBijection(1..Len(s), S)
  BY <1>3 DEF ExistsBijection
<1>5. QED
  BY <1>1, <1>4, FS_CountingElements, FS_NatBijection

\* Following the pointers visits the nodes in the order spelled.
LEMMA FollowingSpells ==
  ASSUME NEW S \in SUBSET CIDs, NEW l, NEW s, Spells(s, l, S)
  PROVE  OrderOf(l, S) = s
<1> DEFINE n == Len(s)
           Follows(f) == f = [i \in 1..n |-> IF i = 1 THEN l.head ELSE l.next[f[i - 1]]]
           nth == CHOOSE f : Follows(f)
<1>1. Cardinality(S) = n /\ n \in Nat
  BY SpelledLength
<1>2. OrderOf(l, S) = [i \in 1..n |-> nth[i]]
  BY <1>1 DEF OrderOf
<1>3. s = [i \in 1..n |-> s[i]]
  BY DEF Spells
<1>4. \A i \in 1..n : s[i] = IF i = 1 THEN l.head ELSE l.next[s[i - 1]]
  <2> SUFFICES ASSUME NEW i \in 1..n PROVE s[i] = IF i = 1 THEN l.head ELSE l.next[s[i - 1]]
    OBVIOUS
  <2>1. CASE i = 1
    BY <1>1, <2>1 DEF Spells
  <2>2. CASE i # 1
    <3>1. i - 1 \in 1..(n - 1) /\ i - 1 + 1 = i
      BY <1>1, <2>2
    <3>2. l.next[s[i - 1]] = s[i - 1 + 1]
      BY <3>1 DEF Spells
    <3>3. QED
      BY <2>2, <3>1, <3>2
  <2>3. QED
    BY <2>1, <2>2
<1>5. Follows(s)
  BY <1>3, <1>4
<1>6. Follows(nth)
  BY <1>5
<1> HIDE DEF nth
<1>7. \A i \in 1..n : nth[i] = IF i = 1 THEN l.head ELSE l.next[nth[i - 1]]
  <2>1. \A f : Follows(f) => \A i \in 1..n : f[i] = IF i = 1 THEN l.head ELSE l.next[f[i - 1]]
    OBVIOUS
  <2> HIDE DEF Follows
  <2>2. QED
    BY <1>6, <2>1
<1> DEFINE Differ == {i \in 1..n : nth[i] # s[i]}
<1>8. ASSUME Differ # {} PROVE FALSE
  <2>1. Differ \in SUBSET Nat
    BY <1>1
  <2>2. PICK k \in Differ : \A j \in Differ : k <= j
    BY <1>8, <2>1, MinExists
  <2>3. k \in 1..n /\ nth[k] # s[k]
    BY <2>2
  <2>4. k # 1
    BY <1>4, <1>7, <2>3
  <2>5. k - 1 \in 1..n /\ ~(k <= k - 1)
    BY <1>1, <2>3, <2>4
  <2>6. nth[k - 1] = s[k - 1]
    BY <2>2, <2>5
  <2>7. QED
    BY <1>4, <1>7, <2>3, <2>4, <2>6
<1>9. \A i \in 1..n : nth[i] = s[i]
  BY <1>8
<1>10. QED
  BY <1>2, <1>3, <1>9

\* Where a node is in a sequence that spells the list.
LEMMA PlaceSpelled ==
  ASSUME NEW S, NEW l, NEW s, Spells(s, l, S), NEW c \in S
  PROVE  Order!PlaceOf(s, c) \in 1..Len(s) /\ s[Order!PlaceOf(s, c)] = c
<1>1. \E i \in 1..Len(s) : s[i] = c
  BY DEF Spells
<1>2. QED
  BY <1>1 DEF Order!PlaceOf

\* moveToFront is a use (car_blockstore.go:106-122).
LEMMA MoveToFrontSpells ==
  ASSUME NEW l \in NodeLists, NEW S \in SUBSET CIDs, NEW t \in [CIDs -> Nat],
         Linked(l, S), ByRecency(l, S, t), NEW s, Spells(s, l, S), NEW c \in S
  PROVE  Spells(Order!Used(s, c), MoveToFront(l, c), S)
<1> DEFINE k == Order!PlaceOf(s, c)
<1>1. k \in 1..Len(s) /\ s[k] = c
  BY PlaceSpelled
<1>2. Order!Used(s, c) = <<c>> \o RemoveAt(s, k)
  BY DEF Order!Used, Order!RemoveAt, RemoveAt
<1> HIDE DEF k
<1>3. s \in Seq(CIDs) /\ Len(s) \in Nat
  BY DEF Spells
<1>4. CASE c = l.head
  <2>1. k = 1
    <3>1. Len(s) # 0 /\ 1 \in 1..Len(s)
      BY <1>1, <1>3
    <3>2. s[1] = c
      BY <1>4, <3>1 DEF Spells
    <3>3. QED
      BY <1>1, <3>1, <3>2 DEF Spells
  <2> DEFINE r == RemoveAt(s, k)
             u == <<c>> \o r
  <2>2. /\ r \in Seq(CIDs) /\ Len(r) = Len(s) - 1
        /\ \A i \in 1..(Len(s) - 1) : r[i] = s[i + 1]
    BY <1>1, <1>3, <2>1, WithoutOne
  <2> HIDE DEF r
  <2>3. /\ u \in Seq(CIDs) /\ Len(u) = Len(r) + 1
        /\ \A i \in 1..(Len(r) + 1) : u[i] = IF i = 1 THEN c ELSE r[i - 1]
    BY <2>2, WithOneInFront
  <2> HIDE DEF u
  <2>4. ASSUME NEW i \in 1..Len(s) PROVE u[i] = s[i]
    <3>1. CASE i = 1
      BY <1>1, <1>3, <2>1, <2>2, <2>3, <3>1
    <3>2. CASE i # 1
      <4>1. i - 1 \in 1..(Len(s) - 1) /\ i - 1 + 1 = i
        BY <1>3, <3>2
      <4>2. r[i - 1] = s[i - 1 + 1]
        BY <2>2, <4>1
      <4>3. i \in 1..(Len(r) + 1)
        BY <1>3, <2>2
      <4>4. u[i] = r[i - 1]
        BY <2>3, <3>2, <4>3
      <4>5. QED
        BY <4>1, <4>2, <4>4
    <3>3. QED
      BY <3>1, <3>2
  <2>5. Len(u) = Len(s)
    BY <1>3, <2>2, <2>3
  <2>6. u = s
    BY <1>3, <2>3, <2>4, <2>5, SeqEqual
  <2>7. MoveToFront(l, c) = l
    BY <1>4 DEF MoveToFront
  <2>8. QED
    BY <1>2, <2>6, <2>7 DEF u, r
<1>5. CASE c # l.head
  <2> DEFINE r == RemoveAt(s, k)
             m == Unlink(l, c)
  <2>1. Spells(r, m, S \ {c})
    BY <1>1, UnlinkSpells
  <2>2. m \in NodeLists /\ Linked(m, S \ {c})
    BY UnlinkLinks
  <2>3. MoveToFront(l, c) = AddToFront(m, c)
    BY <1>5 DEF MoveToFront
  <2>4. Order!Used(s, c) = <<c>> \o r
    BY <1>2
  <2> HIDE DEF m, r
  <2>5. S \ {c} \in SUBSET CIDs /\ c \in CIDs \ (S \ {c}) /\ (S \ {c}) \union {c} = S
    OBVIOUS
  <2>6. Spells(<<c>> \o r, AddToFront(m, c), (S \ {c}) \union {c})
    BY <2>1, <2>2, <2>5, AddToFrontSpells
  <2>7. QED
    BY <2>3, <2>4, <2>5, <2>6
<1>6. QED
  BY <1>4, <1>5

-----------------------------------------------------------------------------
(* The bytes along the sequence, and what a Put keeps of it. *)

\* The counter's two definitions: bytes as elements, and lengths summed.
LEMMA BytesAreASum ==
  ASSUME NEW S \in SUBSET CIDs
  PROVE  IsFiniteSet(S) /\ IsFiniteSet(ByteSet(S)) /\ SumOver(BlockLen, S) = Cardinality(ByteSet(S))
<1> DEFINE Good(T) == IsFiniteSet(ByteSet(T)) /\ SumOver(BlockLen, T) = Cardinality(ByteSet(T))
           Bad == {T \in SUBSET CIDs : ~Good(T)}
<1>0. IsFiniteSet(CIDs) /\ \A c \in CIDs : BlockLen[c] \in Nat
  BY LRUAssumption
<1>1. ASSUME Bad # {} PROVE FALSE
  <2>1. PICK T \in Bad : \A U \in SUBSET T : U # T => U \notin Bad
    <3>1. Bad \in SUBSET (SUBSET CIDs)
      OBVIOUS
    <3> HIDE DEF Bad
    <3>2. QED
      BY <1>0, <1>1, <3>1, SmallestMember
  <2>2. T \in SUBSET CIDs /\ ~Good(T)
    OBVIOUS
  <2>3. T # {}
    <3>1. SumOver(BlockLen, {}) = 0
      BY FS_EmptySet, SumSteps
    <3>2. QED
      BY <2>2, <3>1, NoBytes
  <2>4. PICK c \in T : TRUE
    BY <2>3
  <2>5. Good(T \ {c})
    BY <2>1, <2>2, <2>4
  <2>6. T = (T \ {c}) \union {c} /\ c \in CIDs \ (T \ {c}) /\ T \ {c} \in SUBSET CIDs
    BY <2>2, <2>4
  <2>7. SumOver(BlockLen, (T \ {c}) \union {c}) = BlockLen[c] + SumOver(BlockLen, T \ {c})
    BY <1>0, <2>6, SumOfOneMore
  <2>8. /\ IsFiniteSet(ByteSet((T \ {c}) \union {c}))
        /\ Cardinality(ByteSet((T \ {c}) \union {c})) = Cardinality(ByteSet(T \ {c})) + BlockLen[c]
    BY <2>5, <2>6, BytesAfterAdd
  <2>9. Cardinality(ByteSet(T \ {c})) \in Nat /\ BlockLen[c] \in Nat
    BY <1>0, <2>5, <2>6, FS_CardinalityType
  <2>10. Good(T)
    <3>1. SumOver(BlockLen, T) = BlockLen[c] + SumOver(BlockLen, T \ {c})
      BY <2>6, <2>7
    <3>2. IsFiniteSet(ByteSet(T)) /\ Cardinality(ByteSet(T)) = Cardinality(ByteSet(T \ {c})) + BlockLen[c]
      BY <2>6, <2>8
    <3>3. SumOver(BlockLen, T \ {c}) = Cardinality(ByteSet(T \ {c}))
      BY <2>5
    <3>4. SumOver(BlockLen, T) = Cardinality(ByteSet(T))
      BY <2>9, <3>1, <3>2, <3>3
    <3>5. QED
      BY <3>2, <3>4
  <2>11. QED
    BY <2>2, <2>10
<1>2. Good(S)
  BY <1>1
<1>3. IsFiniteSet(S)
  BY <1>0, FS_Subset
<1>4. QED
  BY <1>2, <1>3

\* The bytes along a sequence that spells a list are those of its nodes.
LEMMA SpelledBytes ==
  ASSUME NEW S \in SUBSET CIDs, NEW l, NEW s, Spells(s, l, S)
  PROVE  Order!Bytes(s) = Cardinality(ByteSet(S))
<1> DEFINE n == Len(s)
           f == [i \in 1..n |-> BlockLen[s[i]]]
           at == [c \in S |-> CHOOSE i \in 1..n : s[i] = c]
<1>1. s \in Seq(CIDs) /\ n \in Nat /\ DOMAIN s = 1..n /\ IsFiniteSet(1..n)
  <2>1. s \in Seq(CIDs)
    BY DEF Spells
  <2>2. n \in Nat /\ DOMAIN s = 1..n
    BY <2>1
  <2>3. QED
    BY <2>1, <2>2, FS_Interval
<1>2. Order!Bytes(s) = SumOver(f, 1..n)
  BY <1>1 DEF Order!Bytes, Order!FoldSeq, Order!FoldFunction, Order!FoldFunctionOnSet, Order!MapThenFoldSet, SumOver,
     FoldFunctionOnSet, MapThenFoldSet, LengthOf
<1>3. IsFiniteSet(S) /\ \A c \in S : BlockLen[c] \in Nat
  BY BytesAreASum, LRUAssumption
<1>4. \A i \in 1..n : s[i] \in S /\ f[i] = BlockLen[s[i]] /\ f[i] \in Nat
  BY <1>3 DEF Spells
<1>5. \A c \in S : at[c] \in 1..n /\ s[at[c]] = c
  BY DEF Spells
<1>6. \A i, j \in 1..n : s[i] = s[j] => i = j
  BY DEF Spells
<1> HIDE DEF f, at, n
<1>7. SumOver(f, 1..n) <= SumOver(BlockLen, S)
  BY <1>1, <1>3, <1>4, <1>6, SumOfPart
<1>8. SumOver(BlockLen, S) <= SumOver(f, 1..n)
  <2>1. \A c \in S : BlockLen[c] \in Nat /\ at[c] \in 1..n /\ f[at[c]] = BlockLen[c]
    BY <1>3, <1>4, <1>5
  <2>2. \A c, d \in S : at[c] = at[d] => c = d
    BY <1>5
  <2>3. QED
    BY <1>1, <1>3, <1>4, <2>1, <2>2, SumOfPart
<1>9. SumOver(f, 1..n) \in Nat /\ SumOver(BlockLen, S) \in Nat
  BY <1>1, <1>3, <1>4, SumIsNat
<1>10. QED
  BY <1>2, <1>7, <1>8, <1>9, BytesAreASum

\* What fits is kept whole, and from nothing nothing is kept: a Put whose
\* loop has ended evicts no more.
LEMMA KeptWhole ==
  ASSUME NEW s \in Seq(CIDs), NEW c \in CIDs,
         s = << >> \/ Order!Bytes(s) + BlockLen[c] <= Limit
  PROVE  Order!KeptFor(s, c, Limit) = s
<1> DEFINE n == Len(s)
           fits == {i \in 1..n : Order!Bytes(SubSeq(s, 1, i)) + LengthOf(c) <= Limit}
<1>1. n \in Nat
  OBVIOUS
<1>2. Order!KeptFor(s, c, Limit) = IF fits = {} THEN << >> ELSE SubSeq(s, 1, Max(fits))
  BY DEF Order!KeptFor, Order!Max, Max
<1>3. CASE s = << >>
  BY <1>2, <1>3
<1>4. CASE s # << >> /\ Order!Bytes(s) + BlockLen[c] <= Limit
  <2>1. n \in 1..n /\ SubSeq(s, 1, n) = s
    BY <1>1, <1>4
  <2>2. n \in fits
    BY <1>4, <2>1 DEF LengthOf
  <2>3. fits \in SUBSET Nat /\ IsFiniteSet(fits) /\ fits # {} /\ fits \subseteq 1..n
    <3>1. IsFiniteSet(1..n)
      BY <1>1, FS_Interval
    <3>2. fits \subseteq 1..n /\ fits \in SUBSET Nat
      BY <1>1
    <3> HIDE DEF fits
    <3>3. QED
      BY <2>2, <3>1, <3>2, FS_Subset
  <2> HIDE DEF fits
  <2>4. Max(fits) \in fits /\ Max(fits) >= n
    BY <2>2, <2>3, MaxExists
  <2>5. Max(fits) = n
    <3>1. Max(fits) \in 1..n
      BY <2>3, <2>4
    <3>2. QED
      BY <1>1, <2>4, <3>1
  <2>6. QED
    BY <1>2, <2>1, <2>3, <2>5
<1>5. QED
  BY <1>3, <1>4

\* As long as the block does not fit, dropping the last one first changes
\* nothing: a round of the loop makes no difference to its outcome.
LEMMA KeptAfterEviction ==
  ASSUME NEW s \in Seq(CIDs), NEW c \in CIDs, Len(s) # 0,
         ~(Order!Bytes(s) + BlockLen[c] <= Limit)
  PROVE  Order!KeptFor(SubSeq(s, 1, Len(s) - 1), c, Limit) = Order!KeptFor(s, c, Limit)
<1> DEFINE n == Len(s)
           r == SubSeq(s, 1, n - 1)
           Fits(x) == {i \in 1..Len(x) : Order!Bytes(SubSeq(x, 1, i)) + LengthOf(c) <= Limit}
<1>1. n \in Nat /\ n # 0
  OBVIOUS
<1>2. \A x : Order!KeptFor(x, c, Limit) = IF Fits(x) = {} THEN << >> ELSE SubSeq(x, 1, Max(Fits(x)))
  BY DEF Order!KeptFor, Order!Max, Max
<1>3. /\ r \in Seq(CIDs) /\ Len(r) = n - 1
      /\ \A j \in 1..(n - 1) : r[j] = s[j]
  <2>1. n - 1 \in Nat /\ \A j \in 1..(n - 1) : j \in 1..n
    BY <1>1
  <2>2. r \in Seq(CIDs) /\ Len(r) = n - 1
    <3>1. \A j \in 1..(n - 1) : s[j] \in CIDs
      BY <2>1
    <3> DEFINE m == n - 1
    <3>2. m \in Int /\ 1 \in Int /\ m \in Nat /\ \A j \in 1..m : s[j] \in CIDs
      BY <2>1, <3>1
    <3> HIDE DEF m
    <3>3. SubSeq(s, 1, m) \in Seq(CIDs) /\ Len(SubSeq(s, 1, m)) = (IF 1 <= m THEN m - 1 + 1 ELSE 0)
      BY <3>2, SubSeqProperties
    <3>4. SubSeq(s, 1, m) \in Seq(CIDs) /\ Len(SubSeq(s, 1, m)) = m
      BY <3>2, <3>3
    <3>5. QED
      BY <3>4 DEF m, r
  <2>3. \A j \in 1..(n - 1) : r[j] = s[j]
    BY <1>1, <2>1
  <2>4. QED
    BY <2>2, <2>3
<1> HIDE DEF r
<1>4. ASSUME NEW i \in 1..(n - 1) PROVE SubSeq(r, 1, i) = SubSeq(s, 1, i)
  <2> DEFINE a == SubSeq(r, 1, i)
             b == SubSeq(s, 1, i)
  <2>1. a \in Seq(CIDs) /\ Len(a) = i /\ \A j \in 1..i : a[j] = r[j]
    BY <1>1, <1>3
  <2>2. b \in Seq(CIDs) /\ Len(b) = i /\ \A j \in 1..i : b[j] = s[j]
    BY <1>1, <1>3
  <2>3. \A j \in 1..i : r[j] = s[j]
    BY <1>1, <1>3
  <2> HIDE DEF a, b
  <2>4. a = b
    BY <2>1, <2>2, <2>3, SeqEqual
  <2>5. QED
    BY <2>4 DEF a, b
<1>5. SubSeq(s, 1, n) = s
  BY <1>1
<1>6. Fits(s) = Fits(r)
  <2>1. n \notin Fits(s)
    BY <1>5 DEF LengthOf
  <2>2. \A i : i \in 1..n <=> i \in 1..(n - 1) \/ i = n
    BY <1>1
  <2>3. 1..Len(r) = 1..(n - 1)
    BY <1>3
  <2> DEFINE Fit(x, i) == Order!Bytes(SubSeq(x, 1, i)) + LengthOf(c) <= Limit
  <2>4. \A i \in 1..(n - 1) : Fit(r, i) = Fit(s, i)
    BY <1>4
  <2>5. \A x : Fits(x) = {i \in 1..Len(x) : Fit(x, i)}
    OBVIOUS
  <2> HIDE DEF Fit
  <2>6. Fits(r) = {i \in 1..(n - 1) : Fit(r, i)} /\ Fits(s) = {i \in 1..n : Fit(s, i)}
    BY <2>3, <2>5
  <2> HIDE DEF Fits
  <2>7. QED
    BY <2>1, <2>2, <2>4, <2>6
<1>7. CASE Fits(s) = {}
  BY <1>2, <1>6, <1>7 DEF r
<1>8. CASE Fits(s) # {}
  <2> DEFINE fits == Fits(r)
  <2>1. fits \in SUBSET Nat /\ IsFiniteSet(fits) /\ fits # {} /\ fits \subseteq 1..(n - 1)
    <3>1. IsFiniteSet(1..(n - 1))
      BY <1>1, FS_Interval
    <3>2. fits \subseteq 1..(n - 1) /\ fits \in SUBSET Nat
      BY <1>1, <1>3
    <3>3. fits # {}
      BY <1>6, <1>8
    <3> HIDE DEF fits
    <3>4. QED
      BY <3>1, <3>2, <3>3, FS_Subset
  <2>2. Max(fits) \in 1..(n - 1)
    <3> HIDE DEF fits
    <3>1. QED
      BY <2>1, MaxExists
  <2>3. SubSeq(r, 1, Max(fits)) = SubSeq(s, 1, Max(fits))
    <3> HIDE DEF fits
    <3>1. QED
      BY <1>4, <2>2
  <2>4. QED
    BY <1>2, <1>6, <1>8, <2>3 DEF r
<1>9. QED
  BY <1>7, <1>8

-----------------------------------------------------------------------------
(* The refinement. *)

\* LRUCache's Put is the one the refinement mapping uses.
LEMMA OnePut ==
  /\ \A s, c : Abstract!Put(s, c, Limit) = Order!Put(s, c, Limit)
  /\ \A s, c : Abstract!Used(s, c) = Order!Used(s, c)
  /\ \A s, c : Abstract!RemoveAt(s, Abstract!PlaceOf(s, c)) = RemoveAt(s, Order!PlaceOf(s, c))
  /\ \A s : Abstract!ToSet(s) = ToSet(s) /\ Order!ToSet(s) = ToSet(s)
<1>1. \A s : Abstract!Bytes(s) = Order!Bytes(s)
  BY DEF Order!Bytes, Order!FoldSeq, Order!FoldFunction, Order!FoldFunctionOnSet, Order!MapThenFoldSet,
     Abstract!Bytes, Abstract!FoldSeq, Abstract!FoldFunction, Abstract!FoldFunctionOnSet, Abstract!MapThenFoldSet
<1>2. \A s, c : Abstract!KeptFor(s, c, Limit) = Order!KeptFor(s, c, Limit)
  <2> SUFFICES ASSUME NEW s, NEW c PROVE Abstract!KeptFor(s, c, Limit) = Order!KeptFor(s, c, Limit)
    OBVIOUS
  <2> DEFINE a == {n \in 1..Len(s) : Abstract!Bytes(SubSeq(s, 1, n)) + LengthOf(c) <= Limit}
             b == {n \in 1..Len(s) : Order!Bytes(SubSeq(s, 1, n)) + LengthOf(c) <= Limit}
  <2>1. a = b
    BY <1>1
  <2>2. Abstract!KeptFor(s, c, Limit) = IF a = {} THEN << >> ELSE SubSeq(s, 1, Max(a))
    BY DEF Abstract!KeptFor, Abstract!Max, Max
  <2>3. Order!KeptFor(s, c, Limit) = IF b = {} THEN << >> ELSE SubSeq(s, 1, Max(b))
    BY DEF Order!KeptFor, Order!Max, Max
  <2>4. QED
    BY <2>1, <2>2, <2>3
<1>3. \A s, c : Abstract!PlaceOf(s, c) = Order!PlaceOf(s, c)
  BY DEF Abstract!PlaceOf, Order!PlaceOf
<1>4. \A s, k : Abstract!RemoveAt(s, k) = Order!RemoveAt(s, k) /\ Order!RemoveAt(s, k) = RemoveAt(s, k)
  BY DEF Abstract!RemoveAt, Order!RemoveAt, RemoveAt
<1>5. \A s, c : Abstract!Used(s, c) = Order!Used(s, c)
  BY <1>3, <1>4 DEF Abstract!Used, Order!Used
<1>6. \A s : Abstract!ToSet(s) = ToSet(s) /\ Order!ToSet(s) = ToSet(s)
  BY DEF Abstract!ToSet, Order!ToSet, ToSet
<1>7. \A s, c : Abstract!Put(s, c, Limit) = Order!Put(s, c, Limit)
  BY <1>2, <1>5, <1>6 DEF Abstract!Put, Order!Put
<1>8. QED
  BY <1>3, <1>4, <1>5, <1>6, <1>7

\* The sequence that the list spells now and in the next state.
Spelled(s) == Spells(s, list, blocks)

LEMMA SpelledIsRecency ==
  ASSUME IInv, NEW s, Spelled(s)
  PROVE  /\ s \in Seq(CIDs)
         /\ OrderOf(list, blocks) = s
         /\ Recency = IF Unlocked THEN s ELSE Order!Put(s, putting, Limit)
         /\ Order!Bytes(s) = size
         /\ \A c : c \in ToSet(s) <=> c \in blocks
<1>1. blocks \in SUBSET CIDs
  BY DEF IInv, TypeOK
<1>2. OrderOf(list, blocks) = s
  BY <1>1, FollowingSpells DEF Spelled
<1>3. Order!Bytes(s) = size
  BY <1>1, SpelledBytes DEF Spelled, IInv, SizeIsBytesStored
<1>4. s \in Seq(CIDs)
  BY DEF Spelled, Spells
<1>5. \A c : c \in ToSet(s) <=> \E i \in 1..Len(s) : s[i] = c
  BY <1>4 DEF ToSet
<1>6. \A c : c \in blocks <=> \E i \in 1..Len(s) : s[i] = c
  BY <1>4 DEF Spelled, Spells
<1>7. QED
  BY <1>2, <1>3, <1>4, <1>5, <1>6 DEF Recency

\* What the lemmas about the list ask for.
LEMMA ListFacts ==
  ASSUME IInv
  PROVE  /\ list \in NodeLists /\ blocks \in SUBSET CIDs
         /\ lastUse \in [CIDs -> Nat] /\ Linked(list, blocks) /\ ByRecency(list, blocks, lastUse)
<1>1. now \in Nat /\ lastUse \in [CIDs -> 0..now]
  BY DEF IInv, TypeOK
<1>2. lastUse \in [CIDs -> Nat]
  BY <1>1
<1>3. QED
  BY <1>2 DEF IInv, TypeOK, ListMatchesMap

\* A use of a stored block (car_blockstore.go:48-53, 160-163).
LEMMA UseRefines ==
  ASSUME IInv, IInv', NEW s, Spelled(s), Unlocked, NEW c \in blocks,
         list' = MoveToFront(list, c), UNCHANGED <<blocks, putting>>
  PROVE  (\E r : Spelled(r))' /\ Abstract!UseBlock(c)
<1> DEFINE r == Order!Used(s, c)
<1>1. Spells(r, list', blocks')
  BY ListFacts, MoveToFrontSpells DEF Spelled
<1> HIDE DEF r
<1>2. Spelled(r)'
  BY <1>1 DEF Spelled
<1>3. Recency = s /\ c \in ToSet(s)
  BY SpelledIsRecency
<1>4. OrderOf(list', blocks') = r
  <2>1. blocks' \in SUBSET CIDs
    BY ListFacts
  <2>2. QED
    BY <1>1, <2>1, FollowingSpells
<1>5. Recency' = r
  BY <1>4 DEF Recency, Unlocked
<1>6. Abstract!UseBlock(c)
  BY <1>3, <1>5, OnePut DEF Abstract!UseBlock, Abstract!Idle, Unlocked, r
<1>7. QED
  BY <1>2, <1>6

\* DeleteBlock of a stored block (car_blockstore.go:195-218).
LEMMA DeleteRefines ==
  ASSUME IInv, NEW s, Spelled(s), NEW c \in CIDs, DeleteBlock(c)
  PROVE  (\E r : Spelled(r))' /\ Abstract!DeleteBlock(c)
<1> DEFINE k == Order!PlaceOf(s, c)
           r == RemoveAt(s, k)
<1>1. c \in blocks /\ list' = Unlink(list, c) /\ blocks' = blocks \ {c} /\ Unlocked /\ putting' = putting
  BY DEF DeleteBlock
<1>2. k \in 1..Len(s) /\ s[k] = c
  BY <1>1, PlaceSpelled DEF Spelled
<1> HIDE DEF k
<1>3. Spells(r, list', blocks')
  BY <1>1, <1>2, ListFacts, UnlinkSpells DEF Spelled
<1> HIDE DEF r
<1>4. Spelled(r)'
  BY <1>3 DEF Spelled
<1>5. Recency = s /\ c \in ToSet(s)
  BY <1>1, SpelledIsRecency
<1>6. OrderOf(list', blocks') = r
  <2>1. blocks' \in SUBSET CIDs
    BY <1>1, ListFacts
  <2>2. QED
    BY <1>3, <2>1, FollowingSpells
<1>7. Recency' = r
  BY <1>1, <1>6 DEF Recency, Unlocked
<1>8. Abstract!DeleteBlock(c)
  BY <1>1, <1>5, <1>7, OnePut DEF Abstract!DeleteBlock, Abstract!Idle, Unlocked, r, k
<1>9. QED
  BY <1>4, <1>8

\* A Put of a new block begins: the abstract one happens.
LEMMA PutNewRefines ==
  ASSUME IInv, NEW s, Spelled(s), NEW c \in CIDs, PutNew(c)
  PROVE  (\E r : Spelled(r))' /\ Abstract!PutBlock(c)
<1>1. Spelled(s)'
  BY DEF PutNew, Spelled
<1>2. Recency = s /\ c \notin ToSet(s)
  BY SpelledIsRecency DEF PutNew
<1>3. Recency' = Order!Put(s, c, Limit)
  <2>1. OrderOf(list', blocks') = s
    BY SpelledIsRecency DEF PutNew
  <2>2. putting' = c /\ putting' # NoNode
    BY NoNodeAssumption DEF PutNew
  <2>3. QED
    BY <2>1, <2>2 DEF Recency, Unlocked
<1>4. Abstract!PutBlock(c)
  BY <1>2, <1>3, OnePut DEF Abstract!PutBlock, Abstract!Idle, PutNew, Unlocked
<1>5. QED
  BY <1>1, <1>4

\* A round of the eviction loop: the abstract cache dropped the block before.
LEMMA EvictOneRefines ==
  ASSUME IInv, NEW s, Spelled(s), EvictOne
  PROVE  (\E r : Spelled(r))' /\ UNCHANGED Abstract!cache
<1> DEFINE n == Len(s)
           r == SubSeq(s, 1, n - 1)
<1>1. /\ list.tail \in blocks /\ list' = Unlink(list, list.tail) /\ blocks' = blocks \ {list.tail}
      /\ ~Unlocked /\ putting' = putting /\ ~Unlocked' /\ putting \in CIDs \ blocks
  BY EvictionUnlinksTail DEF EvictOne, IInv, TypeOK, Unlocked, Pointer
<1>2. s \in Seq(CIDs) /\ n \in Nat
  BY DEF Spelled, Spells
<1>3. n # 0 /\ n \in 1..n /\ s[n] = list.tail
  BY <1>1, <1>2 DEF Spelled, Spells
<1>4. RemoveAt(s, n) = r
  <2>1. SubSeq(s, n + 1, n) = << >>
    BY <1>2
  <2>2. r \in Seq(CIDs)
    <3>1. n - 1 \in Int /\ \A i \in 1..(n - 1) : s[i] \in CIDs
      BY <1>2, <1>3
    <3>2. QED
      BY <3>1, SubSeqProperties
  <2> HIDE DEF r
  <2>3. r \o << >> = r
    BY <2>2
  <2>4. QED
    BY <2>1, <2>3 DEF RemoveAt, r
<1> HIDE DEF r
<1>5. Spells(r, list', blocks')
  <2>1. Spells(RemoveAt(s, n), Unlink(list, s[n]), blocks \ {s[n]})
    BY <1>3, ListFacts, UnlinkSpells DEF Spelled
  <2>2. QED
    BY <1>1, <1>3, <1>4, <2>1
<1>6. Spelled(r)'
  BY <1>5 DEF Spelled
<1>7. OrderOf(list', blocks') = r
  <2>1. blocks' \in SUBSET CIDs
    BY <1>1, ListFacts
  <2>2. QED
    BY <1>5, <2>1, FollowingSpells
<1>8. Order!KeptFor(r, putting, Limit) = Order!KeptFor(s, putting, Limit)
  <2>1. Order!Bytes(s) = size
    BY SpelledIsRecency
  <2>2. size + BlockLen[putting] > Limit
    BY DEF EvictOne, MustEvict
  <2>3. size \in Nat /\ BlockLen[putting] \in Nat /\ Limit \in Nat
    BY <1>1, LRUAssumption DEF IInv, TypeOK
  <2>4. ~(Order!Bytes(s) + BlockLen[putting] <= Limit)
    BY <2>1, <2>2, <2>3
  <2>5. QED
    BY <1>1, <1>2, <1>3, <2>4, KeptAfterEviction DEF r
<1>9. putting \notin ToSet(s) /\ putting \notin ToSet(r)
  <2>1. \A i \in 1..Len(r) : r[i] \in blocks'
    BY <1>5 DEF Spells
  <2>2. r \in Seq(CIDs)
    BY <1>5 DEF Spells
  <2>3. QED
    BY <1>1, <2>1, <2>2, SpelledIsRecency DEF ToSet
<1>10. Order!Put(r, putting, Limit) = Order!Put(s, putting, Limit)
  BY <1>8, <1>9, OnePut DEF Order!Put
<1>11. Recency' = Recency
  <2>1. Recency = Order!Put(s, putting, Limit)
    BY <1>1, SpelledIsRecency
  <2>2. Recency' = Order!Put(r, putting, Limit)
    BY <1>1, <1>7 DEF Recency
  <2>3. QED
    BY <1>10, <2>1, <2>2
<1>12. QED
  BY <1>1, <1>6, <1>11 DEF Abstract!cache

\* A Put ends: the abstract one returns.
LEMMA InsertRefines ==
  ASSUME IInv, NEW s, Spelled(s), Insert
  PROVE  (\E r : Spelled(r))' /\ Abstract!PutReturns
<1>0. PICK c : c = putting
  OBVIOUS
<1> DEFINE r == <<c>> \o s
<1>1. /\ c \in CIDs \ blocks /\ list' = AddToFront(list, c) /\ blocks' = blocks \union {c}
      /\ ~Unlocked /\ putting' = NoNode
  BY <1>0 DEF Insert, IInv, TypeOK, Unlocked, Pointer
<1>2. Spells(r, list', blocks')
  BY <1>1, ListFacts, AddToFrontSpells DEF Spelled
<1>3. s \in Seq(CIDs)
  BY DEF Spelled, Spells
<1>4. s = << >> \/ Order!Bytes(s) + BlockLen[c] <= Limit
  <2>1. CASE blocks = {}
    <3>1. Len(s) = 0
      BY <1>3, <2>1 DEF Spelled, Spells
    <3>2. QED
      BY <1>3, <3>1
  <2>2. CASE blocks # {}
    <3>1. ~(size + BlockLen[c] > Limit)
      BY <1>0, <2>2 DEF Insert, MustEvict
    <3>2. size \in Nat /\ BlockLen[c] \in Nat /\ Limit \in Nat
      BY <1>1, LRUAssumption DEF IInv, TypeOK
    <3>3. QED
      BY <3>1, <3>2, SpelledIsRecency
  <2>3. QED
    BY <2>1, <2>2
<1>5. Order!KeptFor(s, c, Limit) = s
  BY <1>1, <1>3, <1>4, KeptWhole
<1>6. c \notin ToSet(s)
  BY <1>1, SpelledIsRecency
<1>7. Order!Put(s, c, Limit) = r
  BY <1>5, <1>6, OnePut DEF Order!Put
<1>8. Recency = r
  BY <1>0, <1>1, <1>7, SpelledIsRecency
<1> HIDE DEF r
<1>9. Spelled(r)'
  BY <1>2 DEF Spelled
<1>10. OrderOf(list', blocks') = r
  <2>1. blocks' \in SUBSET CIDs
    BY <1>1, ListFacts
  <2>2. QED
    BY <1>2, <2>1, FollowingSpells
<1>11. Recency' = r
  BY <1>1, <1>10 DEF Recency, Unlocked
<1>12. QED
  BY <1>1, <1>8, <1>9, <1>11 DEF Abstract!PutReturns, Abstract!Idle, Unlocked

\* Every step of the store is a step of the abstract cache, or none.
LEMMA StepRefines ==
  ASSUME IInv, \E s : Spelled(s), [Next]_vars
  PROVE  (\E s : Spelled(s))' /\ [Abstract!Next]_(Abstract!cache)
<1> PICK s : Spelled(s)
  OBVIOUS
<1>1. ASSUME NEW c \in CIDs, PutKnown(c) \/ Get(c) PROVE (\E r : Spelled(r))' /\ Abstract!UseBlock(c)
  <2>1. IInv'
    BY NextKeepsIInv
  <2>2. Unlocked /\ c \in blocks /\ list' = MoveToFront(list, c) /\ UNCHANGED <<blocks, putting>>
    BY <1>1 DEF PutKnown, Get
  <2>3. QED
    BY <2>1, <2>2, UseRefines
<1>2. ASSUME NEW c \in CIDs, PutNew(c) PROVE (\E r : Spelled(r))' /\ Abstract!PutBlock(c)
  BY <1>2, PutNewRefines
<1>3. ASSUME NEW c \in CIDs, DeleteBlock(c) PROVE (\E r : Spelled(r))' /\ Abstract!DeleteBlock(c)
  BY <1>3, DeleteRefines
<1>4. CASE EvictOne
  BY <1>4, EvictOneRefines
<1>5. CASE Insert
  <2>1. (\E r : Spelled(r))' /\ Abstract!PutReturns
    BY <1>5, InsertRefines
  <2>2. QED
    BY <2>1 DEF Abstract!Next
<1>6. CASE UNCHANGED vars
  <2>1. Spelled(s)'
    BY <1>6 DEF vars, Spelled
  <2>2. Recency' = Recency /\ putting' = putting
    BY <1>6 DEF vars, Recency, Unlocked
  <2>3. QED
    BY <2>1, <2>2 DEF Abstract!cache
<1>7. QED
  BY <1>1, <1>2, <1>3, <1>4, <1>5, <1>6 DEF Next, Abstract!Next

\* The initial store is the initial cache.
LEMMA InitRefines == Init => (\E s : Spelled(s)) /\ Abstract!Init
<1> SUFFICES ASSUME Init PROVE (\E s : Spelled(s)) /\ Abstract!Init
  OBVIOUS
<1>1. Spelled(<< >>)
  BY NothingSpelled DEF Init, Spelled
<1>2. Recency = << >>
  BY <1>1, InitIInv, SpelledIsRecency DEF Init, Unlocked
<1>3. QED
  BY <1>1, <1>2 DEF Abstract!Init, Init

\* LRUBlockstore implements LRUCache: every step of the pointers, the counter
\* and the eviction loop is a step of the abstract cache or none
\* (car_blockstore.go:24-27, 46-47, 124).
THEOREM Refinement == Spec => RefinesLRUCache
<1> DEFINE Spelt == \E s : Spelled(s)
<1>1. Init => IInv /\ Spelt /\ Abstract!Init
  BY InitIInv, InitRefines
<1>2. IInv /\ Spelt /\ [Next]_vars => IInv' /\ Spelt' /\ [Abstract!Next]_(Abstract!cache)
  BY NextKeepsIInv, StepRefines
<1> HIDE DEF Spelt
<1>3. QED
  BY <1>1, <1>2, PTL DEF Spec, RefinesLRUCache, Abstract!Spec
=============================================================================
