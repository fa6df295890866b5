--------------------------- MODULE CARBuilder_proofs ---------------------------
(***************************************************************************)
(* Proofs about CARBuilder, for all filesystems, blockstores and lengths.  *)
(***************************************************************************)
EXTENDS CARBuilder, SetLemmas, SequenceTheorems

-----------------------------------------------------------------------------
(* Sequences of CIDs and of their lengths. *)

\* A sequence, of whatever elements.
IsList(s) == s \in Seq(ToSet(s))

\* A function on an initial segment of the positive naturals is a sequence.
LEMMA FunctionIsList ==
  ASSUME NEW n \in Nat, NEW f, f = [i \in 1..n |-> f[i]]
  PROVE  IsList(f) /\ Len(f) = n
<1>1. DOMAIN f = 1..n
  OBVIOUS
<1>2. f \in [1..n -> ToSet(f)]
  BY <1>1 DEF ToSet
<1>3. f \in Seq(ToSet(f))
  BY <1>2
<1>4. QED
  BY <1>1, <1>3 DEF IsList

\* What a list is, position by position.
LEMMA ListProperties ==
  ASSUME NEW s, IsList(s)
  PROVE  /\ Len(s) \in Nat
         /\ DOMAIN s = 1..Len(s)
         /\ s = [i \in 1..Len(s) |-> s[i]]
BY LenProperties DEF IsList

\* Sequences over any set are lists.
LEMMA SeqIsList ==
  ASSUME NEW S, NEW s \in Seq(S)
  PROVE  IsList(s)
<1>1. Len(s) \in Nat /\ DOMAIN s = 1..Len(s) /\ s = [i \in 1..Len(s) |-> s[i]]
  BY LenProperties
<1>2. QED
  BY <1>1, FunctionIsList

\* The lengths of a list of blocks are a list as long.
LEMMA SizesOfList ==
  ASSUME NEW s, IsList(s)
  PROVE  /\ IsList(SizesOf(s))
         /\ Len(SizesOf(s)) = Len(s)
         /\ \A i \in 1..Len(s) : SizesOf(s)[i] = BlockLen(s[i])
<1>1. Len(s) \in Nat /\ DOMAIN s = 1..Len(s)
  BY ListProperties
<1>2. SizesOf(s) = [i \in 1..Len(s) |-> BlockLen(s[i])]
  BY <1>1 DEF SizesOf
<1> HIDE DEF SizesOf
<1>3. SizesOf(s) = [i \in 1..Len(s) |-> SizesOf(s)[i]]
  BY <1>2, Zenon
<1>4. QED
  BY <1>1, <1>2, <1>3, FunctionIsList

\* Lists of the same length with the same elements are equal.
LEMMA ListEqual ==
  ASSUME NEW s, NEW t, IsList(s), IsList(t), Len(s) = Len(t),
         \A i \in 1..Len(s) : s[i] = t[i]
  PROVE  s = t
<1>1. /\ s = [i \in 1..Len(s) |-> s[i]]
      /\ t = [i \in 1..Len(t) |-> t[i]]
  BY ListProperties
<1>2. QED
  BY <1>1

\* Two lists are sequences over a common set.
LEMMA ListsJoin ==
  ASSUME NEW s, NEW t, IsList(s), IsList(t)
  PROVE  \E S : s \in Seq(S) /\ t \in Seq(S)
<1> DEFINE S == ToSet(s) \union ToSet(t)
<1>1. s \in Seq(S) /\ t \in Seq(S)
  BY SeqMonotonic DEF IsList
<1>2. QED
  BY <1>1

\* The concatenation of two lists, position by position.
LEMMA ListConcat ==
  ASSUME NEW s, NEW t, IsList(s), IsList(t)
  PROVE  /\ IsList(s \o t)
         /\ Len(s \o t) = Len(s) + Len(t)
         /\ \A i \in 1..(Len(s) + Len(t)) : (s \o t)[i] = IF i <= Len(s) THEN s[i] ELSE t[i - Len(s)]
<1>1. PICK S : s \in Seq(S) /\ t \in Seq(S)
  BY ListsJoin
<1>2. /\ s \o t \in Seq(S)
      /\ Len(s \o t) = Len(s) + Len(t)
      /\ \A i \in 1..(Len(s) + Len(t)) : (s \o t)[i] = IF i <= Len(s) THEN s[i] ELSE t[i - Len(s)]
  BY <1>1, ConcatProperties
<1>3. QED
  BY <1>2, SeqIsList

\* The lengths of a concatenation.
LEMMA SizesOfConcat ==
  ASSUME NEW s, NEW t, IsList(s), IsList(t)
  PROVE  IsList(s \o t) /\ SizesOf(s \o t) = SizesOf(s) \o SizesOf(t)
<1> DEFINE a == SizesOf(s)
           b == SizesOf(t)
           c == SizesOf(s \o t)
<1>1. /\ IsList(s \o t)
      /\ Len(s \o t) = Len(s) + Len(t)
      /\ \A i \in 1..(Len(s) + Len(t)) : (s \o t)[i] = IF i <= Len(s) THEN s[i] ELSE t[i - Len(s)]
  BY ListConcat
<1>2. /\ IsList(a) /\ Len(a) = Len(s) /\ \A i \in 1..Len(s) : a[i] = BlockLen(s[i])
      /\ IsList(b) /\ Len(b) = Len(t) /\ \A i \in 1..Len(t) : b[i] = BlockLen(t[i])
      /\ IsList(c) /\ Len(c) = Len(s) + Len(t)
      /\ \A i \in 1..(Len(s) + Len(t)) : c[i] = BlockLen((s \o t)[i])
  BY <1>1, SizesOfList
<1> HIDE DEF a, b, c
<1>3. /\ IsList(a \o b)
      /\ Len(a \o b) = Len(s) + Len(t)
      /\ \A i \in 1..(Len(s) + Len(t)) : (a \o b)[i] = IF i <= Len(s) THEN a[i] ELSE b[i - Len(s)]
  <2>1. IsList(a) /\ IsList(b)
    BY <1>2
  <2>2. /\ IsList(a \o b)
        /\ Len(a \o b) = Len(a) + Len(b)
        /\ \A i \in 1..(Len(a) + Len(b)) : (a \o b)[i] = IF i <= Len(a) THEN a[i] ELSE b[i - Len(a)]
    BY <2>1, ListConcat
  <2>3. Len(a) = Len(s) /\ Len(b) = Len(t)
    BY <1>2
  <2>4. QED
    BY <2>2, <2>3
<1>4. Len(s) \in Nat /\ Len(t) \in Nat
  BY ListProperties
<1>5. ASSUME NEW i \in 1..(Len(s) + Len(t))
      PROVE  c[i] = (a \o b)[i]
  <2>1. CASE i <= Len(s)
    <3>1. i \in 1..Len(s)
      BY <1>4, <2>1
    <3>2. QED
      BY <1>1, <1>2, <1>3, <2>1, <3>1
  <2>2. CASE ~(i <= Len(s))
    <3>1. i - Len(s) \in 1..Len(t)
      BY <1>4, <2>2
    <3>2. QED
      BY <1>1, <1>2, <1>3, <2>2, <3>1
  <2>3. QED
    BY <2>1, <2>2
<1>6. c = a \o b
  BY <1>2, <1>3, <1>5, ListEqual
<1>7. QED
  BY <1>1, <1>6 DEF a, b, c

\* The lengths after a block was appended.
LEMMA SizesOfAppend ==
  ASSUME NEW s, NEW c, IsList(s)
  PROVE  /\ IsList(Append(s, c))
         /\ SizesOf(Append(s, c)) = Append(SizesOf(s), BlockLen(c))
<1> DEFINE S == ToSet(s) \union {c}
<1>1. s \in Seq(S)
  BY SeqMonotonic DEF IsList
<1>2. Append(s, c) \in Seq(S) /\ Append(s, c) = s \o <<c>>
  BY <1>1
<1>3. IsList(<<c>>)
  <2>1. <<c>> \in Seq({c})
    OBVIOUS
  <2>2. QED
    BY <2>1, SeqIsList
<1>4. SizesOf(<<c>>) = <<BlockLen(c)>>
  BY DEF SizesOf
<1>5. SizesOf(Append(s, c)) = SizesOf(s) \o <<BlockLen(c)>>
  BY <1>2, <1>3, <1>4, SizesOfConcat
<1>6. SizesOf(s) \o <<BlockLen(c)>> = Append(SizesOf(s), BlockLen(c))
  <2> DEFINE T == ToSet(SizesOf(s)) \union {BlockLen(c)}
  <2>1. SizesOf(s) \in Seq(ToSet(SizesOf(s)))
    BY SizesOfList DEF IsList
  <2>2. SizesOf(s) \in Seq(T) /\ BlockLen(c) \in T
    BY <2>1, SeqMonotonic
  <2> HIDE DEF T
  <2>3. QED
    BY <2>2
<1>7. QED
  BY <1>2, <1>5, <1>6, SeqIsList

\* The lengths after a block was replaced.
LEMMA SizesOfReplace ==
  ASSUME NEW s, NEW c, IsList(s), NEW i \in 1..Len(s)
  PROVE  /\ IsList(ReplaceAt(s, i, c))
         /\ SizesOf(ReplaceAt(s, i, c)) = ReplaceAt(SizesOf(s), i, BlockLen(c))
<1> DEFINE r == [s EXCEPT ![i] = c]
           z == [SizesOf(s) EXCEPT ![i] = BlockLen(c)]
<1>1. /\ Len(s) \in Nat /\ DOMAIN s = 1..Len(s)
      /\ s = [j \in 1..Len(s) |-> s[j]]
  BY ListProperties
<1>2. /\ r = [j \in 1..Len(s) |-> r[j]]
      /\ \A j \in 1..Len(s) : r[j] = IF j = i THEN c ELSE s[j]
  BY <1>1
<1>3. SizesOf(s) = [j \in 1..Len(s) |-> BlockLen(s[j])]
  BY <1>1 DEF SizesOf
<1>4. /\ z = [j \in 1..Len(s) |-> z[j]]
      /\ \A j \in 1..Len(s) : z[j] = IF j = i THEN BlockLen(c) ELSE BlockLen(s[j])
  BY <1>3
<1> HIDE DEF r, z
<1>5. IsList(r) /\ Len(r) = Len(s) /\ IsList(z) /\ Len(z) = Len(s)
  BY <1>1, <1>2, <1>4, FunctionIsList
<1>6. \A j \in 1..Len(s) : SizesOf(r)[j] = z[j]
  BY <1>2, <1>4, <1>5, SizesOfList
<1>7. SizesOf(r) = z
  BY <1>5, <1>6, SizesOfList, ListEqual
<1>8. QED
  BY <1>5, <1>7 DEF ReplaceAt, r, z

\* A slice of a list, position by position.
LEMMA SliceOfList ==
  ASSUME NEW s, IsList(s), NEW m \in 1..(Len(s) + 1), NEW n \in 0..Len(s)
  PROVE  /\ IsList(SubSeq(s, m, n))
         /\ Len(SubSeq(s, m, n)) = IF m <= n THEN n - m + 1 ELSE 0
         /\ \A j \in 1..(n - m + 1) : SubSeq(s, m, n)[j] = s[m + j - 1]
<1> DEFINE S == ToSet(s)
<1>1. s \in Seq(S)
  BY DEF IsList
<1> HIDE DEF S
<1>2. /\ SubSeq(s, m, n) \in Seq(S)
      /\ Len(SubSeq(s, m, n)) = IF m <= n THEN n - m + 1 ELSE 0
      /\ \A j \in 1..(n - m + 1) : SubSeq(s, m, n)[j] = s[m + j - 1]
  BY <1>1
<1>3. IsList(SubSeq(s, m, n))
  BY <1>2, SeqIsList
<1>4. QED
  BY <1>2, <1>3

\* The lengths after a block was removed.
LEMMA SizesOfRemove ==
  ASSUME NEW s, IsList(s), NEW i \in 1..Len(s)
  PROVE  /\ IsList(RemoveAt(s, i))
         /\ SizesOf(RemoveAt(s, i)) = RemoveAt(SizesOf(s), i)
<1> DEFINE front == SubSeq(s, 1, i - 1)
           back == SubSeq(s, i + 1, Len(s))
           z == SizesOf(s)
<1>1. /\ Len(s) \in Nat
      /\ IsList(z) /\ Len(z) = Len(s) /\ \A j \in 1..Len(s) : z[j] = BlockLen(s[j])
  BY ListProperties, SizesOfList
<1>2. ASSUME NEW m \in 1..(Len(s) + 1), NEW n \in 0..Len(s)
      PROVE  SizesOf(SubSeq(s, m, n)) = SubSeq(z, m, n)
  <2> DEFINE a == SubSeq(s, m, n)
             b == SubSeq(z, m, n)
  <2>1. /\ IsList(a) /\ Len(a) = IF m <= n THEN n - m + 1 ELSE 0
        /\ \A j \in 1..(n - m + 1) : a[j] = s[m + j - 1]
    BY SliceOfList
  <2>2. /\ IsList(b) /\ Len(b) = IF m <= n THEN n - m + 1 ELSE 0
        /\ \A j \in 1..(n - m + 1) : b[j] = z[m + j - 1]
    BY <1>1, SliceOfList
  <2>3. ASSUME NEW j \in 1..Len(a) PROVE SizesOf(a)[j] = b[j]
    <3>1. SizesOf(a)[j] = BlockLen(a[j])
      BY <2>1, SizesOfList
    <3>2. j \in 1..(n - m + 1) /\ m + j - 1 \in 1..Len(s)
      BY <1>1, <2>1
    <3>3. QED
      BY <1>1, <2>1, <2>2, <3>1, <3>2
  <2>4. IsList(SizesOf(a)) /\ Len(SizesOf(a)) = Len(a)
    BY <2>1, SizesOfList
  <2>5. Len(a) = Len(b)
    BY <2>1, <2>2
  <2> HIDE DEF a, b
  <2>6. SizesOf(a) = b
    BY <2>2, <2>3, <2>4, <2>5, ListEqual
  <2>7. QED
    BY <2>6 DEF a, b
<1>3. /\ i + 1 \in 1..(Len(s) + 1) /\ i - 1 \in 0..Len(s)
      /\ 1 \in 1..(Len(s) + 1) /\ Len(s) \in 0..Len(s)
  BY <1>1
<1>4. IsList(front) /\ IsList(back)
  BY <1>3, SliceOfList
<1>5. SizesOf(front) = SubSeq(z, 1, i - 1) /\ SizesOf(back) = SubSeq(z, i + 1, Len(z))
  BY <1>1, <1>2, <1>3
<1>6. IsList(front \o back) /\ SizesOf(front \o back) = SizesOf(front) \o SizesOf(back)
  BY <1>4, SizesOfConcat
<1>7. QED
  BY <1>5, <1>6 DEF RemoveAt

\* The first position of an element, if it has one.
LEMMA PositionInRange ==
  ASSUME NEW s, NEW x, IsList(s)
  PROVE  Position(s, x) \in 0..Len(s)
<1> DEFINE I == {i \in 1..Len(s) : s[i] = x}
<1>1. Len(s) \in Nat
  BY ListProperties
<1>2. CASE I = {}
  BY <1>1, <1>2 DEF Position, SelectInSeq
<1>3. CASE I # {}
  <2>1. I \subseteq Nat /\ I # {}
    BY <1>1, <1>3
  <2>2. Min(I) \in I
    <3> HIDE DEF I
    <3>1. QED
      BY <2>1, MinExists
  <2>3. Position(s, x) = Min(I)
    BY <1>3 DEF Position, SelectInSeq
  <2>4. QED
    BY <1>1, <2>2, <2>3
<1>4. QED
  BY <1>2, <1>3

\* The leaves of a file are a list.
LEMMA LeavesIsList ==
  ASSUME NEW content, IsList(content)
  PROVE  IsList(Leaves(content))
<1> DEFINE r == Leaves(content)
<1>1. Len(content) \in Nat
  BY ListProperties
<1>2. r = [i \in 1..Len(content) |-> r[i]]
  BY DEF Leaves
<1> HIDE DEF r
<1>3. IsList(r)
  BY <1>1, <1>2, FunctionIsList
<1>4. QED
  BY <1>3 DEF r

\* So are the elements of a list at some of its positions: the elements at
\* these, in another list at each once.
LEMMA PickedElements ==
  ASSUME NEW s, IsList(s), NEW at \in SUBSET DOMAIN s
  PROVE  /\ IsList(Picked(s, at))
         /\ ToSet(Picked(s, at)) = {s[i] : i \in at}
         /\ (\A i, k \in at : s[i] = s[k] => i = k) => IsInjective(Picked(s, at))
<1> DEFINE nth(n) == CHOOSE i \in at : Cardinality({j \in at : j <= i}) = n
           r == Picked(s, at)
           N == Cardinality(at)
<1>1. Len(s) \in Nat /\ DOMAIN s = 1..Len(s)
  BY ListProperties
<1>2. at \in SUBSET Nat /\ IsFiniteSet(at) /\ N \in Nat
  <2>1. at \subseteq 1..Len(s)
    BY <1>1
  <2>2. IsFiniteSet(1..Len(s))
    BY <1>1, FS_Interval
  <2>3. IsFiniteSet(at)
    BY <2>1, <2>2, FS_Subset
  <2>4. QED
    BY <2>1, <2>3, FS_CardinalityType
<1>3. r = [n \in 1..N |-> s[nth(n)]]
  BY DEF Picked
<1>4. ASSUME NEW n \in 1..N PROVE nth(n) \in at /\ Cardinality({j \in at : j <= nth(n)}) = n
  <2>1. \E i \in at : Cardinality({j \in at : j <= i}) = n
    BY <1>2, NthExists
  <2>2. QED
    BY <2>1
<1>5. ASSUME NEW i \in at PROVE \E n \in 1..N : nth(n) = i
  <2> DEFINE n == Cardinality({j \in at : j <= i})
  <2>1. n \in 1..N /\ \A k \in at : Cardinality({j \in at : j <= k}) = n => k = i
    BY <1>2, NthIsUnique
  <2> HIDE DEF n
  <2>2. nth(n) = i
    BY <1>4, <2>1
  <2>3. QED
    BY <2>1, <2>2
<1> HIDE DEF nth, N, r
<1>6. DOMAIN r = 1..N /\ \A n \in 1..N : r[n] = s[nth(n)]
  BY <1>3
<1>7. IsList(r)
  <2>1. r = [n \in 1..N |-> r[n]]
    BY <1>3, <1>6
  <2>2. QED
    BY <1>2, <2>1, FunctionIsList
<1>8. ToSet(r) = {s[i] : i \in at}
  <2>1. ASSUME NEW n \in 1..N PROVE r[n] \in {s[i] : i \in at}
    BY <1>4, <1>6
  <2>2. ASSUME NEW i \in at PROVE \E n \in 1..N : r[n] = s[i]
    <3>1. PICK n \in 1..N : nth(n) = i
      BY <1>5
    <3>2. QED
      BY <1>6, <3>1
  <2>3. ToSet(r) = {r[n] : n \in 1..N}
    BY <1>6 DEF ToSet
  <2>4. QED
    BY <2>1, <2>2, <2>3
<1>9. ASSUME \A i, k \in at : s[i] = s[k] => i = k, NEW m \in 1..N, NEW n \in 1..N, r[m] = r[n] PROVE m = n
  <2>1. nth(m) = nth(n)
    BY <1>4, <1>6, <1>9
  <2>2. QED
    BY <1>4, <2>1
<1>10. (\A i, k \in at : s[i] = s[k] => i = k) => IsInjective(r)
  BY <1>6, <1>9 DEF IsInjective
<1>11. QED
  BY <1>7, <1>8, <1>10 DEF r

\* So are those that are in some set.
LEMMA ThoseElements ==
  ASSUME NEW s, IsList(s), NEW S
  PROVE  IsList(Those(s, S)) /\ ToSet(Those(s, S)) = ToSet(s) \intersect S
<1> DEFINE at == {i \in DOMAIN s : s[i] \in S}
<1>1. Those(s, S) = Picked(s, at)
  BY DEF Those
<1>2. {s[i] : i \in at} = ToSet(s) \intersect S
  BY DEF ToSet
<1>3. at \in SUBSET DOMAIN s
  OBVIOUS
<1> HIDE DEF at
<1>4. QED
  BY <1>1, <1>2, <1>3, PickedElements

\* What occurs in a list occurs once among its distinct elements.
LEMMA DistinctElements ==
  ASSUME NEW s, IsList(s)
  PROVE  IsList(Distinct(s)) /\ ToSet(Distinct(s)) = ToSet(s) /\ IsInjective(Distinct(s))
<1> DEFINE first == {i \in DOMAIN s : \A j \in 1..(i - 1) : s[j] # s[i]}
<1>1. Len(s) \in Nat /\ DOMAIN s = 1..Len(s)
  BY ListProperties
<1>2. Distinct(s) = Picked(s, first) /\ first \in SUBSET DOMAIN s
  BY DEF Distinct
<1>3. ASSUME NEW i \in first, NEW k \in first, s[i] = s[k] PROVE i = k
  <2>1. i \in Nat \ {0} /\ k \in Nat \ {0}
    BY <1>1
  <2>2. ~(i < k) /\ ~(k < i)
    BY <1>3, <2>1
  <2>3. QED
    BY <2>1, <2>2
<1>4. ASSUME NEW x \in ToSet(s) PROVE \E i \in first : s[i] = x
  <2> DEFINE I == {i \in DOMAIN s : s[i] = x}
  <2>1. I \in SUBSET Nat /\ I # {}
    BY <1>1 DEF ToSet
  <2>2. Min(I) \in I /\ \A y \in I : Min(I) <= y
    <3> HIDE DEF I
    <3>1. QED
      BY <2>1, MinExists
  <2>3. ASSUME NEW j \in 1..(Min(I) - 1) PROVE s[j] # s[Min(I)]
    <3>1. Min(I) \in 1..Len(s) /\ s[Min(I)] = x
      BY <1>1, <2>2
    <3>2. j \in DOMAIN s /\ ~(Min(I) <= j)
      <4> DEFINE m == Min(I)
      <4>1. m \in 1..Len(s) /\ j \in 1..(m - 1)
        BY <3>1
      <4> HIDE DEF m
      <4>2. j \in 1..Len(s) /\ ~(m <= j)
        BY <1>1, <4>1
      <4>3. QED
        BY <1>1, <4>2 DEF m
    <3>3. j \notin I
      BY <2>2, <3>2
    <3>4. QED
      BY <3>1, <3>2, <3>3
  <2>4. QED
    BY <2>2, <2>3
<1> HIDE DEF first
<1>5. {s[i] : i \in first} = ToSet(s)
  BY <1>2, <1>4 DEF ToSet
<1>6. IsList(Picked(s, first)) /\ ToSet(Picked(s, first)) = {s[i] : i \in first} /\ IsInjective(Picked(s, first))
  BY <1>2, <1>3, PickedElements
<1>7. QED
  BY <1>2, <1>5, <1>6

\* The blocks of a file are a list, in the order in which they are collected.
LEMMA TraversalIsList ==
  ASSUME NEW content, IsList(content)
  PROVE  IsList(TraversalOrder(content))
<1>1. IsList(Leaves(content))
  BY LeavesIsList
<1>2. IsList(<<FileCid(content)>>)
  <2>1. <<FileCid(content)>> \in Seq({FileCid(content)})
    OBVIOUS
  <2>2. QED
    BY <2>1, SeqIsList
<1>3. IsList(<<FileCid(content)>> \o Leaves(content))
  BY <1>1, <1>2, ListConcat
<1>4. IsList(Distinct(<<FileCid(content)>> \o Leaves(content)))
  BY <1>3, DistinctElements
<1>5. QED
  BY <1>1, <1>4 DEF TraversalOrder

\* A replacement in both lists, or an addition at both ends, keeps them
\* aligned.
LEMMA RelistedAligned ==
  ASSUME NEW s, IsList(s), NEW x, NEW c, NEW appended \in BOOLEAN
  PROVE  LET at == Position(s, x)
         IN  /\ IsList(Relisted(s, at, appended, c))
             /\ SizesOf(Relisted(s, at, appended, c)) = Relisted(SizesOf(s), at, appended, BlockLen(c))
<1> DEFINE at == Position(s, x)
<1>1. at \in 0..Len(s) /\ Len(s) \in Nat
  BY PositionInRange, ListProperties
<1> HIDE DEF at
<1>2. CASE at # 0
  <2>1. at \in 1..Len(s)
    BY <1>1, <1>2
  <2>2. QED
    BY <1>2, <2>1, SizesOfReplace DEF Relisted, at
<1>3. CASE at = 0
  BY <1>3, SizesOfAppend DEF Relisted, at
<1>4. QED
  BY <1>2, <1>3

\* A removal from both lists keeps them aligned.
LEMMA RemovedAligned ==
  ASSUME NEW s, IsList(s), NEW x
  PROVE  LET at == Position(s, x)
             kept == IF at = 0 THEN s ELSE RemoveAt(s, at)
         IN  IsList(kept) /\ SizesOf(kept) = SizesWithout(SizesOf(s), at)
<1> DEFINE at == Position(s, x)
<1>1. at \in 0..Len(s) /\ Len(s) \in Nat
  BY PositionInRange, ListProperties
<1> HIDE DEF at
<1>2. CASE at # 0
  <2>1. at \in 1..Len(s)
    BY <1>1, <1>2
  <2>2. QED
    BY <1>2, <2>1, SizesOfRemove DEF SizesWithout, at
<1>3. CASE at = 0
  BY <1>3 DEF SizesWithout, at
<1>4. QED
  BY <1>2, <1>3

\* The elements of a sequence over a set are in it.
LEMMA ElementsIn ==
  ASSUME NEW S, NEW s \in Seq(S)
  PROVE  ToSet(s) \subseteq S
<1>1. DOMAIN s = 1..Len(s) /\ \A i \in 1..Len(s) : s[i] \in S
  BY LenProperties
<1>2. QED
  BY <1>1 DEF ToSet

\* A concatenation has the elements of both lists.
LEMMA ElementsOfConcat ==
  ASSUME NEW s, NEW t, IsList(s), IsList(t)
  PROVE  ToSet(s \o t) = ToSet(s) \union ToSet(t)
<1>1. /\ IsList(s \o t) /\ Len(s \o t) = Len(s) + Len(t)
      /\ \A i \in 1..(Len(s) + Len(t)) : (s \o t)[i] = IF i <= Len(s) THEN s[i] ELSE t[i - Len(s)]
  BY ListConcat
<1> DEFINE r == s \o t
           m == Len(s)
           n == Len(t)
<1>2. /\ m \in Nat /\ n \in Nat
      /\ DOMAIN r = 1..(m + n) /\ DOMAIN s = 1..m /\ DOMAIN t = 1..n
  BY <1>1, ListProperties
<1>3. \A i \in 1..(m + n) : r[i] = IF i <= m THEN s[i] ELSE t[i - m]
  BY <1>1
<1> HIDE DEF r, m, n
<1>4. ASSUME NEW x \in ToSet(r) PROVE x \in ToSet(s) \union ToSet(t)
  <2>1. PICK i \in 1..(m + n) : x = r[i]
    BY <1>2 DEF ToSet
  <2>2. CASE i <= m
    <3>1. i \in 1..m /\ x = s[i]
      BY <1>2, <1>3, <2>1, <2>2
    <3>2. QED
      BY <1>2, <3>1 DEF ToSet
  <2>3. CASE ~(i <= m)
    <3>1. i - m \in 1..n /\ x = t[i - m]
      BY <1>2, <1>3, <2>1, <2>3
    <3>2. QED
      BY <1>2, <3>1 DEF ToSet
  <2>4. QED
    BY <2>2, <2>3
<1>5. ASSUME NEW x \in ToSet(s) PROVE x \in ToSet(r)
  <2>1. PICK i \in 1..m : x = s[i]
    BY <1>2 DEF ToSet
  <2>2. i \in 1..(m + n) /\ x = r[i]
    BY <1>2, <1>3, <2>1
  <2>3. QED
    BY <1>2, <2>2 DEF ToSet
<1>6. ASSUME NEW x \in ToSet(t) PROVE x \in ToSet(r)
  <2>1. PICK i \in 1..n : x = t[i]
    BY <1>2 DEF ToSet
  <2>2. i + m \in 1..(m + n) /\ ~(i + m <= m) /\ (i + m) - m = i
    BY <1>2, <2>1
  <2>3. r[i + m] = x
    BY <1>3, <2>1, <2>2
  <2>4. QED
    BY <1>2, <2>2, <2>3 DEF ToSet
<1>7. QED
  BY <1>4, <1>5, <1>6 DEF r

\* A replacement brings in one element at most.
LEMMA ElementsOfRelisted ==
  ASSUME NEW s, IsList(s), NEW x, NEW c, NEW appended \in BOOLEAN
  PROVE  ToSet(Relisted(s, Position(s, x), appended, c)) \subseteq ToSet(s) \union {c}
<1> DEFINE at == Position(s, x)
           S == ToSet(s) \union {c}
<1>1. at \in 0..Len(s) /\ Len(s) \in Nat /\ DOMAIN s = 1..Len(s)
  BY PositionInRange, ListProperties
<1>2. s \in Seq(S)
  BY SeqMonotonic DEF IsList
<1> HIDE DEF at
<1>3. CASE at # 0
  <2>1. at \in 1..Len(s) /\ c \in S
    BY <1>1, <1>3
  <2> HIDE DEF S
  <2>2. [s EXCEPT ![at] = c] \in Seq(S)
    BY <1>2, <2>1, ExceptSeq
  <2>3. QED
    BY <1>3, <2>2, ElementsIn DEF Relisted, ReplaceAt, at, S
<1>4. CASE at = 0
  <2>1. Append(s, c) \in Seq(S)
    BY <1>2
  <2>2. Relisted(s, at, appended, c) \in Seq(S)
    BY <1>2, <1>4, <2>1 DEF Relisted
  <2>3. QED
    BY <2>2, ElementsIn DEF at, S
<1>5. QED
  BY <1>3, <1>4

\* A removal brings in none.
LEMMA ElementsOfRemoved ==
  ASSUME NEW s, IsList(s), NEW x
  PROVE  LET at == Position(s, x)
         IN  ToSet(IF at = 0 THEN s ELSE RemoveAt(s, at)) \subseteq ToSet(s)
<1> DEFINE at == Position(s, x)
           S == ToSet(s)
           kept == IF at = 0 THEN s ELSE RemoveAt(s, at)
<1>1. at \in 0..Len(s) /\ Len(s) \in Nat /\ s \in Seq(S)
  BY PositionInRange, ListProperties DEF IsList
<1> HIDE DEF at, S
<1>2. CASE at # 0
  <2>1. /\ 1 \in 1..(Len(s) + 1) /\ at - 1 \in 0..Len(s)
        /\ at + 1 \in 1..(Len(s) + 1) /\ Len(s) \in 0..Len(s)
    BY <1>1, <1>2
  <2>2. SubSeq(s, 1, at - 1) \in Seq(S) /\ SubSeq(s, at + 1, Len(s)) \in Seq(S)
    BY <1>1, <2>1
  <2>3. RemoveAt(s, at) \in Seq(S)
    BY <2>2 DEF RemoveAt
  <2>4. QED
    BY <1>2, <2>3, ElementsIn DEF S, at
<1>3. CASE at = 0
  BY <1>3 DEF S, at
<1>4. QED
  BY <1>2, <1>3

\* The blocks of a file are those of its root and its leaves, each listed
\* once if there is more than one.
LEMMA ElementsOfTraversal ==
  ASSUME NEW content, IsList(content)
  PROVE  /\ ToSet(TraversalOrder(content)) = {FileCid(content)} \union {Leaf(content[i]) : i \in DOMAIN content}
         /\ IsInjective(TraversalOrder(content))
<1> DEFINE leaves == Leaves(content)
           root == <<FileCid(content)>>
<1>1. Len(content) \in Nat /\ DOMAIN content = 1..Len(content)
  BY ListProperties
<1>2. ToSet(leaves) = {Leaf(content[i]) : i \in DOMAIN content}
  BY <1>1 DEF Leaves, ToSet
<1>3. CASE Len(content) = 1
  <2>1. leaves = <<Leaf(content[1])>> /\ DOMAIN content = {1}
    BY <1>1, <1>3 DEF Leaves
  <2>2. FileCid(content) = Leaf(content[1]) /\ TraversalOrder(content) = leaves
    BY <1>3 DEF FileCid, TraversalOrder
  <2>3. IsInjective(leaves)
    BY <2>1 DEF IsInjective
  <2>4. QED
    BY <1>2, <2>1, <2>2, <2>3
<1>4. CASE Len(content) # 1
  <2>1. IsList(root) /\ ToSet(root) = {FileCid(content)}
    <3>1. root \in Seq({FileCid(content)})
      OBVIOUS
    <3>2. DOMAIN root = 1..1 /\ root[1] = FileCid(content)
      OBVIOUS
    <3> HIDE DEF root
    <3>3. ToSet(root) = {FileCid(content)}
      BY <3>2 DEF ToSet
    <3>4. QED
      BY <3>1, <3>3, SeqIsList
  <2>2. IsList(leaves)
    BY LeavesIsList
  <2> HIDE DEF leaves, root
  <2>3. IsList(root \o leaves) /\ ToSet(root \o leaves) = ToSet(root) \union ToSet(leaves)
    BY <2>1, <2>2, ListConcat, ElementsOfConcat
  <2>4. TraversalOrder(content) = Distinct(root \o leaves)
    BY <1>4 DEF TraversalOrder, root, leaves
  <2>5. QED
    BY <1>2, <2>1, <2>3, <2>4, DistinctElements
<1>5. QED
  BY <1>3, <1>4

-----------------------------------------------------------------------------
(* BlockOrder and BlockSizes. *)

\* A summary whose two lists are lists of the same blocks.
Aligned(s) ==
  /\ {"order", "sizes"} \subseteq DOMAIN s
  /\ IsList(s.order)
  /\ s.sizes = SizesOf(s.order)

\* What is left of the walk are entries of the filesystem, and a file is
\* imported in the middle of it.
WalkInv ==
  /\ tree \in Trees \union {<< >>}
  /\ walk \in Seq(ToSet(tree))
  /\ pc = "import" => walk # << >>

\* The inductive invariant.
AlignedInv == WalkInv /\ Aligned(work) /\ (Built => Aligned(summary))

\* The empty summary is aligned.
LEMMA NewSummaryAligned == Aligned(NewSummary)
<1>1. IsList(<< >>)
  BY DEF IsList
<1>2. SizesOf(<< >>) = << >>
  BY DEF SizesOf
<1>3. QED
  BY <1>1, <1>2 DEF Aligned, NewSummary

\* The walk goes on, starts or is over.
LEMMA WalkStep ==
  ASSUME WalkInv, Next
  PROVE  WalkInv'
<1>1. tree \in Trees => tree \in Seq(ToSet(tree))
  BY TreesAssumption
<1>2. ASSUME Return(outcome'), UNCHANGED tree PROVE WalkInv'
  <2>1. walk' = << >> /\ pc' = "idle"
    BY <1>2 DEF Return
  <2>2. QED
    BY <1>2, <2>1 DEF WalkInv
<1>3. ASSUME UNCHANGED <<tree, walk>>, pc' # "import" \/ pc' = pc PROVE WalkInv'
  BY <1>3 DEF WalkInv
<1>4. ASSUME walk # << >>, walk' = Tail(walk), UNCHANGED tree, pc' # "import" PROVE WalkInv'
  <2>1. Tail(walk) \in Seq(ToSet(tree))
    BY <1>4 DEF WalkInv
  <2>2. QED
    BY <1>4, <2>1 DEF WalkInv
<1>5. ASSUME NEW t \in Trees, NEW w \in BOOLEAN, BuildSummary(t, w) PROVE WalkInv'
  <2>1. t \in Seq(ToSet(t))
    BY TreesAssumption
  <2>2. tree' = t /\ walk' = t /\ pc' = "walk"
    BY <1>5 DEF BuildSummary
  <2>3. QED
    BY <2>1, <2>2 DEF WalkInv
<1>6. CASE WriteCAR
  BY <1>3, <1>6 DEF WriteCAR, given, locals
<1>7. CASE VisitSkipped \/ VisitDir
  <2>1. walk # << >> /\ walk' = Tail(walk) /\ UNCHANGED tree /\ pc' = "walk"
    BY <1>7 DEF VisitSkipped, VisitDir, Visiting, given, control
  <2>2. QED
    BY <1>4, <2>1
<1>8. CASE VisitFile
  <2>1. walk # << >> /\ UNCHANGED <<tree, walk>>
    BY <1>8 DEF VisitFile, Visiting, given
  <2>2. QED
    BY <2>1 DEF WalkInv
<1>9. CASE EnterFile
  <2>1. pc = "import" /\ walk' = Tail(walk) /\ UNCHANGED tree /\ pc' = "walk"
    BY <1>9 DEF EnterFile, given
  <2>2. QED
    BY <1>4, <2>1 DEF WalkInv
<1>10. CASE \/ ImportBlock \/ CollectBlock \/ StartDirectories \/ StartRegeneration
            \/ WriteBlock \/ ReimportFile \/ RemakeDirectory \/ Cancel
  BY <1>3, <1>10 DEF ImportBlock, CollectBlock, StartDirectories, StartRegeneration, WriteBlock,
       ReimportFile, RemakeDirectory, Cancel, given, locals, control
<1>11. CASE CollectFails \/ FinishSingleFile \/ WriteFails \/ FinishWrite \/ Stop \/ IOFails
  BY <1>2, <1>11 DEF CollectFails, FinishSingleFile, WriteFails, FinishWrite, Stop, IOFails, given, Return
<1>12. ASSUME NEW p \in dirs, MakeDirectory(p) \/ PruneDirectory(p) PROVE WalkInv'
  BY <1>3, <1>12 DEF MakeDirectory, PruneDirectory, given, control
<1>13. ASSUME NEW p \in dirs, RegenerateDirectory(p) PROVE WalkInv'
  <2>1. CASE dirs # {p}
    BY <1>3, <1>13, <2>1 DEF RegenerateDirectory, given
  <2>2. CASE dirs = {p}
    BY <1>2, <1>13, <2>2 DEF RegenerateDirectory, given, Return
  <2>3. QED
    BY <2>1, <2>2
<1>14. QED
  BY <1>5, <1>6, <1>7, <1>8, <1>9, <1>10, <1>11, <1>12, <1>13 DEF Next, Advance

\* A directory block made again takes the same position in both lists.
LEMMA RegeneratedAligned ==
  ASSUME Aligned(work), NEW p
  PROVE  Aligned(Regenerated(p))
<1> DEFINE e == work.entries[p]
           c == DirectoryBlock(work.entries, e)
           at == Position(work.order, e.cid)
           appended == e.children # << >>
           s == Regenerated(p)
<1>1. /\ s.order = Relisted(work.order, at, appended, c)
      /\ s.sizes = Relisted(work.sizes, at, appended, BlockLen(c))
      /\ DOMAIN s = DOMAIN work
  BY DEF Regenerated, Aligned
<1>2. appended \in BOOLEAN
  OBVIOUS
<1> HIDE DEF c, appended, s
<1>3. /\ IsList(Relisted(work.order, at, appended, c))
      /\ SizesOf(Relisted(work.order, at, appended, c)) =
           Relisted(SizesOf(work.order), at, appended, BlockLen(c))
  BY <1>2, RelistedAligned DEF Aligned
<1>4. Aligned(s)
  BY <1>1, <1>3 DEF Aligned
<1>5. QED
  BY <1>4 DEF s

\* The list of a file's blocks is appended with their lengths.
LEMMA EnterFileAligned ==
  ASSUME WalkInv, Aligned(work), EnterFile
  PROVE  Aligned(work')
<1> DEFINE cids == TraversalOrder(Head(walk).content)
<1>1. Head(walk) \in ToSet(tree) /\ tree \in Trees
  <2>1. walk \in Seq(ToSet(tree)) /\ walk # << >>
    BY DEF WalkInv, EnterFile
  <2>2. Head(walk) \in ToSet(tree)
    BY <2>1
  <2>3. tree # << >>
    BY <2>2 DEF ToSet
  <2>4. QED
    BY <2>2, <2>3 DEF WalkInv
<1>2. IsList(cids)
  BY <1>1, TreesAssumption, TraversalIsList DEF IsList
<1>3. /\ work'.order = work.order \o cids
      /\ work'.sizes = work.sizes \o SizesOf(cids)
      /\ DOMAIN work' = DOMAIN work
  BY DEF EnterFile, Aligned
<1> HIDE DEF cids
<1>4. QED
  BY <1>2, <1>3, SizesOfConcat DEF Aligned

\* Every step keeps the lists of the summary being built aligned, and those
\* of the one that is published.
LEMMA AlignedStep ==
  ASSUME AlignedInv, Next
  PROVE  Aligned(work') /\ (Built => Aligned(summary))'
<1> USE DEF AlignedInv
<1>1. ASSUME UNCHANGED <<work, summary>> PROVE Aligned(work') /\ (Built => Aligned(summary))'
  BY <1>1 DEF Built
<1>2. ASSUME Return(outcome'), UNCHANGED summary \/ Aligned(summary')
      PROVE  Aligned(work') /\ (Built => Aligned(summary))'
  BY <1>2, NewSummaryAligned DEF Return, Built
<1>3. ASSUME Aligned(work'), UNCHANGED summary PROVE Aligned(work') /\ (Built => Aligned(summary))'
  BY <1>3 DEF Built
<1>4. ASSUME NEW t \in Trees, NEW w \in BOOLEAN, BuildSummary(t, w)
      PROVE  Aligned(work') /\ (Built => Aligned(summary))'
  <2>1. Aligned(work') /\ UNCHANGED summary
    BY <1>4, NewSummaryAligned DEF BuildSummary, SummaryKept, published
  <2>2. QED
    BY <1>3, <2>1
<1>5. CASE \/ WriteCAR \/ VisitSkipped \/ VisitFile \/ ImportBlock \/ CollectBlock \/ StartDirectories
           \/ StartRegeneration \/ WriteBlock \/ ReimportFile \/ RemakeDirectory \/ Cancel
  BY <1>1, <1>5 DEF WriteCAR, VisitSkipped, VisitFile, ImportBlock, CollectBlock, StartDirectories,
       StartRegeneration, WriteBlock, ReimportFile, RemakeDirectory, Cancel, locals, published
<1>6. CASE CollectFails \/ WriteFails \/ FinishWrite \/ Stop \/ IOFails
  BY <1>2, <1>6 DEF CollectFails, WriteFails, FinishWrite, Stop, IOFails, published, Return
<1>7. CASE VisitDir
  <2>1. work'.order = work.order /\ work'.sizes = work.sizes /\ DOMAIN work' = DOMAIN work
    BY <1>7 DEF VisitDir, Aligned
  <2>2. UNCHANGED summary
    BY <1>7 DEF VisitDir, published
  <2>3. QED
    BY <1>3, <2>1, <2>2 DEF Aligned
<1>8. CASE EnterFile
  BY <1>3, <1>8, EnterFileAligned DEF EnterFile, published
<1>9. CASE FinishSingleFile
  <2>1. PICK p : summary' = [work EXCEPT !.root = work.entries[p].cid]
    BY <1>9 DEF FinishSingleFile
  <2>2. summary'.order = work.order /\ summary'.sizes = work.sizes /\ DOMAIN summary' = DOMAIN work
    BY <2>1 DEF Aligned
  <2>3. Aligned(summary')
    BY <2>2 DEF Aligned
  <2>4. QED
    BY <1>2, <1>9, <2>3 DEF FinishSingleFile, Return
<1>10. ASSUME NEW p \in dirs, MakeDirectory(p) PROVE Aligned(work') /\ (Built => Aligned(summary))'
  <2> DEFINE c == DirectoryBlock(work.entries, work.entries[p])
  <2>1. /\ work'.order = Append(work.order, c)
        /\ work'.sizes = Append(work.sizes, BlockLen(c))
        /\ DOMAIN work' = DOMAIN work
    BY <1>10 DEF MakeDirectory, Aligned
  <2> HIDE DEF c
  <2>2. Aligned(work')
    BY <2>1, SizesOfAppend DEF Aligned
  <2>3. QED
    BY <1>3, <1>10, <2>2 DEF MakeDirectory, published
<1>11. ASSUME NEW p \in dirs, PruneDirectory(p) PROVE Aligned(work') /\ (Built => Aligned(summary))'
  <2> DEFINE at == Position(work.order, work.entries[p].cid)
             kept == IF at = 0 THEN work.order ELSE RemoveAt(work.order, at)
  <2>1. /\ work'.order = kept
        /\ work'.sizes = SizesWithout(work.sizes, at)
        /\ DOMAIN work' = DOMAIN work
    BY <1>11 DEF PruneDirectory, Aligned
  <2>2. IsList(kept) /\ SizesOf(kept) = SizesWithout(SizesOf(work.order), at)
    BY RemovedAligned DEF Aligned
  <2> HIDE DEF kept, at
  <2>3. Aligned(work')
    BY <2>1, <2>2 DEF Aligned
  <2>4. QED
    BY <1>3, <1>11, <2>3 DEF PruneDirectory, published
<1>12. ASSUME NEW p \in dirs, RegenerateDirectory(p)
       PROVE  Aligned(work') /\ (Built => Aligned(summary))'
  <2>1. Aligned(Regenerated(p))
    BY RegeneratedAligned
  <2>2. CASE dirs # {p}
    BY <1>3, <1>12, <2>1, <2>2 DEF RegenerateDirectory, published
  <2>3. CASE dirs = {p}
    BY <1>2, <1>12, <2>1, <2>3 DEF RegenerateDirectory, Return
  <2>4. QED
    BY <2>2, <2>3
<1>13. QED
  BY <1>4, <1>5, <1>6, <1>7, <1>8, <1>9, <1>10, <1>11, <1>12 DEF Next, Advance

\* BlockOrder and BlockSizes are parallel at every moment of every call, for
\* every filesystem, blockstore and length of a block
\* (car_dir_builder.go:88-89).
THEOREM SizesAligned == Spec => []SizesMatchBlocks
<1>1. Init => AlignedInv
  <2>1. SUFFICES ASSUME Init PROVE AlignedInv
    OBVIOUS
  <2>2. WalkInv
    BY <2>1 DEF Init, WalkInv
  <2>3. QED
    BY <2>1, <2>2, NewSummaryAligned DEF Init, AlignedInv, Built
<1>2. AlignedInv /\ [Next]_vars => AlignedInv'
  <2>1. SUFFICES ASSUME AlignedInv, [Next]_vars PROVE AlignedInv'
    OBVIOUS
  <2>2. CASE Next
    BY <2>1, <2>2, WalkStep, AlignedStep DEF AlignedInv
  <2>3. CASE UNCHANGED vars
    BY <2>1, <2>3 DEF AlignedInv, WalkInv, Built, vars, given, locals, control, published
  <2>4. QED
    BY <2>1, <2>2, <2>3
<1>3. AlignedInv => SizesMatchBlocks
  BY DEF AlignedInv, Aligned, SizesMatchBlocks
<1>4. QED
  BY <1>1, <1>2, <1>3, PTL DEF Spec

-----------------------------------------------------------------------------
(* Lengths and their sums. *)

\* The sum of a sequence of naturals.
LEMMA TotalOfAppend ==
  ASSUME NEW s \in Seq(Nat), NEW n \in Nat
  PROVE  Total(<< >>) = 0 /\ Total(s) \in Nat /\ Total(Append(s, n)) = Total(s) + n
<1> DEFINE m == Len(s)
           t == Append(s, n)
           S == 1..m
<1>1. /\ m \in Nat /\ DOMAIN s = S /\ DOMAIN t = S \union {m + 1}
      /\ \A i \in S : s[i] \in Nat /\ t[i] = s[i]
      /\ t[m + 1] = n /\ m + 1 \notin S
  <2>1. /\ m \in Nat /\ DOMAIN s = 1..m /\ DOMAIN t = 1..(m + 1) /\ t[m + 1] = n
        /\ \A i \in 1..m : s[i] \in Nat /\ t[i] = s[i]
    BY LenProperties
  <2> HIDE DEF m
  <2>2. 1..(m + 1) = (1..m) \union {m + 1} /\ m + 1 \notin 1..m
    BY <2>1
  <2>3. QED
    BY <2>1, <2>2
<1>2. Total(s) = SumOver(s, S) /\ Total(t) = SumOver(t, S \union {m + 1}) /\ Total(<< >>) = SumOver(<< >>, {})
  <2>1. \A r : Total(r) = SumOver(r, DOMAIN r)
    BY DEF Total, FoldSeq, FoldFunction, SumOver
  <2>2. DOMAIN << >> = {}
    OBVIOUS
  <2>3. QED
    BY <1>1, <2>1, <2>2
<1>3. IsFiniteSet(S) /\ IsFiniteSet(S \union {m + 1})
  <2>1. IsFiniteSet(S)
    BY <1>1, FS_Interval
  <2> HIDE DEF S, m
  <2>2. QED
    BY <2>1, FS_AddElement
<1> HIDE DEF S, t, m
<1>4. SumOver(s, S) \in Nat /\ SumOver(t, S) = SumOver(s, S)
  BY <1>1, <1>3, SumIsNat
<1>5. SumOver(t, S \union {m + 1}) = t[m + 1] + SumOver(t, S)
  <2>1. \A i \in S \union {m + 1} : t[i] \in Nat
    BY <1>1
  <2>2. S \in SUBSET (S \union {m + 1}) /\ m + 1 \in (S \union {m + 1}) \ S
    BY <1>1
  <2> DEFINE U == S \union {m + 1}
             k == m + 1
  <2>3. IsFiniteSet(U) /\ (\A i \in U : t[i] \in Nat) /\ S \in SUBSET U /\ k \in U \ S
    BY <1>3, <2>1, <2>2
  <2> HIDE DEF U, k
  <2>4. SumOver(t, S \union {k}) = t[k] + SumOver(t, S)
    BY <2>3, SumOfOneMore
  <2>5. QED
    BY <2>4 DEF k
<1>6. SumOver(<< >>, {}) = 0
  BY FS_EmptySet, SumSteps
<1>7. QED
  BY <1>1, <1>2, <1>4, <1>5, <1>6 DEF t

\* Naturals are closed under products.
LEMMA ProductIsNat == \A m, n \in Nat : m * n \in Nat
OBVIOUS

\* Blocks that have a length.
Sized(cs) == \A c \in cs : BlockLen(c) \in Nat

\* The blocks of a file have lengths.
LEMMA FileSized ==
  ASSUME NEW content, IsList(content)
  PROVE  Sized(ToSet(TraversalOrder(content)))
<1>1. \A chunk : BlockLen(Leaf(chunk)) = LeafLen
  BY DEF BlockLen, Leaf
<1>2. Len(content) \in Nat
  BY ListProperties
<1>3. BlockLen(FileCid(content)) \in Nat
  <2>1. CASE Len(content) = 1
    BY <1>1, <2>1, LengthsAssumption DEF FileCid, LengthsAssumption
  <2>2. CASE Len(content) # 1
    <3>1. BlockLen(FileCid(content)) = NodeLen + LinkLen * Len(content)
      BY <2>2 DEF FileCid, BlockLen
    <3>2. LinkLen * Len(content) \in Nat
      BY <1>2, LengthsAssumption, ProductIsNat DEF LengthsAssumption
    <3>3. QED
      BY <3>1, <3>2, LengthsAssumption DEF LengthsAssumption
  <2>3. QED
    BY <2>1, <2>2
<1>4. QED
  BY <1>1, <1>3, ElementsOfTraversal, LengthsAssumption DEF Sized, LengthsAssumption

\* So has the block of a directory: its links are finitely many.
LEMMA DirectorySized ==
  ASSUME NEW entries, IsFiniteSet(DOMAIN entries), NEW e
  PROVE  BlockLen(DirectoryBlock(entries, e)) \in Nat
<1> DEFINE D == DOMAIN entries
           linkOf == [p \in D |-> <<entries[p].name, entries[p].cid>>]
           all == {linkOf[p] : p \in D}
           links == ChildLinks(entries, e)
           top == TopLinks(entries, links)
           made == links \union IF e.name = "ROOT" THEN top ELSE {}
<1>1. IsFiniteSet(all)
  <2> HIDE DEF D, linkOf
  <2>1. QED
    BY ImageIsFinite DEF D
<1>2. links \subseteq all
  BY DEF ChildLinks
<1>3. top \subseteq all
  <2> HIDE DEF links
  <2>1. QED
    BY DEF TopLinks, Directories
<1>4. made \subseteq all
  <2> HIDE DEF links, top, all
  <2>1. QED
    BY <1>2, <1>3
<1>5. DirectoryBlock(entries, e) = DirCid(made)
  BY DEF DirectoryBlock
<1> HIDE DEF made, all
<1>6. Cardinality(made) \in Nat
  BY <1>1, <1>4, FS_Subset, FS_CardinalityType
<1>7. BlockLen(DirectoryBlock(entries, e)) = NodeLen + LinkLen * Cardinality(made)
  BY <1>5 DEF DirCid, BlockLen
<1>8. LinkLen * Cardinality(made) \in Nat
  BY <1>6, LengthsAssumption, ProductIsNat DEF LengthsAssumption
<1>9. QED
  BY <1>7, <1>8, LengthsAssumption DEF LengthsAssumption

-----------------------------------------------------------------------------
(* The types, and the size of a CAR. *)

\* A summary whose entries are finitely many and whose blocks have lengths.
Proper(s) ==
  /\ "entries" \in DOMAIN s
  /\ IsFiniteSet(DOMAIN s.entries)
  /\ Sized(ToSet(s.order))

\* What is left of the walk is the end of the filesystem.
WalkLeft ==
  /\ Len(walk) <= Len(tree)
  /\ \A i \in 1..Len(walk) : walk[i] = tree[Len(tree) - Len(walk) + i]

\* The lengths of the sections of blocks.
SectionsOf(cs) == [i \in DOMAIN cs |-> SectionLen(BlockLen(cs[i]))]

\* The CAR holds what the summary lists, as far as it is written, and as many
\* bytes as that takes.
Filled ==
  /\ Len(written) <= Len(summary.order)
  /\ \A i \in 1..Len(written) : written[i] = summary.order[i]
  /\ bytes = HeaderLen + Total(SectionsOf(written))

\* WriteCAR fills a CAR from the summary, and nothing else writes to one.
WriteInv ==
  /\ IsList(written)
  /\ Running => outcome = "none"
  /\ pc \in {"write", "reimport"} => Built /\ Filled
  /\ pc = "reimport" => Len(written) < Len(summary.order)
  /\ outcome = "written" => Built /\ Filled /\ Len(written) = Len(summary.order)

\* The types of what controls a call.
Pcs == {"idle", "walk", "import", "directories", "prune", "regenerate", "write", "reimport"}
Loops == {"directories", "prune", "regenerate"}
Outcomes == {"none", "built", "written", "missing", "io", "cancelled"}

ControlTypes ==
  /\ bs \in Stores /\ wrap \in BOOLEAN /\ cancelled \in BOOLEAN
  /\ pc \in Pcs /\ outcome \in Outcomes
  /\ dirs \subseteq DOMAIN work.entries /\ (dirs # {} => pc \in Loops)
  /\ bytes \in Nat /\ builds \in 0..MaxBuilds

\* What the builder may do, whatever it must do.
SafeSpec == Init /\ [][Next]_vars

\* The inductive invariant.
TypeInv ==
  /\ AlignedInv
  /\ Proper(work) /\ (Built => Proper(summary))
  /\ WalkLeft /\ WriteInv /\ ControlTypes

\* Nothing is listed at first.
LEMMA NewSummaryProper == Proper(NewSummary)
<1>1. DOMAIN NewSummary.entries = {ROOT} /\ "entries" \in DOMAIN NewSummary
  BY DEF NewSummary
<1>2. ToSet(NewSummary.order) = {}
  BY DEF NewSummary, ToSet
<1>3. QED
  BY <1>1, <1>2, FS_Singleton DEF Proper, Sized

\* An entry is entered.
LEMMA EnteredDomain ==
  ASSUME NEW entries, NEW p, NEW e
  PROVE  /\ DOMAIN Entered(entries, p, e) = DOMAIN entries \union {p}
         /\ IsFiniteSet(DOMAIN entries) => IsFiniteSet(DOMAIN Entered(entries, p, e))
<1> DEFINE all == With(entries, p, e)
           parent == IF e.path = << >> THEN ROOT ELSE e.path
<1>1. DOMAIN all = DOMAIN entries \union {p}
  BY DEF With
<1> HIDE DEF all, parent
<1>2. DOMAIN [all EXCEPT ![parent].children = Append(@, p)] = DOMAIN all
  OBVIOUS
<1>3. DOMAIN Entered(entries, p, e) = DOMAIN entries \union {p}
  BY <1>1, <1>2 DEF Entered, all, parent
<1>4. IsFiniteSet(DOMAIN entries) => IsFiniteSet(DOMAIN entries \union {p})
  BY FS_AddElement
<1>5. QED
  BY <1>3, <1>4

\* The blocks of a file are listed.
LEMMA EnterFileProper ==
  ASSUME WalkInv, Aligned(work), Proper(work), EnterFile
  PROVE  Proper(work')
<1> DEFINE it == Head(walk)
           cids == TraversalOrder(it.content)
<1>1. it \in ToSet(tree) /\ tree \in Trees
  <2>1. walk \in Seq(ToSet(tree)) /\ walk # << >>
    BY DEF WalkInv, EnterFile
  <2>2. Head(walk) \in ToSet(tree)
    BY <2>1
  <2>3. tree # << >>
    BY <2>2 DEF ToSet
  <2>4. QED
    BY <2>2, <2>3 DEF WalkInv
<1>2. IsList(it.content)
  BY <1>1, TreesAssumption DEF IsList
<1>3. IsList(cids) /\ Sized(ToSet(cids))
  BY <1>2, TraversalIsList, FileSized
<1> HIDE DEF it
<1>4. /\ work'.order = work.order \o cids
      /\ DOMAIN work' = DOMAIN work
      /\ \E p, e : work'.entries = Entered(work.entries, p, e)
  BY DEF EnterFile, Aligned, Proper, it
<1> HIDE DEF cids
<1>5. Sized(ToSet(work'.order))
  BY <1>3, <1>4, ElementsOfConcat DEF Aligned, Proper, Sized
<1>6. IsFiniteSet(DOMAIN work'.entries)
  <2>1. PICK p, e : work'.entries = Entered(work.entries, p, e)
    BY <1>4
  <2>2. QED
    BY <2>1, EnteredDomain DEF Proper
<1>7. QED
  BY <1>4, <1>5, <1>6 DEF Proper

\* A directory is made again.
LEMMA RegeneratedProper ==
  ASSUME Aligned(work), Proper(work), NEW p
  PROVE  Proper(Regenerated(p)) /\ DOMAIN Regenerated(p).entries = DOMAIN work.entries
<1> DEFINE e == work.entries[p]
           c == DirectoryBlock(work.entries, e)
           at == Position(work.order, e.cid)
           appended == e.children # << >>
           s == Regenerated(p)
<1>1. /\ s.order = Relisted(work.order, at, appended, c)
      /\ DOMAIN s = DOMAIN work
      /\ DOMAIN s.entries = DOMAIN work.entries
  BY DEF Regenerated, Aligned, Proper
<1>2. appended \in BOOLEAN
  OBVIOUS
<1>3. BlockLen(c) \in Nat
  BY DirectorySized DEF Proper
<1> HIDE DEF c, appended, s
<1>4. ToSet(Relisted(work.order, at, appended, c)) \subseteq ToSet(work.order) \union {c}
  BY <1>2, ElementsOfRelisted DEF Aligned
<1>5. Proper(s)
  BY <1>1, <1>3, <1>4 DEF Proper, Sized
<1>6. QED
  BY <1>1, <1>5 DEF s

\* Every step keeps both summaries proper.
LEMMA ProperStep ==
  ASSUME AlignedInv, Proper(work), Built => Proper(summary), Next
  PROVE  Proper(work') /\ (Built => Proper(summary))'
<1> USE DEF AlignedInv
<1>1. ASSUME UNCHANGED <<work, summary>> PROVE Proper(work') /\ (Built => Proper(summary))'
  BY <1>1 DEF Built
<1>2. ASSUME Return(outcome'), UNCHANGED summary \/ Proper(summary')
      PROVE  Proper(work') /\ (Built => Proper(summary))'
  BY <1>2, NewSummaryProper DEF Return, Built
<1>3. ASSUME Proper(work'), UNCHANGED summary PROVE Proper(work') /\ (Built => Proper(summary))'
  BY <1>3 DEF Built
<1>4. ASSUME NEW t \in Trees, NEW w \in BOOLEAN, BuildSummary(t, w)
      PROVE  Proper(work') /\ (Built => Proper(summary))'
  <2>1. Proper(work') /\ UNCHANGED summary
    BY <1>4, NewSummaryProper DEF BuildSummary, SummaryKept, published
  <2>2. QED
    BY <1>3, <2>1
<1>5. CASE \/ WriteCAR \/ VisitSkipped \/ VisitFile \/ ImportBlock \/ CollectBlock \/ StartDirectories
           \/ StartRegeneration \/ WriteBlock \/ ReimportFile \/ RemakeDirectory \/ Cancel
  BY <1>1, <1>5 DEF WriteCAR, VisitSkipped, VisitFile, ImportBlock, CollectBlock, StartDirectories,
       StartRegeneration, WriteBlock, ReimportFile, RemakeDirectory, Cancel, locals, published
<1>6. CASE CollectFails \/ WriteFails \/ FinishWrite \/ Stop \/ IOFails
  BY <1>2, <1>6 DEF CollectFails, WriteFails, FinishWrite, Stop, IOFails, published, Return
<1>7. CASE VisitDir
  <2>1. /\ work'.order = work.order /\ DOMAIN work' = DOMAIN work
        /\ \E p, e : work'.entries = Entered(work.entries, p, e)
    BY <1>7 DEF VisitDir, Aligned, Proper
  <2>2. IsFiniteSet(DOMAIN work'.entries)
    <3>1. PICK p, e : work'.entries = Entered(work.entries, p, e)
      BY <2>1
    <3>2. QED
      BY <3>1, EnteredDomain DEF Proper
  <2>3. UNCHANGED summary
    BY <1>7 DEF VisitDir, published
  <2>4. QED
    BY <1>3, <2>1, <2>2, <2>3 DEF Proper
<1>8. CASE EnterFile
  BY <1>3, <1>8, EnterFileProper DEF EnterFile, published
<1>9. CASE FinishSingleFile
  <2>1. PICK p : summary' = [work EXCEPT !.root = work.entries[p].cid]
    BY <1>9 DEF FinishSingleFile
  <2>2. summary'.order = work.order /\ summary'.entries = work.entries /\ DOMAIN summary' = DOMAIN work
    BY <2>1 DEF Aligned, Proper
  <2>3. Proper(summary')
    BY <2>2 DEF Proper
  <2>4. QED
    BY <1>2, <1>9, <2>3 DEF FinishSingleFile, Return
<1>10. ASSUME NEW p \in dirs, MakeDirectory(p) PROVE Proper(work') /\ (Built => Proper(summary))'
  <2> DEFINE c == DirectoryBlock(work.entries, work.entries[p])
  <2>1. /\ work'.order = Append(work.order, c)
        /\ DOMAIN work' = DOMAIN work
        /\ DOMAIN work'.entries = DOMAIN work.entries
    BY <1>10 DEF MakeDirectory, Aligned, Proper
  <2>2. BlockLen(c) \in Nat
    BY DirectorySized DEF Proper
  <2> HIDE DEF c
  <2>3. ToSet(work'.order) \subseteq ToSet(work.order) \union {c}
    <3> DEFINE S == ToSet(work.order) \union {c}
    <3>1. work.order \in Seq(S) /\ c \in S
      BY SeqMonotonic DEF Aligned, IsList
    <3> HIDE DEF S
    <3>2. Append(work.order, c) \in Seq(S)
      BY <3>1
    <3>3. QED
      BY <2>1, <3>2, ElementsIn DEF S
  <2>4. Proper(work')
    BY <2>1, <2>2, <2>3 DEF Proper, Sized
  <2>5. QED
    BY <1>3, <1>10, <2>4 DEF MakeDirectory, published
<1>11. ASSUME NEW p \in dirs, PruneDirectory(p) PROVE Proper(work') /\ (Built => Proper(summary))'
  <2> DEFINE at == Position(work.order, work.entries[p].cid)
             kept == IF at = 0 THEN work.order ELSE RemoveAt(work.order, at)
  <2>1. /\ work'.order = kept
        /\ DOMAIN work' = DOMAIN work
        /\ DOMAIN work'.entries = DOMAIN work.entries
    BY <1>11 DEF PruneDirectory, Aligned, Proper
  <2>2. ToSet(kept) \subseteq ToSet(work.order)
    BY ElementsOfRemoved DEF Aligned
  <2> HIDE DEF kept, at
  <2>3. Proper(work')
    BY <2>1, <2>2 DEF Proper, Sized
  <2>4. QED
    BY <1>3, <1>11, <2>3 DEF PruneDirectory, published
<1>12. ASSUME NEW p \in dirs, RegenerateDirectory(p)
       PROVE  Proper(work') /\ (Built => Proper(summary))'
  <2>1. Proper(Regenerated(p))
    BY RegeneratedProper
  <2>2. CASE dirs # {p}
    BY <1>3, <1>12, <2>1, <2>2 DEF RegenerateDirectory, published
  <2>3. CASE dirs = {p}
    BY <1>2, <1>12, <2>1, <2>3 DEF RegenerateDirectory, Return
  <2>4. QED
    BY <2>2, <2>3
<1>13. QED
  BY <1>4, <1>5, <1>6, <1>7, <1>8, <1>9, <1>10, <1>11, <1>12 DEF Next, Advance

\* The walk goes on, starts or is over.
LEMMA WalkLeftStep ==
  ASSUME WalkInv, WalkLeft, Next
  PROVE  WalkLeft'
<1>1. IsList(tree) /\ Len(tree) \in Nat /\ IsList(walk) /\ Len(walk) \in Nat
  <2>1. IsList(tree)
    <3>1. IsList(<< >>)
      BY DEF IsList
    <3>2. \A t \in Trees : IsList(t)
      BY TreesAssumption DEF IsList
    <3>3. QED
      BY <3>1, <3>2 DEF WalkInv
  <2>2. IsList(walk)
    BY SeqIsList DEF WalkInv
  <2>3. QED
    BY <2>1, <2>2, ListProperties
<1>2. ASSUME walk' = << >>, UNCHANGED tree PROVE WalkLeft'
  BY <1>1, <1>2 DEF WalkLeft
<1>3. ASSUME UNCHANGED <<tree, walk>> PROVE WalkLeft'
  BY <1>3 DEF WalkLeft
<1>4. ASSUME walk # << >>, walk' = Tail(walk), UNCHANGED tree PROVE WalkLeft'
  <2> DEFINE m == Len(tree)
             n == Len(walk)
             rest == Tail(walk)
  <2>1. m \in Nat /\ n \in Nat /\ n # 0 /\ n <= m
    BY <1>1, <1>4, EmptySeq DEF WalkLeft, IsList
  <2>2. Len(rest) = n - 1 /\ \A i \in 1..(n - 1) : rest[i] = walk[i + 1]
    BY <1>1, <1>4 DEF IsList
  <2>3. \A i \in 1..n : walk[i] = tree[m - n + i]
    BY DEF WalkLeft
  <2> HIDE DEF m, n, rest
  <2>4. ASSUME NEW i \in 1..(n - 1) PROVE rest[i] = tree[m - (n - 1) + i]
    <3>1. i + 1 \in 1..n /\ m - n + (i + 1) = m - (n - 1) + i
      BY <2>1
    <3>2. rest[i] = tree[m - n + (i + 1)]
      BY <2>2, <2>3, <3>1
    <3>3. QED
      BY <3>1, <3>2
  <2>5. n - 1 <= m
    BY <2>1
  <2>6. Len(walk') = n - 1 /\ Len(tree') = m /\ walk' = rest /\ tree' = tree
    BY <1>4, <2>2 DEF rest, m
  <2>7. QED
    BY <2>4, <2>5, <2>6 DEF WalkLeft
<1>5. ASSUME NEW t \in Trees, NEW w \in BOOLEAN, BuildSummary(t, w) PROVE WalkLeft'
  <2>1. tree' = t /\ walk' = t
    BY <1>5 DEF BuildSummary
  <2>2. Len(t) \in Nat
    BY TreesAssumption
  <2>3. Len(t) <= Len(t) /\ \A i \in 1..Len(t) : Len(t) - Len(t) + i = i
    BY <2>2
  <2>4. QED
    BY <2>1, <2>3 DEF WalkLeft
<1>6. CASE \/ WriteCAR \/ VisitFile \/ ImportBlock \/ CollectBlock \/ StartDirectories \/ StartRegeneration
           \/ WriteBlock \/ ReimportFile \/ RemakeDirectory \/ Cancel
  BY <1>3, <1>6 DEF WriteCAR, VisitFile, ImportBlock, CollectBlock, StartDirectories, StartRegeneration,
       WriteBlock, ReimportFile, RemakeDirectory, Cancel, given, locals
<1>7. CASE VisitSkipped \/ VisitDir \/ EnterFile
  BY <1>4, <1>7 DEF VisitSkipped, VisitDir, EnterFile, Visiting, given, WalkInv
<1>8. CASE CollectFails \/ FinishSingleFile \/ WriteFails \/ FinishWrite \/ Stop \/ IOFails
  BY <1>2, <1>8 DEF CollectFails, FinishSingleFile, WriteFails, FinishWrite, Stop, IOFails, given, Return
<1>9. ASSUME NEW p \in dirs, MakeDirectory(p) \/ PruneDirectory(p) PROVE WalkLeft'
  BY <1>3, <1>9 DEF MakeDirectory, PruneDirectory, given
<1>10. ASSUME NEW p \in dirs, RegenerateDirectory(p) PROVE WalkLeft'
  <2>1. CASE dirs # {p}
    BY <1>3, <1>10, <2>1 DEF RegenerateDirectory, given
  <2>2. CASE dirs = {p}
    BY <1>2, <1>10, <2>2 DEF RegenerateDirectory, given, Return
  <2>3. QED
    BY <2>1, <2>2
<1>11. QED
  BY <1>5, <1>6, <1>7, <1>8, <1>9, <1>10 DEF Next, Advance

-----------------------------------------------------------------------------
(* Writing. *)

\* The length of a section is a natural.
LEMMA SectionLenIsNat ==
  ASSUME NEW n \in Nat
  PROVE  SectionLen(n) \in Nat
BY BoundsAssumption DEF SectionLen, UvarintSize, BoundsAssumption

\* Blocks with lengths have sections with lengths.
LEMMA SectionsSized ==
  ASSUME NEW cs, IsList(cs), \A i \in 1..Len(cs) : BlockLen(cs[i]) \in Nat
  PROVE  SectionsOf(cs) \in Seq(Nat) /\ Len(SectionsOf(cs)) = Len(cs)
<1> DEFINE n == Len(cs)
           r == SectionsOf(cs)
<1>1. n \in Nat /\ DOMAIN cs = 1..n
  BY ListProperties
<1>2. r = [i \in 1..n |-> SectionLen(BlockLen(cs[i]))]
  BY <1>1 DEF SectionsOf
<1>3. \A i \in 1..n : SectionLen(BlockLen(cs[i])) \in Nat
  BY SectionLenIsNat
<1> HIDE DEF n, r
<1>4. r \in [1..n -> Nat]
  BY <1>2, <1>3
<1>5. r \in Seq(Nat) /\ Len(r) = n
  BY <1>1, <1>4
<1>6. QED
  BY <1>5 DEF r, n

\* The sections after one more was written.
LEMMA SectionsOfAppend ==
  ASSUME NEW cs, IsList(cs), \A i \in 1..Len(cs) : BlockLen(cs[i]) \in Nat, NEW c, BlockLen(c) \in Nat
  PROVE  /\ IsList(Append(cs, c)) /\ Len(Append(cs, c)) = Len(cs) + 1
         /\ \A i \in 1..(Len(cs) + 1) : Append(cs, c)[i] = IF i = Len(cs) + 1 THEN c ELSE cs[i]
         /\ Total(SectionsOf(Append(cs, c))) = Total(SectionsOf(cs)) + SectionLen(BlockLen(c))
<1> DEFINE n == Len(cs)
           t == Append(cs, c)
           r == SectionsOf(cs)
           k == SectionLen(BlockLen(c))
<1>1. n \in Nat /\ DOMAIN cs = 1..n
  BY ListProperties
<1>2. IsList(t) /\ Len(t) = n + 1 /\ \A i \in 1..(n + 1) : t[i] = IF i = n + 1 THEN c ELSE cs[i]
  <2> DEFINE S == ToSet(cs) \union {c}
  <2>1. cs \in Seq(S) /\ c \in S
    BY SeqMonotonic DEF IsList
  <2> HIDE DEF S
  <2>2. t \in Seq(S) /\ Len(t) = n + 1 /\ \A i \in 1..(n + 1) : t[i] = IF i = n + 1 THEN c ELSE cs[i]
    BY <2>1
  <2>3. QED
    BY <2>2, SeqIsList
<1>3. r \in Seq(Nat) /\ Len(r) = n /\ k \in Nat /\ \A i \in 1..n : r[i] = SectionLen(BlockLen(cs[i]))
  <2>1. r \in Seq(Nat) /\ Len(r) = n
    BY SectionsSized
  <2>2. k \in Nat
    BY SectionLenIsNat
  <2>3. QED
    BY <1>1, <2>1, <2>2 DEF SectionsOf
<1>4. SectionsOf(t) = Append(r, k)
  <2> DEFINE u == SectionsOf(t)
             v == Append(r, k)
  <2>1. DOMAIN t = 1..(n + 1)
    BY <1>2, ListProperties
  <2>2. u = [i \in 1..(n + 1) |-> SectionLen(BlockLen(t[i]))]
    BY <2>1 DEF SectionsOf
  <2> HIDE DEF r, k, n, t, u
  <2>3. v \in Seq(Nat) /\ Len(v) = n + 1 /\ \A i \in 1..(n + 1) : v[i] = IF i = n + 1 THEN k ELSE r[i]
    BY <1>3
  <2>4. v = [i \in 1..(n + 1) |-> v[i]]
    BY <2>3, SeqIsList, ListProperties
  <2> HIDE DEF v
  <2>5. ASSUME NEW i \in 1..(n + 1) PROVE v[i] = SectionLen(BlockLen(t[i]))
    <3>1. CASE i = n + 1
      BY <1>2, <2>3, <3>1 DEF k
    <3>2. CASE i # n + 1
      <4>1. i \in 1..n
        BY <1>1, <3>2
      <4>2. QED
        BY <1>2, <1>3, <2>3, <3>2, <4>1
    <3>3. QED
      BY <3>1, <3>2
  <2>6. QED
    BY <2>2, <2>4, <2>5 DEF u, v
<1> HIDE DEF r, k, t, n
<1>5. Total(SectionsOf(t)) = Total(r) + k
  BY <1>3, <1>4, TotalOfAppend
<1>6. QED
  BY <1>2, <1>5 DEF r, k, t, n

\* The section of the next block is written.
LEMMA FilledFurther ==
  ASSUME IsList(written), IsList(summary.order), Sized(ToSet(summary.order)), bytes \in Nat,
         Filled, Len(written) < Len(summary.order), WriteSection, UNCHANGED summary
  PROVE  IsList(written') /\ Filled' /\ bytes' \in Nat
<1> DEFINE n == Len(written)
           m == Len(summary.order)
           c == NextBlock
<1>1. n \in Nat /\ m \in Nat /\ n < m /\ DOMAIN summary.order = 1..m
  BY ListProperties
<1>2. c = summary.order[n + 1] /\ \A i \in 1..n : written[i] = summary.order[i]
  BY DEF NextBlock, Filled
<1>3. \A i \in 1..m : BlockLen(summary.order[i]) \in Nat
  BY <1>1 DEF Sized, ToSet
<1>4. written' = Append(written, c) /\ bytes' = bytes + SectionLen(BlockLen(c))
  BY DEF WriteSection
<1> HIDE DEF n, m, c
<1>5. BlockLen(c) \in Nat /\ \A i \in 1..n : BlockLen(written[i]) \in Nat
  BY <1>1, <1>2, <1>3
<1>6. /\ IsList(written') /\ Len(written') = n + 1
      /\ \A i \in 1..(n + 1) : written'[i] = IF i = n + 1 THEN c ELSE written[i]
      /\ Total(SectionsOf(written')) = Total(SectionsOf(written)) + SectionLen(BlockLen(c))
  BY <1>4, <1>5, SectionsOfAppend DEF n
<1>7. SectionLen(BlockLen(c)) \in Nat /\ Total(SectionsOf(written)) \in Nat /\ HeaderLen \in Nat
  <2>1. SectionsOf(written) \in Seq(Nat)
    BY <1>5, SectionsSized DEF n
  <2>2. Total(SectionsOf(written)) \in Nat
    BY <2>1, TotalOfAppend
  <2>3. QED
    BY <1>5, <2>2, SectionLenIsNat, BoundsAssumption DEF BoundsAssumption
<1>8. bytes' \in Nat /\ bytes' = HeaderLen + Total(SectionsOf(written'))
  BY <1>4, <1>6, <1>7 DEF Filled
<1>9. Len(written') <= m /\ \A i \in 1..Len(written') : written'[i] = summary.order[i]
  <2>1. n + 1 <= m
    BY <1>1
  <2>2. ASSUME NEW i \in 1..(n + 1) PROVE written'[i] = summary.order[i]
    <3>1. CASE i = n + 1
      BY <1>2, <1>6, <3>1
    <3>2. CASE i # n + 1
      <4>1. i \in 1..n
        BY <1>1, <3>2
      <4>2. QED
        BY <1>2, <1>6, <3>2, <4>1
    <3>3. QED
      BY <3>1, <3>2
  <2>3. QED
    BY <1>6, <2>1, <2>2
<1>10. QED
  BY <1>6, <1>8, <1>9 DEF Filled, m

\* A CAR is written section by section, of one summary.
LEMMA WriteStep ==
  ASSUME TypeInv, Next
  PROVE  WriteInv' /\ bytes' \in Nat
<1> DEFINE Writes == pc \in {"write", "reimport"}
<1>1. ASSUME UNCHANGED <<summary, written, bytes>>, pc' \notin {"write", "reimport"},
             pc' = "idle" \/ outcome' = "none", outcome' # "written"
      PROVE  WriteInv' /\ bytes' \in Nat
  BY <1>1 DEF TypeInv, WriteInv, ControlTypes, Running
<1>2. ASSUME UNCHANGED <<written, bytes>>, Return(outcome'), outcome' # "written"
      PROVE  WriteInv' /\ bytes' \in Nat
  BY <1>2 DEF TypeInv, WriteInv, ControlTypes, Running, Return
<1>3. ASSUME UNCHANGED <<summary, written, bytes, pc, outcome>>
      PROVE  WriteInv' /\ bytes' \in Nat
  BY <1>3 DEF TypeInv, WriteInv, ControlTypes, Running, Built, Filled
<1>4. ASSUME Writes, Len(written) < Len(summary.order), WriteSection, pc' = "write", UNCHANGED <<summary, outcome>>
      PROVE  WriteInv' /\ bytes' \in Nat
  <2>1. Built /\ Filled /\ outcome = "none" /\ IsList(written) /\ bytes \in Nat
    BY <1>4 DEF TypeInv, WriteInv, ControlTypes, Running
  <2>2. IsList(summary.order) /\ Sized(ToSet(summary.order))
    BY <2>1 DEF TypeInv, AlignedInv, Aligned, Proper
  <2>3. IsList(written') /\ Filled' /\ bytes' \in Nat
    BY <1>4, <2>1, <2>2, FilledFurther
  <2>4. QED
    BY <1>4, <2>1, <2>3 DEF WriteInv, Running, Built
<1>5. ASSUME NEW t \in Trees, NEW w \in BOOLEAN, BuildSummary(t, w) PROVE WriteInv' /\ bytes' \in Nat
  BY <1>1, <1>5 DEF BuildSummary, SummaryKept, published, writing
<1>6. CASE WriteCAR
  <2>1. /\ Built /\ written' = << >> /\ bytes' = HeaderLen /\ pc' = "write" /\ outcome' = "none"
        /\ UNCHANGED summary
    BY <1>6 DEF WriteCAR, WriteHeader, published, Built
  <2>2. IsList(<< >>) /\ Len(<< >>) = 0
    BY DEF IsList
  <2>3. Len(summary.order) \in Nat
    BY <2>1, ListProperties DEF TypeInv, AlignedInv, Aligned
  <2>4. HeaderLen \in Nat /\ HeaderLen = HeaderLen + Total(SectionsOf(<< >>))
    <3>1. SectionsOf(<< >>) = << >>
      BY DEF SectionsOf
    <3>2. << >> \in Seq(Nat) /\ 0 \in Nat
      OBVIOUS
    <3>3. Total(<< >>) = 0
      BY <3>2, TotalOfAppend
    <3>4. QED
      BY <3>1, <3>3, BoundsAssumption DEF BoundsAssumption
  <2>5. Filled'
    BY <2>1, <2>2, <2>3, <2>4 DEF Filled
  <2>6. QED
    BY <2>1, <2>2, <2>4, <2>5 DEF WriteInv, Running, Built
<1>7. CASE \/ VisitSkipped \/ VisitDir \/ CollectBlock \/ ImportBlock \/ Cancel
  BY <1>3, <1>7 DEF VisitSkipped, VisitDir, CollectBlock, ImportBlock, Cancel, published, writing, control
<1>8. CASE \/ VisitFile \/ EnterFile \/ StartDirectories \/ StartRegeneration
  <2>1. outcome = "none"
    BY <1>8 DEF VisitFile, EnterFile, StartDirectories, StartRegeneration, Visiting, TypeInv, WriteInv, Running
  <2>2. QED
    BY <1>1, <1>8, <2>1 DEF VisitFile, EnterFile, StartDirectories, StartRegeneration, published, writing
<1>9. CASE CollectFails \/ FinishSingleFile \/ WriteFails \/ Stop \/ IOFails
  BY <1>2, <1>9 DEF CollectFails, FinishSingleFile, WriteFails, Stop, IOFails, writing, Return
<1>10. CASE FinishWrite
  <2>1. Built /\ Filled /\ Len(written) = Len(summary.order) /\ IsList(written) /\ bytes \in Nat
    BY <1>10 DEF FinishWrite, TypeInv, WriteInv, ControlTypes
  <2>2. UNCHANGED <<summary, written, bytes>> /\ pc' = "idle" /\ outcome' = "written"
    BY <1>10 DEF FinishWrite, Return, published, writing
  <2>3. QED
    BY <2>1, <2>2 DEF WriteInv, Running, Built, Filled
<1>11. CASE WriteBlock
  <2>1. Writes /\ Len(written) < Len(summary.order)
    BY <1>11 DEF WriteBlock, Writing, TypeInv, WriteInv
  <2>2. QED
    BY <1>4, <1>11, <2>1 DEF WriteBlock, published
<1>12. CASE RemakeDirectory
  <2>1. pc = "write" /\ Len(written) < Len(summary.order)
    BY <1>12 DEF RemakeDirectory, Dropped, Writing
  <2>2. QED
    BY <1>4, <1>12, <2>1 DEF RemakeDirectory, published, control
<1>13. CASE ReimportFile
  <2>1. pc = "write" /\ Len(written) < Len(summary.order)
    BY <1>13 DEF ReimportFile, Dropped, Writing
  <2>2. UNCHANGED <<summary, written, bytes, outcome>> /\ pc' = "reimport"
    BY <1>13 DEF ReimportFile, published, writing
  <2>3. QED
    BY <2>1, <2>2 DEF TypeInv, WriteInv, ControlTypes, Running, Built, Filled
<1>14. ASSUME NEW p \in dirs, MakeDirectory(p) \/ PruneDirectory(p) PROVE WriteInv' /\ bytes' \in Nat
  <2>1. pc \in {"directories", "prune"} /\ outcome = "none"
    BY <1>14 DEF MakeDirectory, PruneDirectory, TypeInv, WriteInv, Running
  <2>2. pc' \in {"directories", "prune"} /\ UNCHANGED <<summary, written, bytes, outcome>>
    BY <1>14, <2>1 DEF MakeDirectory, PruneDirectory, published, writing, control
  <2>3. QED
    BY <1>1, <2>1, <2>2
<1>15. ASSUME NEW p \in dirs, RegenerateDirectory(p) PROVE WriteInv' /\ bytes' \in Nat
  <2>1. CASE dirs # {p}
    BY <1>3, <1>15, <2>1 DEF RegenerateDirectory, published, writing
  <2>2. CASE dirs = {p}
    BY <1>2, <1>15, <2>2 DEF RegenerateDirectory, writing, Return
  <2>3. QED
    BY <2>1, <2>2
<1>16. QED
  BY <1>5, <1>6, <1>7, <1>8, <1>9, <1>10, <1>11, <1>12, <1>13, <1>14, <1>15 DEF Next, Advance

\* The rest of the types.
LEMMA ControlStep ==
  ASSUME TypeInv, Next
  PROVE  ControlTypes'
<1>1. bytes' \in Nat
  BY WriteStep
<1> DEFINE Kept == UNCHANGED <<bs, wrap, builds>>
           Domain == DOMAIN work.entries
<1>2. ASSUME Kept, UNCHANGED cancelled, Return(outcome'), outcome' \in Outcomes PROVE ControlTypes'
  BY <1>1, <1>2 DEF Return, ControlTypes, TypeInv, Pcs
<1>3. ASSUME Kept, cancelled' \in BOOLEAN, pc' \in Pcs, outcome' \in Outcomes, dirs' \subseteq DOMAIN work'.entries,
             dirs' # {} => pc' \in Loops
      PROVE  ControlTypes'
  BY <1>1, <1>3 DEF ControlTypes, TypeInv
<1>4. dirs \subseteq Domain /\ pc \in Pcs /\ outcome \in Outcomes /\ cancelled \in BOOLEAN /\ "entries" \in DOMAIN work
      /\ (dirs # {} => pc \in Loops)
  BY DEF TypeInv, ControlTypes, Proper
<1>5. ASSUME NEW t \in Trees, NEW w \in BOOLEAN, BuildSummary(t, w) PROVE ControlTypes'
  <2>1. builds' = builds + 1 /\ builds < MaxBuilds /\ wrap' = w /\ pc' = "walk" /\ outcome' = "none" /\ cancelled' = FALSE
        /\ UNCHANGED <<bs, dirs>> /\ ~Running
    BY <1>5 DEF BuildSummary
  <2>2. dirs = {}
    BY <1>4, <2>1 DEF Running, Loops
  <2>3. builds' \in 0..MaxBuilds
    BY <2>1, BoundsAssumption DEF BoundsAssumption, TypeInv, ControlTypes
  <2>4. QED
    BY <1>1, <2>1, <2>2, <2>3 DEF ControlTypes, TypeInv, Pcs, Outcomes
<1>6. CASE WriteCAR
  BY <1>3, <1>4, <1>6 DEF WriteCAR, given, locals, Pcs, Loops, Outcomes, Running
<1>7. CASE VisitSkipped \/ CollectBlock \/ ImportBlock
  BY <1>3, <1>4, <1>7 DEF VisitSkipped, CollectBlock, ImportBlock, given, control
<1>8. CASE VisitFile \/ ReimportFile \/ WriteBlock \/ RemakeDirectory \/ Cancel
  BY <1>3, <1>4, <1>8 DEF VisitFile, ReimportFile, WriteBlock, RemakeDirectory, Cancel, given, locals, control, Pcs,
       Loops, Visiting, Writing, Dropped
<1>9. CASE VisitDir \/ EnterFile
  <2>1. PICK p, e : work'.entries = Entered(work.entries, p, e)
    <3>1. CASE VisitDir
      BY <1>4, <3>1 DEF VisitDir
    <3>2. CASE EnterFile
      BY <1>4, <3>2 DEF EnterFile
    <3>3. QED
      BY <1>9, <3>1, <3>2
  <2>2. Domain \subseteq DOMAIN work'.entries
    <3>1. DOMAIN Entered(work.entries, p, e) = Domain \union {p}
      BY EnteredDomain
    <3>2. QED
      BY <2>1, <3>1
  <2>3. Kept /\ UNCHANGED <<dirs, outcome, cancelled>> /\ pc' \in Pcs /\ dirs = {}
    BY <1>4, <1>9 DEF VisitDir, EnterFile, Visiting, given, control, Pcs, Loops
  <2>4. QED
    BY <1>3, <1>4, <2>2, <2>3
<1>10. CASE StartDirectories \/ StartRegeneration
  <2>1. dirs' = Directories(work.entries) /\ UNCHANGED <<work, outcome, cancelled>> /\ Kept /\ pc' \in Loops
    BY <1>10 DEF StartDirectories, StartRegeneration, given, Loops
  <2>2. QED
    BY <1>3, <1>4, <2>1 DEF Directories, Loops, Pcs
<1>11. CASE CollectFails \/ FinishSingleFile \/ WriteFails \/ FinishWrite \/ Stop \/ IOFails
  BY <1>2, <1>11 DEF CollectFails, FinishSingleFile, WriteFails, FinishWrite, Stop, IOFails, given, Return, Outcomes
<1>12. ASSUME NEW p \in dirs, MakeDirectory(p) PROVE ControlTypes'
  <2>1. DOMAIN work'.entries = Domain
    BY <1>4, <1>12 DEF MakeDirectory
  <2>2. EmptyDirs(work.entries) \subseteq Domain
    BY DEF EmptyDirs, Directories
  <2>3. dirs' \subseteq Domain /\ pc' \in Loops /\ Kept /\ UNCHANGED <<outcome, cancelled>>
    BY <1>4, <1>12, <2>2 DEF MakeDirectory, given, Loops
  <2>4. QED
    BY <1>3, <1>4, <2>1, <2>3 DEF Loops, Pcs
<1>13. ASSUME NEW p \in dirs, PruneDirectory(p) PROVE ControlTypes'
  <2>1. DOMAIN work'.entries = Domain
    BY <1>4, <1>13 DEF PruneDirectory
  <2>2. dirs' \subseteq Domain /\ Kept /\ UNCHANGED <<pc, outcome, cancelled>>
    BY <1>4, <1>13 DEF PruneDirectory, given, control
  <2>3. QED
    BY <1>3, <1>4, <2>1, <2>2
<1>14. ASSUME NEW p \in dirs, RegenerateDirectory(p) PROVE ControlTypes'
  <2>1. CASE dirs # {p}
    <3>1. DOMAIN work'.entries = Domain
      <4>1. work' = Regenerated(p)
        BY <1>14, <2>1 DEF RegenerateDirectory
      <4>2. QED
        BY <4>1, RegeneratedProper DEF TypeInv, AlignedInv
    <3>2. dirs' \subseteq Domain /\ Kept /\ UNCHANGED <<pc, outcome, cancelled>>
      BY <1>4, <1>14, <2>1 DEF RegenerateDirectory, given
    <3>3. QED
      BY <1>3, <1>4, <3>1, <3>2
  <2>2. CASE dirs = {p}
    BY <1>2, <1>14, <2>2 DEF RegenerateDirectory, given, Return, Outcomes
  <2>3. QED
    BY <2>1, <2>2
<1>15. QED
  BY <1>5, <1>6, <1>7, <1>8, <1>9, <1>10, <1>11, <1>12, <1>13, <1>14 DEF Next, Advance

-----------------------------------------------------------------------------
(* The theorems. *)

\* A prefix of a list, position by position.
LEMMA PrefixIs ==
  ASSUME NEW s, NEW t, IsList(s), IsList(t)
  PROVE  IsPrefix(s, t) <=> Len(s) <= Len(t) /\ \A i \in 1..Len(s) : s[i] = t[i]
<1>1. Len(s) \in Nat /\ Len(t) \in Nat
  BY ListProperties
<1>2. ASSUME NEW x, IsList(x), NEW n \in 0..Len(x)
      PROVE  /\ IsList(SubSeq(x, 1, n)) /\ Len(SubSeq(x, 1, n)) = n
             /\ \A i \in 1..n : SubSeq(x, 1, n)[i] = x[i]
  <2>1. Len(x) \in Nat
    BY <1>2, ListProperties
  <2>2. 1 \in 1..(Len(x) + 1) /\ n \in Nat
    BY <2>1
  <2> DEFINE z == SubSeq(x, 1, n)
  <2>3. /\ IsList(z) /\ Len(z) = IF 1 <= n THEN n - 1 + 1 ELSE 0
        /\ \A j \in 1..(n - 1 + 1) : z[j] = x[1 + j - 1]
    BY <1>2, <2>2, SliceOfList
  <2> HIDE DEF z
  <2>4. Len(z) = n /\ \A j \in 1..n : z[j] = x[j]
    BY <2>2, <2>3
  <2>5. QED
    BY <2>3, <2>4 DEF z
<1>3. CASE Len(s) <= Len(t)
  <2> DEFINE a == SubSeq(s, 1, Len(s))
             b == SubSeq(t, 1, Len(s))
  <2>1. Len(s) \in 0..Len(s) /\ Len(s) \in 0..Len(t)
    BY <1>1, <1>3
  <2>2. /\ IsList(a) /\ Len(a) = Len(s) /\ \A i \in 1..Len(s) : a[i] = s[i]
        /\ IsList(b) /\ Len(b) = Len(s) /\ \A i \in 1..Len(s) : b[i] = t[i]
    BY <1>2, <2>1
  <2>3. IsPrefix(s, t) <=> a = b
    BY <1>3 DEF IsPrefix
  <2> HIDE DEF a, b
  <2>4. ASSUME \A i \in 1..Len(s) : s[i] = t[i] PROVE a = b
    <3>1. \A i \in 1..Len(a) : a[i] = b[i]
      BY <2>2, <2>4
    <3>2. QED
      BY <2>2, <3>1, ListEqual
  <2>5. ASSUME a = b PROVE \A i \in 1..Len(s) : s[i] = t[i]
    BY <2>2, <2>5
  <2>6. QED
    BY <1>3, <2>3, <2>4, <2>5
<1>4. CASE ~(Len(s) <= Len(t))
  BY <1>4 DEF IsPrefix
<1>5. QED
  BY <1>3, <1>4

\* What is left of a list after the same number of elements is its end.
LEMMA SuffixByPositions ==
  ASSUME NEW s, NEW t, IsList(s), IsList(t), Len(s) <= Len(t),
         \A i \in 1..Len(s) : s[i] = t[Len(t) - Len(s) + i]
  PROVE  IsSuffix(s, t)
<1> DEFINE m == Len(s)
           n == Len(t)
           rs == Reverse(s)
           rt == Reverse(t)
<1>1. m \in Nat /\ n \in Nat /\ m <= n
  BY ListProperties
<1>2. rs = [i \in 1..m |-> s[m - i + 1]] /\ rt = [i \in 1..n |-> t[n - i + 1]]
  BY DEF Reverse
<1>3. \A i \in 1..m : s[i] = t[n - m + i]
  OBVIOUS
<1> HIDE DEF m, n, rs, rt
<1>4. IsList(rs) /\ Len(rs) = m /\ IsList(rt) /\ Len(rt) = n
  BY <1>1, <1>2, FunctionIsList
<1>5. ASSUME NEW i \in 1..m PROVE rs[i] = rt[i]
  <2>1. i \in 1..n /\ m - i + 1 \in 1..m /\ n - m + (m - i + 1) = n - i + 1
    BY <1>1
  <2>2. rs[i] = s[m - i + 1] /\ rt[i] = t[n - i + 1]
    BY <1>2, <2>1
  <2>3. s[m - i + 1] = t[n - m + (m - i + 1)]
    BY <1>3, <2>1
  <2>4. QED
    BY <2>1, <2>2, <2>3
<1>6. IsPrefix(rs, rt)
  BY <1>1, <1>4, <1>5, PrefixIs
<1>7. QED
  BY <1>6 DEF IsSuffix, rs, rt

\* The invariant holds at every moment of every call.
THEOREM TypeInvariance == SafeSpec => []TypeInv
<1>1. Init => TypeInv
  <2>1. SUFFICES ASSUME Init PROVE TypeInv
    OBVIOUS
  <2>2. AlignedInv
    BY <2>1, NewSummaryAligned DEF Init, WalkInv, AlignedInv, Built
  <2>3. Proper(work) /\ (Built => Proper(summary))
    BY <2>1, NewSummaryProper DEF Init, Built
  <2>4. IsList(<< >>) /\ Len(<< >>) = 0
    BY DEF IsList
  <2>5. WalkLeft
    BY <2>1, <2>4 DEF Init, WalkLeft
  <2>6. WriteInv
    BY <2>1, <2>4 DEF Init, WriteInv, Running
  <2>7. ControlTypes
    <3>1. 0 \in 0..MaxBuilds
      BY BoundsAssumption DEF BoundsAssumption
    <3>2. QED
      BY <2>1, <3>1 DEF Init, ControlTypes, Pcs, Outcomes
  <2>8. QED
    BY <2>2, <2>3, <2>5, <2>6, <2>7 DEF TypeInv
<1>2. TypeInv /\ [Next]_vars => TypeInv'
  <2>1. SUFFICES ASSUME TypeInv, [Next]_vars PROVE TypeInv'
    OBVIOUS
  <2>2. CASE Next
    <3>1. AlignedInv'
      BY <2>1, <2>2, WalkStep, AlignedStep DEF TypeInv, AlignedInv
    <3>2. Proper(work') /\ (Built => Proper(summary))'
      BY <2>1, <2>2, ProperStep DEF TypeInv
    <3>3. WalkLeft'
      BY <2>1, <2>2, WalkLeftStep DEF TypeInv, AlignedInv
    <3>4. WriteInv' /\ ControlTypes'
      BY <2>1, <2>2, WriteStep, ControlStep
    <3>5. QED
      BY <3>1, <3>2, <3>3, <3>4 DEF TypeInv
  <2>3. CASE UNCHANGED vars
    BY <2>1, <2>3 DEF TypeInv, AlignedInv, WalkInv, Aligned, Proper, Built, WalkLeft, WriteInv, Filled, Running,
         ControlTypes, vars, given, locals, control, published, writing
  <2>4. QED
    BY <2>1, <2>2, <2>3
<1>3. QED
  BY <1>1, <1>2, PTL DEF SafeSpec

\* The variables have their types at every moment of every call: in
\* particular, what is left of the walk is the end of the filesystem, and the
\* CAR written so far the beginning of what the summary lists.
THEOREM TypeCorrect == Spec => []TypeOK
<1>1. TypeInv => TypeOK
  <2>1. SUFFICES ASSUME TypeInv PROVE TypeOK
    OBVIOUS
  <2>2. IsList(tree) /\ IsList(walk)
    <3>1. IsList(<< >>)
      BY DEF IsList
    <3>2. \A t \in Trees : IsList(t)
      BY TreesAssumption DEF IsList
    <3>3. QED
      BY <2>1, <3>1, <3>2, SeqIsList DEF TypeInv, AlignedInv, WalkInv
  <2>3. IsSuffix(walk, tree)
    BY <2>1, <2>2, SuffixByPositions DEF TypeInv, WalkLeft
  <2>4. Built => IsPrefix(written, summary.order) \/ pc \notin {"write", "reimport"}
    BY <2>1, PrefixIs DEF TypeInv, AlignedInv, Aligned, WriteInv, Filled
  <2>5. QED
    BY <2>1, <2>3, <2>4 DEF TypeOK, TypeInv, AlignedInv, WalkInv, ControlTypes, Pcs, Outcomes
<1>2. QED
  BY <1>1, TypeInvariance, PTL DEF Spec, SafeSpec

\* A CAR is written with the bytes its summary predicts.
LEMMA SizeInvariance == SafeSpec => []SizeAsPredicted
<1>1. TypeInv => SizeAsPredicted
  <2>1. SUFFICES ASSUME TypeInv, outcome = "written" PROVE bytes = CARSize(summary)
    BY DEF SizeAsPredicted
  <2>2. /\ Aligned(summary) /\ Filled /\ Len(written) = Len(summary.order) /\ IsList(written)
    BY <2>1 DEF TypeInv, WriteInv, AlignedInv
  <2>3. written = summary.order
    BY <2>2, ListEqual DEF Aligned, Filled
  <2>4. SectionsOf(summary.order) = [i \in DOMAIN summary.order |-> SectionLen(summary.sizes[i])]
    BY <2>2 DEF SectionsOf, Aligned, SizesOf
  <2>5. QED
    BY <2>2, <2>3, <2>4 DEF Filled, CARSize
<1>2. QED
  BY <1>1, TypeInvariance, PTL

\* A CAR that WriteCAR reports as written has the size that CalculateCARSize
\* predicted, whatever the blockstore had dropped in between
\* (car.go:154-183).
THEOREM SizeIsPredicted == Spec => []SizeAsPredicted
BY SizeInvariance, PTL DEF Spec, SafeSpec

-----------------------------------------------------------------------------
(* The blockstore. *)

\* The total of some different blocks of a list is not larger than the list's.
LEMMA TotalOfPart ==
  ASSUME NEW s, NEW t, IsList(s), IsInjective(s), IsList(t), ToSet(s) \subseteq ToSet(t), Sized(ToSet(t))
  PROVE  Total(SizesOf(s)) \in Nat /\ Total(SizesOf(t)) \in Nat /\ Total(SizesOf(s)) <= Total(SizesOf(t))
<1> DEFINE S == DOMAIN s
           T == DOMAIN t
           f == SizesOf(s)
           g == SizesOf(t)
           m == [i \in S |-> CHOOSE j \in T : t[j] = s[i]]
<1>1. S = 1..Len(s) /\ T = 1..Len(t) /\ Len(s) \in Nat /\ Len(t) \in Nat
  BY ListProperties
<1>2. IsFiniteSet(S) /\ IsFiniteSet(T)
  BY <1>1, FS_Interval
<1>3. \A i \in S : \E j \in T : t[j] = s[i]
  BY DEF ToSet
<1>4. \A i \in S : m[i] \in T /\ t[m[i]] = s[i]
  BY <1>3
<1>5. (\A i \in S : f[i] = BlockLen(s[i])) /\ (\A j \in T : g[j] = BlockLen(t[j]))
  BY DEF SizesOf
<1>6. \A j \in T : g[j] \in Nat
  BY <1>5 DEF Sized, ToSet
<1>7. \A i \in S : f[i] \in Nat /\ m[i] \in T /\ g[m[i]] = f[i]
  BY <1>4, <1>5, <1>6
<1>8. \A i, j \in S : m[i] = m[j] => i = j
  BY <1>4 DEF IsInjective
<1>9. Total(f) = SumOver(f, S) /\ Total(g) = SumOver(g, T)
  <2>1. \A r : Total(r) = SumOver(r, DOMAIN r)
    BY DEF Total, FoldSeq, FoldFunction, SumOver
  <2>2. DOMAIN f = S /\ DOMAIN g = T
    BY DEF SizesOf
  <2> HIDE DEF f, g, S, T
  <2>3. QED
    BY <2>1, <2>2
<1> HIDE DEF S, T, f, g, m
<1>10. SumOver(f, S) <= SumOver(g, T)
  BY <1>2, <1>6, <1>7, <1>8, SumOfPart
<1>11. SumOver(f, S) \in Nat /\ SumOver(g, T) \in Nat
  <2>1. \A i \in S : f[i] \in Nat
    BY <1>7
  <2>2. QED
    BY <1>2, <1>6, <2>1, SumIsNat
<1>12. QED
  BY <1>9, <1>10, <1>11 DEF f, g

\* A list without repetitions.
IsSetList(s) == IsList(s) /\ IsInjective(s)

\* The first n elements of a list.
FirstOf(s, n) == {s[i] : i \in 1..n}

\* A block in front of the first q blocks of a list.
LEMMA InFront ==
  ASSUME NEW s, IsSetList(s), NEW q \in 0..Len(s), NEW c, c \notin FirstOf(s, q)
  PROVE  LET u == <<c>> \o SubSeq(s, 1, q)
         IN  /\ IsSetList(u) /\ ToSet(u) = FirstOf(s, q) \union {c}
             /\ \A n \in 0..q : \E m \in 0..Len(u) : FirstOf(u, m) = FirstOf(s, n) \union {c}
<1> DEFINE v == SubSeq(s, 1, q)
           u == <<c>> \o v
<1>1. Len(s) \in Nat /\ DOMAIN s = 1..Len(s) /\ IsList(s) /\ \A i, j \in DOMAIN s : s[i] = s[j] => i = j
  BY ListProperties DEF IsSetList, IsInjective
<1>2. IsList(v) /\ Len(v) = q /\ \A i \in 1..q : v[i] = s[i]
  <2>1. 1 \in 1..(Len(s) + 1) /\ q - 1 + 1 = q /\ q \in Nat
    BY <1>1
  <2>2. /\ IsList(v) /\ Len(v) = IF 1 <= q THEN q - 1 + 1 ELSE 0
        /\ \A j \in 1..(q - 1 + 1) : v[j] = s[1 + j - 1]
    BY <1>1, <2>1, SliceOfList
  <2> HIDE DEF v
  <2>3. QED
    BY <2>1, <2>2
<1>3. IsList(<<c>>) /\ Len(<<c>>) = 1 /\ <<c>>[1] = c
  <2>1. <<c>> \in Seq({c})
    OBVIOUS
  <2>2. QED
    BY <2>1, SeqIsList
<1> HIDE DEF v
<1>4. /\ IsList(u) /\ Len(u) = 1 + q
      /\ \A i \in 1..(1 + q) : u[i] = IF i <= 1 THEN <<c>>[i] ELSE v[i - 1]
  BY <1>2, <1>3, ListConcat
<1> HIDE DEF u
<1>5. u[1] = c /\ \A i \in 2..(q + 1) : u[i] = s[i - 1] /\ i - 1 \in 1..q
  <2>1. \A i \in 2..(q + 1) : i \in 1..(1 + q) /\ ~(i <= 1) /\ i - 1 \in 1..q
    OBVIOUS
  <2>2. u[1] = c
    BY <1>3, <1>4
  <2>3. QED
    BY <1>2, <1>4, <2>1, <2>2
<1>6. DOMAIN u = 1..(q + 1)
  BY <1>4, ListProperties
<1>7. ASSUME NEW n \in 0..q PROVE FirstOf(u, n + 1) = FirstOf(s, n) \union {c}
  <2>1. \A i \in 1..(n + 1) : i = 1 \/ (i \in 2..(q + 1) /\ i - 1 \in 1..n)
    OBVIOUS
  <2>2. \A i \in 1..n : i + 1 \in 1..(n + 1) /\ i + 1 \in 2..(q + 1) /\ (i + 1) - 1 = i
    OBVIOUS
  <2>3. 1 \in 1..(n + 1)
    OBVIOUS
  <2>4. ASSUME NEW i \in 1..(n + 1) PROVE u[i] \in FirstOf(s, n) \union {c}
    BY <1>5, <2>1 DEF FirstOf
  <2>5. ASSUME NEW i \in 1..n PROVE s[i] \in FirstOf(u, n + 1)
    <3>1. u[i + 1] = s[i]
      BY <1>5, <2>2
    <3>2. QED
      BY <2>2, <3>1 DEF FirstOf
  <2>6. c \in FirstOf(u, n + 1)
    BY <1>5, <2>3 DEF FirstOf
  <2>7. QED
    BY <2>4, <2>5, <2>6 DEF FirstOf
<1>8. ToSet(u) = FirstOf(s, q) \union {c}
  <2>1. ToSet(u) = FirstOf(u, q + 1)
    BY <1>6 DEF ToSet, FirstOf
  <2>2. QED
    BY <1>1, <1>7, <2>1
<1>9. IsInjective(u)
  <2>1. ASSUME NEW i \in 2..(q + 1) PROVE u[i] # c
    BY <1>5 DEF FirstOf
  <2>2. ASSUME NEW i \in 2..(q + 1), NEW j \in 2..(q + 1), u[i] = u[j] PROVE i = j
    <3>1. s[i - 1] = s[j - 1] /\ i - 1 \in DOMAIN s /\ j - 1 \in DOMAIN s
      BY <1>1, <1>5, <2>2
    <3>2. i - 1 = j - 1
      BY <1>1, <3>1
    <3>3. QED
      BY <3>2
  <2>3. \A i \in 1..(q + 1) : i = 1 \/ i \in 2..(q + 1)
    OBVIOUS
  <2>4. QED
    BY <1>5, <1>6, <2>1, <2>2, <2>3 DEF IsInjective
<1>10. ASSUME NEW n \in 0..q PROVE \E m \in 0..Len(u) : FirstOf(u, m) = FirstOf(s, n) \union {c}
  <2>1. n + 1 \in 0..Len(u)
    BY <1>4
  <2>2. QED
    BY <1>7, <2>1
<1>11. QED
  BY <1>4, <1>8, <1>9, <1>10 DEF u, v, IsSetList

\* A block that is used goes to the front.
LEMMA UsedBlock ==
  ASSUME NEW s, IsSetList(s), NEW c \in ToSet(s)
  PROVE  LET u == LRU!Used(s, c)
         IN  /\ IsSetList(u) /\ ToSet(u) = ToSet(s)
             /\ \A n \in 0..Len(s) : \E m \in 0..Len(u) : FirstOf(u, m) = FirstOf(s, n) \union {c}
<1> DEFINE k == LRU!PlaceOf(s, c)
           u == LRU!Used(s, c)
           a == SubSeq(s, 1, k - 1)
           b == SubSeq(s, k + 1, Len(s))
           l == Len(s)
<1>1. l \in Nat /\ DOMAIN s = 1..l /\ IsList(s) /\ \A i, j \in DOMAIN s : s[i] = s[j] => i = j
  BY ListProperties DEF IsSetList, IsInjective
<1>2. k \in 1..l /\ s[k] = c
  <2>1. \E i \in 1..l : s[i] = c
    BY <1>1 DEF ToSet
  <2>2. QED
    BY <2>1 DEF LRU!PlaceOf
<1>3. u = <<c>> \o (a \o b)
  BY DEF LRU!Used, LRU!RemoveAt
<1> HIDE DEF u, k, l
<1>4. IsList(a) /\ Len(a) = k - 1 /\ \A i \in 1..(k - 1) : a[i] = s[i]
  <2>1. 1 \in 1..(l + 1) /\ k - 1 \in 0..l /\ (k - 1) - 1 + 1 = k - 1
    BY <1>1, <1>2
  <2>2. /\ IsList(a) /\ Len(a) = IF 1 <= k - 1 THEN (k - 1) - 1 + 1 ELSE 0
        /\ \A j \in 1..((k - 1) - 1 + 1) : a[j] = s[1 + j - 1]
    BY <1>1, <2>1, SliceOfList DEF l
  <2> HIDE DEF a
  <2>3. QED
    BY <1>2, <2>1, <2>2
<1>5. IsList(b) /\ Len(b) = l - k /\ \A i \in 1..(l - k) : b[i] = s[k + i]
  <2>1. k + 1 \in 1..(l + 1) /\ l \in 0..l /\ l - (k + 1) + 1 = l - k
    BY <1>1, <1>2
  <2>2. /\ IsList(b) /\ Len(b) = IF k + 1 <= l THEN l - (k + 1) + 1 ELSE 0
        /\ \A j \in 1..(l - (k + 1) + 1) : b[j] = s[(k + 1) + j - 1]
    BY <1>1, <2>1, SliceOfList DEF l
  <2> HIDE DEF b
  <2>3. \A j \in 1..(l - k) : (k + 1) + j - 1 = k + j
    BY <1>2
  <2>4. QED
    BY <1>1, <1>2, <2>1, <2>2, <2>3
<1> HIDE DEF a, b
<1>6. IsList(<<c>>) /\ Len(<<c>>) = 1 /\ <<c>>[1] = c
  <2>1. <<c>> \in Seq({c})
    OBVIOUS
  <2>2. QED
    BY <2>1, SeqIsList
<1> DEFINE r == a \o b
<1>7. /\ IsList(r) /\ Len(r) = l - 1
      /\ \A i \in 1..(l - 1) : r[i] = IF i <= k - 1 THEN s[i] ELSE s[i + 1]
  <2>1. /\ IsList(r) /\ Len(r) = Len(a) + Len(b)
        /\ \A i \in 1..(Len(a) + Len(b)) : r[i] = IF i <= Len(a) THEN a[i] ELSE b[i - Len(a)]
    BY <1>4, <1>5, ListConcat
  <2> HIDE DEF r
  <2>2. Len(a) + Len(b) = l - 1
    BY <1>1, <1>2, <1>4, <1>5
  <2>3. ASSUME NEW i \in 1..(l - 1) PROVE r[i] = IF i <= k - 1 THEN s[i] ELSE s[i + 1]
    <3>1. CASE i <= k - 1
      <4>1. i \in 1..(k - 1)
        BY <3>1
      <4>2. QED
        BY <1>4, <2>1, <2>2, <3>1, <4>1
    <3>2. CASE ~(i <= k - 1)
      <4>1. i - (k - 1) \in 1..(l - k) /\ k + (i - (k - 1)) = i + 1
        BY <1>1, <1>2, <3>2
      <4>2. QED
        BY <1>4, <1>5, <2>1, <2>2, <3>2, <4>1
    <3>3. QED
      BY <3>1, <3>2
  <2>4. QED
    BY <2>1, <2>2, <2>3
<1> HIDE DEF r
<1>8. /\ IsList(u) /\ Len(u) = l /\ u[1] = c
      /\ \A i \in 2..l : u[i] = IF i <= k THEN s[i - 1] ELSE s[i]
  <2>1. /\ IsList(u) /\ Len(u) = 1 + Len(r)
        /\ \A i \in 1..(1 + Len(r)) : u[i] = IF i <= 1 THEN <<c>>[i] ELSE r[i - 1]
    BY <1>3, <1>6, <1>7, ListConcat DEF r
  <2>2. Len(u) = l /\ 1 \in 1..(1 + Len(r)) /\ 1 + Len(r) = l
    BY <1>1, <1>2, <1>7, <2>1
  <2>3. u[1] = c
    BY <1>6, <2>1, <2>2
  <2>4. ASSUME NEW i \in 2..l PROVE u[i] = IF i <= k THEN s[i - 1] ELSE s[i]
    <3>1. i \in 1..(1 + Len(r)) /\ ~(i <= 1) /\ i - 1 \in 1..(l - 1) /\ (i - 1 <= k - 1 <=> i <= k) /\ (i - 1) + 1 = i
      BY <1>1, <1>2, <2>2
    <3>2. QED
      BY <1>7, <2>1, <3>1
  <2>5. QED
    BY <2>1, <2>2, <2>3, <2>4
<1>9. DOMAIN u = 1..l
  BY <1>8, ListProperties
<1>10. ASSUME NEW n \in 0..l
       PROVE  FirstOf(u, IF n < k THEN n + 1 ELSE n) = FirstOf(s, n) \union {c}
  <2> DEFINE m == IF n < k THEN n + 1 ELSE n
  <2>1. m \in 1..l /\ (n < k => m = n + 1 /\ m <= k) /\ (~(n < k) => m = n /\ k <= m)
    BY <1>1, <1>2
  <2> HIDE DEF m
  <2>2. ASSUME NEW i \in 1..m PROVE u[i] \in FirstOf(s, n) \union {c}
    <3>1. CASE i = 1
      BY <1>8, <3>1
    <3>2. CASE i # 1 /\ i <= k
      <4>1. i \in 2..l /\ i - 1 \in 1..n
        BY <1>1, <1>2, <2>1, <3>2
      <4>2. u[i] = s[i - 1]
        BY <1>8, <3>2, <4>1
      <4>3. QED
        BY <4>1, <4>2 DEF FirstOf
    <3>3. CASE i # 1 /\ ~(i <= k)
      <4>1. i \in 2..l /\ i \in 1..n
        BY <1>1, <1>2, <2>1, <3>3
      <4>2. u[i] = s[i]
        BY <1>8, <3>3, <4>1
      <4>3. QED
        BY <4>1, <4>2 DEF FirstOf
    <3>4. QED
      BY <3>1, <3>2, <3>3
  <2>3. ASSUME NEW i \in 1..n PROVE s[i] \in FirstOf(u, m)
    <3>1. CASE i < k
      <4>1. i + 1 \in 2..l /\ i + 1 <= k /\ (i + 1) - 1 = i /\ i + 1 \in 1..m
        BY <1>1, <1>2, <2>1, <3>1
      <4>2. u[i + 1] = s[i]
        BY <1>8, <4>1
      <4>3. QED
        BY <4>1, <4>2 DEF FirstOf
    <3>2. CASE i = k
      BY <1>2, <1>8, <2>1, <3>2 DEF FirstOf
    <3>3. CASE i > k
      <4>1. i \in 2..l /\ ~(i <= k) /\ i \in 1..m
        BY <1>1, <1>2, <2>1, <3>3
      <4>2. QED
        BY <1>8, <4>1 DEF FirstOf
    <3>4. QED
      BY <1>2, <3>1, <3>2, <3>3
  <2>4. c \in FirstOf(u, m)
    BY <1>8, <2>1 DEF FirstOf
  <2>5. QED
    BY <2>2, <2>3, <2>4 DEF FirstOf, m
<1>11. ToSet(u) = ToSet(s)
  <2>1. ToSet(u) = FirstOf(u, l) /\ ToSet(s) = FirstOf(s, l)
    BY <1>1, <1>9 DEF ToSet, FirstOf
  <2>2. l \in 0..l /\ ~(l < k)
    BY <1>1, <1>2
  <2>3. FirstOf(u, l) = FirstOf(s, l) \union {c}
    BY <1>10, <2>2
  <2>4. c \in ToSet(s)
    OBVIOUS
  <2>5. QED
    BY <2>1, <2>3, <2>4
<1>12. IsInjective(u)
  <2> DEFINE from(i) == IF i = 1 THEN k ELSE IF i <= k THEN i - 1 ELSE i
  <2>1. \A i \in 1..l : from(i) \in 1..l /\ u[i] = s[from(i)]
    <3>1. \A i \in 1..l : i = 1 \/ i \in 2..l
      BY <1>1
    <3>2. \A i \in 2..l : i # 1 /\ i \in 1..l /\ (i <= k => i - 1 \in 1..l)
      BY <1>1
    <3>3. QED
      BY <1>2, <1>8, <3>1, <3>2
  <2>2. \A i, j \in 1..l : from(i) = from(j) => i = j
    BY <1>2
  <2> HIDE DEF from
  <2>3. QED
    BY <1>1, <1>9, <2>1, <2>2 DEF IsInjective
<1>13. ASSUME NEW n \in 0..l PROVE \E m \in 0..Len(u) : FirstOf(u, m) = FirstOf(s, n) \union {c}
  <2>1. (IF n < k THEN n + 1 ELSE n) \in 0..Len(u)
    BY <1>2, <1>8
  <2>2. QED
    BY <1>10, <2>1
<1>14. QED
  BY <1>8, <1>11, <1>12, <1>13 DEF u, l, IsSetList

\* The bytes of the blocks of a store.
LEMMA BytesAreTotal == \A s : LRU!Bytes(s) = Total(SizesOf(s))
BY DEF LRU!Bytes, LRU!FoldSeq, LRU!FoldFunction, LRU!FoldFunctionOnSet, LRU!MapThenFoldSet, Total, SizesOf, FoldSeq,
   FoldFunction, FoldFunctionOnSet, MapThenFoldSet

\* An eviction leaves the blocks that were used last, as many as fit.
LEMMA KeptBlocks ==
  ASSUME NEW s, IsSetList(s), NEW c, NEW limit
  PROVE  \E q \in 0..Len(s) :
           /\ LRU!KeptFor(s, c, limit) = SubSeq(s, 1, q)
           /\ \A n \in 1..Len(s) : LRU!Bytes(SubSeq(s, 1, n)) + BlockLen(c) <= limit => n <= q
<1> DEFINE fits == {n \in 1..Len(s) : LRU!Bytes(SubSeq(s, 1, n)) + BlockLen(c) <= limit}
<1>1. LRU!KeptFor(s, c, limit) = IF fits = {} THEN << >> ELSE SubSeq(s, 1, Max(fits))
  BY DEF LRU!KeptFor, LRU!Max, Max
<1>2. Len(s) \in Nat /\ IsList(s)
  BY ListProperties DEF IsSetList
<1>3. CASE fits = {}
  <2>1. SubSeq(s, 1, 0) = << >>
    BY <1>2 DEF IsList
  <2>2. 0 \in 0..Len(s)
    BY <1>2
  <2>3. QED
    BY <1>1, <1>3, <2>1, <2>2
<1>4. CASE fits # {}
  <2>1. fits \in SUBSET Nat /\ IsFiniteSet(fits)
    <3>1. IsFiniteSet(1..Len(s))
      BY <1>2, FS_Interval
    <3>2. QED
      BY <1>2, <3>1, FS_Subset
  <2> DEFINE q == Max(fits)
  <2>2. q \in fits /\ \A n \in fits : q >= n
    <3> HIDE DEF fits
    <3>1. QED
      BY <1>4, <2>1, MaxExists
  <2>3. LRU!KeptFor(s, c, limit) = SubSeq(s, 1, q)
    BY <1>1, <1>4
  <2> HIDE DEF q
  <2>4. q \in 0..Len(s) /\ \A n \in fits : n <= q
    BY <1>2, <2>2
  <2>5. QED
    BY <2>3, <2>4
<1>5. QED
  BY <1>3, <1>4

\* Some blocks of a list t at the front of a store, and one more, fit into the
\* store if all of t does.
LEMMA PartFits ==
  ASSUME NEW s, IsSetList(s), NEW n \in 1..Len(s), NEW c, c \notin ToSet(s),
         NEW t, IsList(t), Sized(ToSet(t)), FirstOf(s, n) \union {c} \subseteq ToSet(t),
         NEW limit \in Nat, Total(SizesOf(t)) <= limit
  PROVE  LRU!Bytes(SubSeq(s, 1, n)) + BlockLen(c) <= limit
<1> DEFINE p == SubSeq(s, 1, n)
           a == Append(p, c)
<1>1. Len(s) \in Nat /\ DOMAIN s = 1..Len(s) /\ IsList(s) /\ \A i, j \in DOMAIN s : s[i] = s[j] => i = j
  BY ListProperties DEF IsSetList, IsInjective
<1>2. IsList(p) /\ Len(p) = n /\ \A i \in 1..n : p[i] = s[i]
  <2>1. 1 \in 1..(Len(s) + 1) /\ n \in 0..Len(s) /\ n - 1 + 1 = n /\ n \in Nat /\ 1 <= n
    BY <1>1
  <2>2. /\ IsList(p) /\ Len(p) = IF 1 <= n THEN n - 1 + 1 ELSE 0
        /\ \A j \in 1..(n - 1 + 1) : p[j] = s[1 + j - 1]
    BY <1>1, <2>1, SliceOfList
  <2> HIDE DEF p
  <2>3. QED
    BY <2>1, <2>2
<1> HIDE DEF p
<1>3. /\ IsList(a) /\ DOMAIN a = 1..(n + 1) /\ a[n + 1] = c /\ \A i \in 1..n : a[i] = s[i]
      /\ SizesOf(a) = Append(SizesOf(p), BlockLen(c))
  <2>1. IsList(a) /\ SizesOf(a) = Append(SizesOf(p), BlockLen(c))
    BY <1>2, SizesOfAppend
  <2> DEFINE S == ToSet(p) \union {c}
  <2>2. p \in Seq(S) /\ c \in S
    BY <1>2, SeqMonotonic DEF IsList
  <2> HIDE DEF S
  <2>3. Len(a) = Len(p) + 1 /\ a[Len(p) + 1] = c /\ \A i \in 1..Len(p) : a[i] = p[i]
    BY <2>2, AppendProperties
  <2>4. DOMAIN a = 1..Len(a)
    BY <2>1, ListProperties
  <2>5. QED
    BY <1>2, <2>1, <2>3, <2>4
<1> HIDE DEF a
<1>4. ToSet(a) \subseteq ToSet(t)
  <2>1. \A i \in 1..(n + 1) : i = n + 1 \/ i \in 1..n
    BY <1>1
  <2>2. QED
    BY <1>3, <2>1 DEF ToSet, FirstOf
<1>5. IsInjective(a)
  <2>1. \A i \in 1..n : i \in DOMAIN s /\ s[i] # c
    BY <1>1 DEF ToSet
  <2>2. \A i \in 1..(n + 1) : i = n + 1 \/ i \in 1..n
    BY <1>1
  <2>3. QED
    BY <1>1, <1>3, <2>1, <2>2 DEF IsInjective
<1>6. Total(SizesOf(a)) <= Total(SizesOf(t)) /\ Total(SizesOf(a)) \in Nat /\ Total(SizesOf(t)) \in Nat
  BY <1>3, <1>4, <1>5, TotalOfPart
<1>7. SizesOf(p) \in Seq(Nat) /\ BlockLen(c) \in Nat
  <2>1. IsList(SizesOf(p)) /\ Len(SizesOf(p)) = n /\ \A i \in 1..n : SizesOf(p)[i] = BlockLen(s[i])
    BY <1>2, SizesOfList
  <2>2. \A i \in 1..n : s[i] \in ToSet(t)
    BY DEF FirstOf
  <2>3. \A i \in 1..n : SizesOf(p)[i] \in Nat
    BY <2>1, <2>2 DEF Sized
  <2>4. SizesOf(p) = [i \in 1..n |-> SizesOf(p)[i]]
    BY <2>1, ListProperties
  <2> HIDE DEF Sized
  <2>5. SizesOf(p) \in Seq(Nat)
    <3> DEFINE z == SizesOf(p)
    <3>1. z = [i \in 1..n |-> z[i]] /\ (\A i \in 1..n : z[i] \in Nat) /\ n \in Nat
      BY <1>1, <2>3, <2>4
    <3> HIDE DEF z
    <3>2. z \in [1..n -> Nat]
      BY <3>1
    <3>3. z \in Seq(Nat)
      BY <3>1, <3>2
    <3>4. QED
      BY <3>3 DEF z
  <2>6. QED
    BY <2>5 DEF Sized
<1>8. Total(SizesOf(a)) = Total(SizesOf(p)) + BlockLen(c)
  BY <1>3, <1>7, TotalOfAppend
<1>9. LRU!Bytes(p) = Total(SizesOf(p))
  BY BytesAreTotal
<1>10. Total(SizesOf(a)) <= limit
  BY <1>6
<1>11. QED
  BY <1>8, <1>9, <1>10 DEF p

\* What adding a block leaves at the front of the store.
LEMMA AddedBlock ==
  ASSUME NEW s, IsSetList(s), NEW c
  PROVE  /\ IsSetList(Add(s, c)) /\ c \in ToSet(s) \union ToSet(Add(s, c))
         /\ bs.limit = Unlimited => ToSet(Add(s, c)) = ToSet(s) \union {c}
         /\ \A t, n : /\ bs.touches /\ bs.limit # Unlimited /\ bs.limit \in Nat /\ Total(SizesOf(t)) <= bs.limit
                      /\ IsList(t) /\ Sized(ToSet(t)) /\ n \in 0..Len(s) /\ FirstOf(s, n) \union {c} \subseteq ToSet(t)
                      => \E m \in 0..Len(Add(s, c)) : FirstOf(Add(s, c), m) = FirstOf(s, n) \union {c}
<1> DEFINE a == Add(s, c)
<1>1. IsList(s) /\ Len(s) \in Nat /\ DOMAIN s = 1..Len(s)
  BY ListProperties DEF IsSetList
<1>2. Contains(s, c) <=> c \in ToSet(s)
  BY <1>1 DEF Contains, ToSet
<1>3. ToSet(s) = FirstOf(s, Len(s)) /\ \A q \in 0..Len(s) : FirstOf(s, q) \subseteq ToSet(s)
  BY <1>1 DEF ToSet, FirstOf
<1>4. CASE c \in ToSet(s) /\ bs.touches
  <2>1. a = LRU!Used(s, c)
    BY <1>2, <1>4 DEF Add
  <2> HIDE DEF a
  <2>2. /\ IsSetList(a) /\ ToSet(a) = ToSet(s)
        /\ \A n \in 0..Len(s) : \E m \in 0..Len(a) : FirstOf(a, m) = FirstOf(s, n) \union {c}
    BY <1>4, <2>1, UsedBlock
  <2>3. ToSet(a) = ToSet(s) \union {c}
    BY <1>4, <2>2
  <2>4. QED
    BY <1>4, <2>2, <2>3 DEF a
<1>5. CASE c \in ToSet(s) /\ ~bs.touches
  BY <1>2, <1>5 DEF Add
<1>6. CASE c \notin ToSet(s)
  <2>1. PICK q \in 0..Len(s) :
          /\ a = <<c>> \o SubSeq(s, 1, q)
          /\ bs.limit = Unlimited => q = Len(s)
          /\ bs.limit # Unlimited =>
               \A n \in 1..Len(s) : LRU!Bytes(SubSeq(s, 1, n)) + BlockLen(c) <= bs.limit => n <= q
    <3>1. CASE bs.limit = Unlimited
      <4>1. a = <<c>> \o s
        BY <1>2, <1>6, <3>1 DEF Add
      <4>2. SubSeq(s, 1, Len(s)) = s
        BY <1>1 DEF IsList
      <4>3. Len(s) \in 0..Len(s)
        BY <1>1
      <4>4. QED
        BY <3>1, <4>1, <4>2, <4>3
    <3>2. CASE bs.limit # Unlimited
      <4>1. a = <<c>> \o LRU!KeptFor(s, c, bs.limit)
        BY <1>2, <1>6, <3>2 DEF Add, LRU!Put, LRU!ToSet, ToSet
      <4>2. QED
        BY <3>2, <4>1, KeptBlocks
    <3>3. QED
      BY <3>1, <3>2
  <2> HIDE DEF a
  <2>2. /\ IsSetList(a) /\ ToSet(a) = FirstOf(s, q) \union {c}
        /\ \A n \in 0..q : \E m \in 0..Len(a) : FirstOf(a, m) = FirstOf(s, n) \union {c}
    <3>1. c \notin FirstOf(s, q)
      BY <1>3, <1>6
    <3>2. LET u == <<c>> \o SubSeq(s, 1, q)
          IN  /\ IsSetList(u) /\ ToSet(u) = FirstOf(s, q) \union {c}
              /\ \A n \in 0..q : \E m \in 0..Len(u) : FirstOf(u, m) = FirstOf(s, n) \union {c}
      BY <3>1, InFront
    <3>3. a = <<c>> \o SubSeq(s, 1, q)
      BY <2>1
    <3>4. QED
      BY <3>2, <3>3
  <2>3. bs.limit = Unlimited => ToSet(a) = ToSet(s) \union {c}
    BY <1>3, <2>1, <2>2
  <2>4. ASSUME NEW t, NEW n, bs.limit # Unlimited, bs.limit \in Nat, Total(SizesOf(t)) <= bs.limit,
               IsList(t), Sized(ToSet(t)), n \in 0..Len(s), FirstOf(s, n) \union {c} \subseteq ToSet(t)
        PROVE  \E m \in 0..Len(a) : FirstOf(a, m) = FirstOf(s, n) \union {c}
    <3>1. n <= q
      <4>1. CASE n = 0
        BY <1>1, <4>1
      <4>2. CASE n # 0
        <5>1. n \in 1..Len(s)
          BY <1>1, <2>4, <4>2
        <5>2. LRU!Bytes(SubSeq(s, 1, n)) + BlockLen(c) <= bs.limit
          BY <1>6, <2>4, <5>1, PartFits
        <5>3. QED
          BY <2>1, <2>4, <5>1, <5>2
      <4>3. QED
        BY <4>1, <4>2
    <3>2. n \in 0..q
      BY <1>1, <2>4, <3>1
    <3>3. QED
      BY <2>2, <3>2
  <2>5. QED
    BY <2>2, <2>3, <2>4 DEF a
<1>7. QED
  BY <1>4, <1>5, <1>6

\* The blocks of a file in the order in which the importer adds them.
LEMMA ElementsOfStored ==
  ASSUME NEW content, IsList(content)
  PROVE  IsList(StoredOrder(content)) /\ ToSet(StoredOrder(content)) = ToSet(TraversalOrder(content))
<1> DEFINE leaves == Leaves(content)
           c == FileCid(content)
<1>1. IsList(leaves)
  BY LeavesIsList
<1>2. ToSet(leaves) = {Leaf(content[i]) : i \in DOMAIN content}
  BY ListProperties DEF Leaves, ToSet
<1>3. ToSet(TraversalOrder(content)) = {c} \union ToSet(leaves)
  BY <1>2, ElementsOfTraversal
<1>4. CASE Len(content) = 1
  BY <1>1, <1>4 DEF StoredOrder, TraversalOrder
<1>5. CASE Len(content) # 1
  <2>1. StoredOrder(content) = Append(leaves, c)
    BY <1>5 DEF StoredOrder
  <2> HIDE DEF leaves, c
  <2>2. IsList(Append(leaves, c))
    BY <1>1, SizesOfAppend
  <2>3. IsList(<<c>>) /\ ToSet(<<c>>) = {c}
    <3>1. <<c>> \in Seq({c})
      OBVIOUS
    <3>2. DOMAIN <<c>> = {1} /\ <<c>>[1] = c
      OBVIOUS
    <3>3. ToSet(<<c>>) = {c}
      BY <3>2 DEF ToSet
    <3>4. QED
      BY <3>1, <3>3, SeqIsList
  <2>4. Append(leaves, c) = leaves \o <<c>>
    <3> DEFINE S == ToSet(leaves) \union {c}
    <3>1. leaves \in Seq(S) /\ c \in S
      BY <1>1, SeqMonotonic DEF IsList
    <3> HIDE DEF S
    <3>2. QED
      BY <3>1
  <2>5. ToSet(leaves \o <<c>>) = ToSet(leaves) \union {c}
    BY <1>1, <2>3, ElementsOfConcat
  <2>6. QED
    BY <1>3, <2>1, <2>2, <2>4, <2>5
<1>6. QED
  BY <1>4, <1>5

\* No file's import takes more than the largest.
LEMMA NoneLarger ==
  ASSUME NEW t \in Trees, NEW it \in ToSet(t)
  PROVE  /\ IsList(it.content)
         /\ Total(SizesOf(TraversalOrder(it.content))) \in Nat /\ LargestImport(t) \in Nat
         /\ Total(SizesOf(TraversalOrder(it.content))) <= LargestImport(t)
<1> DEFINE size == [x \in ToSet(t) |-> Total(SizesOf(TraversalOrder(x.content)))]
           sizes == {size[x] : x \in ToSet(t)}
<1>1. IsList(t) /\ \A x \in ToSet(t) : IsList(x.content)
  BY TreesAssumption DEF IsList
<1>2. ASSUME NEW x \in ToSet(t) PROVE size[x] \in Nat
  <2> DEFINE c == TraversalOrder(x.content)
  <2>1. IsList(c) /\ Sized(ToSet(c)) /\ IsInjective(c)
    BY <1>1, TraversalIsList, FileSized, ElementsOfTraversal
  <2> HIDE DEF c
  <2>2. Total(SizesOf(c)) \in Nat
    BY <2>1, TotalOfPart
  <2>3. QED
    BY <2>2 DEF c
<1>3. IsFiniteSet(ToSet(t))
  <2>1. DOMAIN t = 1..Len(t) /\ Len(t) \in Nat
    BY <1>1, ListProperties
  <2>2. IsFiniteSet(DOMAIN t)
    BY <2>1, FS_Interval
  <2>3. QED
    BY <2>2, ImageIsFinite DEF ToSet
<1>4. IsFiniteSet({0} \union sizes) /\ {0} \union sizes \in SUBSET Nat
  <2>1. IsFiniteSet(sizes)
    <3> HIDE DEF size
    <3>1. QED
      BY <1>3, ImageIsFinite
  <2>2. sizes \in SUBSET Nat
    BY <1>2
  <2> HIDE DEF sizes
  <2>3. IsFiniteSet({0} \union sizes)
    BY <2>1, FS_Singleton, FS_Union
  <2>4. QED
    BY <2>2, <2>3
<1>5. LargestImport(t) = Max({0} \union sizes)
  <2>1. sizes = {Total(SizesOf(TraversalOrder(x.content))) : x \in ToSet(t)}
    OBVIOUS
  <2> HIDE DEF sizes
  <2>2. QED
    BY <2>1 DEF LargestImport
<1>6. size[it] \in sizes
  OBVIOUS
<1>7. size[it] = Total(SizesOf(TraversalOrder(it.content))) /\ size[it] \in Nat
  BY <1>2
<1> HIDE DEF size, sizes
<1>8. Max({0} \union sizes) \in {0} \union sizes /\ \A y \in {0} \union sizes : Max({0} \union sizes) >= y
  <2> DEFINE all == {0} \union sizes
  <2>1. all # {}
    OBVIOUS
  <2> HIDE DEF all
  <2>2. IsFiniteSet(all) /\ all \in SUBSET Nat
    BY <1>4 DEF all
  <2>3. Max(all) \in all /\ \A y \in all : Max(all) >= y
    BY <2>1, <2>2, MaxExists
  <2>4. QED
    BY <2>3 DEF all
<1>9. QED
  BY <1>1, <1>4, <1>5, <1>6, <1>7, <1>8

\* The store s has all of the file's blocks t but those still pending, and
\* has them in front if it drops blocks: nothing else was used in between.
Present(s, t, pending) ==
  IF bs.limit = Unlimited THEN ToSet(t) \ pending \subseteq ToSet(s)
  ELSE bs.touches /\ ~(bs.limit < LargestImport(tree)) =>
         \E n \in 0..Len(s) : ToSet(t) \ pending \subseteq FirstOf(s, n) /\ FirstOf(s, n) \subseteq ToSet(t)

\* A block of the file is added.
LEMMA AddedPresent ==
  ASSUME NEW s, IsSetList(s), tree \in Trees, NEW it \in ToSet(tree), NEW t, t = TraversalOrder(it.content),
         bs \in Stores, NEW c \in ToSet(t), NEW pending, Present(s, t, pending),
         NEW rest, ToSet(t) \ rest \subseteq (ToSet(t) \ pending) \union {c}
  PROVE  Present(Add(s, c), t, rest)
<1>1. IsList(t) /\ Sized(ToSet(t)) /\ Total(SizesOf(t)) <= LargestImport(tree)
      /\ Total(SizesOf(t)) \in Nat /\ LargestImport(tree) \in Nat
  <2>1. IsList(it.content)
    BY NoneLarger
  <2>2. QED
    BY <2>1, NoneLarger, TraversalIsList, FileSized
<1>2. CASE bs.limit = Unlimited
  <2>1. ToSet(Add(s, c)) = ToSet(s) \union {c}
    BY <1>2, AddedBlock
  <2>2. QED
    BY <1>2, <2>1 DEF Present
<1>3. CASE bs.limit # Unlimited
  <2>1. SUFFICES ASSUME bs.touches, ~(bs.limit < LargestImport(tree))
                 PROVE  \E m \in 0..Len(Add(s, c)) : /\ ToSet(t) \ rest \subseteq FirstOf(Add(s, c), m)
                                                    /\ FirstOf(Add(s, c), m) \subseteq ToSet(t)
    BY <1>3 DEF Present
  <2>2. PICK n \in 0..Len(s) : ToSet(t) \ pending \subseteq FirstOf(s, n) /\ FirstOf(s, n) \subseteq ToSet(t)
    BY <1>3, <2>1 DEF Present
  <2>3. bs.limit \in Nat
    BY <1>3, StoresAssumption DEF StoresAssumption
  <2>4. Total(SizesOf(t)) <= bs.limit
    BY <1>1, <2>1, <2>3
  <2>5. FirstOf(s, n) \union {c} \subseteq ToSet(t)
    BY <2>2
  <2>6. PICK m \in 0..Len(Add(s, c)) : FirstOf(Add(s, c), m) = FirstOf(s, n) \union {c}
    <3> DEFINE a == Add(s, c)
    <3>1. \A x, k : /\ bs.touches /\ bs.limit # Unlimited /\ bs.limit \in Nat /\ Total(SizesOf(x)) <= bs.limit
                    /\ IsList(x) /\ Sized(ToSet(x)) /\ k \in 0..Len(s) /\ FirstOf(s, k) \union {c} \subseteq ToSet(x)
                    => \E m \in 0..Len(a) : FirstOf(a, m) = FirstOf(s, k) \union {c}
      BY AddedBlock
    <3> HIDE DEF a
    <3>2. \E m \in 0..Len(a) : FirstOf(a, m) = FirstOf(s, n) \union {c}
      BY <1>1, <1>3, <2>1, <2>3, <2>4, <2>5, <3>1
    <3>3. QED
      BY <3>2 DEF a
  <2>7. QED
    BY <2>2, <2>5, <2>6
<1>4. QED
  BY <1>2, <1>3

\* A block of the file is used.
LEMMA UsedPresent ==
  ASSUME NEW s, IsSetList(s), NEW t, NEW c \in ToSet(t), c \in ToSet(s), NEW pending, Present(s, t, pending)
  PROVE  Present(LRU!Used(s, c), t, pending)
<1> DEFINE u == LRU!Used(s, c)
<1>1. /\ ToSet(u) = ToSet(s)
      /\ \A n \in 0..Len(s) : \E m \in 0..Len(u) : FirstOf(u, m) = FirstOf(s, n) \union {c}
  BY UsedBlock
<1> HIDE DEF u
<1>2. CASE bs.limit = Unlimited
  BY <1>1, <1>2 DEF Present, u
<1>3. CASE bs.limit # Unlimited
  <2>1. SUFFICES ASSUME bs.touches, ~(bs.limit < LargestImport(tree))
                 PROVE  \E m \in 0..Len(u) : ToSet(t) \ pending \subseteq FirstOf(u, m) /\ FirstOf(u, m) \subseteq ToSet(t)
    BY <1>3 DEF Present, u
  <2>2. PICK n \in 0..Len(s) : ToSet(t) \ pending \subseteq FirstOf(s, n) /\ FirstOf(s, n) \subseteq ToSet(t)
    BY <1>3, <2>1 DEF Present
  <2>3. PICK m \in 0..Len(u) : FirstOf(u, m) = FirstOf(s, n) \union {c}
    BY <1>1
  <2>4. QED
    BY <2>2, <2>3
<1>4. QED
  BY <1>2, <1>3

\* A block that is present is in the store.
LEMMA PresentIsStored ==
  ASSUME NEW s, IsSetList(s), NEW t, NEW c \in ToSet(t), Present(s, t, {}),
         bs.limit = Unlimited \/ (bs.touches /\ ~(bs.limit < LargestImport(tree)))
  PROVE  Contains(s, c)
<1>1. DOMAIN s = 1..Len(s) /\ Len(s) \in Nat
  BY ListProperties DEF IsSetList
<1>2. CASE bs.limit = Unlimited
  BY <1>1, <1>2 DEF Present, Contains, ToSet
<1>3. CASE bs.limit # Unlimited
  <2>1. PICK n \in 0..Len(s) : ToSet(t) \ {} \subseteq FirstOf(s, n)
    BY <1>3 DEF Present
  <2>2. PICK i \in 1..n : s[i] = c
    BY <2>1 DEF FirstOf
  <2>3. i \in 1..Len(s)
    BY <1>1
  <2>4. QED
    BY <2>2, <2>3 DEF Contains
<1>4. QED
  BY <1>2, <1>3

\* The first element of a list, and the rest.
LEMMA HeadAndTail ==
  ASSUME NEW s, IsList(s), s # << >>
  PROVE  IsList(Tail(s)) /\ ToSet(s) = ToSet(Tail(s)) \union {Head(s)}
<1> DEFINE S == ToSet(s)
           r == Tail(s)
           h == Head(s)
<1>1. s \in Seq(S) /\ DOMAIN s = 1..Len(s) /\ Len(s) \in Nat
  BY ListProperties DEF IsList
<1> HIDE DEF S
<1>2. r \in Seq(S) /\ Len(r) = Len(s) - 1 /\ h = s[1] /\ Len(s) # 0 /\ \A i \in 1..Len(r) : r[i] = s[i + 1]
  BY <1>1
<1> HIDE DEF r, h
<1>3. IsList(r)
  BY <1>2, SeqIsList
<1>4. DOMAIN r = 1..Len(r)
  BY <1>3, ListProperties
<1>5. ASSUME NEW i \in 1..Len(s) PROVE s[i] \in ToSet(r) \union {h}
  <2>1. CASE i = 1
    BY <1>2, <2>1
  <2>2. CASE i # 1
    <3>1. i - 1 \in 1..Len(r) /\ (i - 1) + 1 = i
      BY <1>1, <1>2, <2>2
    <3>2. r[i - 1] = s[i]
      BY <1>2, <3>1
    <3>3. QED
      BY <1>4, <3>1, <3>2 DEF ToSet
  <2>3. QED
    BY <2>1, <2>2
<1>6. ASSUME NEW i \in 1..Len(r) PROVE r[i] \in ToSet(s)
  <2>1. i + 1 \in 1..Len(s) /\ r[i] = s[i + 1]
    BY <1>1, <1>2
  <2>2. QED
    BY <1>1, <2>1 DEF ToSet
<1>7. h \in ToSet(s)
  <2>1. 1 \in DOMAIN s
    BY <1>1, <1>2
  <2>2. QED
    BY <1>2, <2>1 DEF ToSet
<1>8. ToSet(s) \subseteq ToSet(r) \union {h}
  BY <1>1, <1>5 DEF ToSet
<1>9. ToSet(r) \subseteq ToSet(s)
  BY <1>4, <1>6 DEF ToSet
<1>10. QED
  BY <1>3, <1>7, <1>8, <1>9 DEF r, h

\* Any block listed can be made again, if the filesystem is still the one
\* summarised.
Reopens ==
  Built /\ source.tree = tree /\ NotReserved(tree) => \A c \in ToSet(summary.order) :
    /\ c \in DOMAIN summary.cidToEntry
    /\ LET e == summary.entries[summary.cidToEntry[c]]
       IN  IF e.isDir THEN DirectoryBlock(summary.entries, e) = c
           ELSE Opened(e) # {} /\ \A it \in Opened(e) : c \in ToSet(TraversalOrder(it.content))

\* The import that is under way is that of the file it, and brings back the
\* block that WriteCAR needs.
UnderWay(it) ==
  LET t == TraversalOrder(it.content)
  IN  /\ IsList(todo.add) /\ ToSet(todo.add) \subseteq ToSet(t)
      /\ IsList(todo.collect) /\ ToSet(todo.collect) \subseteq ToSet(t)
      /\ Present(store, t, ToSet(todo.add))
      /\ pc = "reimport" /\ source.tree = tree /\ NotReserved(tree) => NextBlock \in ToSet(t)

\* The inductive invariant of the store, on top of TypeInv.
StoreInv ==
  /\ IsSetList(store)
  /\ todo = [add |-> todo.add, collect |-> todo.collect]
  /\ Importing => \E it \in ToSet(tree) : UnderWay(it)
  /\ NoBlockLost

\* What adding and using blocks leaves is a list of different blocks.
LEMMA StoreStaysList ==
  ASSUME IsSetList(store), Next
  PROVE  IsSetList(store')
<1>1. \A c : IsSetList(Add(store, c))
  BY AddedBlock
<1>2. \A c : Contains(store, c) => IsSetList(LRU!Used(store, c))
  <2>1. DOMAIN store = 1..Len(store)
    BY ListProperties DEF IsSetList
  <2>2. \A c : Contains(store, c) => c \in ToSet(store)
    BY <2>1 DEF Contains, ToSet
  <2>3. QED
    BY <2>2, UsedBlock
<1>3. ASSUME UNCHANGED store PROVE IsSetList(store')
  BY <1>3
<1>4. CASE ImportBlock
  BY <1>1, <1>4 DEF ImportBlock
<1>5. CASE CollectBlock \/ WriteBlock
  BY <1>2, <1>5 DEF CollectBlock, WriteBlock
<1>6. CASE RemakeDirectory
  BY <1>1, <1>6 DEF RemakeDirectory
<1>7. CASE WriteFails \/ IOFails
  BY <1>1, <1>2, <1>3, <1>7 DEF WriteFails, IOFails, SectionFails
<1>8. ASSUME NEW p \in dirs, MakeDirectory(p) \/ PruneDirectory(p) \/ RegenerateDirectory(p) PROVE IsSetList(store')
  <2>1. CASE MakeDirectory(p)
    BY <1>1, <2>1 DEF MakeDirectory
  <2>2. CASE PruneDirectory(p)
    BY <1>3, <2>2 DEF PruneDirectory
  <2>3. CASE RegenerateDirectory(p)
    BY <1>1, <2>3 DEF RegenerateDirectory
  <2>4. QED
    BY <1>8, <2>1, <2>2, <2>3
<1>9. CASE \/ VisitSkipped \/ VisitDir \/ VisitFile \/ CollectFails \/ EnterFile
           \/ FinishSingleFile \/ StartDirectories \/ StartRegeneration
           \/ ReimportFile \/ FinishWrite \/ Stop \/ Cancel \/ WriteCAR
  BY <1>3, <1>9 DEF VisitSkipped, VisitDir, VisitFile, CollectFails, EnterFile, FinishSingleFile, StartDirectories,
       StartRegeneration, ReimportFile, FinishWrite, Stop, Cancel, WriteCAR
<1>10. ASSUME NEW t \in Trees, NEW w \in BOOLEAN, BuildSummary(t, w) PROVE IsSetList(store')
  BY <1>3, <1>10 DEF BuildSummary
<1>11. QED
  BY <1>4, <1>5, <1>6, <1>7, <1>8, <1>9, <1>10 DEF Next, Advance

\* No block is in front of the store before the first one is added.
LEMMA NonePresent ==
  ASSUME NEW s, NEW t, NEW pending, ToSet(t) \subseteq pending, IsList(s)
  PROVE  Present(s, t, pending)
<1>1. 0 \in 0..Len(s) /\ FirstOf(s, 0) = {}
  BY ListProperties DEF FirstOf
<1>2. ToSet(t) \ pending = {}
  OBVIOUS
<1>3. QED
  BY <1>1, <1>2 DEF Present

\* A file's import begins.
LEMMA ImportBegins ==
  ASSUME tree \in Trees, IsSetList(store), NEW it \in ToSet(tree), todo' = ImportOf(it.content),
         UNCHANGED <<bs, tree, source, store, summary, written>>,
         pc' = "reimport" /\ source.tree = tree /\ NotReserved(tree) => NextBlock \in ToSet(TraversalOrder(it.content))
  PROVE  UnderWay(it)'
<1>1. IsList(it.content)
  BY NoneLarger
<1>2. PICK t : t = TraversalOrder(it.content)
  OBVIOUS
<1>3. PICK s : s = StoredOrder(it.content)
  OBVIOUS
<1>4. IsList(s) /\ ToSet(s) = ToSet(t) /\ IsList(t)
  BY <1>1, <1>2, <1>3, ElementsOfStored, TraversalIsList
<1>5. todo'.add = s /\ todo'.collect = t
  BY <1>2, <1>3 DEF ImportOf
<1>6. Present(store, t, ToSet(s))
  BY <1>4, NonePresent DEF IsSetList
<1>7. Present(store, t, ToSet(s))'
  BY <1>6 DEF Present
<1>8. NextBlock' = NextBlock
  BY DEF NextBlock
<1>9. QED
  BY <1>2, <1>4, <1>5, <1>7, <1>8 DEF UnderWay

\* A file of no filesystem is not imported.
LEMMA ImportedTree == ASSUME TypeInv, NEW it \in ToSet(tree) PROVE tree \in Trees
<1>1. ToSet(<< >>) = {}
  BY DEF ToSet
<1>2. QED
  BY <1>1 DEF TypeInv, AlignedInv, WalkInv

\* The block that WriteCAR has not found in the store is one listed.
LEMMA NextIsListed == ASSUME TypeInv, Dropped PROVE Built /\ NextBlock \in ToSet(summary.order)
<1>1. pc = "write" /\ Len(written) < Len(summary.order)
  BY DEF Dropped, Writing
<1>2. Built /\ IsList(written) /\ IsList(summary.order)
  BY <1>1 DEF TypeInv, WriteInv, AlignedInv, Aligned
<1>3. Len(written) \in Nat /\ Len(summary.order) \in Nat /\ DOMAIN summary.order = 1..Len(summary.order)
  BY <1>2, ListProperties
<1>4. QED
  BY <1>1, <1>2, <1>3 DEF NextBlock, ToSet

\* The next step of an import.
LEMMA ImportGoesOn ==
  ASSUME TypeInv, StoreInv, ImportBlock \/ CollectBlock
  PROVE  \E it \in ToSet(tree') : UnderWay(it)'
<1>1. PICK it \in ToSet(tree) : UnderWay(it)
  BY DEF StoreInv, ImportBlock, CollectBlock, Collecting
<1>2. tree \in Trees /\ bs \in Stores
  BY ImportedTree DEF TypeInv, ControlTypes
<1>3. UNCHANGED <<bs, tree, source, summary, written, pc>>
  BY DEF ImportBlock, CollectBlock, given, control, published, writing
<1>4. PICK t : t = TraversalOrder(it.content)
  OBVIOUS
<1>5. /\ IsList(todo.add) /\ ToSet(todo.add) \subseteq ToSet(t)
      /\ IsList(todo.collect) /\ ToSet(todo.collect) \subseteq ToSet(t)
      /\ Present(store, t, ToSet(todo.add))
      /\ pc = "reimport" /\ source.tree = tree /\ NotReserved(tree) => NextBlock \in ToSet(t)
  BY <1>1, <1>4 DEF UnderWay
<1>6. NextBlock' = NextBlock
  BY <1>3 DEF NextBlock
<1>7. todo = [add |-> todo.add, collect |-> todo.collect] /\ IsSetList(store)
  BY DEF StoreInv
<1>8. SUFFICES /\ IsList(todo'.add) /\ ToSet(todo'.add) \subseteq ToSet(t)
               /\ IsList(todo'.collect) /\ ToSet(todo'.collect) \subseteq ToSet(t)
               /\ Present(store', t, ToSet(todo'.add))
  <2>1. Present(store', t, ToSet(todo'.add)) => Present(store, t, ToSet(todo.add))'
    BY <1>3 DEF Present
  <2>2. UnderWay(it)'
    BY <1>3, <1>4, <1>5, <1>6, <1>8, <2>1 DEF UnderWay
  <2>3. QED
    BY <1>3, <2>2
<1>9. CASE ImportBlock
  <2>1. PICK a, h, r : a = todo.add /\ h = Head(todo.add) /\ r = Tail(todo.add)
    OBVIOUS
  <2>2. a # << >> /\ store' = Add(store, h) /\ todo'.add = r /\ todo'.collect = todo.collect
    BY <1>7, <1>9, <2>1 DEF ImportBlock
  <2>3. IsList(r) /\ ToSet(a) = ToSet(r) \union {h}
    BY <1>5, <2>1, <2>2, HeadAndTail
  <2>4. h \in ToSet(t) /\ ToSet(r) \subseteq ToSet(t) /\ ToSet(t) \ ToSet(r) \subseteq (ToSet(t) \ ToSet(a)) \union {h}
    BY <1>5, <2>1, <2>3
  <2>5. Present(Add(store, h), t, ToSet(r))
    BY <1>2, <1>4, <1>5, <1>7, <2>1, <2>4, AddedPresent
  <2>6. QED
    BY <1>5, <2>2, <2>3, <2>4, <2>5
<1>10. CASE CollectBlock
  <2>1. PICK a, h, r : a = todo.collect /\ h = Head(todo.collect) /\ r = Tail(todo.collect)
    OBVIOUS
  <2>2. a # << >> /\ Contains(store, h) /\ store' = LRU!Used(store, h) /\ todo'.collect = r /\ todo'.add = todo.add
    BY <1>7, <1>10, <2>1 DEF CollectBlock, Collecting, Dequeued
  <2>3. IsList(r) /\ ToSet(a) = ToSet(r) \union {h}
    BY <1>5, <2>1, <2>2, HeadAndTail
  <2>4. h \in ToSet(t) /\ ToSet(r) \subseteq ToSet(t)
    BY <1>5, <2>1, <2>3
  <2>5. h \in ToSet(store)
    BY <1>7, <2>2, ListProperties DEF Contains, ToSet, IsSetList
  <2>6. Present(LRU!Used(store, h), t, ToSet(todo.add))
    BY <1>5, <1>7, <2>4, <2>5, UsedPresent
  <2>7. QED
    BY <1>5, <2>2, <2>3, <2>4, <2>6
<1>11. QED
  BY <1>9, <1>10

\* The import that is under way, if any, is that of a file.
LEMMA ImportStep ==
  ASSUME TypeInv, Reopens, StoreInv, Next, Importing'
  PROVE  \E it \in ToSet(tree') : UnderWay(it)'
<1>1. CASE ImportBlock \/ CollectBlock
  BY <1>1, ImportGoesOn
<1>2. CASE Cancel
  <2>1. UNCHANGED <<bs, tree, source, summary, written, pc, todo, store>>
    BY <1>2 DEF Cancel, given, locals, published, writing
  <2>2. PICK it \in ToSet(tree) : UnderWay(it)
    BY <2>1 DEF StoreInv, Importing
  <2>3. UnderWay(it)'
    BY <2>1, <2>2 DEF UnderWay, Present, NextBlock
  <2>4. QED
    BY <2>1, <2>3
<1>3. CASE VisitFile
  <2>1. PICK it : it = Head(walk)
    OBVIOUS
  <2>2. walk # << >> /\ todo' = ImportOf(it.content) /\ pc' = "import"
        /\ UNCHANGED <<bs, tree, source, store, summary, written>>
    BY <1>3, <2>1 DEF VisitFile, Visiting, given, published, writing
  <2>3. it \in ToSet(tree)
    <3>1. IsList(walk) /\ IsList(tree)
      <4>1. IsList(<< >>)
        BY DEF IsList
      <4>2. \A t \in Trees : IsList(t)
        BY TreesAssumption DEF IsList
      <4>3. QED
        BY <4>1, <4>2, SeqIsList DEF TypeInv, AlignedInv, WalkInv
    <3>2. Len(walk) \in Nat /\ Len(tree) \in Nat /\ DOMAIN tree = 1..Len(tree)
      BY <3>1, ListProperties
    <3>3. Len(walk) # 0 /\ it = walk[1]
      BY <2>1, <2>2, <3>1 DEF IsList
    <3>4. it = tree[Len(tree) - Len(walk) + 1] /\ Len(tree) - Len(walk) + 1 \in 1..Len(tree)
      BY <3>2, <3>3 DEF TypeInv, WalkLeft
    <3>5. QED
      BY <3>2, <3>4 DEF ToSet
  <2>4. tree \in Trees /\ IsSetList(store)
    BY <2>3, ImportedTree DEF StoreInv
  <2>5. UnderWay(it)'
    BY <2>2, <2>3, <2>4, ImportBegins
  <2>6. QED
    BY <2>2, <2>3, <2>5
<1>4. CASE ReimportFile
  <2>1. PICK it \in Opened(EntryOfBlock) : todo' = ImportOf(it.content)
    BY <1>4 DEF ReimportFile
  <2>2. UNCHANGED <<bs, tree, source, store, summary, written>> /\ Dropped /\ ~EntryOfBlock.isDir
    BY <1>4 DEF ReimportFile, given, published, writing
  <2>3. it \in ToSet(tree) /\ tree \in Trees /\ IsSetList(store)
    BY <2>1, ImportedTree DEF Opened, StoreInv
  <2>4. Built /\ NextBlock \in ToSet(summary.order)
    BY <2>2, NextIsListed
  <2>5. ASSUME source.tree = tree, NotReserved(tree) PROVE NextBlock \in ToSet(TraversalOrder(it.content))
    BY <2>1, <2>2, <2>4, <2>5 DEF Reopens, EntryOfBlock
  <2>6. UnderWay(it)'
    BY <2>1, <2>2, <2>3, <2>5, ImportBegins
  <2>7. QED
    BY <2>2, <2>3, <2>6
<1>5. CASE \/ VisitSkipped \/ VisitDir \/ CollectFails \/ EnterFile \/ FinishSingleFile \/ StartDirectories
           \/ StartRegeneration \/ WriteBlock \/ RemakeDirectory \/ WriteFails \/ FinishWrite \/ Stop \/ IOFails
           \/ WriteCAR \/ \E t \in Trees, w \in BOOLEAN : BuildSummary(t, w)
  BY <1>5 DEF Importing, VisitSkipped, VisitDir, Visiting, CollectFails, EnterFile, FinishSingleFile, StartDirectories,
     StartRegeneration, WriteBlock, RemakeDirectory, Dropped, Writing, WriteFails, FinishWrite, Stop, IOFails, WriteCAR,
     BuildSummary, Return, control
<1>6. ASSUME NEW p \in dirs, MakeDirectory(p) \/ PruneDirectory(p) \/ RegenerateDirectory(p) PROVE FALSE
  BY <1>6 DEF Importing, MakeDirectory, PruneDirectory, RegenerateDirectory, Return, control
<1>7. QED
  BY <1>1, <1>2, <1>3, <1>4, <1>5, <1>6 DEF Next, Advance

\* An import fails only when the store is too small, or forgets what it was
\* given first.
LEMMA ImportKeeps ==
  ASSUME TypeInv, StoreInv, Importing, todo.add = << >>, bs.touches \/ bs.limit = Unlimited,
         ~(bs.limit # Unlimited /\ bs.limit < LargestImport(tree))
  PROVE  /\ \A c \in ToSet(todo.collect) : Contains(store, c)
         /\ pc = "reimport" /\ source.tree = tree /\ NotReserved(tree) => Contains(store, NextBlock)
<1>1. PICK it \in ToSet(tree) : UnderWay(it)
  BY DEF StoreInv
<1>2. PICK t : t = TraversalOrder(it.content)
  OBVIOUS
<1>3. ToSet(todo.add) = {}
  BY DEF ToSet
<1>4. Present(store, t, {}) /\ ToSet(todo.collect) \subseteq ToSet(t)
      /\ (pc = "reimport" /\ source.tree = tree /\ NotReserved(tree) => NextBlock \in ToSet(t))
  BY <1>1, <1>2, <1>3 DEF UnderWay
<1>5. \A c \in ToSet(t) : Contains(store, c)
  BY <1>4, PresentIsStored DEF StoreInv
<1>6. QED
  BY <1>4, <1>5

\* No call loses a block.
LEMMA NoneLostStep ==
  ASSUME TypeInv, Reopens, StoreInv, Next
  PROVE  NoBlockLost'
<1>1. ASSUME outcome' # "missing" PROVE NoBlockLost'
  BY <1>1 DEF NoBlockLost
<1>2. CASE CollectFails
  <2>1. SUFFICES ASSUME bs.touches \/ bs.limit = Unlimited, ~(bs.limit # Unlimited /\ bs.limit < LargestImport(tree))
                 PROVE  FALSE
    BY <1>2 DEF NoBlockLost, CollectFails, given
  <2>2. Importing /\ todo.add = << >> /\ todo.collect # << >> /\ ~Contains(store, Head(todo.collect))
    BY <1>2 DEF CollectFails, Collecting
  <2>3. Head(todo.collect) \in ToSet(todo.collect)
    BY <2>2, HeadAndTail DEF StoreInv, UnderWay
  <2>4. QED
    BY <2>1, <2>2, <2>3, ImportKeeps
<1>3. CASE WriteFails
  <2>1. UNCHANGED <<bs, tree, source, summary>>
    BY <1>3 DEF WriteFails, given, published
  <2>2. SUFFICES ASSUME bs.touches \/ bs.limit = Unlimited, ~(bs.limit # Unlimited /\ bs.limit < LargestImport(tree)),
                        NotReserved(tree), ~(Built /\ source.tree # tree)
                 PROVE  FALSE
    BY <2>1 DEF NoBlockLost, Built
  <2>3. pc \in {"write", "reimport"}
    BY <1>3 DEF WriteFails, Dropped, Writing
  <2>4. Built /\ source.tree = tree
    BY <2>2, <2>3 DEF TypeInv, WriteInv
  <2>5. CASE pc = "reimport" /\ Imported /\ ~Contains(store, NextBlock)
    <3>1. Importing /\ todo.add = << >>
      BY <2>5 DEF Importing, Imported, NoImport
    <3>2. QED
      BY <2>2, <2>4, <2>5, <3>1, ImportKeeps
  <2>6. CASE /\ Dropped
             /\ Indexed => IF EntryOfBlock.isDir THEN DirectoryBlock(summary.entries, EntryOfBlock) # NextBlock
                           ELSE Opened(EntryOfBlock) = {}
    <3>1. NextBlock \in ToSet(summary.order)
      BY <2>6, NextIsListed
    <3>2. Indexed /\ IF EntryOfBlock.isDir THEN DirectoryBlock(summary.entries, EntryOfBlock) = NextBlock
                     ELSE Opened(EntryOfBlock) # {}
      BY <2>2, <2>4, <3>1 DEF Reopens, Indexed, EntryOfBlock
    <3>3. QED
      BY <2>6, <3>2
  <2>7. QED
    BY <1>3, <2>5, <2>6 DEF WriteFails
<1>4. CASE \/ VisitSkipped \/ VisitDir \/ VisitFile \/ ImportBlock \/ CollectBlock \/ EnterFile \/ StartDirectories
           \/ StartRegeneration \/ WriteBlock \/ ReimportFile \/ RemakeDirectory \/ Cancel
  <2>1. Running /\ outcome' = outcome
    BY <1>4 DEF Running, VisitSkipped, VisitDir, VisitFile, Visiting, ImportBlock, CollectBlock, Collecting, Importing,
       EnterFile, StartDirectories, StartRegeneration, WriteBlock, ReimportFile, RemakeDirectory, Dropped, Writing,
       Cancel, control
  <2>2. QED
    BY <1>1, <2>1 DEF TypeInv, WriteInv
<1>5. CASE FinishSingleFile \/ FinishWrite \/ Stop \/ IOFails \/ WriteCAR \/ \E t \in Trees, w \in BOOLEAN : BuildSummary(t, w)
  BY <1>1, <1>5 DEF FinishSingleFile, FinishWrite, Stop, IOFails, WriteCAR, BuildSummary, Return
<1>6. ASSUME NEW p \in dirs, MakeDirectory(p) \/ PruneDirectory(p) \/ RegenerateDirectory(p) PROVE NoBlockLost'
  <2>1. Running /\ (outcome' = outcome \/ outcome' = "built")
    BY <1>6 DEF Running, MakeDirectory, PruneDirectory, RegenerateDirectory, Return, control
  <2>2. QED
    BY <1>1, <2>1 DEF TypeInv, WriteInv
<1>7. QED
  BY <1>2, <1>3, <1>4, <1>5, <1>6 DEF Next, Advance

\* Every step keeps the invariant of the store.
LEMMA StoreStep ==
  ASSUME TypeInv, Reopens, StoreInv, Next
  PROVE  StoreInv'
<1>1. IsSetList(store')
  BY StoreStaysList DEF StoreInv
<1>2. todo' = [add |-> todo'.add, collect |-> todo'.collect]
  <2>1. ASSUME todo' = NoImport \/ (\E x : todo' = ImportOf(x)) \/ UNCHANGED todo PROVE todo' = [add |-> todo'.add, collect |-> todo'.collect]
    BY <2>1 DEF NoImport, ImportOf, StoreInv
  <2>2. CASE ImportBlock \/ CollectBlock
    BY <2>2 DEF ImportBlock, CollectBlock, StoreInv
  <2>3. CASE VisitFile \/ ReimportFile
    BY <2>1, <2>3 DEF VisitFile, ReimportFile
  <2>4. CASE \/ VisitSkipped \/ VisitDir \/ CollectFails \/ EnterFile \/ FinishSingleFile \/ StartDirectories
             \/ StartRegeneration \/ WriteBlock \/ RemakeDirectory \/ WriteFails \/ FinishWrite \/ Stop \/ IOFails
             \/ Cancel \/ WriteCAR \/ \E t \in Trees, w \in BOOLEAN : BuildSummary(t, w)
    BY <2>1, <2>4 DEF VisitSkipped, VisitDir, CollectFails, EnterFile, FinishSingleFile, StartDirectories,
       StartRegeneration, WriteBlock, RemakeDirectory, WriteFails, FinishWrite, Stop, IOFails, Cancel, WriteCAR,
       BuildSummary, Return, locals
  <2>5. ASSUME NEW p \in dirs, MakeDirectory(p) \/ PruneDirectory(p) \/ RegenerateDirectory(p)
        PROVE  todo' = NoImport \/ UNCHANGED todo
    BY <2>5 DEF MakeDirectory, PruneDirectory, RegenerateDirectory, Return
  <2>6. QED
    BY <2>1, <2>2, <2>3, <2>4, <2>5 DEF Next, Advance
<1>3. QED
  BY <1>1, <1>2, ImportStep, NoneLostStep DEF StoreInv
=============================================================================
