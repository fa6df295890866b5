---------------------------- MODULE Summary_proofs ----------------------------
(***************************************************************************)
(* What BuildSummary publishes, for all filesystems, blockstores and       *)
(* lengths: the root is the Merkle root of the filesystem, the list of     *)
(* blocks that of the DAG below it, and the index leads to entries that    *)
(* the blocks can be made again from.                                      *)
(***************************************************************************)
EXTENDS CARBuilder_proofs

-----------------------------------------------------------------------------
(* Trees of entries. *)

\* What the visible entries of a filesystem are that uses no reserved name.
Tree(V) ==
  /\ IsFiniteSet(V)
  /\ \A x, y \in V : x.path = y.path => x = y
  /\ \A x \in V :
       /\ IsList(x.path) /\ x.path # << >> /\ x.path # ROOT
       /\ x.isDir \in BOOLEAN
       /\ IF x.path = CurrentDir THEN V = {x} /\ ~x.isDir ELSE x.name = Last(x.path)
       /\ x.isDir => x.name # "ROOT"
       /\ Len(x.path) > 1 => \E y \in V : y.isDir /\ y.path = Front(x.path)
       /\ Front(x.path) # ROOT

\* The list without its last element.
LEMMA FrontOfList ==
  ASSUME NEW s, IsList(s), s # << >>
  PROVE  /\ IsList(Front(s)) /\ Len(s) \in Nat \ {0}
         /\ Len(Front(s)) = Len(s) - 1
         /\ \A i \in 1..(Len(s) - 1) : Front(s)[i] = s[i]
<1>1. Len(s) \in Nat /\ Len(s) # 0
  <2>1. s \in Seq(ToSet(s))
    BY DEF IsList
  <2>2. QED
    BY <2>1, EmptySeq, LenProperties
<1>2. 1 \in 1..(Len(s) + 1) /\ Len(s) - 1 \in 0..Len(s)
  BY <1>1
<1>3. /\ IsList(SubSeq(s, 1, Len(s) - 1))
      /\ Len(SubSeq(s, 1, Len(s) - 1)) = IF 1 <= Len(s) - 1 THEN Len(s) - 1 - 1 + 1 ELSE 0
      /\ \A j \in 1..(Len(s) - 1 - 1 + 1) : SubSeq(s, 1, Len(s) - 1)[j] = s[1 + j - 1]
  BY <1>2, SliceOfList
<1>4. QED
  BY <1>1, <1>3 DEF Front

\* A list of one element has nothing before it.
LEMMA FrontOfOne ==
  ASSUME NEW s, IsList(s), s # << >>, ~(Len(s) > 1)
  PROVE  Front(s) = << >>
<1> DEFINE n == Len(s)
           f == Front(s)
<1>1. IsList(f) /\ n \in Nat \ {0} /\ Len(f) = n - 1 /\ ~(n > 1)
  BY FrontOfList
<1> HIDE DEF n, f
<1>2. Len(f) = 0 /\ f \in Seq(ToSet(f))
  BY <1>1 DEF IsList
<1>3. QED
  BY <1>2, EmptySeq DEF f

\* Lists of which one prolongs the other by the same element are equal.
LEMMA FrontAndLast ==
  ASSUME NEW s, NEW t, IsList(s), IsList(t), s # << >>, t # << >>, Front(s) = Front(t), Last(s) = Last(t)
  PROVE  s = t
<1>1. /\ Len(s) \in Nat \ {0} /\ Len(Front(s)) = Len(s) - 1 /\ \A i \in 1..(Len(s) - 1) : Front(s)[i] = s[i]
      /\ Len(t) \in Nat \ {0} /\ Len(Front(t)) = Len(t) - 1 /\ \A i \in 1..(Len(t) - 1) : Front(t)[i] = t[i]
  BY FrontOfList
<1>2. Len(s) = Len(t)
  BY <1>1
<1>3. s[Len(s)] = t[Len(s)]
  BY <1>2 DEF Last
<1>4. \A i \in 1..Len(s) : s[i] = t[i]
  BY <1>1, <1>2, <1>3
<1>5. QED
  BY <1>2, <1>4, ListEqual

\* A list is its last element behind the others.
LEMMA FrontAppended ==
  ASSUME NEW s, IsList(s), s # << >>
  PROVE  Append(Front(s), Last(s)) = s
<1> DEFINE f == Front(s)
           l == Last(s)
           S == ToSet(f) \union {l}
<1>1. IsList(f) /\ Len(s) \in Nat \ {0} /\ Len(f) = Len(s) - 1 /\ (\A i \in 1..(Len(s) - 1) : f[i] = s[i]) /\ l = s[Len(s)]
  BY FrontOfList DEF Last
<1>2. f \in Seq(S) /\ l \in S
  BY <1>1, SeqMonotonic DEF IsList
<1> HIDE DEF f, l, S
<1>3. PICK a : a = Append(f, l)
  OBVIOUS
<1>4. a \in Seq(S) /\ Len(a) = Len(f) + 1 /\ a[Len(f) + 1] = l /\ \A i \in 1..Len(f) : a[i] = f[i]
  BY <1>2, <1>3, AppendProperties
<1>5. Len(a) = Len(s) /\ IsList(a)
  BY <1>1, <1>4, SeqIsList
<1>6. ASSUME NEW i \in 1..Len(s) PROVE a[i] = s[i]
  BY <1>1, <1>4, i = Len(s) \/ i \in 1..Len(f)
<1>7. a = s
  BY <1>5, <1>6, ListEqual
<1>8. QED
  BY <1>3, <1>7 DEF f, l

\* Of some entries one is the deepest.
LEMMA DeepestEntry ==
  ASSUME NEW V, Tree(V), NEW D \in SUBSET V, D # {}
  PROVE  \E x \in D : \A y \in D : Len(y.path) <= Len(x.path)
<1> DEFINE len == [x \in D |-> Len(x.path)]
           L == {len[x] : x \in D}
<1>1. \A x \in D : len[x] \in Nat /\ len[x] = Len(x.path)
  <2>1. \A x \in V : Len(x.path) \in Nat
    BY ListProperties DEF Tree
  <2>2. QED
    BY <2>1
<1>2. IsFiniteSet(D)
  BY FS_Subset DEF Tree
<1> HIDE DEF len
<1>3. L \in SUBSET Nat /\ L # {} /\ IsFiniteSet(L)
  BY <1>1, <1>2, ImageIsFinite
<1>4. Max(L) \in L /\ \A n \in L : Max(L) >= n
  <2> HIDE DEF L
  <2>1. QED
    BY <1>3, MaxExists
<1>5. PICK x \in D : Max(L) = len[x]
  BY <1>4
<1>6. \A y \in D : len[y] \in L
  OBVIOUS
<1> HIDE DEF L
<1>7. ASSUME NEW y \in D PROVE Len(y.path) <= Len(x.path)
  BY <1>1, <1>4, <1>5, <1>6
<1>8. QED
  BY <1>7

\* What is in an entry is deeper, and the entry is a directory.
LEMMA ChildDeeper ==
  ASSUME NEW V, Tree(V), NEW x \in V, NEW k \in Inside(V, x.path)
  PROVE  /\ k \in V /\ x.isDir
         /\ Len(x.path) \in Nat /\ Len(k.path) = Len(x.path) + 1
<1>1. k \in V /\ Front(k.path) = x.path
  BY DEF Inside
<1>2. Len(x.path) \in Nat \ {0} /\ Len(k.path) \in Nat /\ Len(x.path) = Len(k.path) - 1
  BY <1>1, FrontOfList DEF Tree
<1>3. PICK y \in V : y.isDir /\ y.path = x.path
  BY <1>1, <1>2 DEF Tree
<1>4. y = x
  BY <1>3 DEF Tree
<1>5. QED
  BY <1>1, <1>2, <1>3, <1>4

\* The CIDs of the entries of a tree are the only function that agrees with
\* MerkleRoot's recursion: of two, the deepest difference would have none
\* below.
LEMMA MerkleRootIs ==
  ASSUME NEW V, Tree(V), NEW h,
         \A it \in V :
           h[it] = IF it.isDir
                   THEN DirCid({<<k.name, h[k]>> : k \in {x \in Inside(V, it.path) : HasFile(V, x.path)}})
                   ELSE FileCid(it.content)
  PROVE  MerkleRoot(V) = DirCid({<<k.name, h[k]>> : k \in Inside(V, << >>)})
<1> DEFINE R(f, it) == IF it.isDir
                       THEN DirCid({<<k.name, f[k]>> : k \in {x \in Inside(V, it.path) : HasFile(V, x.path)}})
                       ELSE FileCid(it.content)
           g == [it \in V |-> h[it]]
           cidAt == CHOOSE f : f = [it \in V |-> R(f, it)]
<1>1. g = [it \in V |-> R(g, it)]
  <2>1. ASSUME NEW it \in V PROVE R(g, it) = R(h, it)
    <3>1. {<<k.name, g[k]>> : k \in {x \in Inside(V, it.path) : HasFile(V, x.path)}}
            = {<<k.name, h[k]>> : k \in {x \in Inside(V, it.path) : HasFile(V, x.path)}}
      BY DEF Inside
    <3>2. QED
      BY <3>1
  <2>2. \A it \in V : h[it] = R(h, it)
    OBVIOUS
  <2>3. QED
    BY <2>1, <2>2
<1>2. cidAt = [it \in V |-> R(cidAt, it)]
  <2> HIDE DEF g, R
  <2>1. \E f : f = [it \in V |-> R(f, it)]
    BY <1>1
  <2>2. QED
    BY <2>1
<1>3. MerkleRoot(V) = DirCid({<<k.name, cidAt[k]>> : k \in Inside(V, << >>)})
  BY DEF MerkleRoot
<1> HIDE DEF cidAt
<1>4. ASSUME NEW it \in V, cidAt[it] # h[it] PROVE FALSE
  <2> DEFINE D == {x \in V : cidAt[x] # h[x]}
  <2>1. PICK x \in D : \A y \in D : Len(y.path) <= Len(x.path)
    <3>1. D # {} /\ D \in SUBSET V
      BY <1>4
    <3> HIDE DEF D
    <3>2. QED
      BY <3>1, DeepestEntry
  <2>2. cidAt[x] = R(cidAt, x)
    <3> HIDE DEF R
    <3>1. QED
      BY <1>2, <2>1
  <2>3. \A k \in Inside(V, x.path) : cidAt[k] = h[k]
    <3>1. SUFFICES ASSUME NEW k \in Inside(V, x.path), k \in D PROVE FALSE
      BY DEF Inside
    <3>2. Len(x.path) \in Nat /\ Len(k.path) = Len(x.path) + 1 /\ Len(k.path) <= Len(x.path)
      BY <2>1, <3>1, ChildDeeper
    <3>3. QED
      BY <3>2
  <2>4. {<<k.name, cidAt[k]>> : k \in {z \in Inside(V, x.path) : HasFile(V, z.path)}}
          = {<<k.name, h[k]>> : k \in {z \in Inside(V, x.path) : HasFile(V, z.path)}}
    BY <2>3
  <2>5. R(cidAt, x) = R(h, x)
    BY <2>4
  <2>6. QED
    BY <2>1, <2>2, <2>5
<1>5. {<<k.name, cidAt[k]>> : k \in Inside(V, << >>)} = {<<k.name, h[k]>> : k \in Inside(V, << >>)}
  BY <1>4 DEF Inside
<1>6. QED
  BY <1>3, <1>5

-----------------------------------------------------------------------------
(* The entries made of a tree. *)

\* The paths of the entries without a file below.
Barren(V) == {it.path : it \in {x \in V : x.isDir /\ ~HasFile(V, x.path)}}

\* The entry of a directory or file, whatever its CID and its children.
IsEntry(e) ==
  e = [name |-> e.name, isDir |-> e.isDir, path |-> e.path, cid |-> e.cid, children |-> e.children]

EntryFor(e, name, isDir, path) == IsEntry(e) /\ e.name = name /\ e.isDir = isDir /\ e.path = path

\* There is an entry for everything in V, with its children but those that
\* are gone; the root has the files at the top.
Listing(entries, V, gone) ==
  /\ DOMAIN entries = {ROOT} \union {it.path : it \in V}
  /\ \A it \in V : LET e == entries[it.path]
                   IN  /\ EntryFor(e, it.name, it.isDir, Front(it.path))
                       /\ ~it.isDir => e.cid = FileCid(it.content)
                       /\ IsSetList(e.children)
                       /\ ToSet(e.children) = {k.path : k \in Inside(V, it.path)} \ gone
  /\ EntryFor(entries[ROOT], "ROOT", TRUE, ROOT)
  /\ IsSetList(entries[ROOT].children)
  /\ ToSet(entries[ROOT].children) = {k.path : k \in {x \in Inside(V, << >>) : ~x.isDir}}

\* An element at the end of a list without it.
LEMMA AppendNew ==
  ASSUME NEW s, IsSetList(s), NEW x, x \notin ToSet(s)
  PROVE  IsSetList(Append(s, x)) /\ ToSet(Append(s, x)) = ToSet(s) \union {x}
<1> DEFINE S == ToSet(s) \union {x}
           a == Append(s, x)
<1>1. s \in Seq(S) /\ x \in S
  BY SeqMonotonic DEF IsSetList, IsList
<1> HIDE DEF S
<1>2. /\ a \in Seq(S) /\ Len(a) = Len(s) + 1 /\ a[Len(s) + 1] = x
      /\ \A i \in 1..Len(s) : a[i] = s[i]
  BY <1>1, AppendProperties
<1> HIDE DEF a
<1>3. /\ Len(s) \in Nat /\ DOMAIN s = 1..Len(s) /\ IsList(a) /\ DOMAIN a = 1..(Len(s) + 1)
  BY <1>2, ListProperties, SeqIsList DEF IsSetList
<1>4. \A i \in 1..(Len(s) + 1) : (i \in 1..Len(s) /\ a[i] = s[i]) \/ (i = Len(s) + 1 /\ a[i] = x)
  BY <1>2, <1>3
<1>5. \A i \in 1..Len(s) : s[i] # x
  BY <1>3 DEF ToSet
<1>6. \A i, j \in 1..Len(s) : s[i] = s[j] => i = j
  BY <1>3 DEF IsSetList, IsInjective
<1>7. \A i, j \in 1..(Len(s) + 1) : a[i] = a[j] => i = j
  BY <1>4, <1>5, <1>6
<1>8. ToSet(a) = ToSet(s) \union {x}
  <2>1. ASSUME NEW y \in ToSet(a) PROVE y \in ToSet(s) \union {x}
    BY <1>3, <1>4 DEF ToSet
  <2>2. ASSUME NEW y \in ToSet(s) PROVE y \in ToSet(a)
    <3>1. PICK i \in 1..Len(s) : y = s[i]
      BY <1>3 DEF ToSet
    <3>2. i \in 1..(Len(s) + 1) /\ a[i] = y
      BY <1>2, <1>3, <3>1
    <3>3. QED
      BY <1>3, <3>2 DEF ToSet
  <2>3. x \in ToSet(a)
    <3>1. Len(s) + 1 \in 1..(Len(s) + 1)
      BY <1>3
    <3>2. QED
      BY <1>2, <1>3, <3>1 DEF ToSet
  <2>4. QED
    BY <2>1, <2>2, <2>3
<1>9. QED
  BY <1>3, <1>7, <1>8 DEF a, IsSetList, IsInjective

\* A list without the element at a position, position by position.
LEMMA RemovedAt ==
  ASSUME NEW s, IsList(s), NEW n \in 1..Len(s)
  PROVE  /\ IsList(RemoveAt(s, n)) /\ Len(RemoveAt(s, n)) = Len(s) - 1
         /\ \A i \in 1..(Len(s) - 1) : RemoveAt(s, n)[i] = IF i < n THEN s[i] ELSE s[i + 1]
<1> DEFINE r == RemoveAt(s, n)
           front == SubSeq(s, 1, n - 1)
           back == SubSeq(s, n + 1, Len(s))
<1>1. Len(s) \in Nat
  BY ListProperties
<1>2. r = front \o back
  BY DEF RemoveAt
<1> HIDE DEF r
<1>3. 1 \in 1..(Len(s) + 1) /\ n - 1 \in 0..Len(s) /\ n + 1 \in 1..(Len(s) + 1) /\ Len(s) \in 0..Len(s)
  BY <1>1
<1>4. /\ IsList(front) /\ Len(front) = n - 1
      /\ \A j \in 1..(n - 1) : front[j] = s[j]
  <2>1. /\ IsList(front) /\ Len(front) = IF 1 <= n - 1 THEN n - 1 - 1 + 1 ELSE 0
        /\ \A j \in 1..(n - 1 - 1 + 1) : front[j] = s[1 + j - 1]
    BY <1>1, <1>3, SliceOfList
  <2> HIDE DEF front
  <2>2. QED
    BY <1>1, <2>1
<1>5. /\ IsList(back) /\ Len(back) = Len(s) - n
      /\ \A j \in 1..(Len(s) - n) : back[j] = s[n + j]
  <2>1. /\ IsList(back) /\ Len(back) = IF n + 1 <= Len(s) THEN Len(s) - (n + 1) + 1 ELSE 0
        /\ \A j \in 1..(Len(s) - (n + 1) + 1) : back[j] = s[n + 1 + j - 1]
    BY <1>1, <1>3, SliceOfList
  <2> HIDE DEF back
  <2>2. Len(s) - (n + 1) + 1 = Len(s) - n /\ \A j \in 1..(Len(s) - n) : n + 1 + j - 1 = n + j
    BY <1>1
  <2>3. Len(back) = Len(s) - n
    BY <1>1, <2>1
  <2>4. QED
    BY <2>1, <2>2, <2>3
<1> HIDE DEF front, back
<1>6. /\ IsList(r) /\ Len(r) = Len(front) + Len(back)
      /\ \A i \in 1..(Len(front) + Len(back)) : r[i] = IF i <= Len(front) THEN front[i] ELSE back[i - Len(front)]
  BY <1>2, <1>4, <1>5, ListConcat
<1>7. Len(front) + Len(back) = Len(s) - 1
  BY <1>1, <1>4, <1>5
<1>8. ASSUME NEW i \in 1..(Len(s) - 1) PROVE r[i] = IF i < n THEN s[i] ELSE s[i + 1]
  <2>1. CASE i < n
    <3>1. i <= Len(front) /\ i \in 1..(n - 1)
      BY <1>1, <1>4, <2>1
    <3>2. QED
      BY <1>4, <1>6, <1>7, <2>1, <3>1
  <2>2. CASE ~(i < n)
    <3>1. ~(i <= Len(front)) /\ i - Len(front) \in 1..(Len(s) - n) /\ n + (i - Len(front)) = i + 1
      BY <1>1, <1>4, <2>2
    <3>2. r[i] = back[i - Len(front)]
      BY <1>6, <1>7, <3>1
    <3>3. QED
      BY <1>5, <2>2, <3>1, <3>2
  <2>3. QED
    BY <2>1, <2>2
<1>9. QED
  BY <1>6, <1>7, <1>8 DEF r

\* An element goes from a list of different ones.
LEMMA RemoveKnown ==
  ASSUME NEW s, IsSetList(s), NEW x
  PROVE  IsSetList(RemoveFirst(s, x)) /\ ToSet(RemoveFirst(s, x)) = ToSet(s) \ {x}
<1>1. Len(s) \in Nat /\ DOMAIN s = 1..Len(s) /\ IsList(s) /\ \A i, j \in 1..Len(s) : s[i] = s[j] => i = j
  BY ListProperties DEF IsSetList, IsInjective
<1>2. CASE x \notin ToSet(s)
  <2>1. ~\E i \in 1..Len(s) : s[i] = x
    BY <1>1, <1>2 DEF ToSet
  <2>2. RemoveFirst(s, x) = s
    BY <2>1 DEF RemoveFirst
  <2>3. QED
    BY <1>2, <2>2
<1>3. CASE x \in ToSet(s)
  <2> DEFINE n == SelectInSeq(s, LAMBDA v : v = x)
             r == RemoveAt(s, n)
  <2>1. PICK m \in 1..Len(s) : s[m] = x
    BY <1>1, <1>3 DEF ToSet
  <2>2. RemoveFirst(s, x) = r
    BY <2>1 DEF RemoveFirst
  <2>3. n = m
    <3> DEFINE I == {i \in 1..Len(s) : s[i] = x}
    <3>1. I = {m}
      BY <1>1, <2>1
    <3>2. n = Min(I)
      BY <3>1 DEF SelectInSeq
    <3>3. Min({m}) = m
      <4>1. {m} \in SUBSET Nat /\ {m} # {}
        BY <1>1
      <4>2. QED
        BY <4>1, MinExists
    <3>4. QED
      BY <3>1, <3>2, <3>3
  <2> HIDE DEF n, r
  <2>8. /\ IsList(r) /\ Len(r) = Len(s) - 1
        /\ \A i \in 1..(Len(s) - 1) : r[i] = IF i < n THEN s[i] ELSE s[i + 1]
    BY <1>1, <2>3, RemovedAt DEF r
  <2>9. DOMAIN r = 1..(Len(s) - 1)
    BY <2>8, ListProperties
  <2>10. n \in 1..Len(s) /\ s[n] = x
    BY <2>1, <2>3
  <2>11. \A i, j \in 1..(Len(s) - 1) : r[i] = r[j] => i = j
    <3>1. \A i \in 1..(Len(s) - 1) : (IF i < n THEN i ELSE i + 1) \in 1..Len(s)
      BY <1>1, <2>10
    <3>2. \A i, j \in 1..(Len(s) - 1) :
            (IF i < n THEN i ELSE i + 1) = (IF j < n THEN j ELSE j + 1) => i = j
      BY <1>1, <2>10
    <3>3. \A i \in 1..(Len(s) - 1) : r[i] = s[IF i < n THEN i ELSE i + 1]
      BY <2>8
    <3>4. QED
      BY <1>1, <3>1, <3>2, <3>3
  <2>12. ToSet(r) = ToSet(s) \ {x}
    <3>1. ASSUME NEW y \in ToSet(r) PROVE y \in ToSet(s) \ {x}
      <4>1. PICK i \in 1..(Len(s) - 1) : y = r[i]
        BY <2>9 DEF ToSet
      <4>2. \E j \in 1..Len(s) : j # n /\ y = s[j]
        <5>1. CASE i < n
          BY <1>1, <2>8, <2>10, <4>1, <5>1
        <5>2. CASE ~(i < n)
          <6>1. i + 1 \in 1..Len(s) /\ i + 1 # n /\ y = s[i + 1]
            BY <1>1, <2>8, <2>10, <4>1, <5>2
          <6>2. QED
            BY <6>1
        <5>3. QED
          BY <5>1, <5>2
      <4>3. QED
        BY <1>1, <2>10, <4>2 DEF ToSet
    <3>2. ASSUME NEW y \in ToSet(s) \ {x} PROVE y \in ToSet(r)
      <4>1. PICK j \in 1..Len(s) : y = s[j]
        BY <1>1 DEF ToSet
      <4>2. j # n
        BY <2>10, <4>1
      <4>3. CASE j < n
        <5>1. j \in 1..(Len(s) - 1) /\ r[j] = y
          BY <1>1, <2>8, <2>10, <4>1, <4>3
        <5>2. QED
          BY <2>9, <5>1 DEF ToSet
      <4>4. CASE ~(j < n)
        <5>1. j - 1 \in 1..(Len(s) - 1) /\ ~(j - 1 < n) /\ (j - 1) + 1 = j
          BY <1>1, <2>10, <4>2, <4>4
        <5>2. r[j - 1] = y
          BY <2>8, <4>1, <5>1
        <5>3. QED
          BY <2>9, <5>1, <5>2 DEF ToSet
      <4>5. QED
        BY <4>3, <4>4
    <3>3. QED
      BY <3>1, <3>2
  <2>13. QED
    BY <2>2, <2>8, <2>9, <2>11, <2>12 DEF IsSetList, IsInjective
<1>4. QED
  BY <1>2, <1>3

\* An entry with other children, or another CID.
WithChildren(f, s) == [f EXCEPT !.children = s]
WithCid(f, c) == [f EXCEPT !.cid = c]

LEMMA ChildrenReplaced ==
  ASSUME NEW f, IsEntry(f), NEW s
  PROVE  /\ IsEntry(WithChildren(f, s))
         /\ WithChildren(f, s).name = f.name
         /\ WithChildren(f, s).isDir = f.isDir
         /\ WithChildren(f, s).path = f.path
         /\ WithChildren(f, s).cid = f.cid
         /\ WithChildren(f, s).children = s
<1>1. PICK n, d, p, c, h : f = [name |-> n, isDir |-> d, path |-> p, cid |-> c, children |-> h]
  BY DEF IsEntry
<1>2. WithChildren(f, s) = [name |-> n, isDir |-> d, path |-> p, cid |-> c, children |-> s]
  BY <1>1 DEF WithChildren
<1>3. QED
  BY <1>1, <1>2 DEF IsEntry

LEMMA CidReplaced ==
  ASSUME NEW f, IsEntry(f), NEW c
  PROVE  /\ IsEntry(WithCid(f, c))
         /\ WithCid(f, c).name = f.name
         /\ WithCid(f, c).isDir = f.isDir
         /\ WithCid(f, c).path = f.path
         /\ WithCid(f, c).cid = c
         /\ WithCid(f, c).children = f.children
<1>1. PICK n, d, p, o, h : f = [name |-> n, isDir |-> d, path |-> p, cid |-> o, children |-> h]
  BY DEF IsEntry
<1>2. WithCid(f, c) = [name |-> n, isDir |-> d, path |-> p, cid |-> c, children |-> h]
  BY <1>1 DEF WithCid
<1>3. QED
  BY <1>1, <1>2 DEF IsEntry

\* A new entry is listed, and its parent has it among its children.
LEMMA EnteredListing ==
  ASSUME NEW entries, NEW V, Listing(entries, V, {}), NEW it,
         it.path # ROOT, \A x \in V : x.path # it.path,
         Front(it.path) # it.path, Front(it.path) # ROOT,
         \A x \in V : Front(x.path) # it.path,
         Front(it.path) = << >> \/ \E y \in V : y.path = Front(it.path),
         \A x, y \in V : x.path = y.path => x = y,
         \A x \in V : x.path # << >> /\ x.path # ROOT,
         it.isDir \in BOOLEAN,
         NEW e, EntryFor(e, it.name, it.isDir, Front(it.path)), e.children = << >>,
         ~it.isDir => e.cid = FileCid(it.content)
  PROVE  Listing(Entered(entries, it.path, e), V \union {it}, {})
<1> DEFINE all == With(entries, it.path, e)
           parent == IF e.path = << >> THEN ROOT ELSE e.path
           new == Entered(entries, it.path, e)
           W == V \union {it}
<1>1. e.path = Front(it.path) /\ e.isDir = it.isDir
  BY DEF EntryFor
<1>2. /\ DOMAIN all = DOMAIN entries \union {it.path}
      /\ all[it.path] = e
      /\ \A q \in DOMAIN entries : q # it.path => all[q] = entries[q]
  BY DEF With
<1>3. it.path \notin DOMAIN entries
  BY DEF Listing
<1>4. parent \in DOMAIN entries
  BY <1>1 DEF Listing
<1>5. parent \in DOMAIN all /\ parent # it.path /\ all[parent] = entries[parent]
  BY <1>2, <1>3, <1>4
<1>6. e.children = << >> /\ IsSetList(e.children) /\ ToSet(e.children) = {}
  BY DEF IsSetList, IsInjective, IsList, ToSet
<1> HIDE DEF all
<1>7. new = IF e.isDir /\ e.path = << >> THEN all ELSE [all EXCEPT ![parent].children = Append(@, it.path)]
  BY <1>5 DEF Entered, all
<1>8. \A q : {k.path : k \in Inside(W, q)} =
             {k.path : k \in Inside(V, q)} \union (IF q = Front(it.path) THEN {it.path} ELSE {})
  BY DEF Inside
<1>9. {k.path : k \in {x \in Inside(W, << >>) : ~x.isDir}} =
      {k.path : k \in {x \in Inside(V, << >>) : ~x.isDir}} \union
        (IF Front(it.path) = << >> /\ ~it.isDir THEN {it.path} ELSE {})
  BY DEF Inside
<1> DEFINE joins == ~(e.isDir /\ e.path = << >>)
<1>10. /\ DOMAIN new = DOMAIN all
       /\ \A q \in DOMAIN all \ {parent} : new[q] = all[q]
       /\ new[parent] = IF joins THEN WithChildren(all[parent], Append(all[parent].children, it.path)) ELSE all[parent]
  BY <1>5, <1>7 DEF WithChildren
<1> HIDE DEF new, joins
<1>11. DOMAIN new = {ROOT} \union {x.path : x \in W}
  BY <1>2, <1>10 DEF Listing
<1>12. it.path \notin ToSet(entries[parent].children) /\ IsSetList(entries[parent].children)
  <2>1. CASE parent = ROOT
    BY <2>1 DEF Listing, Inside
  <2>2. CASE parent # ROOT
    <3>1. PICK y \in V : y.path = parent
      BY <1>4, <2>2 DEF Listing
    <3>2. ToSet(entries[parent].children) = {k.path : k \in Inside(V, parent)} /\ IsSetList(entries[parent].children)
      BY <3>1 DEF Listing
    <3>3. QED
      BY <3>2 DEF Inside
  <2>3. QED
    BY <2>1, <2>2
<1>13. /\ IsSetList(Append(entries[parent].children, it.path))
       /\ ToSet(Append(entries[parent].children, it.path)) = ToSet(entries[parent].children) \union {it.path}
  BY <1>12, AppendNew
<1>14. ASSUME NEW x \in W
       PROVE  /\ EntryFor(new[x.path], x.name, x.isDir, Front(x.path))
              /\ ~x.isDir => new[x.path].cid = FileCid(x.content)
              /\ IsSetList(new[x.path].children)
              /\ ToSet(new[x.path].children) = {k.path : k \in Inside(W, x.path)} \ {}
  <2>1. CASE x = it
    <3>1. new[x.path] = e
      BY <1>2, <1>5, <1>10, <2>1
    <3>2. {k.path : k \in Inside(V, it.path)} = {}
      BY DEF Inside
    <3>3. {k.path : k \in Inside(W, it.path)} = {}
      BY <1>8, <3>2
    <3>4. QED
      BY <1>6, <2>1, <3>1, <3>3
  <2>2. CASE x \in V
    <3>1. x.path \in DOMAIN entries /\ x.path # it.path /\ x.path \in DOMAIN all /\ all[x.path] = entries[x.path]
      BY <1>2, <2>2 DEF Listing
    <3>2. /\ EntryFor(entries[x.path], x.name, x.isDir, Front(x.path))
          /\ ~x.isDir => entries[x.path].cid = FileCid(x.content)
          /\ IsSetList(entries[x.path].children)
          /\ ToSet(entries[x.path].children) = {k.path : k \in Inside(V, x.path)}
      BY <2>2 DEF Listing
    <3>3. CASE x.path # parent
      <4>1. new[x.path] = entries[x.path]
        BY <1>10, <3>1, <3>3
      <4>2. x.path # Front(it.path)
        BY <1>1, <2>2, <3>3
      <4>3. {k.path : k \in Inside(W, x.path)} = {k.path : k \in Inside(V, x.path)}
        BY <1>8, <4>2
      <4>4. QED
        BY <3>2, <4>1, <4>3
    <3>4. CASE x.path = parent
      <4>1. parent = Front(it.path) /\ Front(it.path) # << >> /\ joins
        BY <1>1, <2>2, <3>4 DEF joins
      <4>2. new[x.path] = WithChildren(entries[x.path], Append(entries[x.path].children, it.path))
        BY <1>5, <1>10, <3>4, <4>1
      <4>3. /\ EntryFor(new[x.path], x.name, x.isDir, Front(x.path))
            /\ new[x.path].cid = entries[x.path].cid
            /\ new[x.path].children = Append(entries[x.path].children, it.path)
        <5> DEFINE old == entries[x.path]
                   longer == Append(old.children, it.path)
        <5>1. IsEntry(old)
          BY <3>2 DEF EntryFor
        <5> HIDE DEF old, longer
        <5>2. /\ IsEntry(WithChildren(old, longer))
              /\ WithChildren(old, longer).name = old.name
              /\ WithChildren(old, longer).isDir = old.isDir
              /\ WithChildren(old, longer).path = old.path
              /\ WithChildren(old, longer).cid = old.cid
              /\ WithChildren(old, longer).children = longer
          BY <5>1, ChildrenReplaced
        <5>3. new[x.path] = WithChildren(old, longer)
          BY <4>2 DEF old, longer
        <5>4. QED
          BY <3>2, <5>2, <5>3 DEF EntryFor, old, longer
      <4>4. {k.path : k \in Inside(W, x.path)} = {k.path : k \in Inside(V, x.path)} \union {it.path}
        BY <1>8, <3>4, <4>1
      <4>5. IsSetList(new[x.path].children) /\ ToSet(new[x.path].children) = {k.path : k \in Inside(W, x.path)}
        BY <1>13, <3>2, <3>4, <4>3, <4>4
      <4>6. QED
        BY <3>2, <4>3, <4>5
    <3>5. QED
      BY <3>3, <3>4
  <2>3. QED
    BY <2>1, <2>2
<1>15. /\ EntryFor(new[ROOT], "ROOT", TRUE, ROOT)
       /\ IsSetList(new[ROOT].children)
       /\ ToSet(new[ROOT].children) = {k.path : k \in {x \in Inside(W, << >>) : ~x.isDir}}
  <2>1. /\ EntryFor(entries[ROOT], "ROOT", TRUE, ROOT)
        /\ IsSetList(entries[ROOT].children)
        /\ ToSet(entries[ROOT].children) = {k.path : k \in {x \in Inside(V, << >>) : ~x.isDir}}
    BY DEF Listing
  <2>2. ROOT \in DOMAIN all /\ all[ROOT] = entries[ROOT]
    BY <1>2 DEF Listing
  <2>3. CASE parent = ROOT /\ joins
    <3>1. Front(it.path) = << >> /\ ~it.isDir
      BY <1>1, <2>3 DEF joins
    <3>2. new[ROOT] = WithChildren(entries[ROOT], Append(entries[ROOT].children, it.path))
      BY <1>10, <2>2, <2>3
    <3>3. EntryFor(new[ROOT], "ROOT", TRUE, ROOT) /\ new[ROOT].children = Append(entries[ROOT].children, it.path)
      <4> DEFINE old == entries[ROOT]
                 longer == Append(old.children, it.path)
      <4>1. IsEntry(old)
        BY <2>1 DEF EntryFor
      <4> HIDE DEF old, longer
      <4>2. /\ IsEntry(WithChildren(old, longer))
            /\ WithChildren(old, longer).name = old.name
            /\ WithChildren(old, longer).isDir = old.isDir
            /\ WithChildren(old, longer).path = old.path
            /\ WithChildren(old, longer).children = longer
        BY <4>1, ChildrenReplaced
      <4>3. new[ROOT] = WithChildren(old, longer)
        BY <3>2 DEF old, longer
      <4>4. QED
        BY <2>1, <4>2, <4>3 DEF EntryFor, old, longer
    <3>4. QED
      BY <1>9, <1>13, <2>1, <2>3, <3>1, <3>3
  <2>4. CASE ~(parent = ROOT /\ joins)
    <3>1. ~(Front(it.path) = << >> /\ ~it.isDir)
      BY <1>1, <2>4 DEF joins
    <3>2. new[ROOT] = entries[ROOT]
      BY <1>10, <2>2, <2>4
    <3>3. QED
      BY <1>9, <2>1, <3>1, <3>2
  <2>5. QED
    BY <2>3, <2>4
<1>16. QED
  BY <1>11, <1>14, <1>15 DEF Listing, new

\* A directory without files leaves its parent's children.
LEMMA PrunedListing ==
  ASSUME NEW entries, NEW V, NEW gone, Tree(V), Listing(entries, V, gone), NEW p \in Barren(V)
  PROVE  LET parent == IF entries[p].path = << >> THEN ROOT ELSE entries[p].path
         IN  /\ parent \in DOMAIN entries
             /\ Listing([entries EXCEPT ![parent] = WithChildren(@, RemoveFirst(@.children, p))], V, gone \union {p})
<1> DEFINE parent == IF entries[p].path = << >> THEN ROOT ELSE entries[p].path
           old == entries[parent]
           rest == RemoveFirst(old.children, p)
           new == [entries EXCEPT ![parent] = WithChildren(old, rest)]
<1>1. PICK it \in V : it.path = p /\ it.isDir
  BY DEF Barren
<1>2. entries[p].path = Front(p)
  BY <1>1 DEF Listing, EntryFor
<1>3. IF Front(p) = << >> THEN parent = ROOT ELSE parent = Front(p) /\ \E y \in V : y.path = Front(p)
  <2>1. Len(p) > 1 \/ Front(p) = << >>
    <3>1. IsList(p) /\ p # << >>
      BY <1>1 DEF Tree
    <3>2. QED
      BY <3>1, FrontOfOne
  <2>2. QED
    BY <1>1, <1>2, <2>1 DEF Tree
<1>4. parent \in DOMAIN entries /\ parent # p
  <2>1. Front(p) # p
    <3>1. Len(p) \in Nat \ {0} /\ Len(Front(p)) = Len(p) - 1
      BY <1>1, FrontOfList DEF Tree
    <3>2. QED
      BY <3>1
  <2>2. QED
    BY <1>1, <1>3, <2>1 DEF Listing, Tree
<1>5. IsEntry(old) /\ IsSetList(old.children)
  BY <1>4 DEF Listing, EntryFor
<1> HIDE DEF parent, old, rest
<1>6. IsSetList(rest) /\ ToSet(rest) = ToSet(old.children) \ {p}
  BY <1>5, RemoveKnown DEF rest
<1>7. /\ IsEntry(WithChildren(old, rest))
      /\ WithChildren(old, rest).name = old.name
      /\ WithChildren(old, rest).isDir = old.isDir
      /\ WithChildren(old, rest).path = old.path
      /\ WithChildren(old, rest).cid = old.cid
      /\ WithChildren(old, rest).children = rest
  BY <1>5, ChildrenReplaced
<1>8. /\ DOMAIN new = DOMAIN entries
      /\ new[parent] = WithChildren(old, rest)
      /\ \A q \in DOMAIN entries : q # parent => new[q] = entries[q]
  BY <1>4
<1> HIDE DEF new
<1>9. ASSUME NEW x \in V
      PROVE  /\ EntryFor(new[x.path], x.name, x.isDir, Front(x.path))
             /\ ~x.isDir => new[x.path].cid = FileCid(x.content)
             /\ IsSetList(new[x.path].children)
             /\ ToSet(new[x.path].children) = {k.path : k \in Inside(V, x.path)} \ (gone \union {p})
  <2>1. /\ x.path \in DOMAIN entries
        /\ EntryFor(entries[x.path], x.name, x.isDir, Front(x.path))
        /\ ~x.isDir => entries[x.path].cid = FileCid(x.content)
        /\ IsSetList(entries[x.path].children)
        /\ ToSet(entries[x.path].children) = {k.path : k \in Inside(V, x.path)} \ gone
    BY DEF Listing
  <2>2. CASE x.path = parent
    <3>1. entries[x.path] = old
      BY <2>2 DEF old
    <3>2. QED
      BY <1>6, <1>7, <1>8, <2>1, <2>2, <3>1 DEF EntryFor
  <2>3. CASE x.path # parent
    <3>1. new[x.path] = entries[x.path]
      BY <1>8, <2>1, <2>3
    <3>2. p \notin {k.path : k \in Inside(V, x.path)}
      BY <1>3, <2>3 DEF Inside, Tree
    <3>3. QED
      BY <2>1, <3>1, <3>2
  <2>4. QED
    BY <2>2, <2>3
<1>10. /\ EntryFor(new[ROOT], "ROOT", TRUE, ROOT)
       /\ IsSetList(new[ROOT].children)
       /\ ToSet(new[ROOT].children) = {k.path : k \in {x \in Inside(V, << >>) : ~x.isDir}}
  <2>1. /\ EntryFor(entries[ROOT], "ROOT", TRUE, ROOT)
        /\ IsSetList(entries[ROOT].children)
        /\ ToSet(entries[ROOT].children) = {k.path : k \in {x \in Inside(V, << >>) : ~x.isDir}}
        /\ ROOT \in DOMAIN entries
    BY DEF Listing
  <2>2. p \notin ToSet(entries[ROOT].children)
    BY <1>1, <2>1 DEF Inside, Tree
  <2>3. CASE parent = ROOT
    <3>1. old = entries[ROOT]
      BY <2>3 DEF old
    <3>2. QED
      BY <1>6, <1>7, <1>8, <2>1, <2>2, <2>3, <3>1 DEF EntryFor
  <2>4. CASE parent # ROOT
    BY <1>8, <2>1, <2>4
  <2>5. QED
    BY <2>3, <2>4
<1>11. DOMAIN new = {ROOT} \union {x.path : x \in V}
  BY <1>8 DEF Listing
<1>12. Listing(new, V, gone \union {p})
  BY <1>9, <1>10, <1>11 DEF Listing
<1>13. QED
  BY <1>4, <1>12 DEF new, rest, old, parent

\* A directory gets a CID.
LEMMA CidListing ==
  ASSUME NEW entries, NEW V, NEW gone, Tree(V), Listing(entries, V, gone),
         NEW p, p = ROOT \/ \E it \in V : it.path = p /\ it.isDir, NEW c
  PROVE  LET new == [entries EXCEPT ![p] = WithCid(@, c)]
         IN  /\ Listing(new, V, gone)
             /\ new[p].cid = c
             /\ \A q \in DOMAIN entries : q # p => new[q] = entries[q]
<1> DEFINE old == entries[p]
           new == [entries EXCEPT ![p] = WithCid(old, c)]
<1>1. p \in DOMAIN entries /\ IsEntry(old)
  BY DEF Listing, EntryFor
<1>2. /\ DOMAIN new = DOMAIN entries
      /\ new[p] = WithCid(old, c)
      /\ \A q \in DOMAIN entries : q # p => new[q] = entries[q]
  BY <1>1
<1> HIDE DEF new, old
<1>3. /\ IsEntry(WithCid(old, c))
      /\ WithCid(old, c).name = old.name
      /\ WithCid(old, c).isDir = old.isDir
      /\ WithCid(old, c).path = old.path
      /\ WithCid(old, c).cid = c
      /\ WithCid(old, c).children = old.children
  BY <1>1, CidReplaced
<1>4. ASSUME NEW x \in V
      PROVE  /\ EntryFor(new[x.path], x.name, x.isDir, Front(x.path))
             /\ ~x.isDir => new[x.path].cid = FileCid(x.content)
             /\ IsSetList(new[x.path].children)
             /\ ToSet(new[x.path].children) = {k.path : k \in Inside(V, x.path)} \ gone
  <2>1. /\ x.path \in DOMAIN entries
        /\ EntryFor(entries[x.path], x.name, x.isDir, Front(x.path))
        /\ ~x.isDir => entries[x.path].cid = FileCid(x.content)
        /\ IsSetList(entries[x.path].children)
        /\ ToSet(entries[x.path].children) = {k.path : k \in Inside(V, x.path)} \ gone
    BY DEF Listing
  <2>2. CASE x.path = p
    <3>1. entries[x.path] = old /\ x.isDir
      BY <2>2 DEF old, Tree
    <3>2. QED
      BY <1>2, <1>3, <2>1, <2>2, <3>1 DEF EntryFor
  <2>3. CASE x.path # p
    BY <1>2, <2>1, <2>3
  <2>4. QED
    BY <2>2, <2>3
<1>5. /\ EntryFor(new[ROOT], "ROOT", TRUE, ROOT)
      /\ IsSetList(new[ROOT].children)
      /\ ToSet(new[ROOT].children) = {k.path : k \in {x \in Inside(V, << >>) : ~x.isDir}}
  <2>1. /\ EntryFor(entries[ROOT], "ROOT", TRUE, ROOT)
        /\ IsSetList(entries[ROOT].children)
        /\ ToSet(entries[ROOT].children) = {k.path : k \in {x \in Inside(V, << >>) : ~x.isDir}}
        /\ ROOT \in DOMAIN entries
    BY DEF Listing
  <2>2. CASE p = ROOT
    <3>1. old = entries[ROOT]
      BY <2>2 DEF old
    <3>2. QED
      BY <1>2, <1>3, <2>1, <2>2, <3>1 DEF EntryFor
  <2>3. CASE p # ROOT
    BY <1>2, <2>1, <2>3
  <2>4. QED
    BY <2>2, <2>3
<1>6. DOMAIN new = {ROOT} \union {x.path : x \in V}
  BY <1>2 DEF Listing
<1>7. Listing(new, V, gone)
  BY <1>4, <1>5, <1>6 DEF Listing
<1>8. QED
  BY <1>2, <1>3, <1>7 DEF new, old

-----------------------------------------------------------------------------
(* Empty directories. *)

\* What is below a path is in something that is right under it.
LEMMA ChildTowards ==
  ASSUME NEW V, Tree(V), NEW z \in V, NEW q, IsList(q), IsPrefix(q, z.path), q # z.path
  PROVE  \E k \in Inside(V, q) : IsPrefix(k.path, z.path)
<1> DEFINE S == {y \in V : IsPrefix(y.path, z.path) /\ Len(y.path) > Len(q)}
           L == {Len(y.path) : y \in S}
<1>1. \A y \in V : IsList(y.path) /\ Len(y.path) \in Nat
  BY ListProperties DEF Tree
<1>2. Len(q) \in Nat
  BY ListProperties
<1>3. /\ Len(q) <= Len(z.path) /\ \A i \in 1..Len(q) : q[i] = z.path[i]
  BY <1>1, PrefixIs
<1>4. z \in S
  <2>1. Len(q) # Len(z.path)
    BY <1>1, <1>3, ListEqual
  <2>2. IsPrefix(z.path, z.path)
    BY <1>1, PrefixIs
  <2>3. QED
    BY <1>1, <1>2, <1>3, <2>1, <2>2
<1>5. PICK y \in S : \A w \in S : Len(y.path) <= Len(w.path)
  <2>1. L \in SUBSET Nat /\ L # {}
    BY <1>1, <1>4
  <2> HIDE DEF L
  <2>2. Min(L) \in L /\ \A n \in L : Min(L) <= n
    BY <2>1, MinExists
  <2>3. QED
    BY <2>2 DEF L
<1>6. /\ IsList(y.path) /\ Len(y.path) \in Nat /\ Len(z.path) \in Nat /\ Len(y.path) <= Len(z.path)
      /\ \A i \in 1..Len(y.path) : y.path[i] = z.path[i]
      /\ Len(y.path) > Len(q)
  BY <1>1, <1>5, PrefixIs
<1>7. /\ IsList(Front(y.path)) /\ Len(Front(y.path)) = Len(y.path) - 1
      /\ \A i \in 1..(Len(y.path) - 1) : Front(y.path)[i] = y.path[i]
  BY FrontOfList DEF Tree
<1>8. Len(y.path) = Len(q) + 1
  <2>1. SUFFICES ASSUME Len(y.path) > Len(q) + 1 PROVE FALSE
    BY <1>2, <1>6
  <2>2. PICK w \in V : w.path = Front(y.path)
    BY <1>2, <1>6, <2>1 DEF Tree
  <2>3. IsPrefix(w.path, z.path)
    <3>1. Len(w.path) <= Len(z.path) /\ \A i \in 1..Len(w.path) : w.path[i] = z.path[i]
      BY <1>6, <1>7, <2>2
    <3>2. QED
      BY <1>1, <3>1, PrefixIs
  <2>4. w \in S
    BY <1>2, <1>6, <1>7, <2>1, <2>2, <2>3
  <2>5. QED
    BY <1>5, <1>6, <1>7, <2>2, <2>4
<1>9. Front(y.path) = q
  <2>1. Len(Front(y.path)) = Len(q) /\ \A i \in 1..Len(q) : Front(y.path)[i] = q[i]
    BY <1>2, <1>3, <1>6, <1>7, <1>8
  <2>2. QED
    BY <1>7, <2>1, ListEqual
<1>10. QED
  BY <1>5, <1>9 DEF Inside

\* What is in something under a path is below the path.
LEMMA BelowChild ==
  ASSUME NEW V, Tree(V), NEW z \in V, NEW q, IsList(q), NEW k \in Inside(V, q), IsPrefix(k.path, z.path)
  PROVE  IsPrefix(q, z.path) /\ q # z.path
<1>1. k \in V /\ Front(k.path) = q /\ IsList(k.path) /\ IsList(z.path)
  BY DEF Inside, Tree
<1>2. Len(q) \in Nat /\ Len(k.path) \in Nat /\ Len(z.path) \in Nat
  BY <1>1, ListProperties
<1>3. /\ Len(q) = Len(k.path) - 1
      /\ \A i \in 1..(Len(k.path) - 1) : q[i] = k.path[i]
  BY <1>1, FrontOfList DEF Tree
<1>4. Len(k.path) <= Len(z.path) /\ \A i \in 1..Len(k.path) : k.path[i] = z.path[i]
  BY <1>1, PrefixIs
<1>5. Len(q) <= Len(z.path) /\ Len(q) # Len(z.path) /\ \A i \in 1..Len(q) : q[i] = z.path[i]
  BY <1>2, <1>3, <1>4
<1>6. QED
  BY <1>1, <1>5, PrefixIs

\* Something has a file below if one of its children has.
LEMMA FileBelow ==
  ASSUME NEW V, Tree(V), NEW it \in V, it.isDir
  PROVE  HasFile(V, it.path) <=> \E k \in Inside(V, it.path) : HasFile(V, k.path)
<1>1. IsList(it.path)
  BY DEF Tree
<1>2. ASSUME HasFile(V, it.path) PROVE \E k \in Inside(V, it.path) : HasFile(V, k.path)
  <2>1. PICK z \in V : ~z.isDir /\ IsPrefix(it.path, z.path)
    BY <1>2 DEF HasFile
  <2>2. it.path # z.path
    BY <2>1 DEF Tree
  <2>3. PICK k \in Inside(V, it.path) : IsPrefix(k.path, z.path)
    BY <1>1, <2>1, <2>2, ChildTowards
  <2>4. QED
    BY <2>1, <2>3 DEF HasFile
<1>3. ASSUME NEW k \in Inside(V, it.path), HasFile(V, k.path) PROVE HasFile(V, it.path)
  <2>1. PICK z \in V : ~z.isDir /\ IsPrefix(k.path, z.path)
    BY <1>3 DEF HasFile
  <2>2. IsPrefix(it.path, z.path)
    BY <1>1, <2>1, BelowChild
  <2>3. QED
    BY <2>1, <2>2 DEF HasFile
<1>4. QED
  BY <1>2, <1>3

\* A file has a file at or below its path.
LEMMA FileHasFile ==
  ASSUME NEW V, Tree(V), NEW it \in V, ~it.isDir
  PROVE  HasFile(V, it.path)
<1>1. IsList(it.path)
  BY DEF Tree
<1>2. IsPrefix(it.path, it.path)
  BY <1>1, ListProperties, PrefixIs
<1>3. QED
  BY <1>2 DEF HasFile

\* isDirectoryEmpty's recursion finds the directories without a file below.
LEMMA EmptyDirsAreBarren ==
  ASSUME NEW entries, NEW V, Tree(V), Listing(entries, V, {})
  PROVE  EmptyDirs(entries) = Barren(V)
<1> DEFINE Children(q) == ToSet(entries[q].children) \intersect DOMAIN entries
           R(f, q) == entries[q].isDir /\ \A k \in Children(q) : f[k]
           emptyAt == CHOOSE f : f = [q \in DOMAIN entries |-> R(f, q)]
           G(q) == IF q = ROOT THEN \A k \in Children(ROOT) : ~HasFile(V, k) ELSE ~HasFile(V, q)
           g == [q \in DOMAIN entries |-> G(q)]
<1>1. /\ DOMAIN entries = {ROOT} \union {it.path : it \in V}
      /\ entries[ROOT].isDir = TRUE
      /\ ROOT \notin {it.path : it \in V}
  BY DEF Listing, EntryFor, Tree
<1>2. ASSUME NEW it \in V
      PROVE  entries[it.path].isDir = it.isDir /\ Children(it.path) = {k.path : k \in Inside(V, it.path)}
  <2>1. /\ entries[it.path].isDir = it.isDir
        /\ ToSet(entries[it.path].children) = {k.path : k \in Inside(V, it.path)}
    BY DEF Listing, EntryFor
  <2>2. {k.path : k \in Inside(V, it.path)} \subseteq DOMAIN entries
    BY <1>1 DEF Inside
  <2>3. QED
    BY <2>1, <2>2
<1>3. Children(ROOT) \subseteq {it.path : it \in V}
  BY DEF Listing, Inside
<1> HIDE DEF Children
<1>4. ASSUME NEW it \in V PROVE HasFile(V, it.path) <=> ~(entries[it.path].isDir /\ \A k \in Children(it.path) : ~HasFile(V, k))
  <2>1. CASE ~it.isDir
    BY <1>2, <2>1, FileHasFile
  <2>2. CASE it.isDir
    <3>1. HasFile(V, it.path) <=> \E k \in Inside(V, it.path) : HasFile(V, k.path)
      BY <2>2, FileBelow
    <3>2. QED
      BY <1>2, <2>2, <3>1
  <2>3. QED
    BY <2>1, <2>2
<1>5. g = [q \in DOMAIN entries |-> R(g, q)]
  <2>1. \A q \in DOMAIN entries : \A k \in Children(q) : k \in DOMAIN entries /\ k # ROOT
    BY <1>1, <1>2, <1>3 DEF Inside
  <2>2. \A q \in DOMAIN entries : \A k \in Children(q) : g[k] = ~HasFile(V, k)
    BY <2>1
  <2> HIDE DEF g
  <2>3. ASSUME NEW q \in DOMAIN entries
        PROVE  G(q) = R(g, q)
    <3>1. R(g, q) <=> entries[q].isDir /\ \A k \in Children(q) : ~HasFile(V, k)
      BY <2>2
    <3>2. CASE q = ROOT
      BY <1>1, <3>1, <3>2
    <3>3. CASE q # ROOT
      BY <1>1, <1>4, <3>1, <3>3
    <3>4. QED
      BY <3>2, <3>3
  <2>4. \A q \in DOMAIN entries : G(q) = R(g, q)
    BY <2>3
  <2> HIDE DEF R, G
  <2>5. g = [q \in DOMAIN entries |-> G(q)]
    BY DEF g
  <2>6. QED
    BY <2>4, <2>5
<1>6. emptyAt = [q \in DOMAIN entries |-> R(emptyAt, q)]
  <2> HIDE DEF g, R
  <2>1. \E f : f = [q \in DOMAIN entries |-> R(f, q)]
    BY <1>5
  <2>2. QED
    BY <2>1
<1>7. \A p : IsEmptyDir(entries, p) = emptyAt[p]
  BY DEF IsEmptyDir, Children
<1> HIDE DEF emptyAt
<1>8. ASSUME NEW it \in V, ~(emptyAt[it.path] <=> ~HasFile(V, it.path)) PROVE FALSE
  <2> DEFINE D == {x \in V : ~(emptyAt[x.path] <=> ~HasFile(V, x.path))}
             L == {Len(x.path) : x \in D}
  <2>1. L \in SUBSET Nat /\ L # {}
    <3>1. \A x \in V : Len(x.path) \in Nat
      BY ListProperties DEF Tree
    <3>2. it \in D
      BY <1>8
    <3>3. QED
      BY <3>1, <3>2
  <2>2. IsFiniteSet(L)
    <3>1. IsFiniteSet(D)
      BY FS_Subset DEF Tree
    <3> HIDE DEF D
    <3> DEFINE len == [x \in D |-> Len(x.path)]
    <3>2. L = {len[x] : x \in D}
      OBVIOUS
    <3> HIDE DEF len, L
    <3>3. QED
      BY <3>1, <3>2, ImageIsFinite
  <2>3. Max(L) \in L /\ \A n \in L : Max(L) >= n
    <3> HIDE DEF L
    <3>1. QED
      BY <2>1, <2>2, MaxExists
  <2>4. PICK x \in D : Max(L) = Len(x.path)
    BY <2>3
  <2>5. \A y \in D : Len(x.path) >= Len(y.path)
    BY <2>3, <2>4
  <2>6. \A k \in Inside(V, x.path) : emptyAt[k.path] <=> ~HasFile(V, k.path)
    <3>1. SUFFICES ASSUME NEW k \in Inside(V, x.path), ~(emptyAt[k.path] <=> ~HasFile(V, k.path)) PROVE FALSE
      OBVIOUS
    <3>2. k \in D /\ Front(k.path) = x.path
      BY <3>1 DEF Inside
    <3>3. Len(k.path) \in Nat \ {0} /\ Len(x.path) = Len(k.path) - 1
      BY <3>2, FrontOfList DEF Tree
    <3>4. Len(x.path) >= Len(k.path)
      BY <2>5, <3>2
    <3>5. QED
      BY <3>3, <3>4
  <2>7. emptyAt[x.path] <=> entries[x.path].isDir /\ \A k \in Children(x.path) : ~HasFile(V, k)
    <3>1. x.path \in DOMAIN entries /\ x \in V
      BY <1>1
    <3>2. emptyAt[x.path] = R(emptyAt, x.path)
      <4> HIDE DEF R
      <4>1. QED
        BY <1>6, <3>1
    <3>3. R(emptyAt, x.path) <=> entries[x.path].isDir /\ \A k \in Children(x.path) : ~HasFile(V, k)
      <4>1. \A c \in Children(x.path) : emptyAt[c] <=> ~HasFile(V, c)
        BY <1>2, <2>6, <3>1
      <4>2. QED
        BY <4>1
    <3>4. QED
      BY <3>2, <3>3
  <2>8. QED
    BY <1>4, <2>4, <2>7
<1>9. EmptyDirs(entries) = {p \in {q \in DOMAIN entries : entries[q].isDir} \ {ROOT} : emptyAt[p]}
  BY <1>7 DEF EmptyDirs, Directories
<1>10. ASSUME NEW p PROVE p \in EmptyDirs(entries) <=> p \in Barren(V)
  <2>1. ASSUME p \in EmptyDirs(entries) PROVE p \in Barren(V)
    BY <1>1, <1>2, <1>8, <1>9, <2>1 DEF Barren
  <2>2. ASSUME p \in Barren(V) PROVE p \in EmptyDirs(entries)
    BY <1>1, <1>2, <1>8, <1>9, <2>2 DEF Barren
  <2>3. QED
    BY <2>1, <2>2
<1>11. QED
  BY <1>10

-----------------------------------------------------------------------------
(* CIDs tell trees apart. *)

\* CIDs of directories are those of their links, and no file's.
LEMMA CidsDiffer ==
  /\ \A a, b : DirCid(a) = DirCid(b) => a = b
  /\ \A a, content : FileCid(content) # DirCid(a)
  /\ \A a, chunk : Leaf(chunk) # DirCid(a)
<1>1. \A w, x, y, z : <<w, x>> = <<y, z>> => w = y /\ x = z
  OBVIOUS
<1>2. "file" # "dir" /\ "leaf" # "dir"
  OBVIOUS
<1>3. QED
  BY <1>1, <1>2 DEF DirCid, FileCid, Leaf

\* What is in or below an entry is as deep at least.
LEMMA PrefixShorter ==
  ASSUME NEW V, Tree(V), NEW x \in V, NEW y \in V, IsPrefix(x.path, y.path)
  PROVE  Len(x.path) <= Len(y.path)
BY PrefixIs DEF Tree

LEMMA PrefixesCompose ==
  ASSUME NEW V, Tree(V), NEW x \in V, NEW y \in V, NEW z \in V, IsPrefix(x.path, y.path), IsPrefix(y.path, z.path)
  PROVE  IsPrefix(x.path, z.path)
<1>1. IsList(x.path) /\ IsList(y.path) /\ IsList(z.path)
  BY DEF Tree
<1>2. Len(x.path) \in Nat /\ Len(y.path) \in Nat /\ Len(z.path) \in Nat
  BY <1>1, ListProperties
<1>3. /\ Len(x.path) <= Len(y.path) /\ \A i \in 1..Len(x.path) : x.path[i] = y.path[i]
      /\ Len(y.path) <= Len(z.path) /\ \A i \in 1..Len(y.path) : y.path[i] = z.path[i]
  BY <1>1, PrefixIs
<1>4. Len(x.path) <= Len(z.path) /\ \A i \in 1..Len(x.path) : x.path[i] = z.path[i]
  BY <1>2, <1>3
<1>5. QED
  BY <1>1, <1>4, PrefixIs

\* The entries of V at or above a file.
WithFiles(V) == {it \in V : HasFile(V, it.path)}

\* What is above an entry of K is in K.
Upward(V, K) == \A x \in K, y \in V : IsPrefix(y.path, x.path) => y \in K

LEMMA FilesUpward ==
  ASSUME NEW V, Tree(V)
  PROVE  Upward(V, WithFiles(V))
<1>1. SUFFICES ASSUME NEW x \in WithFiles(V), NEW y \in V, IsPrefix(y.path, x.path) PROVE HasFile(V, y.path)
  BY DEF Upward, WithFiles
<1>2. PICK z \in V : ~z.isDir /\ IsPrefix(x.path, z.path)
  BY DEF WithFiles, HasFile
<1>3. IsPrefix(y.path, z.path)
  BY <1>1, <1>2, PrefixesCompose DEF WithFiles
<1>4. QED
  BY <1>2, <1>3 DEF HasFile

\* The links of the entries of K to their CIDs g.
LinksBy(g, K) == {<<k.name, g[k]>> : k \in K}

\* In the part S of V, which has what is in its directories, g gives the CIDs
\* of directories that link to their entries in K.
Hashed(V, S, K, g) ==
  /\ S \subseteq V
  /\ \A x \in S : x.isDir => Inside(V, x.path) \subseteq S
  /\ \A x \in S : g[x] = IF x.isDir THEN DirCid(LinksBy(g, Inside(V, x.path) \intersect K)) ELSE FileCid(x.content)

\* Entries of the same CID are both directories with the same links, or both
\* files.
LEMMA SameKind ==
  ASSUME NEW V, NEW S, NEW K, NEW g, Hashed(V, S, K, g), NEW T, NEW L, NEW h, Hashed(V, T, L, h),
         NEW x \in S, NEW y \in T, g[x] = h[y], x.isDir
  PROVE  y.isDir
<1>1. g[x] = DirCid(LinksBy(g, Inside(V, x.path) \intersect K)) /\ (~y.isDir => h[y] = FileCid(y.content))
  BY DEF Hashed
<1>2. QED
  BY <1>1, CidsDiffer

LEMMA SameCid ==
  ASSUME NEW V, NEW S, NEW K, NEW g, Hashed(V, S, K, g), NEW T, NEW L, NEW h, Hashed(V, T, L, h),
         NEW x \in S, NEW y \in T, g[x] = h[y], x.isDir
  PROVE  LinksBy(g, Inside(V, x.path) \intersect K) = LinksBy(h, Inside(V, y.path) \intersect L)
<1> DEFINE a == LinksBy(g, Inside(V, x.path) \intersect K)
           b == LinksBy(h, Inside(V, y.path) \intersect L)
<1>1. y.isDir
  BY SameKind
<1>2. g[x] = DirCid(a) /\ h[y] = DirCid(b)
  BY <1>1 DEF Hashed
<1> HIDE DEF a, b
<1>3. a = b
  BY <1>2, CidsDiffer
<1>4. QED
  BY <1>3 DEF a, b

\* Each link of one is one of the other.
LEMMA SameLinks ==
  ASSUME NEW g, NEW K, NEW h, NEW L, LinksBy(g, K) = LinksBy(h, L), NEW k \in K
  PROVE  \E j \in L : j.name = k.name /\ h[j] = g[k]
<1>1. <<k.name, g[k]>> \in LinksBy(h, L)
  BY DEF LinksBy
<1>2. PICK j \in L : <<k.name, g[k]>> = <<j.name, h[j]>>
  BY <1>1 DEF LinksBy
<1>3. QED
  BY <1>2

\* An entry with the CID of one with a file below has one too.
LEMMA SameFiles ==
  ASSUME NEW V, Tree(V), NEW S, NEW K, NEW g, Hashed(V, S, K, g), NEW T, NEW L, NEW h, Hashed(V, T, L, h),
         WithFiles(V) \subseteq L,
         NEW x \in S, NEW y \in T, g[x] = h[y], HasFile(V, y.path)
  PROVE  HasFile(V, x.path)
<1> DEFINE D == {w \in T : HasFile(V, w.path) /\ \E v \in S : g[v] = h[w] /\ ~HasFile(V, v.path)}
<1>1. SUFFICES ASSUME D # {} PROVE FALSE
  OBVIOUS
<1>2. S \subseteq V /\ T \subseteq V
  BY DEF Hashed
<1>3. PICK w \in D : \A z \in D : Len(z.path) <= Len(w.path)
  BY <1>1, <1>2, DeepestEntry
<1>4. PICK v \in S : g[v] = h[w] /\ ~HasFile(V, v.path)
  BY <1>3
<1>5. w \in V /\ v \in V /\ w \in T /\ HasFile(V, w.path)
  BY <1>2, <1>3, <1>4
<1>6. v.isDir /\ w.isDir
  <2>1. v.isDir
    BY <1>4, <1>5, FileHasFile
  <2>2. v.isDir => w.isDir
    BY <1>4, <1>5, SameKind
  <2>3. QED
    BY <2>1, <2>2
<1>7. LinksBy(g, Inside(V, v.path) \intersect K) = LinksBy(h, Inside(V, w.path) \intersect L)
  BY <1>4, <1>5, <1>6, SameCid
<1>8. PICK k \in Inside(V, w.path) : HasFile(V, k.path)
  BY <1>5, <1>6, FileBelow
<1>9. k \in T /\ k \in L
  BY <1>5, <1>6, <1>8, ChildDeeper DEF Hashed, WithFiles
<1>10. PICK j \in Inside(V, v.path) \intersect K : g[j] = h[k]
  BY <1>7, <1>8, <1>9, SameLinks
<1>11. j \in S
  BY <1>4, <1>6, <1>10 DEF Hashed
<1>12. ~HasFile(V, j.path)
  BY <1>4, <1>5, <1>6, <1>10, FileBelow
<1>13. k \in D
  BY <1>8, <1>9, <1>10, <1>11, <1>12
<1>14. Len(k.path) = Len(w.path) + 1 /\ Len(w.path) \in Nat
  BY <1>5, <1>8, ChildDeeper
<1>15. Len(k.path) <= Len(w.path)
  BY <1>3, <1>13
<1>16. QED
  BY <1>14, <1>15

\* No entry has the CID of one above it.
LEMMA NotWithin ==
  ASSUME NEW V, Tree(V), NEW S, NEW K, NEW g, Hashed(V, S, K, g), Upward(V, K),
         NEW a \in S, NEW x \in S, x \in K, IsPrefix(a.path, x.path), a # x
  PROVE  g[x] # g[a]
<1> DEFINE below(p, q) == p.path # q.path /\ IsPrefix(p.path, q.path)
           D == {w \in S \intersect K : \E v \in S : below(v, w) /\ g[w] = g[v]}
<1>1. S \subseteq V
  BY DEF Hashed
<1>2. SUFFICES ASSUME D # {} PROVE FALSE
  BY <1>1 DEF Tree
<1>3. PICK w \in D : \A z \in D : Len(z.path) <= Len(w.path)
  BY <1>1, <1>2, DeepestEntry
<1>4. PICK v \in S : below(v, w) /\ g[w] = g[v]
  BY <1>3
<1>5. w \in V /\ v \in V /\ w \in S /\ w \in K
  BY <1>1, <1>3, <1>4
<1>6. PICK k \in Inside(V, v.path) : IsPrefix(k.path, w.path)
  BY <1>4, <1>5, ChildTowards DEF Tree
<1>7. k \in V /\ v.isDir
  BY <1>5, <1>6, ChildDeeper
<1>8. k \in K /\ k \in S
  BY <1>5, <1>6, <1>7 DEF Upward, Hashed
<1>9. w.isDir /\ LinksBy(g, Inside(V, v.path) \intersect K) = LinksBy(g, Inside(V, w.path) \intersect K)
  <2>1. g[v] = g[w]
    BY <1>4
  <2>2. v.isDir => w.isDir
    BY <1>4, <1>5, <2>1, SameKind
  <2>3. LinksBy(g, Inside(V, v.path) \intersect K) = LinksBy(g, Inside(V, w.path) \intersect K)
    BY <1>4, <1>5, <1>7, <2>1, SameCid
  <2>4. QED
    BY <1>7, <2>2, <2>3
<1>10. PICK j \in Inside(V, w.path) \intersect K : g[j] = g[k]
  BY <1>6, <1>8, <1>9, SameLinks
<1>11. j \in S /\ j \in V /\ Len(j.path) = Len(w.path) + 1 /\ Len(w.path) \in Nat
  BY <1>5, <1>9, <1>10, ChildDeeper DEF Hashed
<1>12. Len(k.path) <= Len(w.path) /\ Len(k.path) \in Nat
  BY <1>5, <1>6, <1>7, PrefixShorter, ListProperties DEF Tree
<1>13. IsPrefix(j.path, j.path) /\ IsList(w.path)
  BY <1>5, <1>11, PrefixIs, ListProperties DEF Tree
<1>14. IsPrefix(w.path, j.path)
  BY <1>10, <1>11, <1>13, BelowChild
<1>15. IsPrefix(k.path, j.path)
  BY <1>5, <1>6, <1>7, <1>11, <1>14, PrefixesCompose
<1>16. below(k, j)
  BY <1>11, <1>12, <1>15
<1>17. j \in D
  BY <1>8, <1>10, <1>11, <1>16
<1>18. Len(j.path) <= Len(w.path)
  BY <1>3, <1>17
<1>19. QED
  BY <1>11, <1>18

\* What an entry is in, at the top.
LEMMA TopTowards ==
  ASSUME NEW V, Tree(V), NEW x \in V
  PROVE  \E k \in Inside(V, << >>) : IsPrefix(k.path, x.path)
<1>1. IsList(<< >>) /\ Len(<< >>) = 0 /\ << >> # x.path
  BY DEF IsList, Tree
<1>2. IsPrefix(<< >>, x.path)
  <2>1. IsList(x.path) /\ Len(x.path) \in Nat
    BY ListProperties DEF Tree
  <2>2. QED
    BY <1>1, <2>1, PrefixIs
<1>3. QED
  BY <1>1, <1>2, ChildTowards

\* What is in a directory that is below k is not k and below it.
LEMMA InsideBelow ==
  ASSUME NEW V, Tree(V), NEW x \in V, NEW k \in V, IsPrefix(k.path, x.path), NEW j \in Inside(V, x.path)
  PROVE  j # k /\ IsPrefix(k.path, j.path)
<1>1. j \in V /\ Len(j.path) = Len(x.path) + 1 /\ Len(x.path) \in Nat
  BY ChildDeeper
<1>2. Len(k.path) <= Len(x.path) /\ Len(k.path) \in Nat
  BY PrefixShorter, ListProperties DEF Tree
<1>3. IsPrefix(j.path, j.path) /\ IsList(x.path)
  BY <1>1, PrefixIs, ListProperties DEF Tree
<1>4. IsPrefix(x.path, j.path)
  BY <1>1, <1>3, BelowChild
<1>5. QED
  BY <1>1, <1>2, <1>4, PrefixesCompose

\* No entry has the CID of the virtual root before the pruning.
LEMMA NotTheRoot ==
  ASSUME NEW V, Tree(V), NEW h, Hashed(V, V, V, h), NEW x \in V
  PROVE  h[x] # DirCid(LinksBy(h, Inside(V, << >>)))
<1>1. SUFFICES ASSUME h[x] = DirCid(LinksBy(h, Inside(V, << >>))) PROVE FALSE
  OBVIOUS
<1>2. x.isDir /\ LinksBy(h, Inside(V, x.path)) = LinksBy(h, Inside(V, << >>))
  <2>1. h[x] = IF x.isDir THEN DirCid(LinksBy(h, Inside(V, x.path) \intersect V)) ELSE FileCid(x.content)
    BY DEF Hashed
  <2>2. Inside(V, x.path) \intersect V = Inside(V, x.path)
    BY DEF Inside
  <2>3. QED
    BY <1>1, <2>1, <2>2, CidsDiffer
<1>3. PICK k \in Inside(V, << >>) : IsPrefix(k.path, x.path)
  BY TopTowards
<1>4. PICK j \in Inside(V, x.path) : h[j] = h[k]
  BY <1>2, <1>3, SameLinks
<1>5. k \in V /\ j \in V /\ Upward(V, V)
  BY <1>3, <1>4 DEF Inside, Upward
<1>6. j # k /\ IsPrefix(k.path, j.path)
  BY <1>3, <1>4, <1>5, InsideBelow
<1>7. QED
  BY <1>4, <1>5, <1>6, NotWithin

\* A directory of which the first CID, h, is one of those made again, g, has
\* nothing below that is pruned, so its CID does not change.
LEMMA MadeTheSame ==
  ASSUME NEW V, Tree(V), NEW h, Hashed(V, V, V, h), NEW S, NEW g, Hashed(V, S, WithFiles(V), g),
         NEW x \in S, NEW y \in S, HasFile(V, y.path), h[x] = g[y]
  PROVE  g[x] = h[x]
<1> DEFINE D == {w \in S : g[w] # h[w] /\ \E v \in S : HasFile(V, v.path) /\ h[w] = g[v]}
<1>1. SUFFICES ASSUME D # {} PROVE FALSE
  OBVIOUS
<1>2. S \subseteq V
  BY DEF Hashed
<1>3. PICK w \in D : \A z \in D : Len(z.path) <= Len(w.path)
  BY <1>1, <1>2, DeepestEntry
<1>4. PICK v \in S : HasFile(V, v.path) /\ h[w] = g[v]
  BY <1>3
<1>5. w \in V /\ v \in V /\ w \in S /\ g[w] # h[w]
  BY <1>2, <1>3, <1>4
<1>6. w.isDir /\ v.isDir
  <2>1. w.isDir
    BY <1>5 DEF Hashed
  <2>2. w.isDir => v.isDir
    BY <1>4, <1>5, SameKind
  <2>3. QED
    BY <2>1, <2>2
<1>7. LinksBy(h, Inside(V, w.path) \intersect V) = LinksBy(g, Inside(V, v.path) \intersect WithFiles(V))
  BY <1>4, <1>5, <1>6, SameCid
<1>8. ASSUME NEW k \in Inside(V, w.path) PROVE k \in WithFiles(V) /\ g[k] = h[k]
  <2>1. k \in V /\ k \in S /\ Len(k.path) = Len(w.path) + 1 /\ Len(w.path) \in Nat
    BY <1>5, <1>6, ChildDeeper DEF Hashed
  <2>2. PICK j \in Inside(V, v.path) \intersect WithFiles(V) : g[j] = h[k]
    BY <1>7, <2>1, SameLinks
  <2>3. j \in S /\ HasFile(V, j.path)
    BY <1>4, <1>6, <2>2 DEF Hashed, WithFiles
  <2>4. HasFile(V, k.path)
    BY <2>1, <2>2, <2>3, SameFiles
  <2>5. g[k] = h[k]
    <3>1. SUFFICES ASSUME k \in D PROVE FALSE
      BY <2>1, <2>2, <2>3
    <3>2. Len(k.path) <= Len(w.path)
      BY <1>3, <3>1
    <3>3. QED
      BY <2>1, <3>2
  <2>6. QED
    BY <2>1, <2>4, <2>5 DEF WithFiles
<1>9. Inside(V, w.path) \intersect WithFiles(V) = Inside(V, w.path) /\ Inside(V, w.path) \intersect V = Inside(V, w.path)
  BY <1>8 DEF Inside
<1>10. LinksBy(g, Inside(V, w.path)) = LinksBy(h, Inside(V, w.path))
  BY <1>8 DEF LinksBy
<1>11. QED
  BY <1>5, <1>6, <1>9, <1>10 DEF Hashed

\* No entry with a file below gets the CID that the virtual root had before.
LEMMA NeverTheRoot ==
  ASSUME NEW V, Tree(V), NEW h, Hashed(V, V, V, h), NEW g, Hashed(V, V, WithFiles(V), g),
         NEW x \in V, HasFile(V, x.path)
  PROVE  g[x] # DirCid(LinksBy(h, Inside(V, << >>)))
<1>1. SUFFICES ASSUME g[x] = DirCid(LinksBy(h, Inside(V, << >>))) PROVE FALSE
  OBVIOUS
<1>2. x.isDir /\ LinksBy(h, Inside(V, << >>)) = LinksBy(g, Inside(V, x.path) \intersect WithFiles(V))
  <2>1. g[x] = IF x.isDir THEN DirCid(LinksBy(g, Inside(V, x.path) \intersect WithFiles(V))) ELSE FileCid(x.content)
    BY DEF Hashed
  <2>2. QED
    BY <1>1, <2>1, CidsDiffer
<1>3. PICK k \in Inside(V, << >>) : IsPrefix(k.path, x.path)
  BY TopTowards
<1>4. PICK j \in Inside(V, x.path) \intersect WithFiles(V) : g[j] = h[k]
  BY <1>2, <1>3, SameLinks
<1>5. k \in V /\ j \in V /\ HasFile(V, j.path)
  BY <1>3, <1>4 DEF Inside, WithFiles
<1>6. g[k] = h[k]
  BY <1>4, <1>5, MadeTheSame
<1>7. j # k /\ IsPrefix(k.path, j.path)
  BY <1>3, <1>4, <1>5, InsideBelow
<1>8. g[j] # g[k]
  BY <1>4, <1>5, <1>7, NotWithin, FilesUpward
<1>9. QED
  BY <1>4, <1>6, <1>8

-----------------------------------------------------------------------------
(* Directory blocks. *)

\* The CID of a block is defined.
LEMMA CidsDefined ==
  /\ \A links : DirCid(links) # Undef
  /\ \A content : FileCid(content) # Undef
<1>1. \A x, y : <<x, y>> # <<"undef">>
  <2>1. \A x, y : Len(<<x, y>>) = 2
    OBVIOUS
  <2>2. Len(<<"undef">>) = 1
    OBVIOUS
  <2>3. QED
    BY <2>1, <2>2
<1>2. QED
  BY <1>1 DEF DirCid, FileCid, Leaf, Undef

\* The links of the entries of K.
LinksTo(entries, K) == {<<k.name, entries[k.path].cid>> : k \in K}

\* The entries of V that are not gone.
Kept(V, gone) == {it \in V : it.path \notin gone}

\* After the pruning they are those at or above a file.
LEMMA KeptWithFiles ==
  ASSUME NEW V, Tree(V)
  PROVE  Kept(V, Barren(V)) = WithFiles(V) /\ Kept(V, {}) = V
<1>1. ASSUME NEW it \in V PROVE it.path \notin Barren(V) <=> HasFile(V, it.path)
  <2>1. it.path \in Barren(V) <=> it.isDir /\ ~HasFile(V, it.path)
    BY DEF Barren, Tree
  <2>2. it.isDir = FALSE => HasFile(V, it.path)
    BY FileHasFile
  <2>3. it.isDir \in BOOLEAN
    BY DEF Tree
  <2>4. QED
    BY <2>1, <2>2, <2>3
<1>2. QED
  BY <1>1 DEF Kept, WithFiles

\* The block of a directory links to what it has that is not gone.
LEMMA DirectoryBlockIs ==
  ASSUME NEW entries, NEW V, NEW gone, Tree(V), Listing(entries, V, gone), NEW it \in V, it.isDir,
         \A k \in Inside(V, it.path) : entries[k.path].cid # Undef
  PROVE  DirectoryBlock(entries, entries[it.path]) = DirCid(LinksTo(entries, Inside(V, it.path) \intersect Kept(V, gone)))
<1> DEFINE e == entries[it.path]
           K == Inside(V, it.path) \intersect Kept(V, gone)
<1>1. /\ e.name = it.name /\ it.name # "ROOT"
      /\ ToSet(e.children) = {k.path : k \in Inside(V, it.path)} \ gone
  BY DEF Listing, EntryFor, Tree
<1>2. \A k \in K : k.path \in DOMAIN entries /\ entries[k.path].name = k.name
  BY DEF Listing, EntryFor, Kept
<1>3. ToSet(e.children) = {k.path : k \in K}
  BY <1>1 DEF Inside, Kept
<1>4. {q \in ToSet(e.children) \intersect DOMAIN entries : entries[q].cid # Undef} = {k.path : k \in K}
  BY <1>2, <1>3
<1> HIDE DEF e, K
<1>5. ChildLinks(entries, e) = {<<entries[p].name, entries[p].cid>> : p \in {k.path : k \in K}}
  BY <1>4 DEF ChildLinks
<1>6. ChildLinks(entries, e) = LinksTo(entries, K)
  BY <1>2, <1>5 DEF LinksTo
<1>7. DirectoryBlock(entries, e) = DirCid(LinksTo(entries, K))
  BY <1>1, <1>6 DEF DirectoryBlock, e
<1>8. QED
  BY <1>7 DEF e, K

\* The block of the virtual root links to all that is at the top.
LEMMA RootBlockIs ==
  ASSUME NEW entries, NEW V, Tree(V), NEW gone, Listing(entries, V, gone),
         \A k \in Inside(V, << >>) : ~k.isDir => entries[k.path].cid # Undef
  PROVE  DirectoryBlock(entries, entries[ROOT]) = DirCid(LinksTo(entries, Inside(V, << >>)))
<1> DEFINE e == entries[ROOT]
           I == Inside(V, << >>)
           files == {k \in I : ~k.isDir}
           tops == {k \in I : k.isDir}
           present == ChildLinks(entries, e)
<1>1. /\ e.name = "ROOT"
      /\ ToSet(e.children) = {k.path : k \in files}
      /\ DOMAIN entries = {ROOT} \union {it.path : it \in V}
  BY DEF Listing, EntryFor
<1>2. ASSUME NEW k \in V
      PROVE  /\ k.path \in DOMAIN entries /\ k.path # ROOT
             /\ entries[k.path].name = k.name
             /\ entries[k.path].isDir = k.isDir
             /\ entries[k.path].path = Front(k.path)
  BY DEF Listing, EntryFor, Tree
<1>3. {q \in ToSet(e.children) \intersect DOMAIN entries : entries[q].cid # Undef} = {k.path : k \in files}
  BY <1>1, <1>2 DEF Inside
<1>4. present = LinksTo(entries, files)
  <2>1. \A k \in files : entries[k.path].name = k.name
    BY <1>2 DEF Inside
  <2> HIDE DEF e, files
  <2>2. present = {<<entries[p].name, entries[p].cid>> : p \in {k.path : k \in files}}
    BY <1>3 DEF ChildLinks
  <2>3. QED
    BY <2>1, <2>2 DEF LinksTo
<1>5. \A x, y \in I : x.name = y.name => x = y \/ V = {x}
  <2>1. SUFFICES ASSUME NEW x \in I, NEW y \in I, x.name = y.name, V # {x} PROVE x = y
    OBVIOUS
  <2>2. x \in V /\ y \in V /\ Front(x.path) = Front(y.path)
    BY DEF Inside
  <2>3. x.path # CurrentDir /\ (y.path = CurrentDir => y = x)
    BY <2>1, <2>2 DEF Tree
  <2>4. CASE y.path # CurrentDir
    <3>1. Last(x.path) = Last(y.path)
      BY <2>1, <2>2, <2>3, <2>4 DEF Tree
    <3>2. IsList(x.path) /\ x.path # << >> /\ IsList(y.path) /\ y.path # << >>
      BY <2>2 DEF Tree
    <3>3. x.path = y.path
      BY <2>2, <3>1, <3>2, FrontAndLast
    <3>4. QED
      BY <2>2, <3>3 DEF Tree
  <2>5. QED
    BY <2>3, <2>4
<1>6. {q \in Directories(entries) \ {ROOT} : entries[q].path = << >> /\ \A l \in present : l[1] # entries[q].name}
        = {k.path : k \in tops}
  <2>1. ASSUME NEW k \in tops PROVE \A l \in present : l[1] # k.name
    <3>1. SUFFICES ASSUME NEW f \in files, f.name = k.name PROVE FALSE
      BY <1>4 DEF LinksTo
    <3>2. f \in V /\ k \in V /\ f # k
      BY <2>1 DEF Inside
    <3>3. QED
      BY <1>5, <3>1, <3>2
  <2>2. \A q : q \in Directories(entries) \ {ROOT} /\ entries[q].path = << >> <=> \E k \in tops : q = k.path
    BY <1>1, <1>2 DEF Directories, Inside
  <2>3. \A k \in tops : entries[k.path].name = k.name
    BY <1>2 DEF Inside
  <2> HIDE DEF tops, present
  <2>4. QED
    BY <2>1, <2>2, <2>3
<1>7. TopLinks(entries, present) = LinksTo(entries, tops)
  <2>1. \A k \in tops : entries[k.path].name = k.name
    BY <1>2 DEF Inside
  <2> HIDE DEF tops, present
  <2>2. TopLinks(entries, present) = {<<entries[p].name, entries[p].cid>> : p \in {k.path : k \in tops}}
    BY <1>6 DEF TopLinks
  <2>3. QED
    BY <2>1, <2>2 DEF LinksTo
<1>8. LinksTo(entries, files) \union LinksTo(entries, tops) = LinksTo(entries, I)
  <2>1. files \union tops = I
    OBVIOUS
  <2> HIDE DEF files, tops, I
  <2>2. QED
    BY <2>1 DEF LinksTo
<1>9. DirectoryBlock(entries, e) = DirCid(present \union TopLinks(entries, present))
  BY <1>1 DEF DirectoryBlock
<1>10. QED
  BY <1>4, <1>7, <1>8, <1>9

-----------------------------------------------------------------------------
(* The walk. *)

\* The entries among the first n of the filesystem t that are not skipped.
Walked(t, n) == {t[i] : i \in {j \in 1..n : t[j].path # ROOT}}

\* What the walk's order and the names say of an entry.
LEMMA WalkedEntry ==
  ASSUME NEW t \in Trees, NotReserved(t), NEW i \in 1..Len(t)
  PROVE  /\ IsList(t) /\ Len(t) \in Nat /\ DOMAIN t = 1..Len(t)
         /\ IsList(t[i].path) /\ t[i].path # << >>
         /\ t[i].isDir \in BOOLEAN
         /\ Front(t[i].path) # t[i].path /\ Front(t[i].path) # ROOT
         /\ IF t[i].path = CurrentDir THEN ~t[i].isDir /\ Len(t) = 1 ELSE t[i].name = Last(t[i].path)
         /\ t[i].path # ROOT => (t[i].isDir => t[i].name # "ROOT")
         /\ Len(t[i].path) > 1 => \E j \in 1..(i - 1) : t[j].isDir /\ t[j].path = Front(t[i].path)
         /\ Front(t[i].path) = << >> \/ Len(t[i].path) > 1
<1> DEFINE p == t[i].path
<1>1. IsList(t) /\ Len(t) \in Nat /\ DOMAIN t = 1..Len(t)
  <2>1. IsList(t)
    BY TreesAssumption DEF IsList
  <2>2. QED
    BY <2>1, ListProperties
<1>2. WalkOrder(t)
  BY WalkAssumption
<1>3. /\ t[i].isDir \in BOOLEAN
      /\ IsList(p) /\ p # << >>
      /\ IF p = CurrentDir THEN ~t[i].isDir /\ Len(t) = 1 ELSE t[i].name = Last(p)
      /\ Len(p) > 1 => \E j \in 1..(i - 1) : t[j].isDir /\ t[j].path = Front(p)
  BY <1>1, <1>2 DEF WalkOrder, IsList
<1>4. t[i] \in ToSet(t)
  BY <1>1 DEF ToSet
<1>5. /\ \A n \in DOMAIN p : p[n] = "ROOT" => n = Len(p)
      /\ t[i].isDir /\ t[i].name = "ROOT" => p = ROOT
  BY <1>4 DEF NotReserved
<1> HIDE DEF p
<1>6. /\ IsList(Front(p)) /\ Len(p) \in Nat \ {0} /\ Len(Front(p)) = Len(p) - 1
      /\ \A n \in 1..(Len(p) - 1) : Front(p)[n] = p[n]
      /\ DOMAIN p = 1..Len(p)
  BY <1>3, FrontOfList, ListProperties
<1>7. Front(p) # ROOT
  <2>1. SUFFICES ASSUME Front(p) = ROOT PROVE FALSE
    OBVIOUS
  <2>2. Len(ROOT) = 1 /\ ROOT[1] = "ROOT"
    BY DEF ROOT
  <2>3. Len(p) = 2 /\ p[1] = "ROOT"
    <3>1. Len(Front(p)) = 1 /\ Front(p)[1] = "ROOT"
      BY <2>1, <2>2
    <3>2. Len(p) \in Nat /\ Len(Front(p)) = Len(p) - 1
      BY <1>6
    <3>3. Len(p) = 2
      <4> DEFINE n == Len(p)
                 m == Len(Front(p))
      <4> HIDE DEF n, m
      <4>1. n \in Nat /\ m = n - 1 /\ m = 1
        BY <3>1, <3>2 DEF n, m
      <4>2. QED
        BY <4>1 DEF n
    <3>4. 1 \in 1..(Len(p) - 1)
      BY <3>3
    <3>5. QED
      BY <1>6, <3>1, <3>3, <3>4
  <2>4. QED
    BY <1>5, <1>6, <2>3
<1>8. Front(p) # p
  BY <1>6
<1>9. Front(p) = << >> \/ Len(p) > 1
  BY <1>3, FrontOfOne
<1>10. QED
  BY <1>1, <1>3, <1>5, <1>7, <1>8, <1>9 DEF p

\* The entry that the walk visits next is listed.
LEMMA VisitedListing ==
  ASSUME NEW t \in Trees, NotReserved(t), NEW n \in 1..Len(t), t[n].path # ROOT,
         NEW entries, Listing(entries, Walked(t, n - 1), {}),
         NEW e, EntryFor(e, t[n].name, t[n].isDir, Front(t[n].path)), e.children = << >>,
         ~t[n].isDir => e.cid = FileCid(t[n].content)
  PROVE  Listing(Entered(entries, t[n].path, e), Walked(t, n), {})
<1> DEFINE it == t[n]
           V == Walked(t, n - 1)
<1>1. \A i \in 1..Len(t) :
        /\ IsList(t[i].path) /\ t[i].path # << >>
        /\ Len(t[i].path) > 1 => \E j \in 1..(i - 1) : t[j].isDir /\ t[j].path = Front(t[i].path)
        /\ Front(t[i].path) = << >> \/ Len(t[i].path) > 1
        /\ Front(t[i].path) # ROOT
  BY WalkedEntry
<1>2. /\ IsList(t) /\ Len(t) \in Nat /\ DOMAIN t = 1..Len(t)
      /\ it.isDir \in BOOLEAN /\ Front(it.path) # it.path /\ Front(it.path) # ROOT
  BY WalkedEntry
<1>3. \A i, j \in 1..Len(t) : t[i].path = t[j].path => i = j
  BY <1>2, WalkAssumption DEF WalkOrder
<1>4. Walked(t, n) = V \union {it}
  <2>1. {j \in 1..n : t[j].path # ROOT} = {j \in 1..(n - 1) : t[j].path # ROOT} \union {n}
    BY <1>2
  <2>2. QED
    BY <2>1 DEF Walked
<1>5. \A x \in V : \E i \in 1..(n - 1) : x = t[i] /\ i \in 1..Len(t) /\ i < n /\ t[i].path # ROOT
  BY <1>2 DEF Walked
<1>6. \A x \in V : x.path # it.path /\ x.path # << >> /\ x.path # ROOT
  <2>1. SUFFICES ASSUME NEW i \in 1..Len(t), i < n PROVE t[i].path # it.path /\ t[i].path # << >>
    BY <1>5
  <2>2. QED
    BY <1>1, <1>3, <2>1
<1>7. \A x, y \in V : x.path = y.path => x = y
  <2>1. SUFFICES ASSUME NEW i \in 1..Len(t), NEW j \in 1..Len(t), t[i].path = t[j].path PROVE t[i] = t[j]
    BY <1>5
  <2>2. QED
    BY <1>3, <2>1
<1>8. \A x \in V : Front(x.path) # it.path
  <2>1. SUFFICES ASSUME NEW i \in 1..Len(t), i < n, Front(t[i].path) = it.path PROVE FALSE
    BY <1>5
  <2>2. it.path # << >>
    BY <1>1
  <2>3. PICK j \in 1..(i - 1) : t[j].path = Front(t[i].path)
    BY <1>1, <2>1, <2>2
  <2>4. j \in 1..Len(t) /\ j < n
    BY <1>2, <2>1
  <2>5. QED
    BY <1>3, <2>1, <2>3, <2>4
<1>9. Front(it.path) = << >> \/ \E y \in V : y.path = Front(it.path)
  <2>1. SUFFICES ASSUME Front(it.path) # << >> PROVE \E y \in V : y.path = Front(it.path)
    OBVIOUS
  <2>2. PICK j \in 1..(n - 1) : t[j].path = Front(it.path)
    BY <1>1, <2>1
  <2>3. t[j] \in V
    BY <1>2, <2>2 DEF Walked
  <2>4. QED
    BY <2>2, <2>3
<1> HIDE DEF V, it
<1>10. Listing(Entered(entries, it.path, e), V \union {it}, {})
  <2>1. /\ Listing(entries, V, {}) /\ it.path # ROOT
        /\ EntryFor(e, it.name, it.isDir, Front(it.path)) /\ e.children = << >>
        /\ ~it.isDir => e.cid = FileCid(it.content)
    BY DEF V, it
  <2>2. QED
    BY <1>2, <1>6, <1>7, <1>8, <1>9, <2>1, EnteredListing
<1>11. QED
  BY <1>4, <1>10 DEF it

\* The whole walk visits a tree.
LEMMA VisibleTree ==
  ASSUME NEW t \in Trees, NotReserved(t)
  PROVE  Tree(Visible(t)) /\ Walked(t, Len(t)) = Visible(t)
<1> DEFINE V == Visible(t)
<1>1. IsList(t) /\ Len(t) \in Nat /\ DOMAIN t = 1..Len(t)
  <2>1. IsList(t)
    BY TreesAssumption DEF IsList
  <2>2. QED
    BY <2>1, ListProperties
<1>2. \A i, j \in 1..Len(t) : t[i].path = t[j].path => i = j
  BY <1>1, WalkAssumption DEF WalkOrder
<1>3. V = Walked(t, Len(t))
  BY <1>1 DEF Visible, Walked, ToSet
<1>4. \A x \in V : \E i \in 1..Len(t) : x = t[i] /\ t[i].path # ROOT
  BY <1>3 DEF Walked
<1>5. \A i \in 1..Len(t) : t[i].path # ROOT => t[i] \in V
  BY <1>3 DEF Walked
<1>6. IsFiniteSet(V)
  <2>1. IsFiniteSet(1..Len(t))
    BY <1>1, FS_Interval
  <2> DEFINE I == {j \in 1..Len(t) : t[j].path # ROOT}
  <2>2. IsFiniteSet(I)
    BY <2>1, FS_Subset
  <2>3. V = {t[i] : i \in I}
    BY <1>3 DEF Walked
  <2> HIDE DEF I, V
  <2>4. QED
    BY <2>2, <2>3, ImageIsFinite
<1>7. \A x, y \in V : x.path = y.path => x = y
  <2>1. SUFFICES ASSUME NEW i \in 1..Len(t), NEW j \in 1..Len(t), t[i].path = t[j].path PROVE t[i] = t[j]
    BY <1>4
  <2>2. QED
    BY <1>2, <2>1
<1> HIDE DEF V
<1>8. ASSUME NEW x \in V
      PROVE  /\ IsList(x.path) /\ x.path # << >> /\ x.path # ROOT
             /\ x.isDir \in BOOLEAN
             /\ IF x.path = CurrentDir THEN V = {x} /\ ~x.isDir ELSE x.name = Last(x.path)
             /\ x.isDir => x.name # "ROOT"
             /\ Len(x.path) > 1 => \E y \in V : y.isDir /\ y.path = Front(x.path)
             /\ Front(x.path) # ROOT
  <2>1. PICK i \in 1..Len(t) : x = t[i] /\ t[i].path # ROOT
    BY <1>4
  <2>2. /\ IsList(t[i].path) /\ t[i].path # << >> /\ t[i].isDir \in BOOLEAN
        /\ Front(t[i].path) # ROOT
        /\ IF t[i].path = CurrentDir THEN ~t[i].isDir /\ Len(t) = 1 ELSE t[i].name = Last(t[i].path)
        /\ t[i].path # ROOT => (t[i].isDir => t[i].name # "ROOT")
        /\ Len(t[i].path) > 1 => \E j \in 1..(i - 1) : t[j].isDir /\ t[j].path = Front(t[i].path)
    BY WalkedEntry
  <2>3. Len(t) = 1 => V = {x}
    <3>1. SUFFICES ASSUME Len(t) = 1 PROVE V = {x}
      OBVIOUS
    <3>2. \A j \in 1..Len(t) : j = i
      BY <3>1
    <3>3. QED
      BY <1>4, <2>1, <3>2
  <2>4. Len(t[i].path) > 1 => \E y \in V : y.isDir /\ y.path = Front(t[i].path)
    <3>1. SUFFICES ASSUME Len(t[i].path) > 1 PROVE \E y \in V : y.isDir /\ y.path = Front(t[i].path)
      OBVIOUS
    <3>2. PICK j \in 1..(i - 1) : t[j].isDir /\ t[j].path = Front(t[i].path)
      BY <2>2, <3>1
    <3>3. j \in 1..Len(t) /\ t[j].path # ROOT
      BY <1>1, <2>2, <3>2
    <3>4. QED
      BY <1>5, <3>2, <3>3
  <2>5. QED
    BY <2>1, <2>2, <2>3, <2>4
<1>9. Tree(V)
  BY <1>6, <1>7, <1>8 DEF Tree
<1>10. QED
  BY <1>3, <1>9 DEF V

-----------------------------------------------------------------------------
(* What is true of the entries in each phase of BuildSummary. *)

\* The rest w of the walk over t, and the entries of what came before it.
Walking(t, w, entries) ==
  /\ IsList(w) /\ Len(w) <= Len(t)
  /\ \A i \in 1..Len(w) : w[i] = t[Len(t) - Len(w) + i]
  /\ Listing(entries, Walked(t, Len(t) - Len(w)), {})

\* The directories not in D have a CID.
Made(entries, V, D) == \A it \in V : it.isDir /\ it.path \notin D => entries[it.path].cid # Undef

\* The CIDs of the directories not in D are those of their blocks.
Sealed(entries, V, gone, D) ==
  \A it \in V : it.isDir /\ it.path \notin D =>
    entries[it.path].cid = DirCid(LinksTo(entries, Inside(V, it.path) \intersect Kept(V, gone)))

\* The directories not in D are at least as deep as those in it.
Deeper(V, D) ==
  \A it \in V : it.isDir /\ it.path \notin D => \A q \in D \ {ROOT} : Len(q) <= Len(it.path)

\* A loop over the directories, of which those in D are left.
Loop(V, entries, gone, D) ==
  /\ Listing(entries, V, gone)
  /\ D \subseteq Directories(entries) /\ ROOT \in D
  /\ Sealed(entries, V, gone, D) /\ Deeper(V, D)

\* The CIDs h that the directories had before the pruning; those in D have
\* them still.
FirstCids(V, h, entries, D) ==
  /\ Hashed(V, V, V, h)
  /\ \A it \in V : it.isDir /\ it.path \in D => entries[it.path].cid = h[it]
  /\ entries[ROOT].cid = DirCid(LinksBy(h, Inside(V, << >>)))

Making(V, entries, D) == Loop(V, entries, {}, D)

Pruning(V, entries, D) ==
  /\ Listing(entries, V, Barren(V) \ D) /\ D \subseteq Barren(V) /\ Made(entries, V, {})
  /\ \E h : FirstCids(V, h, entries, Directories(entries))

Remaking(V, entries, D) ==
  /\ Loop(V, entries, Barren(V), D) /\ Made(entries, V, {})
  /\ \E h : FirstCids(V, h, entries, D)

\* The walk goes on behind its next entry.
LEMMA WalkGoesOn ==
  ASSUME NEW t \in Trees, NotReserved(t), NEW w, w # << >>, NEW entries, Walking(t, w, entries)
  PROVE  /\ Head(w).isDir \in BOOLEAN
         /\ Head(w).path = ROOT => Walking(t, Tail(w), entries)
         /\ \A e : /\ Head(w).path # ROOT
                   /\ EntryFor(e, Head(w).name, Head(w).isDir, Front(Head(w).path)) /\ e.children = << >>
                   /\ ~Head(w).isDir => e.cid = FileCid(Head(w).content)
                   => Walking(t, Tail(w), Entered(entries, Head(w).path, e))
<1> DEFINE n == Len(t) - Len(w) + 1
           rest == Tail(w)
<1>1. Len(t) \in Nat /\ IsList(t)
  <2>1. IsList(t)
    BY TreesAssumption DEF IsList
  <2>2. QED
    BY <2>1, ListProperties
<1>2. w \in Seq(ToSet(w)) /\ Len(w) <= Len(t) /\ \A i \in 1..Len(w) : w[i] = t[Len(t) - Len(w) + i]
  BY DEF Walking, IsList
<1>3. Len(w) \in Nat /\ Len(w) # 0
  BY <1>2, EmptySeq, LenProperties
<1>4. /\ rest \in Seq(ToSet(w)) /\ Len(rest) = Len(w) - 1
      /\ \A i \in 1..(Len(w) - 1) : rest[i] = w[i + 1]
      /\ Head(w) = w[1]
  BY <1>2, HeadTailProperties
<1> HIDE DEF rest
<1>5. IsList(rest)
  BY <1>4, SeqIsList
<1>6. n \in 1..Len(t) /\ Len(t) - Len(w) = n - 1 /\ Len(t) - Len(rest) = n
  BY <1>1, <1>2, <1>3, <1>4
<1>7. Head(w) = t[n]
  <2>1. 1 \in 1..Len(w)
    BY <1>3
  <2>2. w[1] = t[Len(t) - Len(w) + 1]
    BY <1>2, <2>1
  <2>3. QED
    BY <1>4, <2>2
<1>8. Len(rest) <= Len(t) /\ \A i \in 1..Len(rest) : rest[i] = t[Len(t) - Len(rest) + i]
  <2>1. ASSUME NEW i \in 1..Len(rest) PROVE rest[i] = t[Len(t) - Len(rest) + i]
    <3>1. i + 1 \in 1..Len(w) /\ i \in 1..(Len(w) - 1)
      BY <1>3, <1>4
    <3>2. Len(t) - Len(w) + (i + 1) = Len(t) - Len(rest) + i
      BY <1>1, <1>3, <1>4
    <3>3. rest[i] = w[i + 1] /\ w[i + 1] = t[Len(t) - Len(w) + (i + 1)]
      BY <1>2, <1>4, <3>1
    <3>4. QED
      BY <3>2, <3>3
  <2>2. QED
    BY <1>1, <1>2, <1>3, <1>4, <2>1
<1>9. Listing(entries, Walked(t, n - 1), {})
  BY <1>6 DEF Walking
<1> HIDE DEF n
<1>10. ASSUME Head(w).path = ROOT PROVE Walking(t, rest, entries)
  <2>1. Walked(t, n) = Walked(t, n - 1)
    <3>1. {j \in 1..n : t[j].path # ROOT} = {j \in 1..(n - 1) : t[j].path # ROOT}
      BY <1>6, <1>7, <1>10
    <3>2. QED
      BY <3>1 DEF Walked
  <2>2. QED
    BY <1>5, <1>6, <1>8, <1>9, <2>1 DEF Walking
<1>11. ASSUME NEW e, Head(w).path # ROOT,
              EntryFor(e, Head(w).name, Head(w).isDir, Front(Head(w).path)), e.children = << >>,
              ~Head(w).isDir => e.cid = FileCid(Head(w).content)
       PROVE  Walking(t, rest, Entered(entries, Head(w).path, e))
  <2>1. Listing(Entered(entries, t[n].path, e), Walked(t, n), {})
    BY <1>6, <1>7, <1>9, <1>11, VisitedListing
  <2>2. QED
    BY <1>5, <1>6, <1>7, <1>8, <2>1 DEF Walking
<1>12. Head(w).isDir \in BOOLEAN
  BY <1>6, <1>7, WalkedEntry
<1>13. QED
  BY <1>10, <1>11, <1>12 DEF rest

\* The directories of a listing.
LEMMA DirectoriesListed ==
  ASSUME NEW entries, NEW V, NEW gone, Listing(entries, V, gone)
  PROVE  Directories(entries) = {ROOT} \union {it.path : it \in {x \in V : x.isDir}}
BY DEF Listing, EntryFor, Directories

\* The CIDs of the entries.
CidsIn(V, entries) == [it \in V |-> entries[it.path].cid]

LEMMA LinksToCids ==
  ASSUME NEW V, NEW entries, NEW K \in SUBSET V
  PROVE  LinksTo(entries, K) = LinksBy(CidsIn(V, entries), K)
BY DEF LinksTo, LinksBy, CidsIn

\* The entries that a loop over the directories is done with, and the files.
Settled(V, D) == {it \in V : ~it.isDir \/ it.path \notin D}

LEMMA SettledHashed ==
  ASSUME NEW V, Tree(V), NEW entries, NEW gone, NEW D, Loop(V, entries, gone, D)
  PROVE  Hashed(V, Settled(V, D), Kept(V, gone), CidsIn(V, entries))
<1> DEFINE g == CidsIn(V, entries)
           S == Settled(V, D)
<1>1. ASSUME NEW x \in S, x.isDir PROVE Inside(V, x.path) \subseteq S
  <2>1. SUFFICES ASSUME NEW k \in Inside(V, x.path), k.isDir, k.path \in D PROVE FALSE
    BY DEF Inside, Settled
  <2>2. x \in V /\ x.path \notin D
    BY <1>1 DEF Settled
  <2>3. k \in V /\ Len(k.path) = Len(x.path) + 1 /\ Len(x.path) \in Nat
    BY <2>2, ChildDeeper
  <2>4. k.path \in D \ {ROOT}
    BY <2>1, <2>3 DEF Tree
  <2>5. Len(k.path) <= Len(x.path)
    BY <1>1, <2>2, <2>4 DEF Loop, Deeper
  <2>6. QED
    BY <2>3, <2>5
<1>2. ASSUME NEW x \in S
      PROVE  g[x] = IF x.isDir THEN DirCid(LinksBy(g, Inside(V, x.path) \intersect Kept(V, gone))) ELSE FileCid(x.content)
  <2>1. x \in V /\ g[x] = entries[x.path].cid
    BY DEF Settled, CidsIn
  <2>2. CASE x.isDir
    <3>1. x.path \notin D
      BY <2>2 DEF Settled
    <3>2. entries[x.path].cid = DirCid(LinksTo(entries, Inside(V, x.path) \intersect Kept(V, gone)))
      BY <2>1, <2>2, <3>1 DEF Loop, Sealed
    <3>3. Inside(V, x.path) \intersect Kept(V, gone) \in SUBSET V
      BY DEF Inside
    <3>4. QED
      BY <2>1, <2>2, <3>2, <3>3, LinksToCids
  <2>3. CASE ~x.isDir
    BY <2>1, <2>3 DEF Loop, Listing
  <2>4. QED
    BY <2>2, <2>3
<1>3. S \subseteq V
  BY DEF Settled
<1> HIDE DEF g, S
<1>4. Hashed(V, S, Kept(V, gone), g)
  BY <1>1, <1>2, <1>3 DEF Hashed
<1>5. QED
  BY <1>4 DEF g, S

\* A round of a loop: all that the directory links to has its CID already.
LEMMA DirectoryDone ==
  ASSUME NEW V, Tree(V), NEW entries, NEW gone, NEW D, Loop(V, entries, gone, D), NEW p \in Deepest(D), p # ROOT,
         \A k \in Inside(V, p) : entries[k.path].cid # Undef,
         NEW block, block = DirectoryBlock(entries, entries[p])
  PROVE  /\ Loop(V, [entries EXCEPT ![p] = WithCid(@, block)], gone, D \ {p})
         /\ block = DirCid(LinksTo(entries, Inside(V, p) \intersect Kept(V, gone)))
         /\ [entries EXCEPT ![p] = WithCid(@, block)][p].cid = block
         /\ \A q \in DOMAIN entries : q # p => [entries EXCEPT ![p] = WithCid(@, block)][q] = entries[q]
<1> DEFINE c == DirectoryBlock(entries, entries[p])
           new == [entries EXCEPT ![p] = WithCid(@, c)]
           links(f, it) == LinksTo(f, Inside(V, it.path) \intersect Kept(V, gone))
<1>1. p \in D /\ \A q \in D \ {ROOT} : Len(q) <= Len(p)
  BY DEF Deepest
<1>2. Directories(entries) = {ROOT} \union {it.path : it \in {x \in V : x.isDir}}
  BY DirectoriesListed DEF Loop
<1>3. PICK d \in V : d.path = p /\ d.isDir
  BY <1>1, <1>2 DEF Loop
<1>4. Listing(entries, V, gone)
  BY DEF Loop
<1>5. c = DirCid(links(entries, d))
  BY <1>3, <1>4, DirectoryBlockIs
<1> HIDE DEF c
<1>6. /\ Listing(new, V, gone)
      /\ new[p].cid = c
      /\ \A q \in DOMAIN entries : q # p => new[q] = entries[q]
  BY <1>3, <1>4, CidListing
<1> HIDE DEF new
<1>7. \A it \in V : it.path \in DOMAIN entries
  BY <1>4 DEF Listing
<1>8. Directories(new) = Directories(entries)
  BY <1>2, <1>6, DirectoriesListed
<1>9. \A it \in V : it.isDir /\ it.path \notin D => Len(p) <= Len(it.path)
  BY <1>1 DEF Loop, Deeper
<1>10. \A it \in V : it.isDir /\ it.path \notin D \ {p} => links(new, it) = links(entries, it)
  <2>1. SUFFICES ASSUME NEW it \in V, it.isDir, it.path \notin D \ {p} PROVE links(new, it) = links(entries, it)
    OBVIOUS
  <2>2. Len(p) <= Len(it.path)
    <3>1. Len(it.path) \in Nat
      BY ListProperties DEF Tree
    <3>2. QED
      BY <1>3, <1>9, <2>1, <3>1
  <2>3. \A k \in Inside(V, it.path) : k.path # p /\ k.path \in DOMAIN entries
    <3>1. ASSUME NEW k \in Inside(V, it.path) PROVE k \in V /\ Len(it.path) \in Nat /\ Len(k.path) = Len(it.path) + 1
      BY ChildDeeper
    <3>2. QED
      BY <1>7, <2>2, <3>1
  <2>4. \A k \in Inside(V, it.path) : new[k.path] = entries[k.path]
    BY <1>6, <2>3
  <2>5. QED
    BY <2>4 DEF LinksTo
<1> HIDE DEF links
<1>11. Sealed(new, V, gone, D \ {p})
  <2>1. SUFFICES ASSUME NEW it \in V, it.isDir, it.path \notin D \ {p} PROVE new[it.path].cid = DirCid(links(new, it))
    BY DEF Sealed, links
  <2>2. links(new, it) = links(entries, it)
    BY <1>10, <2>1
  <2>3. CASE it.path = p
    <3>1. it = d
      BY <1>3, <2>3 DEF Tree
    <3>2. QED
      BY <1>5, <1>6, <2>2, <2>3, <3>1
  <2>4. CASE it.path # p
    <3>1. entries[it.path].cid = DirCid(links(entries, it))
      BY <2>1, <2>4 DEF Loop, Sealed, links
    <3>2. QED
      BY <1>6, <1>7, <2>2, <2>4, <3>1
  <2>5. QED
    BY <2>3, <2>4
<1>12. Deeper(V, D \ {p})
  BY <1>1, <1>3, <1>9 DEF Loop, Deeper
<1>13. Loop(V, new, gone, D \ {p})
  BY <1>6, <1>8, <1>11, <1>12 DEF Loop
<1>14. c = DirCid(LinksTo(entries, Inside(V, p) \intersect Kept(V, gone)))
  BY <1>3, <1>5 DEF links
<1>15. QED
  BY <1>6, <1>13, <1>14 DEF new, c

\* A directory block is made for the first time.
LEMMA DirectoryMade ==
  ASSUME NEW V, Tree(V), NEW entries, NEW D, Making(V, entries, D), NEW p \in Deepest(D)
  PROVE  LET c == DirectoryBlock(entries, entries[p])
             new == [entries EXCEPT ![p] = WithCid(@, c)]
         IN  /\ D # {p} => Making(V, new, D \ {p})
             /\ D = {p} => Pruning(V, new, EmptyDirs(entries))
             /\ new[p].cid = c
             /\ \A q \in DOMAIN entries : q # p => new[q] = entries[q]
<1> DEFINE c == DirectoryBlock(entries, entries[p])
           new == [entries EXCEPT ![p] = WithCid(@, c)]
           h == CidsIn(V, entries)
<1>1. Loop(V, entries, {}, D) /\ Listing(entries, V, {}) /\ ROOT \in D
  BY DEF Making, Loop
<1>2. \A k \in V : (k.isDir => k.path \notin D) => entries[k.path].cid # Undef
  <2>1. \A k \in V : ~k.isDir => entries[k.path].cid # Undef
    BY <1>1, CidsDefined DEF Listing
  <2>2. \A k \in V : k.isDir /\ k.path \notin D => entries[k.path].cid # Undef
    BY <1>1, CidsDefined DEF Loop, Sealed
  <2>3. QED
    BY <2>1, <2>2
<1>3. CASE D # {p}
  <2>1. p \in D \ {ROOT} /\ \A q \in D \ {ROOT} : Len(q) <= Len(p)
    BY <1>1, <1>3 DEF Deepest
  <2>2. PICK d \in V : d.path = p /\ d.isDir
    BY <1>1, <2>1, DirectoriesListed DEF Loop
  <2>3. ASSUME NEW k \in Inside(V, p) PROVE entries[k.path].cid # Undef
    <3>1. k \in V /\ Len(p) \in Nat /\ Len(k.path) = Len(p) + 1
      BY <2>2, ChildDeeper
    <3>2. k.path \notin D
      <4>1. k.path # ROOT
        BY <3>1 DEF Tree
      <4>2. QED
        BY <2>1, <3>1, <4>1
    <3>3. QED
      BY <1>2, <3>1, <3>2
  <2>4. /\ Loop(V, new, {}, D \ {p})
        /\ new[p].cid = c
        /\ \A q \in DOMAIN entries : q # p => new[q] = entries[q]
    <3>1. Loop(V, entries, {}, D) /\ p \in Deepest(D) /\ p # ROOT /\ c = DirectoryBlock(entries, entries[p])
      BY <1>1, <2>1
    <3> HIDE DEF c
    <3>2. \A k \in Inside(V, p) : entries[k.path].cid # Undef
      BY <2>3
    <3>3. ASSUME NEW none, none = {} PROVE Loop(V, new, none, D \ {p})
      <4>1. Loop(V, entries, none, D)
        BY <3>1, <3>3
      <4>2. QED
        BY <3>1, <3>2, <4>1, DirectoryDone
    <3>4. new[p].cid = c
      <4>1. p \in DOMAIN entries
        BY <1>1, <2>2 DEF Listing
      <4>2. IsEntry(entries[p])
        BY <1>1, <2>2 DEF Listing, EntryFor
      <4>3. WithCid(entries[p], c).cid = c
        BY <4>2, CidReplaced
      <4>4. QED
        BY <4>1, <4>3
    <3>5. \A q \in DOMAIN entries : q # p => new[q] = entries[q]
      BY <3>1, <3>2, DirectoryDone
    <3>6. QED
      BY <3>3, <3>4, <3>5
  <2>5. QED
    BY <1>3, <2>4 DEF Making
<1>4. CASE D = {p}
  <2>1. p = ROOT
    BY <1>1, <1>4
  <2>2. Settled(V, D) = V
    BY <1>4, <2>1 DEF Settled, Tree
  <2>3. Hashed(V, V, V, h)
    BY <1>1, <2>2, SettledHashed, KeptWithFiles
  <2>4. \A k \in V : entries[k.path].cid # Undef /\ k.path \in DOMAIN entries /\ k.path # ROOT
    BY <1>1, <1>2, <1>4, <2>1 DEF Tree, Listing
  <2>5. c = DirCid(LinksTo(entries, Inside(V, << >>)))
    <3>1. \A k \in Inside(V, << >>) : ~k.isDir => entries[k.path].cid # Undef
      BY <2>4 DEF Inside
    <3>2. QED
      BY <1>1, <2>1, <3>1, RootBlockIs
  <2> HIDE DEF c
  <2>6. /\ Listing(new, V, {})
        /\ new[p].cid = c
        /\ \A q \in DOMAIN entries : q # p => new[q] = entries[q]
    BY <1>1, <2>1, CidListing
  <2> HIDE DEF new
  <2>7. EmptyDirs(entries) = Barren(V)
    BY <1>1, EmptyDirsAreBarren
  <2>8. FirstCids(V, h, new, Directories(new))
    <3>1. \A it \in V : new[it.path].cid = h[it]
      BY <2>1, <2>4, <2>6 DEF CidsIn
    <3>2. LinksTo(entries, Inside(V, << >>)) = LinksBy(h, Inside(V, << >>))
      BY LinksToCids DEF Inside
    <3>3. QED
      BY <2>1, <2>3, <2>5, <2>6, <3>1, <3>2 DEF FirstCids
  <2>9. Made(new, V, {})
    BY <2>1, <2>4, <2>6 DEF Made
  <2>10. Pruning(V, new, EmptyDirs(entries))
    BY <2>6, <2>7, <2>8, <2>9 DEF Pruning
  <2>11. QED
    BY <1>4, <2>6, <2>10 DEF new, c
<1>5. QED
  BY <1>3, <1>4

\* A directory is pruned, and after the last one all are made again.
LEMMA DirectoryPruned ==
  ASSUME NEW V, Tree(V), NEW entries, NEW D, Pruning(V, entries, D), NEW p \in D
  PROVE  LET parent == IF entries[p].path = << >> THEN ROOT ELSE entries[p].path
             new == [entries EXCEPT ![parent] = WithChildren(@, RemoveFirst(@.children, p))]
         IN  /\ parent \in DOMAIN entries /\ Pruning(V, new, D \ {p})
             /\ \A q \in DOMAIN entries : new[q].cid = entries[q].cid
<1> DEFINE parent == IF entries[p].path = << >> THEN ROOT ELSE entries[p].path
           old == entries[parent]
           rest == RemoveFirst(old.children, p)
           new == [entries EXCEPT ![parent] = WithChildren(old, rest)]
<1>1. p \in Barren(V) /\ Listing(entries, V, Barren(V) \ D)
  BY DEF Pruning
<1>2. parent \in DOMAIN entries /\ Listing(new, V, (Barren(V) \ D) \union {p})
  BY <1>1, PrunedListing
<1>3. (Barren(V) \ D) \union {p} = Barren(V) \ (D \ {p})
  BY <1>1
<1>4. \A q \in DOMAIN entries : new[q].cid = entries[q].cid
  <2>1. IsEntry(old)
    <3>1. \A q \in DOMAIN entries : IsEntry(entries[q])
      BY <1>1 DEF Listing, EntryFor
    <3>2. QED
      BY <1>2, <3>1
  <2> HIDE DEF old, rest
  <2>2. WithChildren(old, rest).cid = old.cid
    BY <2>1, ChildrenReplaced
  <2>3. QED
    BY <1>2, <2>2 DEF old
<1>5. Pruning(V, new, D \ {p})
  <2> HIDE DEF new
  <2>1. (\A it \in V : it.path \in DOMAIN entries) /\ ROOT \in DOMAIN entries
    BY <1>1 DEF Listing
  <2>2. Made(new, V, {})
    BY <1>4, <2>1 DEF Pruning, Made
  <2>3. Directories(new) = Directories(entries)
    BY <1>1, <1>2, DirectoriesListed
  <2>4. PICK h : FirstCids(V, h, entries, Directories(entries))
    BY DEF Pruning
  <2>5. FirstCids(V, h, new, Directories(new))
    BY <1>4, <2>1, <2>3, <2>4 DEF FirstCids
  <2>6. QED
    BY <1>1, <1>2, <1>3, <2>2, <2>5 DEF Pruning
<1>6. QED
  BY <1>2, <1>4, <1>5

LEMMA AllPruned ==
  ASSUME NEW V, Tree(V), NEW entries, Pruning(V, entries, {})
  PROVE  Remaking(V, entries, Directories(entries))
<1>1. Listing(entries, V, Barren(V)) /\ Made(entries, V, {})
  BY DEF Pruning
<1>2. Directories(entries) = {ROOT} \union {it.path : it \in {x \in V : x.isDir}}
  BY <1>1, DirectoriesListed
<1>3. Loop(V, entries, Barren(V), Directories(entries))
  BY <1>1, <1>2 DEF Loop, Sealed, Deeper
<1>4. QED
  BY <1>1, <1>3 DEF Remaking, Pruning

\* What is in a directory has a CID by the time its block is made again.
LEMMA ChildrenHaveCids ==
  ASSUME NEW entries, NEW V, NEW gone, Listing(entries, V, gone), Made(entries, V, {})
  PROVE  \A k \in V : entries[k.path].cid # Undef
<1>1. \A k \in V : ~k.isDir => entries[k.path].cid # Undef
  BY CidsDefined DEF Listing
<1>2. \A k \in V : k.isDir => entries[k.path].cid # Undef
  BY DEF Made
<1>3. QED
  BY <1>1, <1>2

\* A directory block is made again: all it links to has its final CID.
LEMMA DirectoryRemade ==
  ASSUME NEW V, Tree(V), NEW entries, NEW D, Remaking(V, entries, D), NEW p \in Deepest(D), p # ROOT
  PROVE  LET c == DirectoryBlock(entries, entries[p])
             new == [entries EXCEPT ![p] = WithCid(@, c)]
         IN  /\ Remaking(V, new, D \ {p})
             /\ c = DirCid(LinksTo(entries, Inside(V, p) \intersect WithFiles(V)))
             /\ new[p].cid = c
             /\ \A q \in DOMAIN entries : q # p => new[q] = entries[q]
<1> DEFINE c == DirectoryBlock(entries, entries[p])
           new == [entries EXCEPT ![p] = WithCid(@, c)]
<1>1. Loop(V, entries, Barren(V), D) /\ Listing(entries, V, Barren(V)) /\ Made(entries, V, {})
  BY DEF Remaking, Loop
<1>2. \A k \in V : entries[k.path].cid # Undef
  BY <1>1, ChildrenHaveCids
<1>3. \A k \in Inside(V, p) : entries[k.path].cid # Undef
  BY <1>2 DEF Inside
<1>4. /\ Loop(V, new, Barren(V), D \ {p})
      /\ c = DirCid(LinksTo(entries, Inside(V, p) \intersect Kept(V, Barren(V))))
      /\ new[p].cid = c
      /\ \A q \in DOMAIN entries : q # p => new[q] = entries[q]
  <2>1. c = DirectoryBlock(entries, entries[p])
    OBVIOUS
  <2> HIDE DEF c
  <2>2. QED
    BY <1>1, <1>3, <2>1, DirectoryDone
<1>5. c # Undef
  BY <1>4, CidsDefined
<1> HIDE DEF c, new
<1>6. (\A it \in V : it.path \in DOMAIN entries) /\ ROOT \in DOMAIN entries
  BY <1>1 DEF Listing
<1>7. Made(new, V, {})
  BY <1>2, <1>4, <1>5, <1>6 DEF Made
<1>8. PICK h : FirstCids(V, h, entries, D)
  BY DEF Remaking
<1>9. FirstCids(V, h, new, D \ {p})
  BY <1>4, <1>6, <1>8 DEF FirstCids
<1>10. Remaking(V, new, D \ {p})
  BY <1>4, <1>7, <1>9 DEF Remaking
<1>11. Kept(V, Barren(V)) = WithFiles(V)
  BY KeptWithFiles
<1>12. QED
  BY <1>4, <1>10, <1>11 DEF new, c

\* When the directories are made again but for the root, all CIDs are final.
LEMMA AllRemade ==
  ASSUME NEW V, Tree(V), NEW entries, Remaking(V, entries, {ROOT})
  PROVE  /\ Hashed(V, V, WithFiles(V), CidsIn(V, entries))
         /\ DirectoryBlock(entries, entries[ROOT]) = DirCid(LinksTo(entries, Inside(V, << >>)))
<1>1. /\ Loop(V, entries, Barren(V), {ROOT}) /\ Listing(entries, V, Barren(V))
      /\ \A k \in V : entries[k.path].cid # Undef
  BY ChildrenHaveCids DEF Remaking, Loop
<1>2. Settled(V, {ROOT}) = V
  BY DEF Settled, Tree
<1>3. Hashed(V, V, WithFiles(V), CidsIn(V, entries))
  BY <1>1, <1>2, SettledHashed, KeptWithFiles
<1>4. \A k \in Inside(V, << >>) : ~k.isDir => entries[k.path].cid # Undef
  BY <1>1 DEF Inside
<1>5. QED
  BY <1>1, <1>3, <1>4, RootBlockIs

\* The block of the virtual root, made last, has the Merkle root's CID.
LEMMA RootRemade ==
  ASSUME NEW V, Tree(V), NEW entries, Remaking(V, entries, {ROOT})
  PROVE  DirectoryBlock(entries, entries[ROOT]) = MerkleRoot(V)
<1> DEFINE h == CidsIn(V, entries)
<1>1. /\ Hashed(V, V, WithFiles(V), h)
      /\ DirectoryBlock(entries, entries[ROOT]) = DirCid(LinksTo(entries, Inside(V, << >>)))
  BY AllRemade
<1>2. LinksTo(entries, Inside(V, << >>)) = LinksBy(h, Inside(V, << >>))
  BY LinksToCids DEF Inside
<1> HIDE DEF h
<1>3. ASSUME NEW it \in V
      PROVE  h[it] = IF it.isDir
                     THEN DirCid({<<k.name, h[k]>> : k \in {x \in Inside(V, it.path) : HasFile(V, x.path)}})
                     ELSE FileCid(it.content)
  <2>1. Inside(V, it.path) \intersect WithFiles(V) = {x \in Inside(V, it.path) : HasFile(V, x.path)}
    BY DEF WithFiles, Inside
  <2>2. QED
    BY <1>1, <2>1 DEF Hashed, LinksBy
<1>4. MerkleRoot(V) = DirCid({<<k.name, h[k]>> : k \in Inside(V, << >>)})
  BY <1>3, MerkleRootIs
<1>5. QED
  BY <1>1, <1>2, <1>4 DEF LinksBy

\* SingleFile is decided by the entries as by the filesystem.
LEMMA SingleFileIsLone ==
  ASSUME NEW V, Tree(V), NEW entries, Listing(entries, V, {})
  PROVE  /\ LoneFile(V) <=> Directories(entries) = {ROOT} /\ Cardinality(TopFiles(entries)) = 1
         /\ LoneFile(V) => \A p \in TopFiles(entries) : entries[p].cid = FileCid((CHOOSE it \in V : TRUE).content)
<1>1. Directories(entries) = {ROOT} \union {it.path : it \in {x \in V : x.isDir}}
  BY DirectoriesListed
<1>2. TopFiles(entries) = {it.path : it \in Inside(V, << >>)}
  BY DEF TopFiles, Listing, EntryFor, Inside, Tree
<1>3. \A it \in V : it.path # ROOT
  BY DEF Tree
<1>4. ASSUME \A x \in V : ~x.isDir PROVE Inside(V, << >>) = V
  <2>1. SUFFICES ASSUME NEW x \in V PROVE Front(x.path) = << >>
    BY DEF Inside
  <2>2. IsList(x.path) /\ x.path # << >> /\ ~(Len(x.path) > 1)
    BY <1>4 DEF Tree
  <2>3. QED
    BY <2>2, FrontOfOne
<1>5. ASSUME NEW it \in V, V = {it}, ~it.isDir
      PROVE  Directories(entries) = {ROOT} /\ TopFiles(entries) = {it.path}
  <2>1. \A x \in V : x = it /\ ~x.isDir
    BY <1>5
  <2>2. Inside(V, << >>) = {it}
    BY <1>4, <1>5, <2>1
  <2>3. QED
    BY <1>1, <1>2, <2>1, <2>2
<1>6. ASSUME LoneFile(V)
      PROVE  /\ Directories(entries) = {ROOT} /\ Cardinality(TopFiles(entries)) = 1
             /\ \A p \in TopFiles(entries) : entries[p].cid = FileCid((CHOOSE it \in V : TRUE).content)
  <2>1. PICK it \in V : V = {it} /\ ~it.isDir
    BY <1>6 DEF LoneFile
  <2>2. Directories(entries) = {ROOT} /\ TopFiles(entries) = {it.path}
    BY <1>5, <2>1
  <2>3. (CHOOSE x \in V : TRUE) = it
    BY <2>1
  <2>4. entries[it.path].cid = FileCid(it.content)
    BY <2>1 DEF Listing
  <2>5. Cardinality({it.path}) = 1
    BY FS_Singleton
  <2>6. QED
    BY <2>2, <2>3, <2>4, <2>5
<1>7. ASSUME Directories(entries) = {ROOT}, Cardinality(TopFiles(entries)) = 1 PROVE LoneFile(V)
  <2>1. \A x \in V : ~x.isDir
    BY <1>1, <1>3, <1>7
  <2>2. TopFiles(entries) = {x.path : x \in V}
    BY <1>2, <1>4, <2>1
  <2>3. IsFiniteSet(TopFiles(entries))
    <3>1. IsFiniteSet({x.path : x \in V})
      <4> DEFINE path == [x \in V |-> x.path]
      <4>1. {x.path : x \in V} = {path[x] : x \in V}
        OBVIOUS
      <4> HIDE DEF path
      <4>2. IsFiniteSet(V)
        BY DEF Tree
      <4>3. IsFiniteSet({path[x] : x \in V})
        BY <4>2, ImageIsFinite
      <4>4. QED
        BY <4>1, <4>3
    <3>2. QED
      BY <2>2, <3>1
  <2>4. PICK p : TopFiles(entries) = {p}
    BY <1>7, <2>3, FS_Singleton
  <2>5. PICK it \in V : it.path = p
    BY <2>2, <2>4
  <2>6. \A x \in V : x = it
    <3>1. \A x \in V : x.path = it.path
      BY <2>2, <2>4, <2>5
    <3>2. QED
      BY <3>1, <2>5 DEF Tree
  <2>7. QED
    BY <2>1, <2>5, <2>6 DEF LoneFile
<1>8. QED
  BY <1>6, <1>7

-----------------------------------------------------------------------------
(* The invariant. *)

Building == pc \in {"walk", "import", "directories", "prune", "regenerate"}

\* The phase that BuildSummary is in, for the visible entries V.
Phase(V) ==
  /\ pc \in {"walk", "import"} => Walking(tree, walk, work.entries)
  /\ pc = "import" => walk # << >> /\ Head(walk).path # ROOT /\ ~Head(walk).isDir
  /\ pc = "directories" => Making(V, work.entries, dirs)
  /\ pc = "prune" => Pruning(V, work.entries, dirs)
  /\ pc = "regenerate" => Remaking(V, work.entries, dirs)
  /\ pc \in {"directories", "prune", "regenerate"} => wrap \/ ~LoneFile(V)

\* The inductive invariant.
MerkleInv ==
  /\ RootIsMerkleRoot
  /\ Building => /\ tree \in Trees
                 /\ {"root", "entries"} \subseteq DOMAIN work
                 /\ NotReserved(tree) => Phase(Visible(tree))

\* A call begins with nothing listed but the root.
LEMMA WalkBegins ==
  ASSUME NEW t \in Trees
  PROVE  Walking(t, t, NewSummary.entries) /\ {"root", "entries"} \subseteq DOMAIN NewSummary
<1> DEFINE entries == NewSummary.entries
<1>1. IsList(t) /\ Len(t) \in Nat
  <2>1. IsList(t)
    BY TreesAssumption DEF IsList
  <2>2. QED
    BY <2>1, ListProperties
<1>2. Walked(t, Len(t) - Len(t)) = {}
  BY <1>1 DEF Walked
<1>3. /\ DOMAIN entries = {ROOT}
      /\ IsEntry(entries[ROOT])
      /\ entries[ROOT].name = "ROOT" /\ entries[ROOT].isDir = TRUE /\ entries[ROOT].path = ROOT
      /\ entries[ROOT].children = << >>
  BY DEF NewSummary, IsEntry
<1>4. IsSetList(<< >>) /\ ToSet(<< >>) = {}
  BY DEF IsSetList, IsInjective, IsList, ToSet
<1> HIDE DEF entries
<1>5. Listing(entries, {}, {})
  BY <1>3, <1>4 DEF Listing, EntryFor, Inside
<1>6. \A i \in 1..Len(t) : t[i] = t[Len(t) - Len(t) + i]
  BY <1>1
<1>7. Walking(t, t, entries)
  <2>1. Listing(entries, Walked(t, Len(t) - Len(t)), {})
    BY <1>2, <1>5
  <2>2. Len(t) <= Len(t)
    BY <1>1
  <2>3. QED
    BY <1>1, <1>6, <2>1, <2>2 DEF Walking
<1>8. {"root", "entries"} \subseteq DOMAIN NewSummary
  BY DEF NewSummary
<1>9. QED
  BY <1>7, <1>8 DEF entries

\* The walk visits or skips an entry.
LEMMA MerkleVisits ==
  ASSUME MerkleInv, VisitSkipped \/ VisitDir \/ VisitFile \/ EnterFile
  PROVE  MerkleInv'
<1>1. UNCHANGED <<tree, wrap, published>> /\ Building /\ pc' \in {"walk", "import"}
  BY DEF VisitSkipped, VisitDir, VisitFile, EnterFile, Visiting, given, control, Building
<1>2. RootIsMerkleRoot'
  BY <1>1 DEF MerkleInv, RootIsMerkleRoot, Built, published
<1>3. tree \in Trees /\ {"root", "entries"} \subseteq DOMAIN work
  BY <1>1 DEF MerkleInv
<1>4. {"root", "entries"} \subseteq DOMAIN work'
  BY <1>3 DEF VisitSkipped, VisitDir, VisitFile, EnterFile
<1>5. ASSUME NotReserved(tree)
      PROVE  /\ Walking(tree, walk', work'.entries)
             /\ pc' = "import" => walk' # << >> /\ Head(walk').path # ROOT /\ ~Head(walk').isDir
  <2>1. Walking(tree, walk, work.entries) /\ walk # << >>
    BY <1>1, <1>5 DEF MerkleInv, Phase, VisitSkipped, VisitDir, VisitFile, EnterFile, Visiting
  <2>2. CASE VisitSkipped
    <3>1. Head(walk).path = ROOT /\ walk' = Tail(walk) /\ work' = work /\ pc' = "walk"
      BY <2>2 DEF VisitSkipped, Visiting, control
    <3>2. QED
      BY <1>3, <1>5, <2>1, <3>1, WalkGoesOn
  <2>3. CASE VisitDir
    <3> DEFINE it == Head(walk)
               e == [name |-> it.name, isDir |-> TRUE, path |-> Front(it.path), cid |-> Undef, children |-> << >>]
    <3>1. it.path # ROOT /\ it.isDir /\ walk' = Tail(walk) /\ pc' = "walk"
      BY <2>3 DEF VisitDir, Visiting, control
    <3>2. work'.entries = Entered(work.entries, it.path, e)
      BY <1>3, <2>3 DEF VisitDir
    <3>3. IsEntry(e) /\ e.name = it.name /\ e.isDir = TRUE /\ e.path = Front(it.path) /\ e.children = << >>
      BY DEF IsEntry
    <3>4. it.isDir = TRUE
      BY <1>3, <1>5, <2>1, <3>1, WalkGoesOn
    <3> HIDE DEF e, it
    <3>5. EntryFor(e, it.name, it.isDir, Front(it.path))
      BY <3>3, <3>4 DEF EntryFor
    <3>6. QED
      BY <1>3, <1>5, <2>1, <3>1, <3>2, <3>3, <3>5, WalkGoesOn DEF it
  <2>4. CASE VisitFile
    BY <2>1, <2>4 DEF VisitFile, Visiting
  <2>5. CASE EnterFile
    <3> DEFINE it == Head(walk)
               e == [name |-> it.name, isDir |-> FALSE, path |-> Front(it.path),
                     cid |-> FileCid(it.content), children |-> << >>]
    <3>1. pc = "import" /\ walk' = Tail(walk) /\ pc' = "walk"
      BY <2>5 DEF EnterFile
    <3>2. it.path # ROOT /\ ~it.isDir
      BY <1>1, <1>5, <3>1 DEF MerkleInv, Phase
    <3>3. work'.entries = Entered(work.entries, it.path, e)
      BY <1>3, <2>5 DEF EnterFile
    <3>4. /\ IsEntry(e) /\ e.name = it.name /\ e.isDir = FALSE /\ e.path = Front(it.path)
          /\ e.cid = FileCid(it.content) /\ e.children = << >>
      BY DEF IsEntry
    <3>5. it.isDir = FALSE
      BY <1>3, <1>5, <2>1, <3>2, WalkGoesOn
    <3> HIDE DEF e, it
    <3>6. EntryFor(e, it.name, it.isDir, Front(it.path))
      BY <3>4, <3>5 DEF EntryFor
    <3>7. QED
      BY <1>3, <1>5, <2>1, <3>1, <3>2, <3>3, <3>4, <3>6, WalkGoesOn DEF it
  <2>6. QED
    BY <2>2, <2>3, <2>4, <2>5
<1>6. NotReserved(tree) => Phase(Visible(tree))'
  BY <1>1, <1>5 DEF Phase
<1>7. QED
  BY <1>1, <1>2, <1>3, <1>4, <1>6 DEF MerkleInv

\* The walk is over, and the directories are handled or there are none.
LEMMA MerkleWalkOver ==
  ASSUME MerkleInv, pc = "walk", walk = << >>, tree \in Trees, NotReserved(tree)
  PROVE  /\ Tree(Visible(tree)) /\ Listing(work.entries, Visible(tree), {})
         /\ SingleFile <=> ~wrap /\ LoneFile(Visible(tree))
<1>1. Walking(tree, walk, work.entries)
  BY DEF MerkleInv, Building, Phase
<1>2. Tree(Visible(tree)) /\ Walked(tree, Len(tree)) = Visible(tree)
  BY VisibleTree
<1>3. Len(walk) = 0 /\ Len(tree) \in Nat
  BY TreesAssumption, LenProperties
<1>4. Len(tree) - Len(walk) = Len(tree)
  BY <1>3
<1>5. Listing(work.entries, Visible(tree), {})
  BY <1>1, <1>2, <1>4 DEF Walking
<1>6. LoneFile(Visible(tree)) <=> Directories(work.entries) = {ROOT} /\ Cardinality(TopFiles(work.entries)) = 1
  BY <1>2, <1>5, SingleFileIsLone
<1>7. QED
  BY <1>2, <1>5, <1>6 DEF SingleFile

\* A filesystem that is one file is published with the file's CID.
LEMMA MerkleSingleFile ==
  ASSUME MerkleInv, FinishSingleFile
  PROVE  RootIsMerkleRoot'
<1>1. PICK p \in TopFiles(work.entries) : summary' = [work EXCEPT !.root = work.entries[p].cid]
  BY DEF FinishSingleFile
<1>2. source' = [tree |-> tree, wrap |-> wrap] /\ pc = "walk" /\ walk = << >> /\ SingleFile
  BY DEF FinishSingleFile
<1>3. tree \in Trees /\ "root" \in DOMAIN work
  BY <1>2 DEF MerkleInv, Building
<1>4. summary'.root = work.entries[p].cid
  BY <1>1, <1>3
<1>5. ASSUME NotReserved(tree) PROVE summary'.root = ExpectedRoot([tree |-> tree, wrap |-> wrap])
  <2>1. Tree(Visible(tree)) /\ Listing(work.entries, Visible(tree), {}) /\ ~wrap /\ LoneFile(Visible(tree))
    BY <1>2, <1>3, <1>5, MerkleWalkOver
  <2>2. work.entries[p].cid = FileCid((CHOOSE it \in Visible(tree) : TRUE).content)
    BY <2>1, SingleFileIsLone
  <2>3. QED
    BY <1>4, <2>1, <2>2 DEF ExpectedRoot
<1>6. QED
  BY <1>2, <1>5 DEF RootIsMerkleRoot

\* The loops over the directories.
LEMMA MerkleDirectories ==
  ASSUME MerkleInv,
         \/ StartDirectories \/ StartRegeneration
         \/ \E p \in dirs : MakeDirectory(p) \/ PruneDirectory(p) \/ (RegenerateDirectory(p) /\ dirs # {p})
  PROVE  MerkleInv'
<1> DEFINE V == Visible(tree)
<1>1. UNCHANGED <<tree, wrap, published>> /\ Building
  BY DEF StartDirectories, StartRegeneration, MakeDirectory, PruneDirectory, RegenerateDirectory, given, published,
       Building
<1>2. RootIsMerkleRoot'
  BY <1>1 DEF MerkleInv, RootIsMerkleRoot, Built, published
<1>3. tree \in Trees /\ {"root", "entries"} \subseteq DOMAIN work
  BY <1>1 DEF MerkleInv
<1>4. {"root", "entries"} \subseteq DOMAIN work'
  BY <1>3 DEF StartDirectories, StartRegeneration, MakeDirectory, PruneDirectory, RegenerateDirectory, Regenerated
<1>5. ASSUME NotReserved(tree) PROVE Phase(V)'
  <2>1. Tree(V) /\ Phase(V)
    BY <1>1, <1>3, <1>5, VisibleTree DEF MerkleInv
  <2> HIDE DEF V
  <2>2. V' = V
    BY <1>1 DEF V
  <2>3. CASE StartDirectories
    <3>1. pc = "walk" /\ walk = << >> /\ ~SingleFile /\ dirs' = Directories(work.entries) /\ pc' = "directories"
          /\ work' = work
      BY <2>3 DEF StartDirectories
    <3>2. Listing(work.entries, V, {}) /\ (wrap \/ ~LoneFile(V))
      BY <1>3, <1>5, <3>1, MerkleWalkOver DEF V
    <3>3. Making(V, work.entries, Directories(work.entries))
      BY <3>2, DirectoriesListed DEF Making, Loop, Sealed, Deeper
    <3>4. QED
      BY <1>1, <2>2, <3>1, <3>2, <3>3 DEF Phase
  <2>4. CASE StartRegeneration
    <3>1. pc = "prune" /\ dirs = {} /\ dirs' = Directories(work.entries) /\ pc' = "regenerate" /\ work' = work
      BY <2>4 DEF StartRegeneration
    <3>2. Remaking(V, work.entries, Directories(work.entries))
      BY <2>1, <3>1, AllPruned DEF Phase
    <3>3. wrap \/ ~LoneFile(V)
      BY <2>1, <3>1 DEF Phase
    <3>4. QED
      BY <1>1, <2>2, <3>1, <3>2, <3>3 DEF Phase
  <2>5. ASSUME NEW p \in dirs, MakeDirectory(p) PROVE Phase(V)'
    <3> DEFINE c == DirectoryBlock(work.entries, work.entries[p])
               new == [work.entries EXCEPT ![p] = WithCid(@, c)]
    <3>1. pc = "directories" /\ Making(V, work.entries, dirs) /\ (wrap \/ ~LoneFile(V))
      BY <2>1, <2>5 DEF MakeDirectory, Phase
    <3>2. work'.entries = new
      BY <1>3, <2>5 DEF MakeDirectory, WithCid
    <3>3. p \in Deepest(dirs)
      BY <2>5 DEF MakeDirectory
    <3>4. (dirs # {p} => Making(V, new, dirs \ {p})) /\ (dirs = {p} => Pruning(V, new, EmptyDirs(work.entries)))
      BY <2>1, <3>1, <3>3, DirectoryMade
    <3> HIDE DEF new, c
    <3>5. IF dirs = {p} THEN dirs' = EmptyDirs(work.entries) /\ pc' = "prune" ELSE dirs' = dirs \ {p} /\ pc' = "directories"
      BY <2>5, <3>1 DEF MakeDirectory
    <3>6. QED
      BY <1>1, <2>2, <3>1, <3>2, <3>4, <3>5 DEF Phase
  <2>6. ASSUME NEW p \in dirs, PruneDirectory(p) PROVE Phase(V)'
    <3> DEFINE parent == IF work.entries[p].path = << >> THEN ROOT ELSE work.entries[p].path
               new == [work.entries EXCEPT ![parent] = WithChildren(@, RemoveFirst(@.children, p))]
    <3>1. pc = "prune" /\ Pruning(V, work.entries, dirs) /\ (wrap \/ ~LoneFile(V))
      BY <2>1, <2>6 DEF PruneDirectory, Phase
    <3>2. work'.entries = new
      BY <1>3, <2>6 DEF PruneDirectory, WithChildren
    <3>3. Pruning(V, new, dirs \ {p})
      BY <2>1, <3>1, DirectoryPruned
    <3> HIDE DEF new
    <3>4. dirs' = dirs \ {p} /\ pc' = "prune"
      BY <2>6, <3>1 DEF PruneDirectory, control
    <3>5. QED
      BY <1>1, <2>2, <3>1, <3>2, <3>3, <3>4 DEF Phase
  <2>7. ASSUME NEW p \in dirs, RegenerateDirectory(p), dirs # {p} PROVE Phase(V)'
    <3> DEFINE c == DirectoryBlock(work.entries, work.entries[p])
               new == [work.entries EXCEPT ![p] = WithCid(@, c)]
    <3>1. pc = "regenerate" /\ Remaking(V, work.entries, dirs) /\ (wrap \/ ~LoneFile(V))
      BY <2>1, <2>7 DEF RegenerateDirectory, Phase
    <3>2. work'.entries = new
      BY <1>3, <2>7 DEF RegenerateDirectory, Regenerated, WithCid
    <3>3. p \in Deepest(dirs) /\ p # ROOT
      BY <2>7 DEF RegenerateDirectory, Deepest
    <3>4. Remaking(V, new, dirs \ {p})
      BY <2>1, <3>1, <3>3, DirectoryRemade
    <3> HIDE DEF new
    <3>5. dirs' = dirs \ {p} /\ pc' = "regenerate"
      BY <2>7, <3>1 DEF RegenerateDirectory
    <3>6. QED
      BY <1>1, <2>2, <3>1, <3>2, <3>4, <3>5 DEF Phase
  <2>8. QED
    BY <2>3, <2>4, <2>5, <2>6, <2>7
<1>6. QED
  BY <1>1, <1>2, <1>3, <1>4, <1>5 DEF MerkleInv, V

\* The last directory made again is the virtual root, and its CID is published.
LEMMA MerklePublished ==
  ASSUME MerkleInv, NEW p \in dirs, RegenerateDirectory(p), dirs = {p}
  PROVE  RootIsMerkleRoot'
<1>1. summary' = Regenerated(p) /\ source' = [tree |-> tree, wrap |-> wrap] /\ pc = "regenerate"
  BY DEF RegenerateDirectory
<1>2. tree \in Trees /\ "root" \in DOMAIN work
  BY <1>1 DEF MerkleInv, Building
<1>3. ASSUME NotReserved(tree) PROVE summary'.root = ExpectedRoot([tree |-> tree, wrap |-> wrap])
  <2>1. Tree(Visible(tree)) /\ Remaking(Visible(tree), work.entries, dirs) /\ (wrap \/ ~LoneFile(Visible(tree)))
    BY <1>1, <1>2, <1>3, VisibleTree DEF MerkleInv, Building, Phase
  <2>2. p = ROOT
    BY <2>1 DEF Remaking, Loop
  <2>3. DirectoryBlock(work.entries, work.entries[p]) = MerkleRoot(Visible(tree))
    BY <2>1, <2>2, RootRemade
  <2>4. summary'.root = DirectoryBlock(work.entries, work.entries[p])
    BY <1>1, <1>2, <2>2 DEF Regenerated
  <2>5. QED
    BY <2>1, <2>3, <2>4 DEF ExpectedRoot
<1>4. QED
  BY <1>1, <1>3 DEF RootIsMerkleRoot

\* Every step keeps the invariant.
LEMMA MerkleStep ==
  ASSUME MerkleInv, Next
  PROVE  MerkleInv'
<1>1. ASSUME UNCHANGED published PROVE RootIsMerkleRoot'
  BY <1>1 DEF MerkleInv, RootIsMerkleRoot, Built, published
<1>2. ASSUME Return(outcome'), RootIsMerkleRoot' PROVE MerkleInv'
  BY <1>2 DEF MerkleInv, Building, Return
<1>3. ASSUME UNCHANGED <<tree, wrap, work, walk, dirs, published>>, pc' = pc PROVE MerkleInv'
  BY <1>1, <1>3 DEF MerkleInv, Building, Phase
<1>4. ASSUME UNCHANGED published, pc' \in {"write", "reimport"} PROVE MerkleInv'
  BY <1>1, <1>4 DEF MerkleInv, Building
<1>5. ASSUME NEW t \in Trees, NEW w \in BOOLEAN, BuildSummary(t, w) PROVE MerkleInv'
  <2>1. tree' = t /\ walk' = t /\ work' = NewSummary /\ pc' = "walk" /\ UNCHANGED published
    BY <1>5 DEF BuildSummary, SummaryKept
  <2>2. Walking(t, t, NewSummary.entries) /\ {"root", "entries"} \subseteq DOMAIN NewSummary
    BY WalkBegins
  <2>3. QED
    BY <1>1, <2>1, <2>2 DEF MerkleInv, Building, Phase
<1>6. CASE VisitSkipped \/ VisitDir \/ VisitFile \/ EnterFile
  BY <1>6, MerkleVisits
<1>7. CASE ImportBlock \/ CollectBlock \/ Cancel
  BY <1>3, <1>7 DEF ImportBlock, CollectBlock, Cancel, given, locals, control
<1>8. CASE CollectFails \/ WriteFails \/ FinishWrite \/ Stop \/ IOFails
  BY <1>1, <1>2, <1>8 DEF CollectFails, WriteFails, FinishWrite, Stop, IOFails, Return
<1>9. CASE WriteCAR \/ WriteBlock \/ ReimportFile \/ RemakeDirectory
  <2>1. UNCHANGED published /\ pc' \in {"write", "reimport"}
    BY <1>9 DEF WriteCAR, WriteBlock, ReimportFile, RemakeDirectory, Dropped, Writing, control
  <2>2. QED
    BY <1>4, <2>1
<1>10. CASE FinishSingleFile
  BY <1>2, <1>10, MerkleSingleFile DEF FinishSingleFile, Return
<1>11. CASE StartDirectories \/ StartRegeneration
  BY <1>11, MerkleDirectories
<1>12. ASSUME NEW p \in dirs, MakeDirectory(p) \/ PruneDirectory(p) PROVE MerkleInv'
  <2>1. \E q \in dirs : MakeDirectory(q) \/ PruneDirectory(q) \/ (RegenerateDirectory(q) /\ dirs # {q})
    BY <1>12
  <2>2. QED
    BY <2>1, MerkleDirectories
<1>13. ASSUME NEW p \in dirs, RegenerateDirectory(p) PROVE MerkleInv'
  <2>1. CASE dirs # {p}
    BY <1>13, <2>1, MerkleDirectories
  <2>2. CASE dirs = {p}
    BY <1>2, <1>13, <2>2, MerklePublished DEF RegenerateDirectory, Return
  <2>3. QED
    BY <2>1, <2>2
<1>14. QED
  BY <1>5, <1>6, <1>7, <1>8, <1>9, <1>10, <1>11, <1>12, <1>13 DEF Next, Advance

\* It holds at every moment.
LEMMA MerkleInvariance == SafeSpec => []MerkleInv
<1>1. Init => MerkleInv
  BY DEF Init, MerkleInv, RootIsMerkleRoot, Built, Building
<1>2. MerkleInv /\ [Next]_vars => MerkleInv'
  <2>1. SUFFICES ASSUME MerkleInv, [Next]_vars PROVE MerkleInv'
    OBVIOUS
  <2>2. CASE Next
    BY <2>1, <2>2, MerkleStep
  <2>3. CASE UNCHANGED vars
    <3>1. UNCHANGED <<tree, wrap, work, walk, dirs, summary, source, pc>>
      BY <2>3 DEF vars, given, locals, control, published
    <3>2. QED
      BY <2>1, <3>1 DEF MerkleInv, RootIsMerkleRoot, Built, Building, Phase
  <2>4. QED
    BY <2>1, <2>2, <2>3
<1>3. QED
  BY <1>1, <1>2, PTL DEF SafeSpec

\* A summary's root is the Merkle root of the filesystem it was built from,
\* whatever the filesystem, the order in which the directories of a depth
\* are handled and the share of them that is pruned, if no name reads ROOT
\* (car_dir_builder.go:807-825, 857-894).
THEOREM RootIsRight == Spec => []RootIsMerkleRoot
<1>1. MerkleInv => RootIsMerkleRoot
  BY DEF MerkleInv
<1>2. QED
  BY <1>1, MerkleInvariance, PTL DEF Spec, SafeSpec

-----------------------------------------------------------------------------
(* The places of the directories in the list of blocks. *)

\* The first position of an element that is listed.
LEMMA PositionFound ==
  ASSUME NEW s, IsList(s), NEW x, x \in ToSet(s)
  PROVE  Position(s, x) \in 1..Len(s) /\ s[Position(s, x)] = x
<1> DEFINE I == {i \in 1..Len(s) : s[i] = x}
<1>1. Len(s) \in Nat /\ DOMAIN s = 1..Len(s)
  BY ListProperties
<1>2. I \subseteq Nat /\ I # {}
  BY <1>1 DEF ToSet
<1>3. Position(s, x) = Min(I)
  BY <1>2 DEF Position, SelectInSeq
<1>4. Min(I) \in I
  <2> HIDE DEF I
  <2>1. QED
    BY <1>2, MinExists
<1>5. QED
  BY <1>3, <1>4

LEMMA PositionOfNone ==
  ASSUME NEW s, IsList(s), NEW x, x \notin ToSet(s)
  PROVE  Position(s, x) = 0
<1>1. DOMAIN s = 1..Len(s)
  BY ListProperties
<1>2. ~\E i \in 1..Len(s) : s[i] = x
  BY <1>1 DEF ToSet
<1>3. QED
  BY <1>2 DEF Position, SelectInSeq

\* The directories in D have each a place of its own in the list, and every
\* other place is that of a block in F.
Paired(order, F, D, entries, f) ==
  /\ f \in [D -> 1..Len(order)]
  /\ \A p, q \in D : f[p] = f[q] => p = q
  /\ \A p \in D : order[f[p]] = entries[p].cid
  /\ \A i \in 1..Len(order) : order[i] \in F \/ \E p \in D : f[p] = i

\* The list holds the blocks in F, and the block of each directory in D once
\* more than any other directory put it there.
Holds(order, F, D, entries) ==
  /\ IsList(order)
  /\ F \subseteq ToSet(order)
  /\ \E f : Paired(order, F, D, entries, f)

\* What is in the list, as a set.
LEMMA HeldBlocks ==
  ASSUME NEW order, NEW F, NEW D, NEW entries, Holds(order, F, D, entries)
  PROVE  ToSet(order) = F \union {entries[p].cid : p \in D}
<1>1. DOMAIN order = 1..Len(order) /\ F \subseteq ToSet(order)
  BY ListProperties DEF Holds
<1>2. PICK f : Paired(order, F, D, entries, f)
  BY DEF Holds
<1>3. ASSUME NEW c \in ToSet(order) PROVE c \in F \union {entries[p].cid : p \in D}
  <2>1. PICK i \in 1..Len(order) : c = order[i]
    BY <1>1 DEF ToSet
  <2>2. QED
    BY <1>2, <2>1 DEF Paired
<1>4. ASSUME NEW p \in D PROVE entries[p].cid \in ToSet(order)
  <2>1. f[p] \in 1..Len(order) /\ order[f[p]] = entries[p].cid
    BY <1>2 DEF Paired
  <2>2. QED
    BY <1>1, <2>1 DEF ToSet
<1>5. QED
  BY <1>1, <1>3, <1>4

\* Directories of the same block may change places.
LEMMA PlacesSwapped ==
  ASSUME NEW order, NEW F, NEW D, NEW entries, Holds(order, F, D, entries),
         NEW p \in D, entries[p].cid \notin F
  PROVE  LET at == Position(order, entries[p].cid)
         IN  /\ at \in 1..Len(order) /\ order[at] = entries[p].cid
             /\ \E f : Paired(order, F, D, entries, f) /\ f[p] = at
<1> DEFINE at == Position(order, entries[p].cid)
<1>1. at \in 1..Len(order) /\ order[at] = entries[p].cid
  <2>1. entries[p].cid \in ToSet(order)
    BY HeldBlocks
  <2>2. QED
    BY <2>1, PositionFound DEF Holds
<1> HIDE DEF at
<1>2. PICK f : Paired(order, F, D, entries, f)
  BY DEF Holds
<1> DEFINE g == [q \in D |-> IF q = p THEN at ELSE IF f[q] = at THEN f[p] ELSE f[q]]
<1>3. \A q \in D : g[q] = IF q = p THEN at ELSE IF f[q] = at THEN f[p] ELSE f[q]
  OBVIOUS
<1>4. g \in [D -> 1..Len(order)]
  BY <1>1, <1>2 DEF Paired
<1> HIDE DEF g
<1>5. \A x, y \in D : f[x] = f[y] => x = y
  BY <1>2 DEF Paired
<1>6. \A x, y \in D : g[x] = g[y] => x = y
  <2>1. SUFFICES ASSUME NEW x \in D, NEW y \in D, g[x] = g[y] PROVE x = y
    OBVIOUS
  <2>2. QED
    BY <1>3, <1>5, <2>1
<1>7. \A q \in D : order[g[q]] = entries[q].cid
  <2>1. \A q \in D : order[f[q]] = entries[q].cid
    BY <1>2 DEF Paired
  <2>2. QED
    BY <1>1, <1>3, <2>1
<1>8. ASSUME NEW i \in 1..Len(order) PROVE order[i] \in F \/ \E q \in D : g[q] = i
  <2>1. CASE order[i] \in F
    BY <2>1
  <2>2. CASE order[i] \notin F
    <3>1. PICK q \in D : f[q] = i
      BY <1>2, <2>2 DEF Paired
    <3>2. CASE i = at
      <4>1. g[p] = i
        BY <1>3, <3>2
      <4>2. QED
        BY <4>1
    <3>3. CASE i # at /\ q # p
      <4>1. g[q] = i
        BY <1>3, <3>1, <3>3
      <4>2. QED
        BY <4>1
    <3>4. CASE i # at /\ q = p
      <4>1. PICK z \in D : f[z] = at
        BY <1>1, <1>2 DEF Paired
      <4>2. z # p /\ g[z] = f[p]
        BY <1>3, <3>1, <3>4, <4>1
      <4>3. QED
        BY <3>1, <3>4, <4>2
    <3>5. QED
      BY <3>2, <3>3, <3>4
  <2>3. QED
    BY <2>1, <2>2
<1>9. g[p] = at
  BY <1>3
<1>10. Paired(order, F, D, entries, g)
  BY <1>4, <1>6, <1>7, <1>8 DEF Paired
<1>11. QED
  BY <1>1, <1>9, <1>10 DEF at

\* A directory's block is listed.
LEMMA HeldAppend ==
  ASSUME NEW order, NEW F, NEW D, NEW entries, Holds(order, F, D, entries),
         NEW p, p \notin D, NEW new, \A q \in D : new[q].cid = entries[q].cid
  PROVE  Holds(Append(order, new[p].cid), F, D \union {p}, new)
<1> DEFINE c == new[p].cid
           r == Append(order, c)
           E == D \union {p}
           n == Len(order)
           S == ToSet(order) \union {c}
<1>1. PICK f : Paired(order, F, D, entries, f)
  BY DEF Holds
<1>2. n \in Nat /\ DOMAIN order = 1..n /\ order \in Seq(S)
  BY ListProperties, SeqMonotonic DEF Holds, IsList
<1> HIDE DEF S
<1>3. r \in Seq(S) /\ Len(r) = n + 1 /\ r[n + 1] = c /\ \A i \in 1..n : r[i] = order[i]
  <2>1. c \in S
    BY DEF S
  <2> HIDE DEF c
  <2>2. QED
    BY <1>2, <2>1, AppendProperties
<1> HIDE DEF r, c
<1>4. IsList(r) /\ DOMAIN r = 1..(n + 1)
  BY <1>3, SeqIsList, LenProperties
<1> DEFINE g == [q \in E |-> IF q = p THEN n + 1 ELSE f[q]]
<1>5. \A q \in E : g[q] = IF q = p THEN n + 1 ELSE f[q]
  OBVIOUS
<1>6. f \in [D -> 1..n] /\ (\A x, y \in D : f[x] = f[y] => x = y) /\ \A q \in D : order[f[q]] = entries[q].cid
  BY <1>1 DEF Paired
<1>7. \A q \in D : f[q] \in 1..n /\ f[q] \in 1..(n + 1) /\ f[q] # n + 1
  BY <1>2, <1>6
<1>8. n + 1 \in 1..(n + 1)
  BY <1>2
<1>9. g \in [E -> 1..(n + 1)]
  BY <1>7, <1>8
<1> HIDE DEF g
<1>10. ASSUME NEW x \in E, NEW y \in E, g[x] = g[y] PROVE x = y
  BY <1>5, <1>6, <1>7, <1>10
<1>11. ASSUME NEW q \in E PROVE r[g[q]] = new[q].cid
  <2>1. CASE q = p
    BY <1>3, <1>5, <2>1 DEF c
  <2>2. CASE q # p
    BY <1>3, <1>5, <1>6, <1>7, <2>2
  <2>3. QED
    BY <2>1, <2>2
<1>12. ASSUME NEW i \in 1..(n + 1) PROVE r[i] \in F \/ \E q \in E : g[q] = i
  <2>1. CASE i = n + 1
    BY <1>5, <2>1
  <2>2. CASE i # n + 1
    <3>1. i \in 1..n /\ r[i] = order[i]
      BY <1>2, <1>3, <2>2
    <3>2. order[i] \in F \/ \E q \in D : f[q] = i
      BY <1>1, <3>1 DEF Paired
    <3>3. \A q \in D : g[q] = f[q]
      BY <1>5
    <3>4. QED
      BY <3>1, <3>2, <3>3
  <2>3. QED
    BY <2>1, <2>2
<1>13. Paired(r, F, E, new, g)
  BY <1>3, <1>9, <1>10, <1>11, <1>12 DEF Paired
<1>14. F \subseteq ToSet(r)
  <2>1. ASSUME NEW c0 \in F PROVE c0 \in ToSet(r)
    <3>1. PICK i \in 1..n : order[i] = c0
      BY <1>2 DEF Holds, ToSet
    <3>2. i \in 1..(n + 1) /\ r[i] = c0
      BY <1>2, <1>3, <3>1
    <3>3. QED
      BY <1>4, <3>2 DEF ToSet
  <2>2. QED
    BY <2>1
<1>15. QED
  BY <1>4, <1>13, <1>14 DEF Holds, r, c

\* A directory's block leaves the list.
LEMMA HeldRemove ==
  ASSUME NEW order, NEW F, NEW D, NEW entries, Holds(order, F, D, entries),
         NEW p \in D, entries[p].cid \notin F,
         NEW new, \A q \in D \ {p} : new[q].cid = entries[q].cid
  PROVE  LET at == Position(order, entries[p].cid)
         IN  at # 0 /\ Holds(RemoveAt(order, at), F, D \ {p}, new)
<1> DEFINE at == Position(order, entries[p].cid)
           r == RemoveAt(order, at)
           E == D \ {p}
           n == Len(order)
<1>1. at \in 1..n /\ order[at] = entries[p].cid
  BY PlacesSwapped
<1>2. PICK f : Paired(order, F, D, entries, f) /\ f[p] = at
  BY PlacesSwapped
<1> HIDE DEF at
<1>3. n \in Nat /\ DOMAIN order = 1..n /\ IsList(order)
  BY ListProperties DEF Holds
<1>4. IsList(r) /\ Len(r) = n - 1 /\ \A i \in 1..(n - 1) : r[i] = IF i < at THEN order[i] ELSE order[i + 1]
  BY <1>1, <1>3, RemovedAt
<1>5. DOMAIN r = 1..(n - 1)
  BY <1>4, ListProperties
<1> HIDE DEF r
<1> DEFINE g == [q \in E |-> IF f[q] < at THEN f[q] ELSE f[q] - 1]
<1>6. \A q \in E : g[q] = IF f[q] < at THEN f[q] ELSE f[q] - 1
  OBVIOUS
<1>7. f \in [D -> 1..n] /\ (\A x, y \in D : f[x] = f[y] => x = y) /\ \A q \in D : order[f[q]] = entries[q].cid
  BY <1>2 DEF Paired
<1>8. \A q \in E : f[q] \in 1..n /\ f[q] # at
  BY <1>2, <1>7
<1>9. \A q \in E : (IF f[q] < at THEN f[q] ELSE f[q] - 1) \in 1..(n - 1)
  BY <1>1, <1>3, <1>8
<1>10. g \in [E -> 1..(n - 1)]
  BY <1>9
<1> HIDE DEF g
<1>11. ASSUME NEW x \in E, NEW y \in E, g[x] = g[y] PROVE x = y
  <2>1. f[x] = f[y]
    BY <1>1, <1>3, <1>6, <1>8, <1>11
  <2>2. QED
    BY <1>7, <2>1
<1>12. ASSUME NEW q \in E PROVE r[g[q]] = new[q].cid
  <2>1. r[g[q]] = order[f[q]]
    <3>1. CASE f[q] < at
      BY <1>4, <1>6, <1>10, <3>1
    <3>2. CASE ~(f[q] < at)
      <4>1. g[q] = f[q] - 1 /\ ~(g[q] < at) /\ g[q] + 1 = f[q]
        BY <1>1, <1>3, <1>6, <1>8, <3>2
      <4>2. g[q] \in 1..(n - 1)
        BY <1>10
      <4>3. QED
        BY <1>4, <4>1, <4>2
    <3>3. QED
      BY <3>1, <3>2
  <2>2. QED
    BY <1>7, <2>1
<1>13. ASSUME NEW i \in 1..n, i # at
       PROVE  LET j == IF i < at THEN i ELSE i - 1
              IN  j \in 1..(n - 1) /\ r[j] = order[i]
  <2>1. CASE i < at
    BY <1>1, <1>3, <1>4, <2>1
  <2>2. CASE ~(i < at)
    <3>1. i - 1 \in 1..(n - 1) /\ ~(i - 1 < at) /\ (i - 1) + 1 = i
      BY <1>1, <1>3, <1>13, <2>2
    <3>2. QED
      BY <1>4, <2>2, <3>1
  <2>3. QED
    BY <2>1, <2>2
<1>14. ASSUME NEW i \in 1..(n - 1) PROVE r[i] \in F \/ \E q \in E : g[q] = i
  <2> DEFINE k == IF i < at THEN i ELSE i + 1
  <2>1. k \in 1..n /\ k # at /\ r[i] = order[k]
    BY <1>1, <1>3, <1>4
  <2>2. CASE order[k] \in F
    BY <2>1, <2>2
  <2>3. CASE order[k] \notin F
    <3>1. PICK q \in D : f[q] = k
      BY <1>2, <2>1, <2>3 DEF Paired
    <3>2. q \in E
      BY <1>2, <2>1, <3>1
    <3>3. g[q] = i
      BY <1>1, <1>3, <1>6, <3>1, <3>2
    <3>4. QED
      BY <3>2, <3>3
  <2>4. QED
    BY <2>2, <2>3
<1>15. Paired(r, F, E, new, g)
  BY <1>4, <1>10, <1>11, <1>12, <1>14 DEF Paired
<1>16. F \subseteq ToSet(r)
  <2>1. ASSUME NEW c \in F PROVE c \in ToSet(r)
    <3>1. PICK i \in 1..n : order[i] = c
      BY <1>3 DEF Holds, ToSet
    <3>2. i # at
      BY <1>1, <3>1
    <3>3. \E j \in 1..(n - 1) : r[j] = c
      BY <1>13, <3>1, <3>2
    <3>4. QED
      BY <1>5, <3>3 DEF ToSet
  <2>2. QED
    BY <2>1
<1>17. at # 0
  BY <1>1, <1>3
<1>18. QED
  BY <1>4, <1>15, <1>16, <1>17 DEF Holds, r, at

\* A directory's block is replaced by its new one.
LEMMA HeldReplace ==
  ASSUME NEW order, NEW F, NEW D, NEW entries, Holds(order, F, D, entries),
         NEW p \in D, entries[p].cid \notin F,
         NEW new, \A q \in D \ {p} : new[q].cid = entries[q].cid
  PROVE  LET at == Position(order, entries[p].cid)
         IN  at # 0 /\ Holds(ReplaceAt(order, at, new[p].cid), F, D, new)
<1> DEFINE at == Position(order, entries[p].cid)
           c == new[p].cid
           r == ReplaceAt(order, at, c)
           n == Len(order)
           S == ToSet(order) \union {c}
<1>1. at \in 1..n /\ order[at] = entries[p].cid
  BY PlacesSwapped
<1>2. PICK f : Paired(order, F, D, entries, f) /\ f[p] = at
  BY PlacesSwapped
<1> HIDE DEF at
<1>3. n \in Nat /\ DOMAIN order = 1..n /\ order \in Seq(S)
  BY ListProperties, SeqMonotonic DEF Holds, IsList
<1>4. /\ r \in Seq(S) /\ Len(r) = n
      /\ \A i \in 1..n : r[i] = IF i = at THEN c ELSE order[i]
  <2>1. c \in S
    OBVIOUS
  <2> HIDE DEF S, c
  <2>2. [order EXCEPT ![at] = c] \in Seq(S)
    BY <1>1, <1>3, <2>1, ExceptSeq
  <2>3. Len([order EXCEPT ![at] = c]) = n
    BY <1>1, <1>3, <2>1, ExceptSeq
  <2>4. QED
    BY <1>1, <1>3, <2>2, <2>3 DEF ReplaceAt
<1> HIDE DEF r, c, S
<1>5. IsList(r) /\ DOMAIN r = 1..n
  BY <1>3, <1>4, SeqIsList, ListProperties
<1>6. f \in [D -> 1..n] /\ (\A x, y \in D : f[x] = f[y] => x = y) /\ \A q \in D : order[f[q]] = entries[q].cid
  BY <1>2 DEF Paired
<1>7. ASSUME NEW q \in D PROVE r[f[q]] = new[q].cid
  <2>1. CASE q = p
    BY <1>1, <1>2, <1>4, <2>1 DEF c
  <2>2. CASE q # p
    BY <1>2, <1>4, <1>6, <2>2
  <2>3. QED
    BY <2>1, <2>2
<1>8. ASSUME NEW i \in 1..n PROVE r[i] \in F \/ \E q \in D : f[q] = i
  <2>1. order[i] \in F \/ \E q \in D : f[q] = i
    BY <1>2 DEF Paired
  <2>2. i = at => f[p] = i
    BY <1>2
  <2>3. QED
    BY <1>4, <2>1, <2>2
<1>9. Paired(r, F, D, new, f)
  BY <1>4, <1>6, <1>7, <1>8 DEF Paired
<1>10. F \subseteq ToSet(r)
  <2>1. ASSUME NEW d \in F PROVE d \in ToSet(r)
    <3>1. PICK i \in 1..n : order[i] = d
      BY <1>3 DEF Holds, ToSet
    <3>2. i # at
      BY <1>1, <3>1
    <3>3. r[i] = d
      BY <1>4, <3>1, <3>2
    <3>4. QED
      BY <1>5, <3>3 DEF ToSet
  <2>2. QED
    BY <2>1
<1>11. at # 0
  BY <1>1, <1>3
<1>12. QED
  BY <1>5, <1>9, <1>10, <1>11 DEF Holds, r, at, c

-----------------------------------------------------------------------------
(* The blocks of the files, and the index. *)

\* The blocks of the files in V.
FileBlocks(V) == UNION {ToSet(TraversalOrder(it.content)) : it \in {x \in V : ~x.isDir}}

\* Any of them is indexed under a file that has it.
FilesIndexed(V, index) ==
  \A c \in FileBlocks(V) :
    c \in DOMAIN index /\ \E it \in V : ~it.isDir /\ it.path = index[c] /\ c \in ToSet(TraversalOrder(it.content))

\* The CID of any directory that is handled and not left out is indexed under
\* a handled directory of that CID.
DirsIndexed(entries, gone, D, index) ==
  \A d \in Directories(entries) \ (gone \union D) :
    LET c == entries[d].cid
    IN  c \in DOMAIN index /\ index[c] \in Directories(entries) \ D /\ entries[index[c]].cid = c

Contents(V) == \A it \in V : IsList(it.content)

\* No block of a file is a directory's.
LEMMA FileBlocksDiffer ==
  ASSUME NEW V, Contents(V), NEW links
  PROVE  DirCid(links) \notin FileBlocks(V)
<1>1. SUFFICES ASSUME NEW it \in V, DirCid(links) \in ToSet(TraversalOrder(it.content)) PROVE FALSE
  BY DEF FileBlocks
<1>2. IsList(it.content)
  BY DEF Contents
<1>3. DirCid(links) \in {FileCid(it.content)} \union {Leaf(it.content[i]) : i \in DOMAIN it.content}
  BY <1>1, <1>2, ElementsOfTraversal
<1>4. QED
  BY <1>3, CidsDiffer

\* Index entries for directories leave those of files as they are.
LEMMA FilesStayIndexed ==
  ASSUME NEW V, NEW index, FilesIndexed(V, index), NEW c, c \notin FileBlocks(V), NEW p, NEW old, old \notin FileBlocks(V)
  PROVE  /\ FilesIndexed(V, With(index, c, p))
         /\ FilesIndexed(V, Without(index, old))
         /\ FilesIndexed(V, Reindexed(index, old, c, p))
<1>1. ASSUME NEW i, FilesIndexed(V, i) PROVE FilesIndexed(V, With(i, c, p))
  <2>1. SUFFICES ASSUME NEW b \in FileBlocks(V) PROVE b \in DOMAIN i /\ b \in DOMAIN With(i, c, p) /\ With(i, c, p)[b] = i[b]
    BY <1>1 DEF FilesIndexed
  <2>2. b \in DOMAIN i /\ b # c
    BY <1>1, <2>1 DEF FilesIndexed
  <2>3. QED
    BY <2>2 DEF With
<1>2. FilesIndexed(V, Without(index, old))
  <2>1. SUFFICES ASSUME NEW b \in FileBlocks(V)
                 PROVE b \in DOMAIN index /\ b \in DOMAIN Without(index, old) /\ Without(index, old)[b] = index[b]
    BY DEF FilesIndexed
  <2>2. b \in DOMAIN index /\ b # old
    BY <2>1 DEF FilesIndexed
  <2>3. QED
    BY <2>2 DEF Without
<1>3. QED
  BY <1>1, <1>2 DEF Reindexed

\* One more entry of the walk.
LEMMA FileBlocksOfOneMore ==
  ASSUME NEW V, NEW it
  PROVE  FileBlocks(V \union {it}) = FileBlocks(V) \union IF it.isDir THEN {} ELSE ToSet(TraversalOrder(it.content))
<1>1. CASE it.isDir
  <2>1. {x \in V \union {it} : ~x.isDir} = {x \in V : ~x.isDir}
    BY <1>1
  <2>2. QED
    BY <1>1, <2>1 DEF FileBlocks
<1>2. CASE ~it.isDir
  <2>1. {x \in V \union {it} : ~x.isDir} = {x \in V : ~x.isDir} \union {it}
    BY <1>2
  <2>2. QED
    BY <1>2, <2>1 DEF FileBlocks
<1>3. QED
  BY <1>1, <1>2

LEMMA FileIndexed ==
  ASSUME NEW V, NEW index, FilesIndexed(V, index), NEW it, ~it.isDir
  PROVE  FilesIndexed(V \union {it}, Over(IndexOf(it), index))
<1> DEFINE own == ToSet(TraversalOrder(it.content))
           new == Over(IndexOf(it), index)
<1>1. DOMAIN IndexOf(it) = own /\ \A c \in own : IndexOf(it)[c] = it.path
  BY DEF IndexOf
<1>2. DOMAIN new = own \union DOMAIN index /\ \A c \in DOMAIN new : new[c] = IF c \in own THEN it.path ELSE index[c]
  BY <1>1 DEF Over
<1> HIDE DEF new
<1>3. SUFFICES ASSUME NEW c \in FileBlocks(V \union {it})
               PROVE  c \in DOMAIN new /\ \E x \in V \union {it} :
                        ~x.isDir /\ x.path = new[c] /\ c \in ToSet(TraversalOrder(x.content))
  BY DEF FilesIndexed, new
<1>4. c \in FileBlocks(V) \/ c \in own
  BY <1>3, FileBlocksOfOneMore
<1>5. CASE c \in own
  BY <1>2, <1>5
<1>6. CASE c \notin own
  BY <1>2, <1>4, <1>6 DEF FilesIndexed
<1>7. QED
  BY <1>5, <1>6

LEMMA NoFiles == FileBlocks({}) = {} /\ \A index : FilesIndexed({}, index)
BY DEF FileBlocks, FilesIndexed

\* A directory's new CID in the index, if no handled directory keeps the old one.
LEMMA DirectoryReindexed ==
  ASSUME NEW entries, NEW gone, NEW D, NEW index, DirsIndexed(entries, gone, D, index), NEW p \in D,
         NEW new, Directories(new) = Directories(entries), p \in Directories(entries),
         \A q \in Directories(entries) : q # p => new[q].cid = entries[q].cid,
         NEW old, \A d \in Directories(entries) \ (gone \union D) : entries[d].cid = old => new[p].cid = old
  PROVE  DirsIndexed(new, gone, D \ {p}, Reindexed(index, old, new[p].cid, p))
<1> DEFINE c == new[p].cid
           i == Reindexed(index, old, c, p)
<1>1. DOMAIN i = (DOMAIN index \ {old}) \union {c} /\ \A x \in DOMAIN i : i[x] = IF x = c THEN p ELSE index[x]
  BY DEF Reindexed, With, Without
<1> HIDE DEF i
<1>2. SUFFICES ASSUME NEW d \in Directories(entries) \ (gone \union (D \ {p}))
               PROVE  LET b == new[d].cid
                      IN  b \in DOMAIN i /\ i[b] \in Directories(entries) \ (D \ {p}) /\ new[i[b]].cid = b
  BY DEF DirsIndexed, i
<1>3. CASE new[d].cid = c
  BY <1>1, <1>3
<1>4. CASE new[d].cid # c
  <2> DEFINE b == new[d].cid
  <2>1. d # p /\ d \in Directories(entries) \ (gone \union D) /\ entries[d].cid = b
    BY <1>2, <1>4
  <2>2. b # old
    BY <1>4, <2>1
  <2>3. b \in DOMAIN index /\ index[b] \in Directories(entries) \ D /\ entries[index[b]].cid = b
    BY <2>1 DEF DirsIndexed
  <2> HIDE DEF b
  <2>4. b \in DOMAIN i /\ i[b] = index[b]
    BY <1>1, <1>4, <2>2, <2>3 DEF b
  <2>5. index[b] # p
    BY <2>3
  <2>6. QED
    BY <2>3, <2>4, <2>5 DEF b
<1>5. QED
  BY <1>3, <1>4

\* What is listed depends on the CIDs alone.
LEMMA HeldSame ==
  ASSUME NEW order, NEW F, NEW D, NEW entries, Holds(order, F, D, entries),
         NEW new, \A q \in D : new[q].cid = entries[q].cid
  PROVE  Holds(order, F, D, new)
<1>1. PICK f : Paired(order, F, D, entries, f)
  BY DEF Holds
<1>2. Paired(order, F, D, new, f)
  BY <1>1 DEF Paired
<1>3. QED
  BY <1>2 DEF Holds

\* A list of the files' blocks alone.
LEMMA HeldFiles ==
  ASSUME NEW order, IsList(order), NEW entries
  PROVE  Holds(order, ToSet(order), {}, entries)
<1> DEFINE f == [p \in {} |-> 1]
<1>1. DOMAIN order = 1..Len(order)
  BY ListProperties
<1>2. f \in [{} -> 1..Len(order)]
  OBVIOUS
<1>3. \A i \in 1..Len(order) : order[i] \in ToSet(order)
  BY <1>1 DEF ToSet
<1> HIDE DEF f
<1>4. Paired(order, ToSet(order), {}, entries, f)
  BY <1>2, <1>3 DEF Paired
<1>5. QED
  BY <1>4 DEF Holds

-----------------------------------------------------------------------------
(* The list and the index in the loops over the directories. *)

\* A directory's block is listed and indexed when it is made.
LEMMA ListedWhenMade ==
  ASSUME NEW V, Tree(V), Contents(V), NEW entries, NEW D, Making(V, entries, D), NEW p \in Deepest(D),
         NEW order, Holds(order, FileBlocks(V), Directories(entries) \ D, entries),
         NEW index, FilesIndexed(V, index)
  PROVE  LET c == DirectoryBlock(entries, entries[p])
             new == [entries EXCEPT ![p] = WithCid(@, c)]
         IN  /\ Directories(new) = Directories(entries)
             /\ Holds(Append(order, c), FileBlocks(V), Directories(entries) \ (D \ {p}), new)
             /\ FilesIndexed(V, With(index, c, p))
<1> DEFINE c == DirectoryBlock(entries, entries[p])
           new == [entries EXCEPT ![p] = WithCid(@, c)]
<1>1. p \in D /\ D \subseteq Directories(entries)
  BY DEF Deepest, Making, Loop
<1>2. /\ D # {p} => Making(V, new, D \ {p})
      /\ D = {p} => Pruning(V, new, EmptyDirs(entries))
      /\ new[p].cid = c
      /\ \A q \in DOMAIN entries : q # p => new[q] = entries[q]
  BY DirectoryMade
<1>3. c \notin FileBlocks(V)
  BY FileBlocksDiffer DEF DirectoryBlock
<1> HIDE DEF c, new
<1>4. Directories(new) = Directories(entries)
  BY <1>2, DirectoriesListed DEF Making, Loop, Pruning
<1>5. FilesIndexed(V, With(index, c, p))
  BY <1>3, FilesStayIndexed
<1>6. \A q \in Directories(entries) \ D : new[q].cid = entries[q].cid
  BY <1>1, <1>2 DEF Directories
<1>7. (Directories(entries) \ D) \union {p} = Directories(entries) \ (D \ {p}) /\ p \notin Directories(entries) \ D
  BY <1>1
<1>8. Holds(Append(order, new[p].cid), FileBlocks(V), (Directories(entries) \ D) \union {p}, new)
  BY <1>6, <1>7, HeldAppend
<1>9. QED
  BY <1>2, <1>4, <1>5, <1>7, <1>8 DEF c, new

\* A directory's block that was made leaves the list when it is pruned.
LEMMA UnlistedWhenPruned ==
  ASSUME NEW V, Tree(V), Contents(V), NEW entries, NEW D, Pruning(V, entries, D), NEW p \in D,
         NEW order, Holds(order, FileBlocks(V), Directories(entries) \ (Barren(V) \ D), entries),
         NEW index, FilesIndexed(V, index)
  PROVE  LET parent == IF entries[p].path = << >> THEN ROOT ELSE entries[p].path
             new == [entries EXCEPT ![parent] = WithChildren(@, RemoveFirst(@.children, p))]
             at == Position(order, entries[p].cid)
         IN  /\ Directories(new) = Directories(entries) /\ at # 0
             /\ Holds(RemoveAt(order, at), FileBlocks(V), Directories(new) \ (Barren(V) \ (D \ {p})), new)
             /\ FilesIndexed(V, Without(index, entries[p].cid))
<1> DEFINE parent == IF entries[p].path = << >> THEN ROOT ELSE entries[p].path
           new == [entries EXCEPT ![parent] = WithChildren(@, RemoveFirst(@.children, p))]
           E == Directories(entries) \ (Barren(V) \ D)
           at == Position(order, entries[p].cid)
<1>1. parent \in DOMAIN entries /\ Pruning(V, new, D \ {p}) /\ \A q \in DOMAIN entries : new[q].cid = entries[q].cid
  BY DirectoryPruned
<1> HIDE DEF new, parent
<1>2. Directories(new) = Directories(entries)
  BY <1>1, DirectoriesListed DEF Pruning
<1>3. PICK d \in V : d.path = p /\ d.isDir /\ p \in Barren(V)
  BY DEF Pruning, Barren
<1>4. p \in Directories(entries)
  BY <1>3, DirectoriesListed DEF Pruning
<1>5. entries[p].cid \notin FileBlocks(V)
  <2>1. PICK h : FirstCids(V, h, entries, Directories(entries))
    BY DEF Pruning
  <2>2. entries[p].cid = h[d] /\ h[d] = DirCid(LinksBy(h, Inside(V, d.path) \intersect V))
    BY <1>3, <1>4, <2>1 DEF FirstCids, Hashed
  <2>3. QED
    BY <2>2, FileBlocksDiffer
<1>6. FilesIndexed(V, Without(index, entries[p].cid))
  BY <1>5, FilesStayIndexed
<1>7. p \in E /\ E \ {p} = Directories(entries) \ (Barren(V) \ (D \ {p}))
  BY <1>3, <1>4
<1>8. \A q \in E \ {p} : new[q].cid = entries[q].cid
  BY <1>1 DEF Directories
<1> HIDE DEF E
<1>9. Holds(order, FileBlocks(V), E, entries)
  BY DEF E
<1>10. at # 0 /\ Holds(RemoveAt(order, at), FileBlocks(V), E \ {p}, new)
  BY <1>5, <1>7, <1>8, <1>9, HeldRemove
<1> HIDE DEF at
<1>11. QED
  BY <1>2, <1>6, <1>7, <1>10 DEF new, parent, at

\* What the first CID of a directory tells when its block is made again.
LEMMA FirstCidGone ==
  ASSUME NEW V, Tree(V), NEW entries, NEW D, Remaking(V, entries, D), NEW p \in Deepest(D), p # ROOT,
         NEW c, c = DirectoryBlock(entries, entries[p])
  PROVE  /\ \E links : entries[p].cid = DirCid(links)
         /\ p \notin Barren(V) => \A d \in Directories(entries) \ (Barren(V) \union D) :
                                    entries[d].cid = entries[p].cid => c = entries[p].cid
         /\ p \in Barren(V) => \A d \in Directories(entries) \ Barren(V) : entries[d].cid # entries[p].cid
<1> DEFINE block == DirectoryBlock(entries, entries[p])
           new == [entries EXCEPT ![p] = WithCid(@, block)]
           S == Settled(V, D \ {p})
           g == CidsIn(V, new)
<1>1. p \in D /\ D \subseteq Directories(entries) /\ Listing(entries, V, Barren(V))
  BY DEF Deepest, Remaking, Loop
<1>2. Directories(entries) = {ROOT} \union {it.path : it \in {x \in V : x.isDir}}
  BY <1>1, DirectoriesListed
<1>3. PICK x \in V : x.path = p /\ x.isDir
  BY <1>1, <1>2
<1>4. /\ Remaking(V, new, D \ {p})
      /\ new[p].cid = c
      /\ \A q \in DOMAIN entries : q # p => new[q] = entries[q]
  <2>1. Remaking(V, new, D \ {p})
    BY DirectoryRemade
  <2>2. new[p].cid = block
    <3>1. p \in DOMAIN entries /\ IsEntry(entries[p])
      BY <1>1, <1>3 DEF Listing, EntryFor
    <3>2. WithCid(entries[p], block).cid = block
      BY <3>1, CidReplaced
    <3>3. QED
      BY <3>1, <3>2
  <2>3. \A q \in DOMAIN entries : q # p => new[q] = entries[q]
    BY DirectoryRemade
  <2> HIDE DEF new
  <2>4. QED
    BY <2>1, <2>2, <2>3
<1> HIDE DEF new
<1>5. Hashed(V, S, WithFiles(V), g)
  BY <1>4, SettledHashed, KeptWithFiles DEF Remaking
<1>6. PICK h : FirstCids(V, h, entries, D)
  BY DEF Remaking
<1>7. Hashed(V, V, V, h)
  BY <1>6 DEF FirstCids
<1>8. entries[p].cid = h[x] /\ \E links : h[x] = DirCid(links)
  BY <1>1, <1>3, <1>6 DEF FirstCids, Hashed
<1>9. g[x] = c /\ x \in S
  BY <1>3, <1>4 DEF CidsIn, Settled
<1>10. ASSUME NEW d \in Directories(entries) \ (Barren(V) \union D)
       PROVE  \E y \in S : y.path = d /\ y.isDir /\ HasFile(V, d) /\ entries[d].cid = g[y]
  <2>1. d # ROOT
    BY <1>10 DEF Remaking, Loop
  <2>2. PICK y \in V : y.path = d /\ y.isDir
    BY <1>2, <1>10, <2>1
  <2>3. HasFile(V, d)
    BY <1>10, <2>2 DEF Barren
  <2>4. y \in S /\ d # p
    BY <1>1, <1>10, <2>2 DEF Settled
  <2>5. g[y] = entries[d].cid
    BY <1>4, <1>10, <2>2, <2>4 DEF CidsIn, Directories
  <2>6. QED
    BY <2>2, <2>3, <2>4, <2>5
<1> HIDE DEF S, g
<1>11. ASSUME p \notin Barren(V), NEW d \in Directories(entries) \ (Barren(V) \union D), entries[d].cid = entries[p].cid
       PROVE  c = entries[p].cid
  <2>1. PICK y \in S : y.path = d /\ HasFile(V, y.path) /\ entries[d].cid = g[y]
    BY <1>10, <1>11
  <2>2. g[x] = h[x]
    BY <1>5, <1>7, <1>8, <1>9, <1>11, <2>1, MadeTheSame
  <2>3. QED
    BY <1>8, <1>9, <2>2
<1>12. ASSUME p \in Barren(V), NEW d \in Directories(entries) \ Barren(V) PROVE entries[d].cid # h[x]
  <2>1. ~HasFile(V, x.path)
    BY <1>3, <1>12 DEF Barren, Tree
  <2>2. CASE d = ROOT
    BY <1>6, <1>7, <2>2, NotTheRoot DEF FirstCids
  <2>3. CASE d # ROOT /\ d \in D
    <3>1. PICK y \in V : y.path = d /\ y.isDir
      BY <1>2, <1>12, <2>3
    <3>2. HasFile(V, y.path) /\ entries[d].cid = h[y]
      BY <1>6, <1>12, <2>3, <3>1 DEF Barren, FirstCids
    <3>3. WithFiles(V) \subseteq V
      BY DEF WithFiles
    <3>4. h[x] = h[y] => HasFile(V, x.path)
      BY <1>7, <3>1, <3>2, <3>3, SameFiles
    <3>5. QED
      BY <2>1, <3>2, <3>4
  <2>4. CASE d \notin D
    <3>1. PICK y \in S : HasFile(V, y.path) /\ entries[d].cid = g[y]
      BY <1>10, <1>12, <2>4
    <3>2. h[x] = g[y] => HasFile(V, x.path)
      BY <1>5, <1>7, <3>1, SameFiles
    <3>3. QED
      BY <2>1, <3>1, <3>2
  <2>5. QED
    BY <2>2, <2>3, <2>4
<1>13. QED
  BY <1>8, <1>11, <1>12

\* The new CID of a directory takes the place of the old one, if it is listed.
LEMMA RelistedInPlace ==
  ASSUME NEW order, NEW F, NEW E, NEW entries, Holds(order, F, E, entries),
         NEW p, entries[p].cid \notin F, NEW new, \A q \in E \ {p} : new[q].cid = entries[q].cid,
         NEW appended \in BOOLEAN,
         p \notin E => ~appended /\ \A d \in E : entries[d].cid # entries[p].cid
  PROVE  Holds(Relisted(order, Position(order, entries[p].cid), appended, new[p].cid), F, E, new)
<1> DEFINE at == Position(order, entries[p].cid)
<1>1. CASE p \in E
  <2>1. at # 0 /\ Holds(ReplaceAt(order, at, new[p].cid), F, E, new)
    BY <1>1, HeldReplace
  <2> HIDE DEF at
  <2>2. QED
    BY <2>1 DEF Relisted, at
<1>2. CASE p \notin E
  <2>1. entries[p].cid \notin ToSet(order)
    BY <1>2, HeldBlocks
  <2>2. at = 0
    BY <2>1, PositionOfNone DEF Holds
  <2> HIDE DEF at
  <2>3. Relisted(order, at, appended, new[p].cid) = order
    BY <1>2, <2>2 DEF Relisted
  <2>4. Holds(order, F, E, new)
    BY <1>2, HeldSame
  <2>5. QED
    BY <2>3, <2>4 DEF at
<1>3. QED
  BY <1>1, <1>2

\* A directory without files has lost all of its children.
LEMMA BarrenHasNoChildren ==
  ASSUME NEW V, Tree(V), NEW entries, Listing(entries, V, Barren(V)), NEW p \in Barren(V)
  PROVE  entries[p].children = << >>
<1>1. PICK it \in V : it.path = p /\ it.isDir /\ ~HasFile(V, p)
  BY DEF Barren
<1>2. ASSUME NEW k \in Inside(V, p) PROVE k.path \in Barren(V)
  <2>1. k \in V
    BY DEF Inside
  <2>2. ~HasFile(V, k.path)
    BY <1>1, FileBelow
  <2>3. k.isDir
    BY <2>1, <2>2, FileHasFile
  <2>4. QED
    BY <2>1, <2>2, <2>3 DEF Barren
<1>3. ToSet(entries[p].children) = {} /\ IsList(entries[p].children)
  <2>1. ToSet(entries[p].children) = {k.path : k \in Inside(V, p)} \ Barren(V) /\ IsList(entries[p].children)
    BY <1>1 DEF Listing, IsSetList
  <2>2. QED
    BY <1>2, <2>1
<1>4. DOMAIN entries[p].children = {} /\ Len(entries[p].children) \in Nat
      /\ DOMAIN entries[p].children = 1..Len(entries[p].children)
  BY <1>3, ListProperties DEF ToSet
<1>5. Len(entries[p].children) = 0
  <2>1. ASSUME NEW n \in Nat, n # 0 PROVE 1 \in 1..n
    BY <2>1
  <2>2. QED
    BY <1>4, <2>1
<1>6. QED
  BY <1>3, <1>5, EmptySeq DEF IsList

\* A directory's block replaces the one it had before the pruning.
LEMMA RelistedWhenRemade ==
  ASSUME NEW V, Tree(V), Contents(V), NEW entries, NEW D, Remaking(V, entries, D), NEW p \in Deepest(D), p # ROOT,
         NEW order, Holds(order, FileBlocks(V), Directories(entries) \ Barren(V), entries),
         NEW index, FilesIndexed(V, index), DirsIndexed(entries, Barren(V), D, index)
  PROVE  LET e == entries[p]
             c == DirectoryBlock(entries, e)
             new == [entries EXCEPT ![p] = WithCid(@, c)]
             relisted == Relisted(order, Position(order, e.cid), e.children # << >>, c)
             reindexed == Reindexed(index, e.cid, c, p)
         IN  /\ Directories(new) = Directories(entries)
             /\ Holds(relisted, FileBlocks(V), Directories(entries) \ Barren(V), new)
             /\ FilesIndexed(V, reindexed)
             /\ DirsIndexed(new, Barren(V), D \ {p}, reindexed)
<1> DEFINE c == DirectoryBlock(entries, entries[p])
           new == [entries EXCEPT ![p] = WithCid(@, c)]
           old == entries[p].cid
           E == Directories(entries) \ Barren(V)
           appended == entries[p].children # << >>
<1>1. p \in D /\ D \subseteq Directories(entries) /\ Listing(entries, V, Barren(V))
  BY DEF Deepest, Remaking, Loop
<1>2. Remaking(V, new, D \ {p})
  BY DirectoryRemade
<1>3. \A q \in DOMAIN entries : q # p => new[q] = entries[q]
  BY DirectoryRemade
<1>4. new[p].cid = c
  <2>1. p \in DOMAIN entries /\ IsEntry(entries[p])
    <3>1. \E it \in V : it.path = p
      BY <1>1, DirectoriesListed
    <3>2. QED
      BY <1>1, <3>1 DEF Listing, EntryFor
  <2>2. WithCid(entries[p], c).cid = c
    BY <2>1, CidReplaced
  <2>3. QED
    BY <2>1, <2>2
<1>5. c \notin FileBlocks(V)
  BY FileBlocksDiffer DEF DirectoryBlock
<1>6. /\ \E links : old = DirCid(links)
      /\ p \notin Barren(V) => \A d \in Directories(entries) \ (Barren(V) \union D) : entries[d].cid = old => c = old
      /\ p \in Barren(V) => \A d \in E : entries[d].cid # old
  <2>1. c = DirectoryBlock(entries, entries[p])
    OBVIOUS
  <2> HIDE DEF c
  <2>2. QED
    BY <2>1, FirstCidGone
<1> HIDE DEF new, c
<1>7. Directories(new) = Directories(entries)
  BY <1>1, <1>2, DirectoriesListed DEF Remaking, Loop
<1>8. old \notin FileBlocks(V)
  BY <1>6, FileBlocksDiffer
<1>9. FilesIndexed(V, Reindexed(index, old, c, p))
  BY <1>5, <1>8, FilesStayIndexed
<1>10. DirsIndexed(new, Barren(V), D \ {p}, Reindexed(index, old, new[p].cid, p))
  <2>1. \A d \in Directories(entries) \ (Barren(V) \union D) : entries[d].cid = old => new[p].cid = old
    BY <1>4, <1>6
  <2>2. \A q \in Directories(entries) : q # p => new[q].cid = entries[q].cid
    BY <1>3 DEF Directories
  <2> HIDE DEF old
  <2>3. QED
    BY <1>1, <1>7, <2>1, <2>2, DirectoryReindexed
<1>11. Holds(Relisted(order, Position(order, old), appended, new[p].cid), FileBlocks(V), E, new)
  <2>1. \A q \in E \ {p} : new[q].cid = entries[q].cid
    BY <1>3 DEF Directories
  <2>2. p \notin E => ~appended /\ \A d \in E : entries[d].cid # old
    <3>1. p \notin E => p \in Barren(V)
      BY <1>1
    <3>2. QED
      BY <1>1, <1>6, <3>1, BarrenHasNoChildren
  <2>3. appended \in BOOLEAN
    OBVIOUS
  <2> HIDE DEF E, appended
  <2>4. Holds(order, FileBlocks(V), E, entries)
    BY DEF E
  <2>5. QED
    BY <1>8, <2>1, <2>2, <2>3, <2>4, RelistedInPlace
<1>12. QED
  BY <1>4, <1>7, <1>9, <1>10, <1>11 DEF c, new

-----------------------------------------------------------------------------
(* The summary that is published. *)

\* All CIDs are final, and the blocks are listed and indexed.
Finished(V, entries, order, index) ==
  /\ Listing(entries, V, Barren(V))
  /\ Hashed(V, V, WithFiles(V), CidsIn(V, entries))
  /\ entries[ROOT].cid = DirCid(LinksBy(CidsIn(V, entries), Inside(V, << >>)))
  /\ Holds(order, FileBlocks(V), Directories(entries) \ Barren(V), entries)
  /\ FilesIndexed(V, index)
  /\ DirsIndexed(entries, Barren(V), {}, index)

\* The block of the virtual root is made again, after all others.
LEMMA FinishedWithRoot ==
  ASSUME NEW V, Tree(V), Contents(V), NEW entries, Remaking(V, entries, {ROOT}),
         NEW order, Holds(order, FileBlocks(V), Directories(entries) \ Barren(V), entries),
         NEW index, FilesIndexed(V, index), DirsIndexed(entries, Barren(V), {ROOT}, index),
         NEW appended \in BOOLEAN
  PROVE  LET e == entries[ROOT]
             c == DirectoryBlock(entries, e)
             new == [entries EXCEPT ![ROOT] = WithCid(@, c)]
         IN  Finished(V, new, Relisted(order, Position(order, e.cid), appended, c), Reindexed(index, e.cid, c, ROOT))
<1> DEFINE c == DirectoryBlock(entries, entries[ROOT])
           new == [entries EXCEPT ![ROOT] = WithCid(@, c)]
           old == entries[ROOT].cid
           E == Directories(entries) \ Barren(V)
           g == CidsIn(V, entries)
<1>1. Listing(entries, V, Barren(V))
  BY DEF Remaking, Loop
<1>2. /\ Listing(new, V, Barren(V))
      /\ \A q \in DOMAIN entries : q # ROOT => new[q] = entries[q]
  BY <1>1, CidListing
<1>3. new[ROOT].cid = c
  <2>1. ROOT \in DOMAIN entries /\ IsEntry(entries[ROOT])
    BY <1>1 DEF Listing, EntryFor
  <2>2. WithCid(entries[ROOT], c).cid = c
    BY <2>1, CidReplaced
  <2>3. QED
    BY <2>1, <2>2
<1>4. Hashed(V, V, WithFiles(V), g) /\ c = DirCid(LinksTo(entries, Inside(V, << >>)))
  BY AllRemade
<1>5. c \notin FileBlocks(V)
  BY FileBlocksDiffer DEF DirectoryBlock
<1> HIDE DEF new, c
<1>6. \A it \in V : it.path # ROOT /\ it.path \in DOMAIN entries
  BY <1>1 DEF Tree, Listing
<1>7. CidsIn(V, new) = g
  BY <1>2, <1>6 DEF CidsIn
<1>8. c = DirCid(LinksBy(g, Inside(V, << >>)))
  <2>1. Inside(V, << >>) \subseteq V
    BY DEF Inside
  <2>2. QED
    BY <1>4, <2>1, LinksToCids
<1>9. Directories(new) = Directories(entries) /\ ROOT \in Directories(entries)
  BY <1>1, <1>2, DirectoriesListed
<1>10. PICK h : Hashed(V, V, V, h) /\ old = DirCid(LinksBy(h, Inside(V, << >>)))
  BY DEF Remaking, FirstCids
<1>11. old \notin FileBlocks(V)
  BY <1>10, FileBlocksDiffer
<1>12. ROOT \in E
  BY <1>6, <1>9 DEF Barren
<1>13. ASSUME NEW d \in Directories(entries) \ (Barren(V) \union {ROOT}) PROVE entries[d].cid # old
  <2>1. PICK y \in V : y.path = d /\ y.isDir
    BY <1>1, DirectoriesListed
  <2>2. HasFile(V, y.path) /\ entries[d].cid = g[y]
    BY <2>1 DEF Barren, CidsIn
  <2> HIDE DEF g
  <2>3. g[y] # DirCid(LinksBy(h, Inside(V, << >>)))
    BY <1>4, <1>10, <2>2, NeverTheRoot
  <2>4. QED
    BY <1>10, <2>2, <2>3
<1>14. DirsIndexed(new, Barren(V), {ROOT} \ {ROOT}, Reindexed(index, old, new[ROOT].cid, ROOT))
  <2>1. \A q \in Directories(entries) : q # ROOT => new[q].cid = entries[q].cid
    BY <1>2 DEF Directories
  <2>2. ROOT \in {ROOT}
    OBVIOUS
  <2> HIDE DEF old
  <2>3. \A d \in Directories(entries) \ (Barren(V) \union {ROOT}) : entries[d].cid = old => new[ROOT].cid = old
    BY <1>13
  <2>4. QED
    BY <1>9, <2>1, <2>2, <2>3, DirectoryReindexed
<1>15. {ROOT} \ {ROOT} = {}
  OBVIOUS
<1>16. Holds(Relisted(order, Position(order, old), appended, new[ROOT].cid), FileBlocks(V), E, new)
  <2>1. \A q \in E \ {ROOT} : new[q].cid = entries[q].cid
    BY <1>2 DEF Directories
  <2> HIDE DEF E
  <2>2. Holds(order, FileBlocks(V), E, entries)
    BY DEF E
  <2>3. QED
    BY <1>11, <1>12, <2>1, <2>2, RelistedInPlace
<1>17. FilesIndexed(V, Reindexed(index, old, c, ROOT))
  BY <1>5, <1>11, FilesStayIndexed
<1> HIDE DEF g
<1>18. QED
  BY <1>2, <1>3, <1>4, <1>7, <1>8, <1>9, <1>14, <1>15, <1>16, <1>17 DEF Finished, new, c

\* A directory's block can be made again from its entry.
LEMMA DirectoriesRebuilt ==
  ASSUME NEW V, Tree(V), NEW entries, NEW order, NEW index, Finished(V, entries, order, index),
         NEW d \in Directories(entries)
  PROVE  DirectoryBlock(entries, entries[d]) = entries[d].cid
<1> DEFINE g == CidsIn(V, entries)
<1>1. Listing(entries, V, Barren(V)) /\ Hashed(V, V, WithFiles(V), g)
  BY DEF Finished
<1>2. \A k \in V : g[k] = entries[k.path].cid
  BY DEF CidsIn
<1> HIDE DEF g
<1>3. \A k \in V : g[k] # Undef
  BY <1>1, CidsDefined DEF Hashed
<1>4. CASE d = ROOT
  <2>1. Inside(V, << >>) \subseteq V
    BY DEF Inside
  <2>2. \A k \in Inside(V, << >>) : ~k.isDir => entries[k.path].cid # Undef
    BY <1>2, <1>3, <2>1
  <2>3. DirectoryBlock(entries, entries[ROOT]) = DirCid(LinksTo(entries, Inside(V, << >>)))
    BY <1>1, <2>2, RootBlockIs
  <2>4. LinksTo(entries, Inside(V, << >>)) = LinksBy(g, Inside(V, << >>))
    BY <2>1, LinksToCids DEF g
  <2>5. QED
    BY <1>4, <2>3, <2>4 DEF Finished, g
<1>5. CASE d # ROOT
  <2> DEFINE K == Inside(V, d) \intersect WithFiles(V)
  <2>1. PICK it \in V : it.path = d /\ it.isDir
    BY <1>1, <1>5, DirectoriesListed
  <2>2. \A k \in Inside(V, it.path) : entries[k.path].cid # Undef
    BY <1>2, <1>3 DEF Inside
  <2>3. DirectoryBlock(entries, entries[it.path]) =
          DirCid(LinksTo(entries, Inside(V, it.path) \intersect Kept(V, Barren(V))))
    BY <1>1, <2>1, <2>2, DirectoryBlockIs
  <2>4. Inside(V, it.path) \intersect Kept(V, Barren(V)) = K
    BY <2>1, KeptWithFiles
  <2>5. K \subseteq V
    BY DEF Inside
  <2>6. LinksTo(entries, K) = LinksBy(g, K)
    BY <2>5, LinksToCids DEF g
  <2>7. g[it] = DirCid(LinksBy(g, K))
    BY <1>1, <2>1 DEF Hashed
  <2>8. QED
    BY <1>2, <2>1, <2>3, <2>4, <2>6, <2>7
<1>6. QED
  BY <1>4, <1>5

\* Every block listed can be made again from the entry it is indexed under.
LEMMA BlocksRebuilt ==
  ASSUME NEW V, Tree(V), NEW entries, NEW order, NEW index, Finished(V, entries, order, index),
         NEW c \in ToSet(order)
  PROVE  /\ c \in DOMAIN index
         /\ IF entries[index[c]].isDir THEN DirectoryBlock(entries, entries[index[c]]) = c
            ELSE \E it \in V : it.path = index[c] /\ c \in ToSet(TraversalOrder(it.content))
<1>1. c \in FileBlocks(V) \union {entries[d].cid : d \in Directories(entries) \ Barren(V)}
  BY HeldBlocks DEF Finished
<1>2. CASE c \in FileBlocks(V)
  <2>1. c \in DOMAIN index
    BY <1>2 DEF Finished, FilesIndexed
  <2>2. PICK it \in V : ~it.isDir /\ it.path = index[c] /\ c \in ToSet(TraversalOrder(it.content))
    BY <1>2 DEF Finished, FilesIndexed
  <2>3. entries[it.path].isDir = it.isDir
    BY DEF Finished, Listing, EntryFor
  <2>4. QED
    BY <2>1, <2>2, <2>3
<1>3. ASSUME NEW d \in Directories(entries) \ Barren(V), c = entries[d].cid
      PROVE  c \in DOMAIN index /\ entries[index[c]].isDir /\ DirectoryBlock(entries, entries[index[c]]) = c
  <2>1. c \in DOMAIN index /\ index[c] \in Directories(entries) /\ entries[index[c]].cid = c
    BY <1>3 DEF Finished, DirsIndexed
  <2>2. DirectoryBlock(entries, entries[index[c]]) = entries[index[c]].cid
    BY <2>1, DirectoriesRebuilt
  <2>3. entries[index[c]].isDir
    BY <2>1 DEF Directories
  <2>4. QED
    BY <2>1, <2>2, <2>3
<1>4. QED
  BY <1>1, <1>2, <1>3

-----------------------------------------------------------------------------
(* The DAG under a block. *)

\* The blocks at each depth and above, as Under defines them.
IsLevels(level, c, n) ==
  level = [i \in 0..n |-> IF i = 0 THEN {c}
                          ELSE level[i - 1] \union UNION {Links(x) : x \in level[i - 1]}]

LEMMA LevelsExist ==
  ASSUME NEW c, NEW n \in Nat
  PROVE  \E level : IsLevels(level, c, n)
<1> DEFINE Bad == {m \in Nat : ~\E level : IsLevels(level, c, m)}
<1>1. SUFFICES Bad = {}
  OBVIOUS
<1>2. SUFFICES ASSUME Bad # {} PROVE FALSE
  OBVIOUS
<1>3. PICK m \in Bad : \A k \in Bad : m <= k
  <2>1. Bad \in SUBSET Nat
    OBVIOUS
  <2> HIDE DEF Bad
  <2>2. QED
    BY <1>2, <2>1, MinExists
<1>4. CASE m = 0
  <2> DEFINE level == [i \in 0..0 |-> {c}]
  <2>1. level = [i \in 0..0 |-> IF i = 0 THEN {c} ELSE level[i - 1] \union UNION {Links(x) : x \in level[i - 1]}]
    <3>1. \A i \in 0..0 : i = 0
      OBVIOUS
    <3>2. QED
      BY <3>1
  <2>2. IsLevels(level, c, 0)
    BY <2>1 DEF IsLevels
  <2>3. QED
    BY <1>4, <2>2
<1>5. CASE m # 0
  <2>1. m - 1 \in Nat /\ m - 1 \notin Bad
    BY <1>3, <1>5
  <2>2. PICK f : IsLevels(f, c, m - 1)
    BY <2>1
  <2> HIDE DEF Bad
  <2>3. \A i \in 0..(m - 1) : f[i] = IF i = 0 THEN {c} ELSE f[i - 1] \union UNION {Links(x) : x \in f[i - 1]}
    BY <2>2 DEF IsLevels
  <2> DEFINE last == f[m - 1] \union UNION {Links(x) : x \in f[m - 1]}
             level == [i \in 0..m |-> IF i = m THEN last ELSE f[i]]
  <2>4. m \in Nat
    BY <1>3 DEF Bad
  <2>5. \A i \in 0..m : level[i] = IF i = m THEN last ELSE f[i]
    OBVIOUS
  <2>6. ASSUME NEW i \in 0..m
        PROVE  level[i] = IF i = 0 THEN {c} ELSE level[i - 1] \union UNION {Links(x) : x \in level[i - 1]}
    <3>1. CASE i = m
      <4>1. i # 0 /\ m - 1 \in 0..m /\ m - 1 # m
        BY <1>5, <2>4, <3>1
      <4>2. level[i - 1] = f[m - 1]
        BY <2>5, <3>1, <4>1
      <4>3. level[i] = last
        BY <2>5, <3>1
      <4> HIDE DEF level
      <4>4. QED
        BY <3>1, <4>1, <4>2, <4>3
    <3>2. CASE i # m /\ i = 0
      <4>1. 0 \in 0..(m - 1)
        BY <1>5, <2>4
      <4>2. level[i] = f[0]
        BY <2>5, <3>2
      <4> HIDE DEF level
      <4>3. f[0] = {c}
        BY <2>3, <4>1
      <4>4. QED
        BY <3>2, <4>2, <4>3
    <3>3. CASE i # m /\ i # 0
      <4>1. i \in 0..(m - 1) /\ i - 1 \in 0..m /\ i - 1 # m
        BY <2>4, <3>3
      <4>2. level[i] = f[i] /\ level[i - 1] = f[i - 1]
        BY <2>5, <3>3, <4>1
      <4> HIDE DEF level
      <4>3. f[i] = f[i - 1] \union UNION {Links(x) : x \in f[i - 1]}
        BY <2>3, <3>3, <4>1
      <4>4. QED
        BY <3>3, <4>2, <4>3
    <3>4. QED
      BY <3>1, <3>2, <3>3
  <2>7. level = [i \in 0..m |-> level[i]]
    OBVIOUS
  <2> HIDE DEF level, last
  <2>8. IsLevels(level, c, m)
    BY <2>6, <2>7 DEF IsLevels
  <2>9. QED
    BY <1>3, <2>8 DEF Bad
<1>6. QED
  BY <1>4, <1>5

\* Under is the last of the levels.
LEMMA UnderIs ==
  ASSUME NEW c, NEW n \in Nat
  PROVE  \E level : IsLevels(level, c, n) /\ Under(c, n) = level[n]
<1> DEFINE level == CHOOSE f : IsLevels(f, c, n)
<1>1. IsLevels(level, c, n)
  BY LevelsExist
<1>2. Under(c, n) = level[n]
  BY DEF Under, IsLevels
<1>3. QED
  BY <1>1, <1>2

LEMMA LevelsBegin ==
  ASSUME NEW c, NEW n \in Nat, NEW level, IsLevels(level, c, n)
  PROVE  level[0] = {c}
<1>1. 0 \in 0..n
  OBVIOUS
<1>2. QED
  BY <1>1 DEF IsLevels

LEMMA LevelsStep ==
  ASSUME NEW c, NEW n \in Nat, NEW level, IsLevels(level, c, n), NEW i \in 1..n
  PROVE  level[i] = level[i - 1] \union UNION {Links(x) : x \in level[i - 1]}
<1>1. i \in 0..n /\ i # 0
  OBVIOUS
<1>2. QED
  BY <1>1 DEF IsLevels

\* A level has the ones above it.
LEMMA LevelsGrow ==
  ASSUME NEW c, NEW n \in Nat, NEW level, IsLevels(level, c, n), NEW i \in 0..n
  PROVE  level[i] \subseteq level[n]
<1> DEFINE Bad == {m \in Nat : i <= m /\ m <= n /\ ~(level[i] \subseteq level[m])}
<1>1. SUFFICES ASSUME Bad # {} PROVE FALSE
  OBVIOUS
<1>2. PICK m \in Bad : \A k \in Bad : m <= k
  <2>1. Bad \in SUBSET Nat
    OBVIOUS
  <2> HIDE DEF Bad
  <2>2. QED
    BY <1>1, <2>1, MinExists
<1>3. m # i
  OBVIOUS
<1>4. m - 1 \in Nat /\ i <= m - 1 /\ m - 1 <= n /\ m - 1 \notin Bad /\ m \in 1..n
  BY <1>2, <1>3
<1>5. level[i] \subseteq level[m - 1]
  BY <1>4
<1>6. level[m - 1] \subseteq level[m]
  BY <1>4, LevelsStep
<1>7. ~(level[i] \subseteq level[m])
  OBVIOUS
<1>8. QED
  BY <1>5, <1>6, <1>7

\* Whatever has c, and what its elements link to, has the DAG under c.
LEMMA UnderIsLeast ==
  ASSUME NEW c, NEW n \in Nat, NEW X, c \in X, \A x \in X : Links(x) \subseteq X
  PROVE  Under(c, n) \subseteq X
<1>1. PICK level : IsLevels(level, c, n) /\ Under(c, n) = level[n]
  BY UnderIs
<1> DEFINE Bad == {m \in Nat : m <= n /\ ~(level[m] \subseteq X)}
<1>2. SUFFICES ASSUME Bad # {} PROVE FALSE
  BY <1>1
<1>3. PICK m \in Bad : \A k \in Bad : m <= k
  <2>1. Bad \in SUBSET Nat
    OBVIOUS
  <2> HIDE DEF Bad
  <2>2. QED
    BY <1>2, <2>1, MinExists
<1>4. m # 0
  <2>1. level[0] \subseteq X
    <3>1. level[0] = {c}
      BY <1>1, LevelsBegin
    <3>2. QED
      BY <3>1
  <2>2. QED
    BY <2>1
<1>5. m - 1 \in Nat /\ m - 1 <= n /\ m - 1 \notin Bad /\ m \in 1..n
  BY <1>3, <1>4
<1>6. level[m - 1] \subseteq X
  BY <1>5
<1>7. level[m] = level[m - 1] \union UNION {Links(x) : x \in level[m - 1]}
  BY <1>1, <1>5, LevelsStep
<1>8. ~(level[m] \subseteq X)
  OBVIOUS
<1> HIDE DEF Bad
<1>9. QED
  BY <1>6, <1>7, <1>8

\* The links of a block.
LEMMA LinksOfBlocks ==
  /\ \A links : Links(DirCid(links)) = {l[2] : l \in links}
  /\ \A content : Len(content) # 1 => Links(FileCid(content)) = {Leaf(content[i]) : i \in DOMAIN content}
  /\ \A chunk : Links(Leaf(chunk)) = {}
<1>1. ASSUME NEW links PROVE Links(DirCid(links)) = {l[2] : l \in links}
  BY DEF Links, DirCid
<1>2. ASSUME NEW content, Len(content) # 1
      PROVE Links(FileCid(content)) = {Leaf(content[i]) : i \in DOMAIN content}
  BY <1>2 DEF Links, FileCid
<1>3. ASSUME NEW chunk PROVE Links(Leaf(chunk)) = {}
  BY DEF Links, Leaf
<1>4. QED
  BY <1>1, <1>2, <1>3

\* The blocks of a file are its root and what it links to.
LEMMA FileIsItsLinks ==
  ASSUME NEW content, IsList(content)
  PROVE  /\ ToSet(TraversalOrder(content)) = {FileCid(content)} \union Links(FileCid(content))
         /\ \A c \in Links(FileCid(content)) : Links(c) = {}
<1>1. ToSet(TraversalOrder(content)) = {FileCid(content)} \union {Leaf(content[i]) : i \in DOMAIN content}
  BY ElementsOfTraversal
<1>2. CASE Len(content) = 1
  <2>1. DOMAIN content = 1..1
    BY <1>2, ListProperties
  <2>2. FileCid(content) = Leaf(content[1])
    BY <1>2 DEF FileCid
  <2>3. {Leaf(content[i]) : i \in DOMAIN content} = {FileCid(content)}
    BY <2>1, <2>2
  <2>4. Links(FileCid(content)) = {}
    BY <2>2, LinksOfBlocks
  <2>5. QED
    BY <1>1, <2>3, <2>4
<1>3. CASE Len(content) # 1
  <2>1. Links(FileCid(content)) = {Leaf(content[i]) : i \in DOMAIN content}
    BY <1>3, LinksOfBlocks
  <2>2. \A chunk : Links(Leaf(chunk)) = {}
    BY LinksOfBlocks
  <2>3. QED
    BY <1>1, <2>1, <2>2
<1>4. QED
  BY <1>2, <1>3

\* What a block that is not too deep links to is in the DAG.
LEMMA LinksUnder ==
  ASSUME NEW c, NEW n \in Nat, NEW level, IsLevels(level, c, n), NEW i \in Nat, i < n, NEW b \in level[i]
  PROVE  Links(b) \subseteq level[i + 1]
<1>1. PICK j \in 1..n : j = i + 1 /\ j - 1 = i
  OBVIOUS
<1>2. level[j] = level[j - 1] \union UNION {Links(x) : x \in level[j - 1]}
  <2>1. j \in 0..n /\ j # 0
    OBVIOUS
  <2>2. QED
    BY <2>1 DEF IsLevels
<1>3. QED
  BY <1>1, <1>2

\* The CID of an entry with files is as deep in the DAG as its path is long.
LEMMA EntriesUnder ==
  ASSUME NEW V, Tree(V), NEW g, Hashed(V, V, WithFiles(V), g), NEW n \in Nat, \A it \in V : Len(it.path) <= n,
         NEW level, IsLevels(level, DirCid(LinksBy(g, Inside(V, << >>))), n), NEW it \in WithFiles(V)
  PROVE  Len(it.path) \in Nat /\ g[it] \in level[Len(it.path)]
<1> DEFINE Bad == {k \in Nat : \E x \in WithFiles(V) : Len(x.path) = k /\ g[x] \notin level[k]}
           root == DirCid(LinksBy(g, Inside(V, << >>)))
<1>1. \A x \in V : IsList(x.path) /\ x.path # << >> /\ Len(x.path) \in Nat \ {0} /\ Len(Front(x.path)) = Len(x.path) - 1
  BY FrontOfList DEF Tree
<1>2. WithFiles(V) \subseteq V
  BY DEF WithFiles
<1>3. SUFFICES ASSUME Bad # {} PROVE FALSE
  BY <1>1, <1>2
<1>4. PICK k \in Bad : \A m \in Bad : k <= m
  <2>1. Bad \in SUBSET Nat
    OBVIOUS
  <2> HIDE DEF Bad
  <2>2. QED
    BY <1>3, <2>1, MinExists
<1>5. PICK x \in WithFiles(V) : Len(x.path) = k /\ g[x] \notin level[k]
  OBVIOUS
<1>6. x \in V /\ k \in Nat \ {0} /\ k <= n /\ k - 1 \in Nat /\ k - 1 < n
  BY <1>1, <1>2, <1>5
<1>7. CASE Front(x.path) = << >>
  <2>1. k = 1
    <3>1. Len(Front(x.path)) = 0
      BY <1>7, EmptySeq
    <3>2. QED
      BY <1>1, <1>5, <1>6, <3>1
  <2>2. x \in Inside(V, << >>)
    BY <1>6, <1>7 DEF Inside
  <2>3. <<x.name, g[x]>> \in LinksBy(g, Inside(V, << >>))
    BY <2>2 DEF LinksBy
  <2>4. g[x] \in Links(root)
    <3>1. Links(root) = {l[2] : l \in LinksBy(g, Inside(V, << >>))}
      BY LinksOfBlocks
    <3>2. <<x.name, g[x]>>[2] = g[x]
      OBVIOUS
    <3>3. QED
      BY <2>3, <3>1, <3>2
  <2> HIDE DEF root
  <2>5. root \in level[0]
    <3>1. level[0] = {root}
      BY LevelsBegin DEF root
    <3>2. QED
      BY <3>1
  <2>6. 0 \in Nat /\ 0 < n /\ 0 + 1 = k
    BY <1>6, <2>1
  <2>7. Links(root) \subseteq level[0 + 1]
    BY <2>5, <2>6, LinksUnder DEF root
  <2>8. QED
    BY <1>5, <2>4, <2>6, <2>7
<1>8. CASE Front(x.path) # << >>
  <2>1. Len(x.path) > 1
    BY <1>1, <1>6, <1>8, FrontOfOne
  <2>2. PICK y \in V : y.isDir /\ y.path = Front(x.path)
    BY <1>6, <2>1 DEF Tree
  <2>3. x \in Inside(V, y.path)
    BY <1>6, <2>2 DEF Inside
  <2>4. HasFile(V, x.path)
    BY <1>5 DEF WithFiles
  <2>5. y \in WithFiles(V)
    BY <2>2, <2>3, <2>4, FileBelow DEF WithFiles
  <2>6. Len(y.path) = k - 1
    BY <1>1, <1>5, <1>6, <2>2
  <2>7. g[y] \in level[k - 1]
    <3>1. k - 1 \notin Bad
      BY <1>4, <1>6
    <3>2. QED
      BY <1>6, <2>5, <2>6, <3>1
  <2>8. <<x.name, g[x]>> \in LinksBy(g, Inside(V, y.path) \intersect WithFiles(V))
    BY <1>5, <2>3 DEF LinksBy
  <2>9. g[x] \in Links(g[y])
    <3>1. g[y] = DirCid(LinksBy(g, Inside(V, y.path) \intersect WithFiles(V)))
      BY <2>2 DEF Hashed
    <3>2. Links(g[y]) = {l[2] : l \in LinksBy(g, Inside(V, y.path) \intersect WithFiles(V))}
      BY <3>1, LinksOfBlocks
    <3>3. <<x.name, g[x]>>[2] = g[x]
      OBVIOUS
    <3>4. QED
      BY <2>8, <3>2, <3>3
  <2>10. Links(g[y]) \subseteq level[(k - 1) + 1]
    BY <1>6, <2>7, LinksUnder
  <2>11. (k - 1) + 1 = k
    BY <1>6
  <2>12. QED
    BY <1>5, <2>9, <2>10, <2>11
<1>9. QED
  BY <1>7, <1>8

\* A file's blocks are in the DAG, one level below it at most.
LEMMA FilesUnder ==
  ASSUME NEW c, NEW n \in Nat, NEW level, IsLevels(level, c, n), NEW i \in Nat, i < n,
         NEW content, IsList(content), FileCid(content) \in level[i]
  PROVE  ToSet(TraversalOrder(content)) \subseteq level[n]
<1>1. Links(FileCid(content)) \subseteq level[i + 1]
  BY LinksUnder
<1>2. i \in 0..n /\ i + 1 \in 0..n
  OBVIOUS
<1>3. level[i] \subseteq level[n] /\ level[i + 1] \subseteq level[n]
  BY <1>2, LevelsGrow
<1>4. QED
  BY <1>1, <1>3, FileIsItsLinks

\* The CID of any entry is that of a block listed, or of the empty directory.
LEMMA EntriesListed ==
  ASSUME NEW V, Tree(V), Contents(V), NEW entries, NEW order, NEW index, Finished(V, entries, order, index),
         NEW k \in V
  PROVE  /\ CidsIn(V, entries)[k] \in ToSet(order) \union {EmptyDir}
         /\ HasFile(V, k.path) => CidsIn(V, entries)[k] \in ToSet(order)
<1> DEFINE g == CidsIn(V, entries)
<1>1. Listing(entries, V, Barren(V)) /\ Hashed(V, V, WithFiles(V), g)
  BY DEF Finished
<1>2. ToSet(order) = FileBlocks(V) \union {entries[d].cid : d \in Directories(entries) \ Barren(V)}
  BY HeldBlocks DEF Finished
<1>3. g[k] = entries[k.path].cid
  BY DEF CidsIn
<1> HIDE DEF g
<1>4. CASE ~k.isDir
  <2>1. g[k] = FileCid(k.content)
    BY <1>1, <1>4 DEF Hashed
  <2>2. IsList(k.content)
    BY DEF Contents
  <2>3. g[k] \in ToSet(TraversalOrder(k.content))
    BY <2>1, <2>2, FileIsItsLinks
  <2>4. QED
    BY <1>2, <1>4, <2>3 DEF FileBlocks, g
<1>5. CASE k.isDir /\ HasFile(V, k.path)
  <2>1. k.path \in Directories(entries)
    BY <1>1, <1>5, DirectoriesListed
  <2>2. k.path \notin Barren(V)
    BY <1>5 DEF Barren
  <2>3. QED
    BY <1>2, <1>3, <2>1, <2>2 DEF g
<1>6. CASE k.isDir /\ ~HasFile(V, k.path)
  <2>1. g[k] = DirCid(LinksBy(g, Inside(V, k.path) \intersect WithFiles(V)))
    BY <1>1, <1>6 DEF Hashed
  <2>2. Inside(V, k.path) \intersect WithFiles(V) = {}
    BY <1>6, FileBelow DEF WithFiles
  <2>3. LinksBy(g, {}) = {}
    BY DEF LinksBy
  <2>4. g[k] = EmptyDir
    BY <2>1, <2>2, <2>3 DEF EmptyDir
  <2>5. QED
    BY <1>6, <2>4 DEF g
<1>7. QED
  BY <1>4, <1>5, <1>6

\* What is listed is the DAG, whatever directories without files it has.
LEMMA ListedIsTheDAG ==
  ASSUME NEW V, Tree(V), Contents(V), NEW entries, NEW order, NEW index, Finished(V, entries, order, index),
         NEW n \in Nat, \A it \in V : Len(it.path) < n
  PROVE  /\ ToSet(order) \subseteq Under(entries[ROOT].cid, n)
         /\ Under(entries[ROOT].cid, n) \ ToSet(order) \subseteq {EmptyDir}
<1> DEFINE g == CidsIn(V, entries)
           root == entries[ROOT].cid
           listed == ToSet(order)
           X == listed \union {EmptyDir}
<1>1. /\ Listing(entries, V, Barren(V)) /\ Hashed(V, V, WithFiles(V), g)
      /\ root = DirCid(LinksBy(g, Inside(V, << >>)))
  BY DEF Finished
<1>2. listed = FileBlocks(V) \union {entries[d].cid : d \in Directories(entries) \ Barren(V)}
  BY HeldBlocks DEF Finished
<1>3. \A k \in V : g[k] = entries[k.path].cid
  BY DEF CidsIn
<1>4. \A k \in V : g[k] \in X
  BY EntriesListed
<1>5. Directories(entries) = {ROOT} \union {it.path : it \in {x \in V : x.isDir}} /\ ROOT \notin Barren(V)
  BY <1>1, DirectoriesListed DEF Barren, Tree
<1> HIDE DEF g, listed, root
<1>6. PICK level : IsLevels(level, root, n) /\ Under(root, n) = level[n]
  BY UnderIs
<1>7. ASSUME NEW it \in V, HasFile(V, it.path)
      PROVE  Len(it.path) \in Nat /\ Len(it.path) < n /\ g[it] \in level[Len(it.path)]
  <2>1. it \in WithFiles(V)
    BY <1>7 DEF WithFiles
  <2>2. IsLevels(level, DirCid(LinksBy(g, Inside(V, << >>))), n)
    BY <1>1, <1>6
  <2>3. \A x \in V : Len(x.path) <= n
    <3>1. \A x \in V : Len(x.path) \in Nat
      BY ListProperties DEF Tree
    <3>2. QED
      BY <3>1
  <2>4. QED
    BY <1>1, <2>1, <2>2, <2>3, EntriesUnder
<1>8. ASSUME NEW c \in listed PROVE c \in level[n]
  <2>1. ASSUME NEW it \in V, ~it.isDir, c \in ToSet(TraversalOrder(it.content)) PROVE c \in level[n]
    <3>1. HasFile(V, it.path)
      BY <2>1, FileHasFile
    <3>2. Len(it.path) \in Nat /\ Len(it.path) < n /\ g[it] \in level[Len(it.path)]
      BY <1>7, <3>1
    <3>3. g[it] = FileCid(it.content) /\ IsList(it.content)
      BY <1>1, <2>1 DEF Hashed, Contents
    <3>4. FileCid(it.content) \in level[Len(it.path)]
      BY <3>2, <3>3
    <3>5. ToSet(TraversalOrder(it.content)) \subseteq level[n]
      BY <1>6, <3>2, <3>3, <3>4, FilesUnder
    <3>6. QED
      BY <2>1, <3>5
  <2>2. CASE c = root
    <3>1. level[0] = {root}
      BY <1>6, LevelsBegin
    <3>2. level[0] \subseteq level[n]
      <4>1. 0 \in 0..n
        OBVIOUS
      <4>2. QED
        BY <1>6, <4>1, LevelsGrow
    <3>3. QED
      BY <2>2, <3>1, <3>2
  <2>3. ASSUME NEW it \in V, it.isDir, it.path \notin Barren(V), c = g[it] PROVE c \in level[n]
    <3>1. HasFile(V, it.path)
      BY <2>3 DEF Barren
    <3>2. Len(it.path) \in Nat /\ Len(it.path) < n /\ g[it] \in level[Len(it.path)]
      BY <1>7, <3>1
    <3>3. Len(it.path) \in 0..n
      BY <3>2
    <3>4. level[Len(it.path)] \subseteq level[n]
      BY <1>6, <3>3, LevelsGrow
    <3>5. QED
      BY <2>3, <3>2, <3>4
  <2>4. CASE c \in FileBlocks(V)
    BY <2>1, <2>4 DEF FileBlocks
  <2>5. ASSUME NEW d \in Directories(entries) \ Barren(V), c = entries[d].cid PROVE c \in level[n]
    <3>1. CASE d = ROOT
      BY <2>2, <2>5, <3>1 DEF root
    <3>2. CASE d # ROOT
      <4>1. PICK it \in V : it.path = d /\ it.isDir
        BY <1>5, <2>5, <3>2
      <4>2. c = g[it]
        BY <1>3, <2>5, <4>1
      <4>3. QED
        BY <2>3, <2>5, <4>1, <4>2
    <3>3. QED
      BY <3>1, <3>2
  <2>6. QED
    BY <1>2, <2>4, <2>5
<1>9. ASSUME NEW x \in X PROVE Links(x) \subseteq X
  <2>1. ASSUME NEW K, K \subseteq V PROVE Links(DirCid(LinksBy(g, K))) \subseteq X
    <3>1. Links(DirCid(LinksBy(g, K))) = {l[2] : l \in LinksBy(g, K)}
      BY LinksOfBlocks
    <3>2. ASSUME NEW l \in LinksBy(g, K) PROVE l[2] \in X
      <4>1. PICK k \in K : l = <<k.name, g[k]>>
        BY DEF LinksBy
      <4>2. l[2] = g[k]
        BY <4>1
      <4>3. k \in V
        BY <2>1
      <4>4. QED
        BY <1>4, <4>2, <4>3
    <3>3. QED
      BY <3>1, <3>2
  <2>2. CASE x \in FileBlocks(V)
    <3>1. PICK it \in V : ~it.isDir /\ x \in ToSet(TraversalOrder(it.content))
      BY <2>2 DEF FileBlocks
    <3>2. IsList(it.content)
      BY DEF Contents
    <3>3. Links(x) \subseteq ToSet(TraversalOrder(it.content))
      BY <3>1, <3>2, FileIsItsLinks
    <3>4. ToSet(TraversalOrder(it.content)) \subseteq FileBlocks(V)
      BY <3>1 DEF FileBlocks
    <3>5. QED
      BY <1>2, <3>3, <3>4
  <2>3. CASE x = root
    <3>1. Inside(V, << >>) \subseteq V
      BY DEF Inside
    <3>2. QED
      BY <1>1, <2>1, <2>3, <3>1
  <2>4. ASSUME NEW it \in V, it.isDir, x = g[it] PROVE Links(x) \subseteq X
    <3>1. g[it] = DirCid(LinksBy(g, Inside(V, it.path) \intersect WithFiles(V)))
      BY <1>1, <2>4 DEF Hashed
    <3>2. Inside(V, it.path) \intersect WithFiles(V) \subseteq V
      BY DEF Inside
    <3>3. QED
      BY <2>1, <2>4, <3>1, <3>2
  <2>5. CASE x = EmptyDir
    <3>1. LinksBy(g, {}) = {}
      BY DEF LinksBy
    <3>2. QED
      BY <2>1, <2>5, <3>1 DEF EmptyDir
  <2>6. ASSUME NEW d \in Directories(entries), x = entries[d].cid PROVE Links(x) \subseteq X
    <3>1. CASE d = ROOT
      BY <2>3, <2>6, <3>1 DEF root
    <3>2. CASE d # ROOT
      <4>1. PICK it \in V : it.path = d /\ it.isDir
        BY <1>5, <2>6, <3>2
      <4>2. x = g[it]
        BY <1>3, <2>6, <4>1
      <4>3. QED
        BY <2>4, <4>1, <4>2
    <3>3. QED
      BY <3>1, <3>2
  <2>7. QED
    BY <1>2, <2>2, <2>5, <2>6
<1>10. root \in X
  BY <1>2, <1>5 DEF root
<1> HIDE DEF X
<1>11. Under(root, n) \subseteq X
  BY <1>9, <1>10, UnderIsLeast
<1>12. listed \subseteq Under(root, n)
  BY <1>6, <1>8
<1>13. QED
  BY <1>11, <1>12 DEF X, listed, root

\* A file that is its own root is all of its DAG.
LEMMA OneFileIsTheDAG ==
  ASSUME NEW content, IsList(content), NEW n \in Nat, 0 < n
  PROVE  Under(FileCid(content), n) = ToSet(TraversalOrder(content))
<1> DEFINE c == FileCid(content)
           X == ToSet(TraversalOrder(content))
<1>1. X = {c} \union Links(c) /\ \A b \in Links(c) : Links(b) = {}
  BY FileIsItsLinks
<1> HIDE DEF X
<1>2. Under(c, n) \subseteq X
  <2>1. c \in X /\ \A b \in X : Links(b) \subseteq X
    BY <1>1
  <2> HIDE DEF c
  <2>2. QED
    BY <2>1, UnderIsLeast
<1>3. PICK level : IsLevels(level, c, n) /\ Under(c, n) = level[n]
  BY UnderIs
<1>4. c \in level[0]
  <2>1. level[0] = {c}
    BY <1>3, LevelsBegin
  <2>2. QED
    BY <2>1
<1>5. X \subseteq level[n]
  <2>1. 0 \in Nat
    OBVIOUS
  <2>2. QED
    BY <1>3, <1>4, <2>1, FilesUnder DEF X
<1>6. QED
  BY <1>2, <1>3, <1>5 DEF X

\* What the walk has listed and indexed, when w is left of it.
FilesListed(t, w, order, index) ==
  LET W == Walked(t, Len(t) - Len(w))
  IN  ToSet(order) = FileBlocks(W) /\ FilesIndexed(W, index)

LEMMA WalkedFurther ==
  ASSUME NEW t \in Trees, NEW w, w # << >>, IsList(w), Len(w) <= Len(t),
         \A i \in 1..Len(w) : w[i] = t[Len(t) - Len(w) + i]
  PROVE  /\ Head(w) \in ToSet(t)
         /\ Walked(t, Len(t) - Len(Tail(w))) =
              Walked(t, Len(t) - Len(w)) \union IF Head(w).path = ROOT THEN {} ELSE {Head(w)}
<1> DEFINE n == Len(t) - Len(w) + 1
<1>1. Len(t) \in Nat /\ DOMAIN t = 1..Len(t)
  <2>1. IsList(t)
    BY TreesAssumption DEF IsList
  <2>2. QED
    BY <2>1, ListProperties
<1>2. w \in Seq(ToSet(w)) /\ Len(w) \in Nat /\ Len(w) # 0
  BY EmptySeq, LenProperties DEF IsList
<1>3. Len(Tail(w)) = Len(w) - 1 /\ Head(w) = w[1]
  BY <1>2, HeadTailProperties
<1>4. n \in 1..Len(t) /\ Len(t) - Len(w) = n - 1 /\ Len(t) - Len(Tail(w)) = n /\ 1 \in 1..Len(w)
  BY <1>1, <1>2, <1>3
<1>5. Head(w) = t[n]
  BY <1>3, <1>4
<1> HIDE DEF n
<1>6. Walked(t, n) = Walked(t, n - 1) \union IF t[n].path = ROOT THEN {} ELSE {t[n]}
  <2>1. 1..n = (1..(n - 1)) \union {n}
    BY <1>1, <1>4
  <2>2. {j \in 1..n : t[j].path # ROOT} = {j \in 1..(n - 1) : t[j].path # ROOT} \union IF t[n].path = ROOT THEN {} ELSE {n}
    BY <2>1
  <2>3. QED
    BY <2>2 DEF Walked
<1>7. Head(w) \in ToSet(t)
  BY <1>1, <1>4, <1>5 DEF ToSet
<1>8. QED
  BY <1>4, <1>5, <1>6, <1>7

\* One step of the walk, that lists what is in the file it visits.
LEMMA FilesListedFurther ==
  ASSUME NEW t \in Trees, NEW w, w # << >>, IsList(w), Len(w) <= Len(t),
         \A i \in 1..Len(w) : w[i] = t[Len(t) - Len(w) + i],
         NEW order, NEW index, IsList(order), FilesListed(t, w, order, index)
  PROVE  /\ Head(w).path = ROOT \/ Head(w).isDir => FilesListed(t, Tail(w), order, index)
         /\ Head(w).path # ROOT /\ ~Head(w).isDir =>
              FilesListed(t, Tail(w), order \o TraversalOrder(Head(w).content), Over(IndexOf(Head(w)), index))
<1> DEFINE it == Head(w)
           W == Walked(t, Len(t) - Len(w))
           X == Walked(t, Len(t) - Len(Tail(w)))
           cids == TraversalOrder(it.content)
<1>1. it \in ToSet(t) /\ X = W \union IF it.path = ROOT THEN {} ELSE {it}
  BY WalkedFurther
<1>2. IsList(it.content)
  BY <1>1, TreesAssumption DEF IsList
<1>3. IsList(cids)
  BY <1>2, TraversalIsList
<1>4. ToSet(order) = FileBlocks(W) /\ FilesIndexed(W, index)
  BY DEF FilesListed
<1>5. FilesListed(t, Tail(w), order, index) <=> ToSet(order) = FileBlocks(X) /\ FilesIndexed(X, index)
  BY DEF FilesListed
<1>6. FilesListed(t, Tail(w), order \o cids, Over(IndexOf(it), index)) <=>
        ToSet(order \o cids) = FileBlocks(X) /\ FilesIndexed(X, Over(IndexOf(it), index))
  BY DEF FilesListed
<1> HIDE DEF W, X, it
<1>7. CASE it.path = ROOT
  BY <1>1, <1>4, <1>5, <1>7 DEF it
<1>8. CASE it.path # ROOT /\ it.isDir
  <2>1. X = W \union {it}
    BY <1>1, <1>8
  <2>2. FileBlocks(X) = FileBlocks(W)
    <3>1. FileBlocks(X) = FileBlocks(W) \union IF it.isDir THEN {} ELSE ToSet(TraversalOrder(it.content))
      BY <2>1, FileBlocksOfOneMore
    <3>2. QED
      BY <1>8, <3>1
  <2>3. FilesIndexed(X, index)
    BY <1>4, <2>1, <2>2 DEF FilesIndexed
  <2>4. QED
    BY <1>4, <1>5, <1>8, <2>2, <2>3 DEF it
<1>9. CASE it.path # ROOT /\ ~it.isDir
  <2>1. X = W \union {it}
    BY <1>1, <1>9
  <2>2. FileBlocks(X) = FileBlocks(W) \union ToSet(cids)
    BY <1>9, <2>1, FileBlocksOfOneMore
  <2>3. ToSet(order \o cids) = FileBlocks(X)
    BY <1>3, <1>4, <2>2, ElementsOfConcat
  <2>4. FilesIndexed(X, Over(IndexOf(it), index))
    BY <1>4, <1>9, <2>1, FileIndexed
  <2>5. QED
    BY <1>6, <1>9, <2>3, <2>4 DEF it
<1>10. QED
  BY <1>7, <1>8, <1>9

-----------------------------------------------------------------------------
(* The invariant of the list and of the index. *)

\* What is listed and indexed in each phase, for the visible entries V: the
\* files' blocks from the walk on, and a block of each directory from when it
\* is made until it is pruned.
ListPhase(V) ==
  /\ pc \in {"walk", "import"} => FilesListed(tree, walk, work.order, work.cidToEntry)
  /\ pc \in Loops => FilesIndexed(V, work.cidToEntry)
  /\ pc = "directories" =>
       Holds(work.order, FileBlocks(V), Directories(work.entries) \ dirs, work.entries)
  /\ pc = "prune" =>
       Holds(work.order, FileBlocks(V), Directories(work.entries) \ (Barren(V) \ dirs), work.entries)
  /\ pc = "regenerate" =>
       /\ Holds(work.order, FileBlocks(V), Directories(work.entries) \ Barren(V), work.entries)
       /\ DirsIndexed(work.entries, Barren(V), dirs, work.cidToEntry)

\* The inductive invariant, on top of MerkleInv and TypeInv.
ListInv ==
  /\ ListsTheDAG /\ EntriesRebuildBlocks
  /\ Building => /\ {"order", "cidToEntry"} \subseteq DOMAIN work
                 /\ NotReserved(tree) => ListPhase(Visible(tree))

\* The contents of the visible files are lists.
LEMMA VisibleContents ==
  ASSUME NEW t \in Trees
  PROVE  Contents(Visible(t)) /\ Visible(t) \subseteq ToSet(t)
BY TreesAssumption DEF Contents, Visible, IsList

\* The DAG is looked for deep enough.
LEMMA DeepEnough ==
  ASSUME NEW t \in Trees
  PROVE  LET n == 2 + Max({0} \union {Len(it.path) : it \in ToSet(t)})
         IN  n \in Nat /\ 0 < n /\ \A it \in ToSet(t) : Len(it.path) < n
<1> DEFINE S == {0} \union {Len(it.path) : it \in ToSet(t)}
<1>1. IsList(t) /\ DOMAIN t = 1..Len(t) /\ Len(t) \in Nat
  <2>1. IsList(t)
    BY TreesAssumption DEF IsList
  <2>2. QED
    BY <2>1, ListProperties
<1>2. \A it \in ToSet(t) : Len(it.path) \in Nat
  <2>1. SUFFICES ASSUME NEW it \in ToSet(t) PROVE IsList(it.path)
    BY ListProperties
  <2>2. PICK i \in DOMAIN t : it = t[i]
    BY DEF ToSet
  <2>3. it.path \in Seq(ToSet(it.path))
    BY <2>2, WalkAssumption DEF WalkOrder
  <2>4. QED
    BY <2>3 DEF IsList
<1>3. S \in SUBSET Nat /\ S # {}
  BY <1>2
<1>4. IsFiniteSet(S)
  <2> DEFINE len == [i \in 1..Len(t) |-> Len(t[i].path)]
             T == {len[i] : i \in 1..Len(t)}
  <2>1. {Len(it.path) : it \in ToSet(t)} = T
    BY <1>1 DEF ToSet
  <2>2. IsFiniteSet(1..Len(t))
    BY <1>1, FS_Interval
  <2> HIDE DEF len
  <2>3. IsFiniteSet(T)
    BY <2>2, ImageIsFinite
  <2>4. QED
    BY <2>1, <2>3, FS_Singleton, FS_Union
<1>5. \A it \in ToSet(t) : Len(it.path) \in S
  OBVIOUS
<1> HIDE DEF S
<1>6. Max(S) \in S /\ \A y \in S : Max(S) >= y
  BY <1>3, <1>4, MaxExists
<1>7. Max(S) \in Nat
  BY <1>3, <1>6
<1>8. 2 + Max(S) \in Nat /\ 0 < 2 + Max(S)
  BY <1>7
<1>9. \A it \in ToSet(t) : Len(it.path) < 2 + Max(S)
  BY <1>2, <1>5, <1>6, <1>7
<1>10. QED
  BY <1>8, <1>9 DEF S

\* What is published with all CIDs final is as it should be.
LEMMA FinishedIsRight ==
  ASSUME NEW t \in Trees, NotReserved(t), NEW s, s # NoSummary, s.root = s.entries[ROOT].cid,
         Finished(Visible(t), s.entries, s.order, s.cidToEntry), summary' = s, source'.tree = t
  PROVE  ListsTheDAG' /\ EntriesRebuildBlocks'
<1> DEFINE V == Visible(t)
           n == 2 + Max({0} \union {Len(it.path) : it \in ToSet(t)})
<1>1. Tree(V) /\ Contents(V) /\ V \subseteq ToSet(t)
  BY VisibleTree, VisibleContents
<1>2. n \in Nat /\ \A it \in V : Len(it.path) < n
  BY <1>1, DeepEnough
<1>3. DAG' = Under(s.root, n)
  BY DEF DAG
<1> HIDE DEF V, n
<1>4. Finished(V, s.entries, s.order, s.cidToEntry)
  BY DEF V
<1>5. ToSet(s.order) \subseteq Under(s.root, n) /\ Under(s.root, n) \ ToSet(s.order) \subseteq {EmptyDir}
  BY <1>1, <1>2, <1>4, ListedIsTheDAG
<1>6. ListsTheDAG'
  BY <1>3, <1>5 DEF ListsTheDAG
<1>7. ASSUME NEW c \in ToSet(s.order)
      PROVE  /\ c \in DOMAIN s.cidToEntry
             /\ LET p == s.cidToEntry[c]
                IN  IF s.entries[p].isDir THEN DirectoryBlock(s.entries, s.entries[p]) = c
                    ELSE \E it \in ToSet(t) : it.path = p /\ Contains(TraversalOrder(it.content), c)
  <2> DEFINE p == s.cidToEntry[c]
  <2>1. /\ c \in DOMAIN s.cidToEntry
        /\ IF s.entries[p].isDir THEN DirectoryBlock(s.entries, s.entries[p]) = c
           ELSE \E it \in V : it.path = p /\ c \in ToSet(TraversalOrder(it.content))
    BY <1>1, <1>4, BlocksRebuilt
  <2>2. ASSUME NEW it \in V, c \in ToSet(TraversalOrder(it.content)) PROVE Contains(TraversalOrder(it.content), c)
    <3> DEFINE cids == TraversalOrder(it.content)
    <3>1. DOMAIN cids = 1..Len(cids)
      BY <1>1, TraversalIsList, ListProperties DEF Contents
    <3>2. QED
      BY <2>2, <3>1 DEF Contains, ToSet
  <2>3. QED
    BY <1>1, <2>1, <2>2
<1>8. EntriesRebuildBlocks'
  BY <1>7 DEF EntriesRebuildBlocks
<1>9. QED
  BY <1>6, <1>8

LEMMA ListUnchanged ==
  ASSUME ListInv, UNCHANGED published
  PROVE  ListsTheDAG' /\ EntriesRebuildBlocks'
BY DEF ListInv, ListsTheDAG, EntriesRebuildBlocks, Built, DAG, published

LEMMA ListBegins ==
  ASSUME NEW t \in Trees
  PROVE  /\ {"order", "cidToEntry"} \subseteq DOMAIN NewSummary
         /\ FilesListed(t, t, NewSummary.order, NewSummary.cidToEntry)
<1>1. Len(t) \in Nat
  <2>1. IsList(t)
    BY TreesAssumption DEF IsList
  <2>2. QED
    BY <2>1, ListProperties
<1>2. Walked(t, Len(t) - Len(t)) = {}
  BY <1>1 DEF Walked
<1>3. NewSummary.order = << >> /\ {"order", "cidToEntry"} \subseteq DOMAIN NewSummary
  BY DEF NewSummary
<1>4. ToSet(<< >>) = {}
  BY DEF ToSet
<1>5. QED
  BY <1>2, <1>3, <1>4, NoFiles DEF FilesListed

\* The walk visits or skips an entry.
LEMMA ListVisits ==
  ASSUME ListInv, MerkleInv, Aligned(work), VisitSkipped \/ VisitDir \/ VisitFile \/ EnterFile
  PROVE  ListInv'
<1>1. UNCHANGED <<tree, published>> /\ Building /\ pc \in {"walk", "import"} /\ pc' \in {"walk", "import"}
  BY DEF VisitSkipped, VisitDir, VisitFile, EnterFile, Visiting, given, control, Building
<1>2. ListsTheDAG' /\ EntriesRebuildBlocks'
  BY <1>1, ListUnchanged
<1>3. tree \in Trees /\ {"order", "cidToEntry"} \subseteq DOMAIN work /\ IsList(work.order)
  BY <1>1 DEF MerkleInv, ListInv, Aligned
<1>4. {"order", "cidToEntry"} \subseteq DOMAIN work'
  BY <1>3 DEF VisitSkipped, VisitDir, VisitFile, EnterFile
<1>5. ASSUME NotReserved(tree) PROVE FilesListed(tree, walk', work'.order, work'.cidToEntry)
  <2>1. Walking(tree, walk, work.entries) /\ FilesListed(tree, walk, work.order, work.cidToEntry)
        /\ (pc = "import" => Head(walk).path # ROOT /\ ~Head(walk).isDir)
    BY <1>1, <1>5 DEF MerkleInv, Phase, ListInv, ListPhase
  <2>2. walk # << >>
    BY <1>1, <1>5 DEF MerkleInv, Phase, VisitSkipped, VisitDir, VisitFile, EnterFile, Visiting
  <2>3. /\ Head(walk).path = ROOT \/ Head(walk).isDir => FilesListed(tree, Tail(walk), work.order, work.cidToEntry)
        /\ Head(walk).path # ROOT /\ ~Head(walk).isDir =>
             FilesListed(tree, Tail(walk), work.order \o TraversalOrder(Head(walk).content),
                         Over(IndexOf(Head(walk)), work.cidToEntry))
    BY <1>3, <2>1, <2>2, FilesListedFurther DEF Walking
  <2>4. CASE VisitSkipped
    BY <2>3, <2>4 DEF VisitSkipped
  <2>5. CASE VisitDir
    <3>1. Head(walk).isDir /\ walk' = Tail(walk) /\ work'.order = work.order /\ work'.cidToEntry = work.cidToEntry
      BY <1>3, <2>5 DEF VisitDir
    <3>2. QED
      BY <2>3, <3>1
  <2>6. CASE VisitFile
    BY <2>1, <2>6 DEF VisitFile
  <2>7. CASE EnterFile
    <3>1. /\ pc = "import" /\ walk' = Tail(walk)
          /\ work'.order = work.order \o TraversalOrder(Head(walk).content)
          /\ work'.cidToEntry = Over(IndexOf(Head(walk)), work.cidToEntry)
      BY <1>3, <2>7 DEF EnterFile
    <3>2. QED
      BY <2>1, <2>3, <3>1
  <2>8. QED
    BY <2>4, <2>5, <2>6, <2>7
<1>6. NotReserved(tree) => ListPhase(Visible(tree))'
  BY <1>1, <1>5 DEF ListPhase, Loops
<1>7. QED
  BY <1>1, <1>2, <1>4, <1>6 DEF ListInv

\* All visible files are listed when the walk is over.
LEMMA ListWalkOver ==
  ASSUME ListInv, MerkleInv, pc = "walk", walk = << >>, tree \in Trees, NotReserved(tree)
  PROVE  LET V == Visible(tree)
         IN  ToSet(work.order) = FileBlocks(V) /\ FilesIndexed(V, work.cidToEntry)
<1>1. FilesListed(tree, walk, work.order, work.cidToEntry)
  BY DEF ListInv, Building, ListPhase
<1>2. Walked(tree, Len(tree)) = Visible(tree)
  BY VisibleTree
<1>3. Len(walk) = 0 /\ Len(tree) \in Nat
  BY TreesAssumption, LenProperties
<1>4. Len(tree) - Len(walk) = Len(tree)
  BY <1>3
<1>5. QED
  BY <1>1, <1>2, <1>4 DEF FilesListed

\* One file is published, and is all of its DAG.
LEMMA ListSingleFile ==
  ASSUME ListInv, MerkleInv, FinishSingleFile
  PROVE  ListsTheDAG' /\ EntriesRebuildBlocks'
<1>1. PICK p \in TopFiles(work.entries) : summary' = [work EXCEPT !.root = work.entries[p].cid]
  BY DEF FinishSingleFile
<1>2. source'.tree = tree /\ pc = "walk" /\ walk = << >> /\ SingleFile
  BY DEF FinishSingleFile
<1>3. tree \in Trees /\ {"root", "entries", "order", "cidToEntry"} \subseteq DOMAIN work
  BY <1>2 DEF MerkleInv, ListInv, Building
<1>4. /\ summary'.root = work.entries[p].cid /\ summary'.order = work.order
      /\ summary'.entries = work.entries /\ summary'.cidToEntry = work.cidToEntry
  BY <1>1, <1>3
<1>5. SUFFICES ASSUME NotReserved(tree) PROVE ListsTheDAG' /\ EntriesRebuildBlocks'
  BY <1>2 DEF ListsTheDAG, EntriesRebuildBlocks
<1> DEFINE V == Visible(tree)
           n == 2 + Max({0} \union {Len(it.path) : it \in ToSet(tree)})
<1>6. Tree(V) /\ Listing(work.entries, V, {}) /\ LoneFile(V)
  BY <1>2, <1>3, <1>5, MerkleWalkOver
<1>7. ToSet(work.order) = FileBlocks(V) /\ FilesIndexed(V, work.cidToEntry)
  BY <1>2, <1>3, <1>5, ListWalkOver
<1>8. Contents(V) /\ V \subseteq ToSet(tree) /\ n \in Nat /\ 0 < n
  BY <1>3, VisibleContents, DeepEnough
<1>9. DAG' = Under(summary'.root, n)
  BY <1>2 DEF DAG
<1> HIDE DEF V, n
<1>10. PICK it \in V : V = {it} /\ ~it.isDir
  BY <1>6 DEF LoneFile
<1>11. summary'.root = FileCid(it.content)
  <2>1. (CHOOSE x \in V : TRUE) = it
    BY <1>10
  <2>2. work.entries[p].cid = FileCid((CHOOSE x \in V : TRUE).content)
    BY <1>1, <1>6, SingleFileIsLone
  <2>3. QED
    BY <1>4, <2>1, <2>2
<1>12. FileBlocks(V) = ToSet(TraversalOrder(it.content))
  BY <1>10 DEF FileBlocks
<1>13. IsList(it.content)
  BY <1>8 DEF Contents
<1>14. DAG' = ToSet(summary'.order)
  BY <1>4, <1>7, <1>8, <1>9, <1>11, <1>12, <1>13, OneFileIsTheDAG
<1>15. ASSUME NEW c \in ToSet(summary'.order)
       PROVE  /\ c \in DOMAIN summary'.cidToEntry
              /\ LET q == summary'.cidToEntry[c]
                 IN  ~summary'.entries[q].isDir /\ q = it.path /\ it \in ToSet(tree) /\ Contains(TraversalOrder(it.content), c)
  <2>1. c \in DOMAIN work.cidToEntry /\ work.cidToEntry[c] = it.path
    BY <1>4, <1>7, <1>10, <1>15 DEF FilesIndexed
  <2>2. ~work.entries[it.path].isDir
    BY <1>6, <1>10 DEF Listing, EntryFor
  <2> DEFINE cids == TraversalOrder(it.content)
  <2>3. DOMAIN cids = 1..Len(cids) /\ c \in ToSet(cids)
    BY <1>4, <1>7, <1>12, <1>13, <1>15, TraversalIsList, ListProperties
  <2>4. Contains(cids, c)
    BY <2>3 DEF Contains, ToSet
  <2>5. QED
    BY <1>4, <1>8, <2>1, <2>2, <2>4
<1>16. ListsTheDAG'
  BY <1>14 DEF ListsTheDAG
<1>17. EntriesRebuildBlocks'
  BY <1>2, <1>15 DEF EntriesRebuildBlocks
<1>18. QED
  BY <1>16, <1>17

\* The loops over the directories.
LEMMA ListStarts ==
  ASSUME ListInv, MerkleInv, Aligned(work), StartDirectories \/ StartRegeneration
  PROVE  ListInv'
<1> DEFINE V == Visible(tree)
<1>1. UNCHANGED <<tree, work, published>> /\ Building
  BY DEF StartDirectories, StartRegeneration, given, Building
<1>2. ListsTheDAG' /\ EntriesRebuildBlocks'
  BY <1>1, ListUnchanged
<1>3. tree \in Trees /\ {"order", "cidToEntry"} \subseteq DOMAIN work
  BY <1>1 DEF MerkleInv, ListInv
<1>4. ASSUME NotReserved(tree) PROVE ListPhase(V)'
  <2>1. V' = V
    BY <1>1
  <2>2. CASE StartDirectories
    <3>1. pc = "walk" /\ walk = << >> /\ dirs' = Directories(work.entries) /\ pc' = "directories"
      BY <2>2 DEF StartDirectories
    <3>2. ToSet(work.order) = FileBlocks(V) /\ FilesIndexed(V, work.cidToEntry)
      BY <1>3, <1>4, <3>1, ListWalkOver
    <3> HIDE DEF V
    <3>3. Holds(work.order, FileBlocks(V), {}, work.entries)
      BY <3>2, HeldFiles DEF Aligned
    <3>4. Directories(work.entries) \ Directories(work.entries) = {}
      OBVIOUS
    <3>5. QED
      BY <1>1, <2>1, <3>1, <3>2, <3>3, <3>4 DEF ListPhase, Loops
  <2>3. CASE StartRegeneration
    <3>1. pc = "prune" /\ dirs = {} /\ dirs' = Directories(work.entries) /\ pc' = "regenerate"
      BY <2>3 DEF StartRegeneration
    <3>2. /\ FilesIndexed(V, work.cidToEntry)
          /\ Holds(work.order, FileBlocks(V), Directories(work.entries) \ (Barren(V) \ dirs), work.entries)
      BY <1>1, <1>4, <3>1 DEF ListInv, ListPhase, Loops
    <3> HIDE DEF V
    <3>3. Barren(V) \ dirs = Barren(V)
      BY <3>1
    <3>4. DirsIndexed(work.entries, Barren(V), Directories(work.entries), work.cidToEntry)
      BY DEF DirsIndexed
    <3>5. QED
      BY <1>1, <2>1, <3>1, <3>2, <3>3, <3>4 DEF ListPhase, Loops
  <2>4. QED
    BY <2>2, <2>3
<1>5. Building'
  BY DEF StartDirectories, StartRegeneration, Building
<1>6. QED
  BY <1>1, <1>2, <1>3, <1>4 DEF ListInv

LEMMA ListMakes ==
  ASSUME ListInv, MerkleInv, NEW p \in dirs, MakeDirectory(p)
  PROVE  ListInv'
<1> DEFINE V == Visible(tree)
           c == DirectoryBlock(work.entries, work.entries[p])
           new == [work.entries EXCEPT ![p] = WithCid(@, c)]
<1>1. UNCHANGED <<tree, published>> /\ Building /\ pc = "directories" /\ p \in Deepest(dirs)
  BY DEF MakeDirectory, given, Building
<1>2. ListsTheDAG' /\ EntriesRebuildBlocks'
  BY <1>1, ListUnchanged
<1>3. tree \in Trees /\ {"root", "entries", "order", "cidToEntry"} \subseteq DOMAIN work
  BY <1>1 DEF MerkleInv, ListInv
<1>4. /\ work'.entries = new /\ work'.order = Append(work.order, c)
      /\ work'.cidToEntry = With(work.cidToEntry, c, p)
      /\ DOMAIN work' = DOMAIN work
  BY <1>3 DEF MakeDirectory, WithCid
<1>5. ASSUME NotReserved(tree) PROVE ListPhase(V)'
  <2>1. Tree(V) /\ Contents(V)
    BY <1>3, <1>5, VisibleTree, VisibleContents
  <2>2. /\ Making(V, work.entries, dirs)
        /\ Holds(work.order, FileBlocks(V), Directories(work.entries) \ dirs, work.entries)
        /\ FilesIndexed(V, work.cidToEntry)
    BY <1>1, <1>5 DEF MerkleInv, Phase, ListInv, ListPhase, Loops
  <2>3. V' = V
    BY <1>1
  <2> HIDE DEF V
  <2>4. /\ Directories(new) = Directories(work.entries)
        /\ Holds(Append(work.order, c), FileBlocks(V), Directories(work.entries) \ (dirs \ {p}), new)
        /\ FilesIndexed(V, With(work.cidToEntry, c, p))
    BY <1>1, <2>1, <2>2, ListedWhenMade
  <2> HIDE DEF new, c
  <2>5. CASE dirs = {p}
    <3>1. dirs' = EmptyDirs(work.entries) /\ pc' = "prune"
      BY <2>5 DEF MakeDirectory
    <3>2. EmptyDirs(work.entries) = Barren(V)
      BY <2>1, <2>2, EmptyDirsAreBarren DEF Making, Loop
    <3>3. dirs \ {p} = Barren(V) \ dirs'
      BY <2>5, <3>1, <3>2
    <3>4. QED
      BY <1>4, <2>3, <2>4, <3>1, <3>3 DEF ListPhase, Loops
  <2>6. CASE dirs # {p}
    <3>1. dirs' = dirs \ {p} /\ pc' = "directories"
      BY <1>1, <2>6 DEF MakeDirectory
    <3>2. QED
      BY <1>4, <2>3, <2>4, <3>1 DEF ListPhase, Loops
  <2>7. QED
    BY <2>5, <2>6
<1>6. QED
  BY <1>1, <1>2, <1>3, <1>4, <1>5 DEF ListInv

LEMMA ListPrunes ==
  ASSUME ListInv, MerkleInv, NEW p \in dirs, PruneDirectory(p)
  PROVE  ListInv'
<1> DEFINE V == Visible(tree)
           parent == IF work.entries[p].path = << >> THEN ROOT ELSE work.entries[p].path
           new == [work.entries EXCEPT ![parent] = WithChildren(@, RemoveFirst(@.children, p))]
           at == Position(work.order, work.entries[p].cid)
<1>1. UNCHANGED <<tree, published>> /\ Building /\ pc = "prune" /\ pc' = "prune" /\ dirs' = dirs \ {p}
  BY DEF PruneDirectory, given, control, Building
<1>2. ListsTheDAG' /\ EntriesRebuildBlocks'
  BY <1>1, ListUnchanged
<1>3. tree \in Trees /\ {"root", "entries", "order", "cidToEntry"} \subseteq DOMAIN work
  BY <1>1 DEF MerkleInv, ListInv
<1>4. /\ work'.entries = new
      /\ at # 0 => /\ work'.order = RemoveAt(work.order, at)
                   /\ work'.cidToEntry = Without(work.cidToEntry, work.entries[p].cid)
      /\ DOMAIN work' = DOMAIN work
  BY <1>3 DEF PruneDirectory, WithChildren
<1>5. ASSUME NotReserved(tree) PROVE ListPhase(V)'
  <2>1. Tree(V) /\ Contents(V)
    BY <1>3, <1>5, VisibleTree, VisibleContents
  <2>2. /\ Pruning(V, work.entries, dirs)
        /\ Holds(work.order, FileBlocks(V), Directories(work.entries) \ (Barren(V) \ dirs), work.entries)
        /\ FilesIndexed(V, work.cidToEntry)
    BY <1>1, <1>5 DEF MerkleInv, Phase, ListInv, ListPhase, Loops
  <2>3. V' = V
    BY <1>1
  <2> HIDE DEF V
  <2>4. /\ Directories(new) = Directories(work.entries) /\ at # 0
        /\ Holds(RemoveAt(work.order, at), FileBlocks(V), Directories(new) \ (Barren(V) \ (dirs \ {p})), new)
        /\ FilesIndexed(V, Without(work.cidToEntry, work.entries[p].cid))
    BY <2>1, <2>2, UnlistedWhenPruned
  <2> HIDE DEF new, at
  <2>5. QED
    BY <1>1, <1>4, <2>3, <2>4 DEF ListPhase, Loops
<1>6. QED
  BY <1>1, <1>2, <1>3, <1>4, <1>5 DEF ListInv

LEMMA ListRemakes ==
  ASSUME ListInv, MerkleInv, NEW p \in dirs, RegenerateDirectory(p), dirs # {p}
  PROVE  ListInv'
<1> DEFINE V == Visible(tree)
           e == work.entries[p]
           c == DirectoryBlock(work.entries, e)
           new == [work.entries EXCEPT ![p] = WithCid(@, c)]
           relisted == Relisted(work.order, Position(work.order, e.cid), e.children # << >>, c)
           reindexed == Reindexed(work.cidToEntry, e.cid, c, p)
<1>1. /\ UNCHANGED <<tree, published>> /\ Building /\ pc = "regenerate" /\ pc' = "regenerate"
      /\ dirs' = dirs \ {p} /\ p \in Deepest(dirs) /\ p # ROOT /\ work' = Regenerated(p)
  BY DEF RegenerateDirectory, Deepest, given, Building
<1>2. ListsTheDAG' /\ EntriesRebuildBlocks'
  BY <1>1, ListUnchanged
<1>3. tree \in Trees /\ {"root", "entries", "order", "cidToEntry"} \subseteq DOMAIN work
  BY <1>1 DEF MerkleInv, ListInv
<1>4. /\ work'.entries = new /\ work'.order = relisted /\ work'.cidToEntry = reindexed
      /\ DOMAIN work' = DOMAIN work
  BY <1>1, <1>3 DEF Regenerated, WithCid
<1>5. ASSUME NotReserved(tree) PROVE ListPhase(V)'
  <2>1. Tree(V) /\ Contents(V)
    BY <1>3, <1>5, VisibleTree, VisibleContents
  <2>2. /\ Remaking(V, work.entries, dirs)
        /\ Holds(work.order, FileBlocks(V), Directories(work.entries) \ Barren(V), work.entries)
        /\ FilesIndexed(V, work.cidToEntry)
        /\ DirsIndexed(work.entries, Barren(V), dirs, work.cidToEntry)
    BY <1>1, <1>5 DEF MerkleInv, Phase, ListInv, ListPhase, Loops
  <2>3. V' = V
    BY <1>1
  <2> HIDE DEF V
  <2>4. /\ Directories(new) = Directories(work.entries)
        /\ Holds(relisted, FileBlocks(V), Directories(work.entries) \ Barren(V), new)
        /\ FilesIndexed(V, reindexed)
        /\ DirsIndexed(new, Barren(V), dirs \ {p}, reindexed)
    BY <1>1, <2>1, <2>2, RelistedWhenRemade
  <2> HIDE DEF new, relisted, reindexed
  <2>5. QED
    BY <1>1, <1>4, <2>3, <2>4 DEF ListPhase, Loops
<1>6. QED
  BY <1>1, <1>2, <1>3, <1>4, <1>5 DEF ListInv

\* The summary is published with the virtual root's block, all CIDs final.
LEMMA LastPublished ==
  ASSUME ListInv, MerkleInv, NEW p \in dirs, RegenerateDirectory(p), dirs = {p}, NotReserved(tree)
  PROVE  /\ tree \in Trees /\ source'.tree = tree
         /\ summary'.root = summary'.entries[ROOT].cid
         /\ Finished(Visible(tree), summary'.entries, summary'.order, summary'.cidToEntry)
<1> DEFINE V == Visible(tree)
           e == work.entries[ROOT]
           c == DirectoryBlock(work.entries, e)
           new == [work.entries EXCEPT ![ROOT] = WithCid(@, c)]
           appended == e.children # << >>
           relisted == Relisted(work.order, Position(work.order, e.cid), appended, c)
           reindexed == Reindexed(work.cidToEntry, e.cid, c, ROOT)
<1>1. pc = "regenerate" /\ summary' = Regenerated(p) /\ source'.tree = tree
  BY DEF RegenerateDirectory
<1>2. tree \in Trees /\ {"root", "entries", "order", "cidToEntry"} \subseteq DOMAIN work
  BY <1>1 DEF MerkleInv, ListInv, Building
<1>3. Tree(V) /\ Contents(V)
  BY <1>2, VisibleTree, VisibleContents
<1>4. /\ Remaking(V, work.entries, dirs)
      /\ Holds(work.order, FileBlocks(V), Directories(work.entries) \ Barren(V), work.entries)
      /\ FilesIndexed(V, work.cidToEntry)
      /\ DirsIndexed(work.entries, Barren(V), dirs, work.cidToEntry)
  BY <1>1 DEF MerkleInv, Phase, ListInv, ListPhase, Loops, Building
<1>5. p = ROOT /\ dirs = {ROOT}
  BY <1>4 DEF Remaking, Loop
<1>6. /\ summary'.entries = new /\ summary'.order = relisted /\ summary'.cidToEntry = reindexed
      /\ summary'.root = c
  BY <1>1, <1>2, <1>5 DEF Regenerated, WithCid
<1> HIDE DEF V
<1>7. Finished(V, new, relisted, reindexed)
  <2>1. appended \in BOOLEAN
    OBVIOUS
  <2> HIDE DEF appended
  <2>2. QED
    BY <1>3, <1>4, <1>5, <2>1, FinishedWithRoot
<1>8. new[ROOT].cid = c
  <2>1. ROOT \in DOMAIN work.entries /\ IsEntry(work.entries[ROOT])
    BY <1>4 DEF Remaking, Loop, Listing, EntryFor
  <2>2. WithCid(work.entries[ROOT], c).cid = c
    BY <2>1, CidReplaced
  <2>3. QED
    BY <2>1, <2>2
<1> HIDE DEF new, relisted, reindexed, c
<1>9. QED
  BY <1>1, <1>2, <1>6, <1>7, <1>8 DEF V

\* What is published is as it should be.
LEMMA ListPublished ==
  ASSUME ListInv, MerkleInv, NEW p \in dirs, RegenerateDirectory(p), dirs = {p}
  PROVE  ListsTheDAG' /\ EntriesRebuildBlocks'
<1>1. source'.tree = tree
  BY DEF RegenerateDirectory
<1>2. SUFFICES ASSUME NotReserved(tree), Built' PROVE ListsTheDAG' /\ EntriesRebuildBlocks'
  BY <1>1 DEF ListsTheDAG, EntriesRebuildBlocks
<1>3. /\ tree \in Trees
      /\ summary'.root = summary'.entries[ROOT].cid
      /\ Finished(Visible(tree), summary'.entries, summary'.order, summary'.cidToEntry)
  BY <1>2, LastPublished
<1>4. PICK s : s = summary'
  OBVIOUS
<1>5. s # NoSummary
  BY <1>2, <1>4 DEF Built
<1>6. s.root = s.entries[ROOT].cid /\ Finished(Visible(tree), s.entries, s.order, s.cidToEntry)
  BY <1>3, <1>4
<1>7. QED
  BY <1>1, <1>2, <1>3, <1>4, <1>5, <1>6, FinishedIsRight

\* Every step keeps the invariant.
LEMMA ListStep ==
  ASSUME ListInv, MerkleInv, Aligned(work), Next
  PROVE  ListInv'
<1>1. ASSUME Return(outcome'), ListsTheDAG', EntriesRebuildBlocks' PROVE ListInv'
  BY <1>1 DEF ListInv, Building, Return
<1>2. ASSUME UNCHANGED <<tree, work, walk, dirs, published>>, pc' = pc PROVE ListInv'
  <2>1. ListsTheDAG' /\ EntriesRebuildBlocks'
    BY <1>2, ListUnchanged
  <2>2. QED
    BY <1>2, <2>1 DEF ListInv, Building, ListPhase
<1>3. ASSUME UNCHANGED published, pc' \in {"write", "reimport"} PROVE ListInv'
  BY <1>3, ListUnchanged DEF ListInv, Building
<1>4. ASSUME NEW t \in Trees, NEW w \in BOOLEAN, BuildSummary(t, w) PROVE ListInv'
  <2>1. tree' = t /\ walk' = t /\ work' = NewSummary /\ pc' = "walk" /\ UNCHANGED published
    BY <1>4 DEF BuildSummary, SummaryKept
  <2>2. ListsTheDAG' /\ EntriesRebuildBlocks'
    BY <2>1, ListUnchanged
  <2>3. QED
    BY <2>1, <2>2, ListBegins DEF ListInv, Building, ListPhase, Loops
<1>5. CASE VisitSkipped \/ VisitDir \/ VisitFile \/ EnterFile
  BY <1>5, ListVisits
<1>6. CASE ImportBlock \/ CollectBlock \/ Cancel
  BY <1>2, <1>6 DEF ImportBlock, CollectBlock, Cancel, given, locals, control
<1>7. CASE CollectFails \/ WriteFails \/ FinishWrite \/ Stop \/ IOFails
  BY <1>1, <1>7, ListUnchanged DEF CollectFails, WriteFails, FinishWrite, Stop, IOFails, Return
<1>8. CASE WriteCAR \/ WriteBlock \/ ReimportFile \/ RemakeDirectory
  <2>1. UNCHANGED published /\ pc' \in {"write", "reimport"}
    BY <1>8 DEF WriteCAR, WriteBlock, ReimportFile, RemakeDirectory, Dropped, Writing, control
  <2>2. QED
    BY <1>3, <2>1
<1>9. CASE FinishSingleFile
  BY <1>1, <1>9, ListSingleFile DEF FinishSingleFile, Return
<1>10. CASE StartDirectories \/ StartRegeneration
  BY <1>10, ListStarts
<1>11. ASSUME NEW p \in dirs, MakeDirectory(p) PROVE ListInv'
  BY <1>11, ListMakes
<1>12. ASSUME NEW p \in dirs, PruneDirectory(p) PROVE ListInv'
  BY <1>12, ListPrunes
<1>13. ASSUME NEW p \in dirs, RegenerateDirectory(p) PROVE ListInv'
  <2>1. CASE dirs # {p}
    BY <1>13, <2>1, ListRemakes
  <2>2. CASE dirs = {p}
    BY <1>1, <1>13, <2>2, ListPublished DEF RegenerateDirectory, Return
  <2>3. QED
    BY <2>1, <2>2
<1>14. QED
  BY <1>4, <1>5, <1>6, <1>7, <1>8, <1>9, <1>10, <1>11, <1>12, <1>13 DEF Next, Advance

\* Whatever is built holds the invariant of the list and of the index.
LEMMA ListInvariance == SafeSpec => []ListInv
<1>1. Init => ListInv
  BY DEF Init, ListInv, ListsTheDAG, EntriesRebuildBlocks, Built, Building
<1>2. ListInv /\ MerkleInv /\ TypeInv /\ [Next]_vars => ListInv'
  <2>1. SUFFICES ASSUME ListInv, MerkleInv, TypeInv, [Next]_vars PROVE ListInv'
    OBVIOUS
  <2>2. CASE Next
    BY <2>1, <2>2, ListStep DEF TypeInv, AlignedInv
  <2>3. CASE UNCHANGED vars
    <3>1. UNCHANGED <<tree, work, walk, dirs, published, pc>>
      BY <2>3 DEF vars, given, locals, control, published
    <3>2. ListsTheDAG' /\ EntriesRebuildBlocks'
      BY <2>1, <3>1, ListUnchanged
    <3>3. QED
      BY <2>1, <3>1, <3>2 DEF ListInv, Building, ListPhase
  <2>4. QED
    BY <2>1, <2>2, <2>3
<1>3. QED
  BY <1>1, <1>2, MerkleInvariance, TypeInvariance, PTL DEF SafeSpec

\* The list of blocks is that of the DAG under the root, but for the block of
\* the empty directory, whatever the filesystem, the order in which the
\* directories are handled and those that are pruned (car_dir_builder.go:
\* 857-894).
THEOREM ListIsTheDAG == Spec => []ListsTheDAG
<1>1. ListInv => ListsTheDAG
  BY DEF ListInv
<1>2. QED
  BY <1>1, ListInvariance, PTL DEF Spec, SafeSpec

\* The index leads from any block listed to an entry it can be made again
\* from, although directories share CIDs and the index is rewritten while
\* they are made again (car_dir_builder.go:869-874, 1089-1130).
THEOREM IndexRebuildsBlocks == Spec => []EntriesRebuildBlocks
<1>1. ListInv => EntriesRebuildBlocks
  BY DEF ListInv
<1>2. QED
  BY <1>1, ListInvariance, PTL DEF Spec, SafeSpec

\* A CAR that WriteCAR reports as written has the size predicted and holds
\* the DAG, whatever the store has dropped in the meantime
\* (car_dir_builder.go:897-1010, car.go:154-183).
THEOREM WrittenCARIsComplete == Spec => []CompleteCAR
<1>1. TypeInv /\ ListsTheDAG /\ SizeAsPredicted => CompleteCAR
  <2>1. SUFFICES ASSUME TypeInv, ListsTheDAG, SizeAsPredicted, outcome = "written", NotReserved(source.tree)
                 PROVE  DAG \ {EmptyDir} \subseteq ToSet(written)
    BY DEF CompleteCAR
  <2>2. Built /\ IsList(written) /\ IsList(summary.order) /\ Len(written) = Len(summary.order)
        /\ \A i \in 1..Len(written) : written[i] = summary.order[i]
    BY <2>1 DEF TypeInv, AlignedInv, Aligned, WriteInv, Filled
  <2>3. written = summary.order
    BY <2>2, ListEqual
  <2>4. DAG \ ToSet(summary.order) \subseteq {EmptyDir}
    BY <2>1, <2>2 DEF ListsTheDAG
  <2>5. QED
    BY <2>3, <2>4
<1>2. QED
  BY <1>1, ListIsTheDAG, TypeInvariance, SizeIsPredicted, PTL DEF Spec, SafeSpec

-----------------------------------------------------------------------------
(* All that is true of a summary, for those who use it. *)

\* The summary s of the entries V has all CIDs, or is that of one file.
Published(s, V) ==
  \/ s.root = s.entries[ROOT].cid /\ Finished(V, s.entries, s.order, s.cidToEntry)
  \/ \E it \in V : /\ V = {it} /\ ~it.isDir
                   /\ s.root = FileCid(it.content)
                   /\ Listing(s.entries, V, {})
                   /\ ToSet(s.order) = ToSet(TraversalOrder(it.content))

PublishedInv ==
  Built /\ NotReserved(source.tree) => source.tree \in Trees /\ Published(summary, Visible(source.tree))

LEMMA SingleFilePublished ==
  ASSUME ListInv, MerkleInv, FinishSingleFile, NotReserved(tree)
  PROVE  tree \in Trees /\ source'.tree = tree /\ Published(summary', Visible(tree))
<1> DEFINE V == Visible(tree)
<1>1. PICK p \in TopFiles(work.entries) : summary' = [work EXCEPT !.root = work.entries[p].cid]
  BY DEF FinishSingleFile
<1>2. source'.tree = tree /\ pc = "walk" /\ walk = << >> /\ SingleFile
  BY DEF FinishSingleFile
<1>3. tree \in Trees /\ {"root", "entries", "order", "cidToEntry"} \subseteq DOMAIN work
  BY <1>2 DEF MerkleInv, ListInv, Building
<1>4. summary'.root = work.entries[p].cid /\ summary'.order = work.order /\ summary'.entries = work.entries
  BY <1>1, <1>3
<1>5. Tree(V) /\ Listing(work.entries, V, {}) /\ LoneFile(V)
  BY <1>2, <1>3, MerkleWalkOver
<1>6. ToSet(work.order) = FileBlocks(V)
  BY <1>2, <1>3, ListWalkOver
<1> HIDE DEF V
<1>7. PICK it \in V : V = {it} /\ ~it.isDir
  BY <1>5 DEF LoneFile
<1>8. summary'.root = FileCid(it.content)
  <2>1. (CHOOSE x \in V : TRUE) = it
    BY <1>7
  <2>2. work.entries[p].cid = FileCid((CHOOSE x \in V : TRUE).content)
    BY <1>1, <1>2, <1>5, SingleFileIsLone
  <2>3. QED
    BY <1>4, <2>1, <2>2
<1>9. FileBlocks(V) = ToSet(TraversalOrder(it.content))
  BY <1>7 DEF FileBlocks
<1>10. Published(summary', V)
  BY <1>4, <1>5, <1>6, <1>7, <1>8, <1>9 DEF Published
<1>11. QED
  BY <1>2, <1>3, <1>10 DEF V

\* It is published as a whole, and stays.
LEMMA PublishedStep ==
  ASSUME ListInv, MerkleInv, PublishedInv, Next
  PROVE  PublishedInv'
<1>1. ASSUME UNCHANGED published PROVE PublishedInv'
  BY <1>1 DEF PublishedInv, Built, published
<1>2. ASSUME source'.tree = tree,
             NotReserved(tree) => tree \in Trees /\ Published(summary', Visible(tree))
      PROVE  PublishedInv'
  BY <1>2 DEF PublishedInv
<1>3. CASE FinishSingleFile
  <2>1. source'.tree = tree
    BY <1>3 DEF FinishSingleFile
  <2>2. QED
    BY <1>2, <1>3, <2>1, SingleFilePublished
<1>4. ASSUME NEW p \in dirs, RegenerateDirectory(p), dirs = {p} PROVE PublishedInv'
  <2>1. source'.tree = tree
    BY <1>4 DEF RegenerateDirectory
  <2>2. QED
    BY <1>2, <1>4, <2>1, LastPublished DEF Published
<1>5. CASE \/ VisitSkipped \/ VisitDir \/ VisitFile \/ ImportBlock \/ CollectBlock \/ CollectFails \/ EnterFile
           \/ StartDirectories \/ StartRegeneration \/ WriteBlock \/ ReimportFile \/ RemakeDirectory \/ WriteFails
           \/ FinishWrite \/ Stop \/ IOFails \/ Cancel \/ WriteCAR \/ \E t \in Trees, w \in BOOLEAN : BuildSummary(t, w)
  BY <1>1, <1>5 DEF VisitSkipped, VisitDir, VisitFile, ImportBlock, CollectBlock, CollectFails, EnterFile,
     StartDirectories, StartRegeneration, WriteBlock, ReimportFile, RemakeDirectory, WriteFails, FinishWrite, Stop,
     IOFails, Cancel, WriteCAR, BuildSummary, SummaryKept
<1>6. ASSUME NEW p \in dirs, MakeDirectory(p) \/ PruneDirectory(p) \/ (RegenerateDirectory(p) /\ dirs # {p})
      PROVE  UNCHANGED published
  BY <1>6 DEF MakeDirectory, PruneDirectory, RegenerateDirectory, published
<1>7. QED
  BY <1>1, <1>3, <1>4, <1>5, <1>6 DEF Next, Advance

LEMMA PublishedInvariance == SafeSpec => []PublishedInv
<1>1. Init => PublishedInv
  BY DEF Init, PublishedInv, Built
<1>2. PublishedInv /\ ListInv /\ MerkleInv /\ [Next]_vars => PublishedInv'
  <2>1. UNCHANGED vars /\ PublishedInv => PublishedInv'
    BY DEF PublishedInv, Built, vars, published
  <2>2. QED
    BY <2>1, PublishedStep
<1>3. QED
  BY <1>1, <1>2, ListInvariance, MerkleInvariance, PTL DEF SafeSpec

\* What a block that is listed may be: a file's, the root, or a directory
\* that links to some entries with files.
LEMMA ListedBlocks ==
  ASSUME NEW V, Tree(V), Contents(V), NEW entries, NEW order, NEW index, Finished(V, entries, order, index),
         NEW x \in ToSet(order) \union {EmptyDir}
  PROVE  \/ x \in FileBlocks(V)
         \/ x = entries[ROOT].cid
         \/ \E p, K : K \subseteq Inside(V, p) \intersect WithFiles(V) /\ x = DirCid(LinksBy(CidsIn(V, entries), K))
<1> DEFINE g == CidsIn(V, entries)
           root == entries[ROOT].cid
<1>1. Listing(entries, V, Barren(V)) /\ Hashed(V, V, WithFiles(V), g)
  BY DEF Finished
<1>2. ToSet(order) = FileBlocks(V) \union {entries[d].cid : d \in Directories(entries) \ Barren(V)}
  BY HeldBlocks DEF Finished
<1>3. \A k \in V : g[k] = entries[k.path].cid
  BY DEF CidsIn
<1>4. Directories(entries) = {ROOT} \union {it.path : it \in {y \in V : y.isDir}}
  BY <1>1, DirectoriesListed
<1> HIDE DEF g
<1>5. CASE x = EmptyDir
  <2>1. LinksBy(g, {}) = {}
    BY DEF LinksBy
  <2>2. {} \subseteq Inside(V, << >>) \intersect WithFiles(V)
    OBVIOUS
  <2>3. QED
    BY <1>5, <2>1, <2>2 DEF EmptyDir, g
<1>6. ASSUME NEW d \in Directories(entries), x = entries[d].cid, d # ROOT
      PROVE  \E p, K : K \subseteq Inside(V, p) \intersect WithFiles(V) /\ x = DirCid(LinksBy(g, K))
  <2>1. PICK it \in V : it.path = d /\ it.isDir
    BY <1>4, <1>6
  <2>2. x = DirCid(LinksBy(g, Inside(V, it.path) \intersect WithFiles(V)))
    BY <1>1, <1>3, <1>6, <2>1 DEF Hashed
  <2>3. QED
    BY <2>2
<1>7. QED
  BY <1>2, <1>5, <1>6 DEF g

\* The links of a directory are the CIDs of its entries.
LEMMA LinksOfDirectory ==
  ASSUME NEW g, NEW K
  PROVE  Links(DirCid(LinksBy(g, K))) = {g[k] : k \in K}
<1>1. Links(DirCid(LinksBy(g, K))) = {l[2] : l \in LinksBy(g, K)}
  BY LinksOfBlocks
<1>2. ASSUME NEW l \in LinksBy(g, K) PROVE l[2] \in {g[k] : k \in K}
  <2>1. PICK k \in K : l = <<k.name, g[k]>>
    BY DEF LinksBy
  <2>2. l[2] = g[k]
    BY <2>1
  <2>3. QED
    BY <2>2
<1>3. ASSUME NEW k \in K PROVE \E l \in LinksBy(g, K) : l[2] = g[k]
  <2>1. PICK l : l = <<k.name, g[k]>>
    OBVIOUS
  <2>2. l \in LinksBy(g, K) /\ l[2] = g[k]
    BY <2>1 DEF LinksBy
  <2>3. QED
    BY <2>2
<1>4. QED
  BY <1>1, <1>2, <1>3

\* The blocks of the files link to none but these.
LEMMA FileBlocksClosed ==
  ASSUME NEW V, Contents(V), NEW x \in FileBlocks(V)
  PROVE  Links(x) \subseteq FileBlocks(V)
<1>1. PICK it \in V : ~it.isDir /\ x \in ToSet(TraversalOrder(it.content))
  BY DEF FileBlocks
<1>2. IsList(it.content)
  BY DEF Contents
<1>3. Links(x) \subseteq ToSet(TraversalOrder(it.content))
  BY <1>1, <1>2, FileIsItsLinks
<1>4. ToSet(TraversalOrder(it.content)) \subseteq FileBlocks(V)
  BY <1>1 DEF FileBlocks
<1>5. QED
  BY <1>3, <1>4

\* A summary's blocks: what is listed, and the empty directory, which the
\* root alone may link to without listing it, make up the DAG.
Blocks(s) == ToSet(s.order) \union {EmptyDir}

Closed(s, dag) ==
  /\ s.root \in ToSet(s.order)
  /\ \A x \in Blocks(s) : Links(x) \subseteq Blocks(s)
  /\ \A x \in Blocks(s) \ {s.root} : Links(x) \subseteq ToSet(s.order)
  /\ ToSet(s.order) \subseteq dag /\ dag \subseteq Blocks(s)

LEMMA FinishedIsClosed ==
  ASSUME NEW V, Tree(V), Contents(V), NEW s, Finished(V, s.entries, s.order, s.cidToEntry),
         s.root = s.entries[ROOT].cid, NEW n \in Nat, \A it \in V : Len(it.path) < n
  PROVE  Closed(s, Under(s.root, n))
<1> DEFINE g == CidsIn(V, s.entries)
           listed == ToSet(s.order)
           X == listed \union {EmptyDir}
<1>1. /\ s.root = DirCid(LinksBy(g, Inside(V, << >>)))
      /\ Listing(s.entries, V, Barren(V))
      /\ FileBlocks(V) \subseteq listed
      /\ {s.entries[d].cid : d \in Directories(s.entries) \ Barren(V)} \subseteq listed
  BY HeldBlocks DEF Finished
<1>2. s.root \in listed
  <2>1. ROOT \in Directories(s.entries) /\ ROOT \notin Barren(V)
    BY <1>1, DirectoriesListed DEF Barren, Tree
  <2>2. QED
    BY <1>1, <2>1
<1>3. ASSUME NEW k \in V PROVE g[k] \in X /\ (k \in WithFiles(V) => g[k] \in listed)
  BY EntriesListed DEF WithFiles
<1>4. listed \subseteq Under(s.root, n) /\ Under(s.root, n) \ listed \subseteq {EmptyDir}
  BY ListedIsTheDAG
<1>5. \A x \in X : \/ x \in FileBlocks(V) \/ x = s.root
                   \/ \E p, K : K \subseteq Inside(V, p) \intersect WithFiles(V) /\ x = DirCid(LinksBy(g, K))
  BY ListedBlocks
<1> HIDE DEF g, listed
<1>6. ASSUME NEW x \in X, NEW p, NEW K, K \subseteq Inside(V, p) \intersect WithFiles(V), x = DirCid(LinksBy(g, K))
      PROVE  Links(x) \subseteq listed
  <2>1. Links(x) = {g[k] : k \in K}
    BY <1>6, LinksOfDirectory
  <2>2. K \subseteq V /\ K \subseteq WithFiles(V)
    BY <1>6 DEF WithFiles
  <2>3. QED
    BY <1>3, <2>1, <2>2
<1>7. Links(s.root) \subseteq X
  <2>1. Links(s.root) = {g[k] : k \in Inside(V, << >>)}
    BY <1>1, LinksOfDirectory
  <2>2. Inside(V, << >>) \subseteq V
    BY DEF Inside
  <2>3. QED
    BY <1>3, <2>1, <2>2
<1>8. \A x \in FileBlocks(V) : Links(x) \subseteq listed
  BY <1>1, FileBlocksClosed
<1>9. \A x \in X \ {s.root} : Links(x) \subseteq listed
  BY <1>5, <1>6, <1>8
<1>10. \A x \in X : Links(x) \subseteq X
  BY <1>7, <1>9
<1>11. QED
  BY <1>2, <1>4, <1>9, <1>10 DEF Closed, Blocks, listed

LEMMA OneFileIsClosed ==
  ASSUME NEW content, IsList(content), NEW s, s.root = FileCid(content),
         ToSet(s.order) = ToSet(TraversalOrder(content)), NEW n \in Nat, 0 < n
  PROVE  Closed(s, Under(s.root, n))
<1> DEFINE c == FileCid(content)
           listed == ToSet(s.order)
<1>1. Under(c, n) = listed
  BY OneFileIsTheDAG
<1>2. listed = {c} \union Links(c) /\ \A b \in Links(c) : Links(b) = {}
  BY FileIsItsLinks
<1>3. Links(EmptyDir) = {}
  <2>1. Links(EmptyDir) = {l[2] : l \in {}}
    BY LinksOfBlocks DEF EmptyDir
  <2>2. QED
    BY <2>1
<1>4. s.root = c
  OBVIOUS
<1> HIDE DEF c, listed
<1>5. QED
  BY <1>1, <1>2, <1>3, <1>4 DEF Closed, Blocks, listed

\* The blocks of whatever is published.
LEMMA PublishedIsClosed ==
  ASSUME PublishedInv, Built, NotReserved(source.tree)
  PROVE  Closed(summary, DAG)
<1> DEFINE V == Visible(source.tree)
           n == 2 + Max({0} \union {Len(it.path) : it \in ToSet(source.tree)})
<1>1. source.tree \in Trees /\ Published(summary, V)
  BY DEF PublishedInv
<1>2. Tree(V) /\ Contents(V) /\ V \subseteq ToSet(source.tree)
  BY <1>1, VisibleTree, VisibleContents
<1>3. n \in Nat /\ 0 < n /\ \A it \in V : Len(it.path) < n
  BY <1>1, <1>2, DeepEnough
<1>4. DAG = Under(summary.root, n)
  BY DEF DAG
<1> HIDE DEF V, n
<1>5. CASE summary.root = summary.entries[ROOT].cid /\ Finished(V, summary.entries, summary.order, summary.cidToEntry)
  BY <1>2, <1>3, <1>4, <1>5, FinishedIsClosed
<1>6. ASSUME NEW it \in V, summary.root = FileCid(it.content),
             ToSet(summary.order) = ToSet(TraversalOrder(it.content))
      PROVE  Closed(summary, DAG)
  <2>1. IsList(it.content)
    BY <1>2 DEF Contents
  <2>2. QED
    BY <1>3, <1>4, <1>6, <2>1, OneFileIsClosed
<1>7. QED
  BY <1>1, <1>5, <1>6 DEF Published

-----------------------------------------------------------------------------
(* The blocks that WriteCAR makes again. *)

\* The entries are those of V, whatever their CIDs and children, and the
\* root's is a directory.
Naming(entries, V) ==
  /\ \A it \in V : EntryFor(entries[it.path], it.name, it.isDir, Front(it.path))
  /\ entries[ROOT].isDir

\* The entries published lead back to the files they are from.
NamesInv ==
  Built /\ NotReserved(source.tree) => source.tree \in Trees /\ Naming(summary.entries, Visible(source.tree))

LEMMA PublishedNames ==
  ASSUME PublishedInv
  PROVE  NamesInv
<1> DEFINE V == Visible(source.tree)
<1>1. SUFFICES ASSUME Built, NotReserved(source.tree) PROVE source.tree \in Trees /\ Naming(summary.entries, V)
  BY DEF NamesInv
<1>2. source.tree \in Trees /\ Published(summary, V)
  BY <1>1 DEF PublishedInv
<1>3. \E gone : Listing(summary.entries, V, gone)
  BY <1>2 DEF Published, Finished
<1>4. QED
  BY <1>2, <1>3 DEF Listing, Naming, EntryFor

\* The path of an entry opens the file it was made for, and no other.
LEMMA OpensItsFile ==
  ASSUME tree \in Trees, NotReserved(tree), NEW it \in ToSet(tree), ~it.isDir,
         NEW e, e.name = it.name, e.path = Front(it.path)
  PROVE  Opened(e) = {it}
<1>1. IsList(tree) /\ DOMAIN tree = 1..Len(tree) /\ Len(tree) \in Nat
  BY TreesAssumption, ListProperties DEF IsList
<1>2. PICK i \in 1..Len(tree) : it = tree[i]
  BY <1>1 DEF ToSet
<1>3. /\ IsList(it.path) /\ it.path # << >>
      /\ IF it.path = CurrentDir THEN Len(tree) = 1 ELSE it.name = Last(it.path)
  BY <1>2, WalkedEntry
<1>4. \A x \in ToSet(tree) : \E j \in 1..Len(tree) : x = tree[j]
  BY <1>1 DEF ToSet
<1>5. ASSUME NEW x \in ToSet(tree), x.path = it.path \/ Len(tree) = 1 PROVE x = it
  <2>1. PICK j \in 1..Len(tree) : x = tree[j]
    BY <1>4
  <2>2. i = j
    <3>1. CASE Len(tree) = 1
      BY <3>1
    <3>2. CASE x.path = it.path
      BY <1>1, <1>2, <2>1, <3>2, WalkAssumption DEF WalkOrder
    <3>3. QED
      BY <1>5, <3>1, <3>2
  <2>3. QED
    BY <1>2, <2>1, <2>2
<1>6. ASSUME NEW x \in ToSet(tree), x.path = CurrentDir PROVE Len(tree) = 1
  <2>1. PICK j \in 1..Len(tree) : x = tree[j]
    BY <1>4
  <2>2. QED
    BY <1>6, <2>1, WalkedEntry
<1>7. it.path # CurrentDir => Append(e.path, e.name) = it.path
  BY <1>3, FrontAppended
<1>8. it.path = CurrentDir => e.path = << >>
  <2>1. ~(Len(CurrentDir) > 1)
    BY DEF CurrentDir
  <2>2. Len(it.path) > 1 \/ Front(it.path) = << >>
    BY <1>3, FrontOfOne
  <2>3. QED
    BY <2>1, <2>2
<1>9. it \in Opened(e)
  BY <1>7, <1>8 DEF Opened
<1>10. ASSUME NEW x \in Opened(e) PROVE x = it
  <2>1. x \in ToSet(tree) /\ (x.path = Append(e.path, e.name) \/ x.path = CurrentDir)
    BY DEF Opened
  <2>2. CASE it.path = CurrentDir
    BY <1>3, <1>5, <2>1, <2>2
  <2>3. CASE it.path # CurrentDir
    BY <1>5, <1>6, <1>7, <2>1, <2>3
  <2>4. QED
    BY <2>2, <2>3
<1>11. QED
  BY <1>9, <1>10

\* Any block listed can be made again, if the filesystem is the same.
LEMMA BlocksComeBack ==
  ASSUME EntriesRebuildBlocks, NamesInv
  PROVE  Reopens
<1>1. SUFFICES ASSUME Built, source.tree = tree, NotReserved(tree), NEW c \in ToSet(summary.order)
               PROVE  /\ c \in DOMAIN summary.cidToEntry
                      /\ LET e == summary.entries[summary.cidToEntry[c]]
                         IN  IF e.isDir THEN DirectoryBlock(summary.entries, e) = c
                             ELSE Opened(e) # {} /\ \A it \in Opened(e) : c \in ToSet(TraversalOrder(it.content))
  BY DEF Reopens
<1> DEFINE p == summary.cidToEntry[c]
           e == summary.entries[p]
<1>2. c \in DOMAIN summary.cidToEntry
      /\ IF e.isDir THEN DirectoryBlock(summary.entries, e) = c
         ELSE \E it \in ToSet(tree) : it.path = p /\ Contains(TraversalOrder(it.content), c)
  BY <1>1 DEF EntriesRebuildBlocks
<1>3. tree \in Trees /\ Naming(summary.entries, Visible(tree))
  BY <1>1 DEF NamesInv
<1>4. ASSUME ~e.isDir PROVE Opened(e) # {} /\ \A it \in Opened(e) : c \in ToSet(TraversalOrder(it.content))
  <2>1. PICK it \in ToSet(tree) : it.path = p /\ Contains(TraversalOrder(it.content), c)
    BY <1>2, <1>4
  <2>2. p # ROOT
    BY <1>3, <1>4 DEF Naming
  <2>3. EntryFor(e, it.name, it.isDir, Front(it.path))
    BY <1>3, <2>1, <2>2 DEF Naming, Visible
  <2>4. ~it.isDir /\ e.name = it.name /\ e.path = Front(it.path)
    BY <1>4, <2>3 DEF EntryFor
  <2> HIDE DEF e
  <2>5. Opened(e) = {it}
    BY <1>1, <1>3, <2>1, <2>4, OpensItsFile
  <2>6. c \in ToSet(TraversalOrder(it.content))
    <3>1. IsList(TraversalOrder(it.content))
      BY <1>3, <2>1, NoneLarger, TraversalIsList
    <3>2. QED
      BY <2>1, <3>1, ListProperties DEF Contains, ToSet
  <2>7. QED
    BY <2>5, <2>6
<1>5. QED
  BY <1>2, <1>4

\* What the store forgets comes back: a call ends with a block that is
\* missing only when the filesystem is not the one summarised any more, the
\* store is smaller than one file, or adding a block that is stored is no use
\* of it, if no name reads ROOT.  It holds for every store, every filesystem
\* and every order in which blocks are used and dropped
\* (car_dir_builder.go:1089-1130).
THEOREM NothingLost == Spec => []NoBlockLost
<1>1. Init => StoreInv
  <2>1. SUFFICES ASSUME Init PROVE StoreInv
    OBVIOUS
  <2>2. IsList(<< >>) /\ IsInjective(<< >>)
    BY DEF IsList, IsInjective
  <2>3. QED
    BY <2>1, <2>2 DEF Init, StoreInv, IsSetList, NoImport, Importing, NoBlockLost
<1>2. PublishedInv => NamesInv
  BY PublishedNames
<1>3. StoreInv /\ TypeInv /\ NamesInv /\ EntriesRebuildBlocks /\ [Next]_vars => StoreInv'
  <2>1. SUFFICES ASSUME StoreInv, TypeInv, NamesInv, EntriesRebuildBlocks, [Next]_vars PROVE StoreInv'
    OBVIOUS
  <2>2. CASE Next
    BY <2>1, <2>2, BlocksComeBack, StoreStep
  <2>3. CASE UNCHANGED vars
    <3>1. UNCHANGED <<bs, tree, source, summary, written, pc, todo, store, outcome>>
      BY <2>3 DEF vars, given, locals, control, published, writing
    <3>2. ASSUME NEW it \in ToSet(tree), UnderWay(it) PROVE UnderWay(it)'
      BY <3>1, <3>2 DEF UnderWay, Present, NextBlock
    <3>3. QED
      BY <2>1, <3>1, <3>2 DEF StoreInv, Importing, NoBlockLost, Built
  <2>4. QED
    BY <2>1, <2>2, <2>3
<1>4. StoreInv => NoBlockLost
  BY DEF StoreInv
<1>5. QED
  BY <1>1, <1>2, <1>3, <1>4, PublishedInvariance, TypeInvariance, IndexRebuildsBlocks, PTL DEF Spec, SafeSpec
=============================================================================
