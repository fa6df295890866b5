----------------------- MODULE IndexedBlockstore_proofs ------------------------
(***************************************************************************)
(* Proofs about IndexedBlockstore, for all goroutines, CIDs, CARs, limits, *)
(* capacities of the channel and numbers of calls.                         *)
(***************************************************************************)
EXTENDS IndexedBlockstore, SetLemmas, SequenceTheorems, TLAPS

-----------------------------------------------------------------------------
(* The invariant. *)

Steps == {"idle", "size", "cache", "index", "seek", "length", "body", "put", "keys", "send"}

\* The types of the variables of a goroutine.
LocalTypes ==
  /\ pc \in [Procs -> Steps] /\ want \in [Procs -> Cids]
  /\ entries \in [Procs -> SUBSET (1..Len(Sections))]
  /\ prefix \in [Procs -> Seq(Nat)] /\ size \in [Procs -> 0..MaxRead] /\ body \in [Procs -> Seq(Nat)]
  /\ \A p \in Procs : Len(prefix[p]) <= MaxPrefix /\ Len(body[p]) <= size[p]
  /\ result = [p \in Procs |-> result[p]]
  /\ disturbed \in [Procs -> BOOLEAN] /\ early \in [Procs -> BOOLEAN]

GlobalTypes ==
  /\ indexed \in BOOLEAN /\ crashed \in BOOLEAN /\ done \in BOOLEAN
  /\ toCache \in Seq(Cids) /\ keys \in Seq(Cids)
  /\ chan \in Seq(Cids) /\ Len(chan) <= KeysBuffer
  /\ pos \in 0..Len(File) /\ calls \in 0..MaxCalls + 1
  /\ cache \in Seq(Blocks) /\ tainted \subseteq Cids

\* IndexAll runs once: it and every Seek leave the beginning of the file.
Once == pos = 0 => ~indexed /\ calls <= MaxCalls

\* The data of a block of a CARv1 is that of its CID, unless the block may have
\* been read while another goroutine used the reader.
Right(b, wrong) == IsCARv1 /\ ~wrong => b.data = Data[b.cid]

Stored == \A b \in ToSet(cache) : Right(b, b.cid \in tainted)

Reloads == {"seek", "length", "body", "put"}

\* The section that a reload tries.
First(p) == Min(entries[p])

\* The reader is in the length of the section i, behind the bytes s.
InLength(i, s) ==
  /\ Len(s) < LenBytes[i] /\ pos = Start[i] + Len(s)
  /\ \A j \in 1..Len(s) : s[j] = File[Start[i] + j]

\* The reader is in the body of the section i, behind the bytes s.
InBody(i, s) ==
  /\ pos = Start[i] + LenBytes[i] + Len(s)
  /\ \A j \in 1..Len(s) : s[j] = File[Start[i] + LenBytes[i] + j]

\* Where a goroutine is: a reload has the sections of its CID, and in a CARv1,
\* until another goroutine uses the reader, it is in the first of them.
Reload(p) ==
  /\ pc[p] \in Reloads => entries[p] = SectionsWith(Digest[want[p]]) /\ entries[p] # {}
  /\ pc[p] \notin Reloads => entries[p] = {}
  /\ pc[p] # "length" => prefix[p] = << >>
  /\ pc[p] \notin {"body", "put"} => body[p] = << >>
  /\ pc[p] = "body" => Len(body[p]) < size[p]
  /\ pc[p] = "length" /\ IsCARv1 /\ ~disturbed[p] => InLength(First(p), prefix[p])
  /\ pc[p] = "body" /\ IsCARv1 /\ ~disturbed[p] =>
       size[p] = BodyLen(Sections[First(p)]) /\ InBody(First(p), body[p])
  /\ pc[p] = "put" => Right(Block(want[p], DataRead(p)), disturbed[p])

\* Why a reload may fail although no other goroutine uses the reader.
Excused(c) == Sections[FirstWith(c)] # c \/ BodyLen(c) > MaxRead

Answer(p) ==
  /\ result[p] \in {<<"none">>, <<"uninitialized">>, <<"not found">>, <<"failed">>, <<"listed">>, <<"cancelled">>}
       \/ (result[p] = <<"block", result[p][2]>> /\ result[p][2] \in Blocks)
  /\ result[p][1] = "block" => Right(result[p][2], result[p][2].cid \in tainted)
  /\ result[p][1] = "failed" /\ IsCARv1 => disturbed[p] \/ Excused(want[p])
  /\ result[p][1] = "not found" => SectionsWith(Digest[want[p]]) = {}

Local(p) == /\ Reload(p) /\ Answer(p)
            /\ pc[p] \in {"size", "cache", "index", "keys"} => early[p]

IInv == LocalTypes /\ GlobalTypes /\ Once /\ Stored /\ (\A p \in Procs : Local(p)) /\ CrashOnlyIfOvertaken

-----------------------------------------------------------------------------
(* The data and the file. *)

LEMMA DataSeq ==
  ASSUME NEW c \in Cids
  PROVE  /\ CidBytes[c] \in Seq(Nat) /\ Len(CidBytes[c]) \in Nat \ {0}
         /\ Data[c] \in Seq(Nat) /\ Len(Data[c]) \in Nat
         /\ BodyLen(c) = Len(CidBytes[c]) + Len(Data[c]) /\ BodyLen(c) \in Nat \ {0}
<1>1. CidBytes[c] \in Seq(Nat) /\ CidBytes[c] # << >> /\ Data[c] \in Seq(Nat)
  BY IndexedAssumption
<1>2. Len(CidBytes[c]) \in Nat \ {0} /\ Len(Data[c]) \in Nat
  BY <1>1, EmptySeq, LenProperties
<1>3. BodyLen(c) = Len(CidBytes[c]) + Len(Data[c])
  BY DEF BodyLen
<1>4. BodyLen(c) \in Nat \ {0}
  <2> DEFINE m == Len(CidBytes[c])
             n == Len(Data[c])
  <2>1. m \in Nat \ {0} /\ n \in Nat
    BY <1>2
  <2> HIDE DEF m, n
  <2>2. m + n \in Nat \ {0}
    BY <2>1
  <2>3. QED
    BY <1>3, <2>2 DEF m, n
<1>5. QED
  BY <1>1, <1>2, <1>3, <1>4

\* The data of the CID is right.
LEMMA DataIsRight ==
  ASSUME NEW c \in Cids, NEW w
  PROVE  Block(c, Data[c]) \in Blocks /\ Right(Block(c, Data[c]), w)
<1>1. Data[c] \in Seq(Nat)
  BY DataSeq
<1>2. QED
  BY <1>1 DEF Block, Blocks, Right

LEMMA FileSeq ==
  /\ Len(File) \in Nat /\ Len(File) > 0 /\ File \in Seq(Nat)
  /\ \A n \in 1..Len(File) : File[n] \in Nat
<1>1. File \in Seq(Nat) /\ File # << >>
  BY LayoutAssumption
<1>2. QED
  BY <1>1, LenProperties, ElementOfSeq, EmptySeq

\* The bytes of the file between two places.
LEMMA FileBytes ==
  ASSUME NEW m \in Nat, NEW n \in Nat, m + n <= Len(File)
  PROVE  /\ SubSeq(File, m + 1, m + n) \in Seq(Nat) /\ Len(SubSeq(File, m + 1, m + n)) = n
         /\ \A k \in 1..n : SubSeq(File, m + 1, m + n)[k] = File[m + k]
<1> DEFINE l == m + 1
           h == m + n
<1>1. l \in Int /\ h \in Int /\ \A k \in l..h : File[k] \in Nat
  BY FileSeq
<1>2. /\ l <= h <=> n # 0
      /\ h - l + 1 = n
      /\ \A k \in 1..n : l + k - 1 = m + k
  OBVIOUS
<1> HIDE DEF l, h
<1>3. /\ SubSeq(File, l, h) \in Seq(Nat) /\ Len(SubSeq(File, l, h)) = (IF l <= h THEN h - l + 1 ELSE 0)
      /\ \A k \in 1..h - l + 1 : SubSeq(File, l, h)[k] = File[l + k - 1]
  BY <1>1, SubSeqProperties
<1>4. /\ SubSeq(File, l, h) \in Seq(Nat) /\ Len(SubSeq(File, l, h)) = n
      /\ \A k \in 1..n : SubSeq(File, l, h)[k] = File[m + k]
  BY <1>2, <1>3
<1>5. QED
  BY <1>4 DEF l, h

LEMMA SectionCid ==
  ASSUME NEW i \in 1..Len(Sections)
  PROVE  Sections[i] \in Cids
BY IndexedAssumption, ElementOfSeq

LEMMA SectionAt ==
  ASSUME NEW i \in 1..Len(Sections)
  PROVE  /\ Start[i] \in Nat /\ LenBytes[i] \in Nat \ {0} /\ LenBytes[i] <= MaxPrefix
         /\ Start[i] + LenBytes[i] + BodyLen(Sections[i]) <= Len(File)
         /\ Offset(i) \in 1..Len(File)
         /\ IsCARv1 => Offset(i) = Start[i]
<1>1. /\ Start[i] \in Nat /\ LenBytes[i] \in Nat /\ DataOffset \in Nat /\ DataOffset < Start[i]
      /\ LenBytes[i] <= MaxPrefix /\ Start[i] + LenBytes[i] + BodyLen(Sections[i]) <= Len(File)
      /\ SectionBytes(i, 1, LenBytes[i]) # << >>
  BY LayoutAssumption DEF Encodes
<1>2. BodyLen(Sections[i]) \in Nat
  BY SectionCid, DataSeq
<1>3. LenBytes[i] # 0
  <2>1. SUFFICES ASSUME LenBytes[i] = 0 PROVE FALSE
    OBVIOUS
  <2>2. SubSeq(File, Start[i] + 1, Start[i] + 0) = << >>
    BY <1>1, SubSeqEmpty
  <2>3. QED
    BY <1>1, <2>1, <2>2 DEF SectionBytes
<1>4. Offset(i) \in 1..Len(File) /\ (IsCARv1 => Offset(i) = Start[i])
  <2> DEFINE st == Start[i]
             lb == LenBytes[i]
             bl == BodyLen(Sections[i])
             len == Len(File)
  <2>1. st \in Nat /\ lb \in Nat /\ bl \in Nat /\ len \in Nat /\ DataOffset \in Nat /\ DataOffset < st /\ st + lb + bl <= len
    BY <1>1, <1>2, FileSeq
  <2>2. Offset(i) = st - DataOffset
    BY DEF Offset
  <2> HIDE DEF st, lb, bl, len
  <2>3. st - DataOffset \in 1..len /\ (DataOffset = 0 => st - DataOffset = st)
    BY <2>1
  <2>4. QED
    BY <2>2, <2>3 DEF st, len, IsCARv1
<1>5. LenBytes[i] \in Nat \ {0}
  BY <1>1, <1>3
<1>6. QED
  BY <1>1, <1>4, <1>5

\* The bytes of a section's length.
LEMMA LengthBytes ==
  ASSUME NEW i \in 1..Len(Sections)
  PROVE  /\ \A k \in 1..LenBytes[i] : /\ File[Start[i] + k] \in Nat
                                      /\ File[Start[i] + k] >= Radix <=> k # LenBytes[i]
         /\ File[Start[i] + LenBytes[i]] = 0 => LenBytes[i] = 1
         /\ \A s \in Seq(Nat) : /\ Len(s) = LenBytes[i] /\ (\A k \in 1..Len(s) : s[k] = File[Start[i] + k])
                                => Uvarint(s) = BodyLen(Sections[i])
<1> DEFINE n == LenBytes[i]
           e == SectionBytes(i, 1, n)
<1>1. Start[i] \in Nat /\ n \in Nat \ {0} /\ Start[i] + n <= Len(File)
  <2>1. BodyLen(Sections[i]) \in Nat
    BY SectionCid, DataSeq
  <2>2. QED
    BY <2>1, SectionAt, FileSeq
<1>2. Encodes(e, BodyLen(Sections[i]))
  BY LayoutAssumption
<1>3. e = SubSeq(File, Start[i] + 1, Start[i] + n)
  BY DEF SectionBytes
<1> HIDE DEF e, n
<1>4. e \in Seq(Nat) /\ Len(e) = n /\ \A k \in 1..n : e[k] = File[Start[i] + k]
  BY <1>1, <1>3, FileBytes
<1>5. \A k \in 1..n : File[Start[i] + k] \in Nat /\ (File[Start[i] + k] >= Radix <=> k # n)
  <2>1. \A k \in 1..n : e[k] \in Nat
    BY <1>4, ElementOfSeq
  <2>2. QED
    BY <1>2, <1>4, <2>1 DEF Encodes
<1>6. File[Start[i] + n] = 0 => n = 1
  <2>1. n \in 1..n
    BY <1>1
  <2>2. e[n] = File[Start[i] + n]
    BY <1>4, <2>1
  <2>3. QED
    BY <1>2, <1>4, <2>2 DEF Encodes, Last
<1>7. ASSUME NEW s \in Seq(Nat), Len(s) = n, \A k \in 1..Len(s) : s[k] = File[Start[i] + k]
      PROVE  Uvarint(s) = BodyLen(Sections[i])
  <2>1. s = e
    <3>1. Len(s) = Len(e) /\ \A k \in 1..Len(s) : s[k] = e[k]
      BY <1>4, <1>7
    <3>2. QED
      BY <1>4, <3>1, SeqEqual
  <2>2. QED
    BY <1>2, <2>1 DEF Encodes
<1>8. QED
  BY <1>5, <1>6, <1>7 DEF n

\* The bytes of a section's body.
LEMMA BodyBytes ==
  ASSUME NEW i \in 1..Len(Sections), NEW s \in Seq(Nat), Len(s) = BodyLen(Sections[i]),
         \A k \in 1..Len(s) : s[k] = File[Start[i] + LenBytes[i] + k]
  PROVE  s = CidBytes[Sections[i]] \o Data[Sections[i]]
<1> DEFINE m == Start[i] + LenBytes[i]
           n == BodyLen(Sections[i])
<1>1. m \in Nat /\ n \in Nat /\ m + n <= Len(File)
  BY SectionCid, DataSeq, SectionAt
<1>2. SubSeq(File, m + 1, m + n) = CidBytes[Sections[i]] \o Data[Sections[i]]
  <2>1. Start[i] + (LenBytes[i] + 1) = m + 1 /\ Start[i] + (LenBytes[i] + n) = m + n
    BY <1>1, SectionAt
  <2>2. SectionBytes(i, LenBytes[i] + 1, LenBytes[i] + n) = CidBytes[Sections[i]] \o Data[Sections[i]]
    BY LayoutAssumption
  <2>3. QED
    BY <2>1, <2>2 DEF SectionBytes
<1> DEFINE t == SubSeq(File, m + 1, m + n)
<1>3. t \in Seq(Nat) /\ Len(t) = n /\ \A k \in 1..n : t[k] = File[m + k]
  <2> HIDE DEF m, n
  <2>1. QED
    BY <1>1, FileBytes
<1>4. Len(s) = Len(t) /\ \A k \in 1..Len(s) : s[k] = t[k]
  BY <1>3
<1> HIDE DEF t
<1>5. s = t
  BY <1>3, <1>4, SeqEqual
<1>6. QED
  BY <1>2, <1>5 DEF t

\* A prefix of a sequence has its first elements.
LEMMA PrefixElements ==
  ASSUME NEW S, NEW s \in Seq(S), NEW t \in Seq(S)
  PROVE  IsPrefix(s, t) <=> Len(s) <= Len(t) /\ \A k \in 1..Len(s) : s[k] = t[k]
<1>1. Len(s) \in Nat /\ Len(t) \in Nat
  BY LenProperties
<1>2. SubSeq(s, 1, Len(s)) = s
  BY SubSeqFull
<1>3. ASSUME Len(s) <= Len(t)
      PROVE  /\ SubSeq(t, 1, Len(s)) \in Seq(S) /\ Len(SubSeq(t, 1, Len(s))) = Len(s)
             /\ \A k \in 1..Len(s) : SubSeq(t, 1, Len(s))[k] = t[k]
  <2>1. \A k \in 1..Len(s) : t[k] \in S
    BY <1>1, <1>3, ElementOfSeq
  <2>2. QED
    BY <1>1, <1>3, <2>1, SubSeqProperties
<1>4. ASSUME Len(s) <= Len(t), \A k \in 1..Len(s) : s[k] = t[k]
      PROVE  s = SubSeq(t, 1, Len(s))
  <2> DEFINE u == SubSeq(t, 1, Len(s))
  <2>1. u \in Seq(S) /\ Len(u) = Len(s) /\ \A k \in 1..Len(s) : u[k] = t[k]
    BY <1>3, <1>4
  <2> HIDE DEF u
  <2>2. u = s
    BY <1>4, <2>1, SeqEqual
  <2>3. QED
    BY <2>2 DEF u
<1>5. ASSUME IsPrefix(s, t)
      PROVE  Len(s) <= Len(t) /\ \A k \in 1..Len(s) : s[k] = t[k]
  <2>1. Len(s) <= Len(t) /\ SubSeq(t, 1, Len(s)) = s
    BY <1>2, <1>5 DEF IsPrefix
  <2>2. QED
    BY <1>3, <2>1
<1>6. QED
  BY <1>2, <1>4, <1>5 DEF IsPrefix

\* Of all CIDs only its own begins the body of a section, whose rest is its data.
LEMMA OwnBody ==
  ASSUME NEW c \in Cids, NEW d \in Cids
  PROVE  /\ IsPrefix(CidBytes[d], CidBytes[c] \o Data[c]) <=> d = c
         /\ SubSeq(CidBytes[c] \o Data[c], Len(CidBytes[c]) + 1, Len(CidBytes[c] \o Data[c])) = Data[c]
<1> DEFINE x == CidBytes[c]
           y == CidBytes[d]
           z == Data[c]
           s == x \o z
<1>1. x \in Seq(Nat) /\ y \in Seq(Nat) /\ z \in Seq(Nat) /\ Len(x) \in Nat /\ Len(y) \in Nat /\ Len(z) \in Nat
  BY DataSeq, LenProperties
<1> HIDE DEF x, y, z
<1>2. /\ s \in Seq(Nat) /\ Len(s) = Len(x) + Len(z)
      /\ \A k \in 1..Len(x) + Len(z) : s[k] = IF k <= Len(x) THEN x[k] ELSE z[k - Len(x)]
  BY <1>1, ConcatProperties
<1> HIDE DEF s
<1>3. ASSUME IsPrefix(y, s) PROVE d = c
  <2>1. Len(y) <= Len(s) /\ \A k \in 1..Len(y) : y[k] = s[k]
    BY <1>1, <1>2, <1>3, PrefixElements
  <2>2. CASE Len(y) <= Len(x)
    <3>1. \A k \in 1..Len(y) : y[k] = x[k]
      <4> TAKE k \in 1..Len(y)
      <4>1. k \in Nat /\ k \in 1..Len(x) + Len(z) /\ k <= Len(x) /\ k \in 1..Len(y)
        BY <1>1, <2>2
      <4>2. s[k] = x[k]
        BY <1>2, <4>1
      <4>3. y[k] = s[k]
        BY <2>1, <4>1
      <4>4. QED
        BY <4>2, <4>3
    <3>2. IsPrefix(y, x)
      BY <1>1, <2>2, <3>1, PrefixElements
    <3>3. QED
      BY <3>2, CidAssumption DEF x, y
  <2>3. CASE Len(x) <= Len(y)
    <3>1. \A k \in 1..Len(x) : x[k] = y[k]
      <4> TAKE k \in 1..Len(x)
      <4>1. k \in Nat /\ k \in 1..Len(x) + Len(z) /\ k <= Len(x) /\ k \in 1..Len(y)
        BY <1>1, <2>3
      <4>2. s[k] = x[k]
        BY <1>2, <4>1
      <4>3. y[k] = s[k]
        BY <2>1, <4>1
      <4>4. QED
        BY <4>2, <4>3
    <3>2. IsPrefix(x, y)
      BY <1>1, <2>3, <3>1, PrefixElements
    <3>3. QED
      BY <3>2, CidAssumption DEF x, y
  <2>4. QED
    BY <1>1, <2>2, <2>3
<1>4. IsPrefix(x, s)
  <2>1. Len(x) <= Len(s) /\ \A k \in 1..Len(x) : x[k] = s[k]
    BY <1>1, <1>2
  <2>2. QED
    BY <1>1, <1>2, <2>1, PrefixElements
<1>5. SubSeq(s, Len(x) + 1, Len(s)) = z
  <2> DEFINE l == Len(x) + 1
             h == Len(s)
             u == SubSeq(s, l, h)
  <2>1. l \in Int /\ h \in Int /\ \A k \in l..h : s[k] \in Nat
    BY <1>1, <1>2, ElementOfSeq
  <2>2. h - l + 1 = Len(z) /\ (l <= h <=> Len(z) # 0)
    BY <1>1, <1>2
  <2>3. \A k \in 1..Len(z) : s[l + k - 1] = z[k]
    <3> TAKE k \in 1..Len(z)
    <3>1. l + k - 1 = Len(x) + k /\ Len(x) + k \in 1..Len(x) + Len(z) /\ ~(Len(x) + k <= Len(x))
      BY <1>1
    <3>2. Len(x) + k - Len(x) = k
      BY <1>1
    <3>3. QED
      BY <1>2, <3>1, <3>2
  <2> HIDE DEF l, h
  <2>4. /\ u \in Seq(Nat) /\ Len(u) = (IF l <= h THEN h - l + 1 ELSE 0)
        /\ \A k \in 1..h - l + 1 : u[k] = s[l + k - 1]
    BY <2>1, SubSeqProperties
  <2> HIDE DEF u
  <2>5. Len(u) = Len(z) /\ \A k \in 1..Len(u) : u[k] = z[k]
    BY <1>1, <2>2, <2>3, <2>4
  <2>6. u = z
    BY <1>1, <2>4, <2>5, SeqEqual
  <2>7. QED
    BY <2>6 DEF u, l, h
<1>6. d = c => y = x
  BY DEF x, y
<1>7. QED
  BY <1>3, <1>4, <1>5, <1>6 DEF s, x, y, z

-----------------------------------------------------------------------------
(* The cache. *)

\* A sequence without one of its elements.
LEMMA RemoveAtElements ==
  ASSUME NEW S, NEW s \in Seq(S), NEW i \in 1..Len(s)
  PROVE  RemoveAt(s, i) \in Seq(S) /\ ToSet(RemoveAt(s, i)) \subseteq ToSet(s)
<1> DEFINE a == SubSeq(s, 1, i - 1)
           b == SubSeq(s, i + 1, Len(s))
           T == ToSet(s)
<1>1. Len(s) \in Nat /\ DOMAIN s = 1..Len(s) /\ \A k \in 1..Len(s) : s[k] \in S
  BY LenProperties, ElementOfSeq
<1>2. T \subseteq S /\ \A k \in 1..Len(s) : s[k] \in T
  BY <1>1 DEF ToSet
<1> HIDE DEF T
<1>3. a \in Seq(T)
  <2>1. \A k \in 1..i - 1 : s[k] \in T
    BY <1>1, <1>2
  <2>2. 1 \in Int /\ i - 1 \in Int
    BY <1>1
  <2>3. QED
    BY <2>1, <2>2, SubSeqProperties
<1>4. b \in Seq(T)
  <2>1. \A k \in i + 1..Len(s) : s[k] \in T
    BY <1>1, <1>2
  <2>2. i + 1 \in Int /\ Len(s) \in Int
    BY <1>1
  <2>3. QED
    BY <2>1, <2>2, SubSeqProperties
<1>5. RemoveAt(s, i) = a \o b
  BY DEF RemoveAt
<1> HIDE DEF a, b
<1>6. RemoveAt(s, i) \in Seq(T)
  BY <1>3, <1>4, <1>5, ConcatProperties
<1>7. ToSet(RemoveAt(s, i)) \subseteq T
  BY <1>6, LenProperties, ElementOfSeq DEF ToSet
<1>8. QED
  BY <1>2, <1>6, <1>7, SeqMonotonic DEF T

\* A sequence that begins with an element.
LEMMA FrontElements ==
  ASSUME NEW S, NEW s \in Seq(S), NEW e \in S
  PROVE  <<e>> \o s \in Seq(S) /\ ToSet(<<e>> \o s) \subseteq ToSet(s) \union {e}
<1> DEFINE T == ToSet(s) \union {e}
<1>1. DOMAIN s = 1..Len(s) /\ Len(s) \in Nat /\ (\A k \in 1..Len(s) : s[k] \in S) /\ s = [k \in 1..Len(s) |-> s[k]]
  BY LenProperties, ElementOfSeq
<1>2. T \subseteq S /\ e \in T /\ \A k \in 1..Len(s) : s[k] \in T
  BY <1>1 DEF ToSet
<1> HIDE DEF T
<1>3. s \in Seq(T)
  <2>1. s \in [1..Len(s) -> T]
    BY <1>1, <1>2
  <2>2. QED
    BY <1>1, <2>1, SeqDef
<1>4. <<e>> \o s \in Seq(T)
  <2>1. <<e>> \in Seq(T)
    BY <1>2
  <2>2. QED
    BY <1>3, <2>1, ConcatProperties
<1>5. ToSet(<<e>> \o s) \subseteq T
  BY <1>4, LenProperties, ElementOfSeq DEF ToSet
<1>6. QED
  BY <1>2, <1>4, <1>5, SeqMonotonic DEF T

\* What stays of the cache when a block is put.
LEMMA KeptElements ==
  ASSUME NEW S, NEW s \in Seq(S), NEW b, NEW limit
  PROVE  LRU!KeptFor(s, b, limit) \in Seq(S) /\ ToSet(LRU!KeptFor(s, b, limit)) \subseteq ToSet(s)
<1> DEFINE fits == {n \in 1..Len(s) : LRU!Bytes(SubSeq(s, 1, n)) + Len(b.data) <= limit}
<1>1. LRU!KeptFor(s, b, limit) = IF fits = {} THEN << >> ELSE SubSeq(s, 1, Max(fits))
  BY DEF LRU!KeptFor, LRU!Max, Max
<1>2. fits \subseteq 1..Len(s) /\ Len(s) \in Nat /\ DOMAIN s = 1..Len(s)
  BY LenProperties
<1> HIDE DEF fits
<1>3. CASE fits = {}
  <2>1. << >> \in Seq(S) /\ ToSet(<< >>) = {}
    BY DEF ToSet
  <2>2. QED
    BY <1>1, <1>3, <2>1
<1>4. CASE fits # {}
  <2>1. IsFiniteSet(fits) /\ fits \in SUBSET Nat
    <3>1. IsFiniteSet(1..Len(s))
      BY <1>2, FS_Interval
    <3>2. IsFiniteSet(fits)
      BY <1>2, <3>1, FS_Subset
    <3>3. QED
      BY <1>2, <3>2
  <2>2. Max(fits) \in fits
    BY <1>4, <2>1, MaxExists
  <2> DEFINE m == Max(fits)
             k == SubSeq(s, 1, m)
  <2>3. m \in 1..Len(s)
    BY <1>2, <2>2
  <2> HIDE DEF m
  <2>4. k \in Seq(ToSet(s))
    <3>1. \A i \in 1..m : s[i] \in ToSet(s)
      BY <1>2, <2>3 DEF ToSet
    <3>2. 1 \in Int /\ m \in Int
      BY <2>3
    <3>3. QED
      BY <3>1, <3>2, SubSeqProperties
  <2>5. LRU!KeptFor(s, b, limit) = k
    BY <1>1, <1>4 DEF m
  <2> HIDE DEF k
  <2>6. ToSet(k) \subseteq ToSet(s)
    BY <2>4, LenProperties, ElementOfSeq DEF ToSet
  <2>7. ToSet(s) \subseteq S
    BY <1>2, ElementOfSeq DEF ToSet
  <2>8. QED
    BY <2>4, <2>5, <2>6, <2>7, SeqMonotonic
<1>5. QED
  BY <1>3, <1>4

LEMMA CachedPlace ==
  ASSUME NEW c, Cached(c)
  PROVE  Place(c) \in 1..Len(cache) /\ CachedBlock(c).cid = c
BY DEF Cached, Place, CachedBlock

\* A block that is put is in the cache, and no other is new there.
LEMMA PutElements ==
  ASSUME cache \in Seq(Blocks), NEW b \in Blocks
  PROVE  WithBlock(b) \in Seq(Blocks) /\ ToSet(WithBlock(b)) \subseteq ToSet(cache) \union {b}
<1> DEFINE x == IF Cached(b.cid) THEN CachedBlock(b.cid) ELSE b
<1>1. WithBlock(b) = IF x \in ToSet(cache) THEN <<x>> \o RemoveAt(cache, LRU!PlaceOf(cache, x))
                     ELSE <<x>> \o LRU!KeptFor(cache, x, Limit)
  BY DEF WithBlock, LRU!Put, LRU!Used, LRU!ToSet, LRU!RemoveAt, ToSet, RemoveAt
<1>2. DOMAIN cache = 1..Len(cache) /\ Len(cache) \in Nat
  BY LenProperties
<1>3. x \in Blocks /\ x \in ToSet(cache) \union {b}
  <2>1. CASE Cached(b.cid)
    <3>1. Place(b.cid) \in 1..Len(cache)
      BY <2>1, CachedPlace
    <3>2. CachedBlock(b.cid) \in ToSet(cache) /\ CachedBlock(b.cid) \in Blocks
      BY <1>2, <3>1, ElementOfSeq DEF CachedBlock, ToSet
    <3>3. QED
      BY <2>1, <3>2
  <2>2. CASE ~Cached(b.cid)
    BY <2>2
  <2>3. QED
    BY <2>1, <2>2
<1> HIDE DEF x
<1>4. CASE x \in ToSet(cache)
  <2> DEFINE i == LRU!PlaceOf(cache, x)
  <2>1. \E j \in 1..Len(cache) : cache[j] = x
    BY <1>2, <1>4 DEF ToSet
  <2>2. i \in 1..Len(cache)
    BY <2>1 DEF LRU!PlaceOf
  <2> HIDE DEF i
  <2>3. RemoveAt(cache, i) \in Seq(Blocks) /\ ToSet(RemoveAt(cache, i)) \subseteq ToSet(cache)
    BY <2>2, RemoveAtElements
  <2>4. WithBlock(b) = <<x>> \o RemoveAt(cache, i)
    BY <1>1, <1>4 DEF i
  <2>5. QED
    BY <1>3, <2>3, <2>4, FrontElements
<1>5. CASE x \notin ToSet(cache)
  <2>1. /\ LRU!KeptFor(cache, x, Limit) \in Seq(Blocks)
        /\ ToSet(LRU!KeptFor(cache, x, Limit)) \subseteq ToSet(cache)
    BY KeptElements
  <2>2. WithBlock(b) = <<x>> \o LRU!KeptFor(cache, x, Limit)
    BY <1>1, <1>5
  <2>3. QED
    BY <1>3, <2>1, <2>2, FrontElements
<1>6. QED
  BY <1>4, <1>5

-----------------------------------------------------------------------------
(* What a reload reads. *)

LEMMA FirstSection ==
  ASSUME NEW S \in SUBSET (1..Len(Sections)), S # {}
  PROVE  Min(S) \in S /\ Min(S) \in 1..Len(Sections)
<1>1. S \in SUBSET Nat
  BY IndexedAssumption, LenProperties
<1>2. QED
  BY <1>1, MinExists

\* A reload tries the first section with the digest of its CID.
LEMMA TriedSection ==
  ASSUME IInv, NEW p \in Procs, pc[p] \in Reloads
  PROVE  First(p) \in 1..Len(Sections) /\ Sections[First(p)] \in Cids /\ First(p) = FirstWith(want[p])
<1>1. entries[p] \in SUBSET (1..Len(Sections)) /\ entries[p] # {} /\ entries[p] = SectionsWith(Digest[want[p]])
  BY DEF IInv, LocalTypes, Local, Reload
<1>2. First(p) \in 1..Len(Sections)
  BY <1>1, FirstSection DEF First
<1>3. First(p) = FirstWith(want[p])
  BY <1>1 DEF First, FirstWith
<1>4. QED
  BY <1>2, <1>3, SectionCid

-----------------------------------------------------------------------------
(* What the steps have in common. *)

\* Only p has done something.
Others(p) ==
  \A q \in Procs \ {p} :
    /\ pc'[q] = pc[q] /\ want'[q] = want[q] /\ entries'[q] = entries[q] /\ prefix'[q] = prefix[q] /\ size'[q] = size[q]
    /\ body'[q] = body[q] /\ result'[q] = result[q] /\ early'[q] = early[q]

\* What p does to those that read.
Reading(p) ==
  \/ pos' = pos /\ \A q \in Procs \ {p} : disturbed'[q] = disturbed[q]
  \/ Disturb(p)

LEMMA OthersLocal ==
  ASSUME IInv, NEW p, Others(p), Reading(p), tainted \subseteq tainted', NEW q \in Procs \ {p}
  PROVE  Local(q)'
<1>1. /\ pc'[q] = pc[q] /\ want'[q] = want[q] /\ entries'[q] = entries[q] /\ prefix'[q] = prefix[q] /\ size'[q] = size[q]
      /\ body'[q] = body[q] /\ result'[q] = result[q] /\ early'[q] = early[q]
  BY DEF Others
<1>2. Local(q) /\ disturbed[q] \in BOOLEAN
  BY DEF IInv, LocalTypes
<1>3. \/ disturbed'[q] = disturbed[q] /\ (pos' = pos \/ pc[q] \notin {"length", "body"})
      \/ disturbed'[q] = TRUE /\ pc[q] \in {"length", "body"}
  BY <1>2 DEF Reading, Disturb
<1>4. disturbed[q] => disturbed'[q]
  BY <1>2, <1>3
<1>5. Reload(q)'
  <2>1. Reload(q)
    BY <1>2 DEF Local
  <2>2. First(q)' = First(q)
    BY <1>1 DEF First
  <2>3. pc[q] = "put" => disturbed'[q] = disturbed[q]
    BY <1>3
  <2>4. /\ pc'[q] = "length" /\ IsCARv1 /\ ~disturbed'[q] => InLength(First(q), prefix[q])'
        /\ pc'[q] = "body" /\ IsCARv1 /\ ~disturbed'[q] =>
             size'[q] = BodyLen(Sections[First(q)']) /\ InBody(First(q), body[q])'
    BY <1>1, <1>3, <2>1, <2>2 DEF Reload, InLength, InBody
  <2>5. pc'[q] = "put" => Right(Block(want[q], DataRead(q)), disturbed[q])'
    BY <1>1, <2>1, <2>3 DEF Reload, DataRead
  <2>6. QED
    BY <1>1, <2>1, <2>4, <2>5 DEF Reload
<1>6. Answer(q)'
  <2>1. Answer(q)
    BY <1>2 DEF Local
  <2>2. result[q][1] = "block" => Right(result[q][2], result[q][2].cid \in tainted')
    BY <2>1 DEF Answer, Right
  <2>3. QED
    BY <1>1, <1>4, <2>1, <2>2 DEF Answer
<1>7. QED
  BY <1>1, <1>2, <1>5, <1>6 DEF Local

\* A step of p that keeps what it must keep.
LEMMA Kept ==
  ASSUME IInv, NEW p \in Procs, Others(p), Reading(p), tainted \subseteq tainted',
         LocalTypes', GlobalTypes', Once', Stored', Local(p)', CrashOnlyIfOvertaken'
  PROVE  IInv'
<1>1. \A q \in Procs : Local(q)'
  BY OthersLocal
<1>2. QED
  BY <1>1 DEF IInv

\* A cache that stays, stays right.
LEMMA StoredSame ==
  ASSUME IInv, UNCHANGED cache, tainted \subseteq tainted'
  PROVE  Stored'
BY DEF IInv, Stored, Right

\* A block that is right may be put.
LEMMA StoredPut ==
  ASSUME IInv, NEW b \in Blocks, Right(b, b.cid \in tainted'), cache' = WithBlock(b), tainted \subseteq tainted'
  PROVE  cache' \in Seq(Blocks) /\ Stored'
<1>1. cache \in Seq(Blocks) /\ Stored
  BY DEF IInv, GlobalTypes
<1>2. cache' \in Seq(Blocks) /\ ToSet(cache') \subseteq ToSet(cache) \union {b}
  BY <1>1, PutElements
<1>3. \A x \in ToSet(cache) : Right(x, x.cid \in tainted')
  BY <1>1 DEF Stored, Right
<1>4. QED
  BY <1>2, <1>3 DEF Stored

\* A block that is right may only become more wrong.
LEMMA StaysRight ==
  ASSUME NEW b, NEW w, NEW v, Right(b, w), w => v
  PROVE  Right(b, v)
BY DEF Right

\* What is in the cache may be returned.
LEMMA CachedIsRight ==
  ASSUME IInv, NEW c, Cached(c)
  PROVE  /\ CachedBlock(c) \in Blocks /\ CachedBlock(c) \in ToSet(cache)
         /\ Right(CachedBlock(c), CachedBlock(c).cid \in tainted)
<1>1. cache \in Seq(Blocks) /\ Stored
  BY DEF IInv, GlobalTypes
<1>2. Place(c) \in 1..Len(cache)
  BY CachedPlace
<1>3. CachedBlock(c) \in Blocks /\ CachedBlock(c) \in ToSet(cache)
  BY <1>1, <1>2, LenProperties, ElementOfSeq DEF CachedBlock, ToSet
<1>4. QED
  BY <1>1, <1>3 DEF Stored

\* A use of the reader disturbs only others.
LEMMA Disturbs ==
  ASSUME LocalTypes, NEW p \in Procs, Disturb(p)
  PROVE  disturbed' \in [Procs -> BOOLEAN] /\ disturbed'[p] = disturbed[p] /\ Reading(p)
BY DEF LocalTypes, Disturb, Reading

\* A call that returns.
LEMMA ReturnStep ==
  ASSUME IInv, NEW p \in Procs, NEW r, Return(p, r), want' \in [Procs -> Cids], early' \in [Procs -> BOOLEAN],
         disturbed' \in [Procs -> BOOLEAN], \A q \in Procs \ {p} : want'[q] = want[q] /\ early'[q] = early[q],
         Reading(p), tainted \subseteq tainted', ~crashed', GlobalTypes', Once', Stored',
         result'[p] = r => Answer(p)'
  PROVE  IInv'
<1>1. /\ pc' = [pc EXCEPT ![p] = "idle"] /\ result' = [result EXCEPT ![p] = r]
      /\ entries' = [entries EXCEPT ![p] = {}] /\ prefix' = [prefix EXCEPT ![p] = << >>]
      /\ size' = [size EXCEPT ![p] = 0] /\ body' = [body EXCEPT ![p] = << >>]
  BY DEF Return
<1>2. "idle" \in Steps /\ << >> \in Seq(Nat) /\ Len(<< >>) = 0 /\ 0 \in 0..MaxRead /\ 0 <= MaxPrefix
  BY IndexedAssumption DEF Steps
<1>3. LocalTypes
  BY DEF IInv
<1>4. LocalTypes'
  <2>1. ASSUME NEW q \in Procs PROVE Len(prefix'[q]) <= MaxPrefix /\ Len(body'[q]) <= size'[q]
    <3>1. CASE q = p
      <4>1. prefix'[q] = << >> /\ body'[q] = << >> /\ size'[q] = 0
        BY <1>1, <1>3, <3>1 DEF LocalTypes
      <4>2. QED
        BY <1>2, <4>1
    <3>2. CASE q # p
      <4>1. prefix'[q] = prefix[q] /\ body'[q] = body[q] /\ size'[q] = size[q]
        BY <1>1, <1>3, <3>2 DEF LocalTypes
      <4>2. QED
        BY <1>3, <4>1 DEF LocalTypes
    <3>3. QED
      BY <3>1, <3>2
  <2>2. QED
    BY <1>1, <1>2, <1>3, <2>1 DEF LocalTypes
<1>5. Others(p)
  BY <1>1, <1>3 DEF LocalTypes, Others
<1>6. pc'[p] = "idle" /\ result'[p] = r /\ entries'[p] = {} /\ prefix'[p] = << >> /\ body'[p] = << >>
  BY <1>1, <1>3 DEF LocalTypes
<1>7. Local(p)'
  BY <1>6 DEF Local, Reload, Reloads
<1>8. QED
  BY <1>4, <1>5, <1>7, Kept DEF CrashOnlyIfOvertaken

\* A call that goes on to its next step.
LEMMA GoOn ==
  ASSUME IInv, NEW p \in Procs, NEW step \in Steps, pc' = [pc EXCEPT ![p] = step], LocalTypes',
         UNCHANGED <<want, early, result>>,
         \A q \in Procs \ {p} : /\ entries'[q] = entries[q] /\ prefix'[q] = prefix[q]
                                /\ size'[q] = size[q] /\ body'[q] = body[q],
         Reading(p), disturbed'[p] = disturbed[p], UNCHANGED tainted, ~crashed', GlobalTypes', Once', Stored',
         pc'[p] = step => Reload(p)',
         step \in {"size", "cache", "index", "keys"} => pc[p] \in {"size", "cache", "index", "keys"}
  PROVE  IInv'
<1>1. LocalTypes /\ Local(p)
  BY DEF IInv
<1>2. pc'[p] = step /\ Others(p)
  BY <1>1 DEF LocalTypes, Others
<1>3. Answer(p)'
  BY <1>1 DEF Local, Answer
<1>4. Local(p)'
  BY <1>1, <1>2, <1>3 DEF Local
<1>5. QED
  BY <1>2, <1>4, Kept DEF CrashOnlyIfOvertaken

\* A step of none of the goroutines, that does not use the reader.
LEMMA Elsewhere ==
  ASSUME IInv, UNCHANGED <<local, pos, history, calls>>, GlobalTypes', Stored',
         indexed' = indexed, crashed' = crashed
  PROVE  IInv'
<1>1. UNCHANGED <<pc, want, entries, prefix, size, body, result, disturbed, tainted, early>>
  BY DEF local, reading, history
<1>2. LocalTypes' /\ Once'
  BY <1>1 DEF IInv, LocalTypes, Once
<1>3. \A q \in Procs : Local(q)'
  BY <1>1 DEF IInv, Local, Reload, First, InLength, InBody, DataRead, Answer
<1>4. CrashOnlyIfOvertaken'
  BY <1>1 DEF IInv, CrashOnlyIfOvertaken
<1>5. QED
  BY <1>2, <1>3, <1>4 DEF IInv

-----------------------------------------------------------------------------
(* The steps. *)

LEMMA IndexAllStep == IInv /\ IndexAll => IInv'
<1> SUFFICES ASSUME IInv, IndexAll PROVE IInv'
  OBVIOUS
<1>1. /\ UNCHANGED <<pc, want, entries, prefix, size, body, result, disturbed, tainted, early>>
      /\ UNCHANGED <<cache, keys, chan, done, crashed>>
      /\ ~crashed /\ pos = 0 /\ indexed' = TRUE /\ toCache' = Sections /\ calls' = calls + 1 /\ pos' = Len(File)
  BY DEF IndexAll, local, reading, listing, history
<1>2. LocalTypes'
  BY <1>1 DEF IInv, LocalTypes
<1>3. GlobalTypes' /\ Once'
  <2>1. calls \in 0..MaxCalls
    BY <1>1, IndexedAssumption DEF IInv, GlobalTypes, Once
  <2>2. Len(File) \in Nat /\ Len(File) > 0 /\ Sections \in Seq(Cids) /\ MaxCalls \in Nat
    BY FileSeq, IndexedAssumption
  <2>3. QED
    BY <1>1, <2>1, <2>2 DEF IInv, GlobalTypes, Once
<1>4. ASSUME NEW q \in Procs PROVE Local(q)'
  <2>1. Local(q) /\ entries[q] \in SUBSET (1..Len(Sections))
    BY DEF IInv, LocalTypes
  <2>2. pc[q] \in {"length", "body"} /\ IsCARv1 => disturbed[q]
    <3> SUFFICES ASSUME pc[q] \in {"length", "body"}, IsCARv1, ~disturbed[q] PROVE FALSE
      OBVIOUS
    <3>1. First(q) \in 1..Len(Sections)
      BY TriedSection DEF Reloads
    <3>2. pos \in {Start[First(q)] + Len(prefix[q]), Start[First(q)] + LenBytes[First(q)] + Len(body[q])}
      BY <2>1 DEF Local, Reload, InLength, InBody
    <3>3. Start[First(q)] \in Nat /\ Start[First(q)] > 0 /\ LenBytes[First(q)] \in Nat
      BY <3>1, SectionAt
    <3>4. Len(prefix[q]) \in Nat /\ Len(body[q]) \in Nat
      BY LenProperties DEF IInv, LocalTypes
    <3>5. QED
      BY <1>1, <3>2, <3>3, <3>4
  <2>3. Reload(q)'
    BY <1>1, <2>1, <2>2 DEF Local, Reload, DataRead
  <2>4. Answer(q)'
    BY <1>1, <2>1 DEF Local, Answer
  <2>5. QED
    BY <1>1, <2>1, <2>3, <2>4 DEF Local
<1>5. Stored' /\ CrashOnlyIfOvertaken'
  BY <1>1, StoredSame DEF CrashOnlyIfOvertaken
<1>6. QED
  BY <1>2, <1>3, <1>4, <1>5 DEF IInv

LEMMA CacheSectionStep == IInv /\ CacheSection => IInv'
<1> SUFFICES ASSUME IInv, CacheSection PROVE IInv'
  OBVIOUS
<1>1. toCache # << >> /\ UNCHANGED <<indexed, pos, local, keys, chan, done, calls, crashed, history, tainted>>
  BY DEF CacheSection, listing, history
<1>2. GlobalTypes
  BY DEF IInv
<1>3. CASE /\ cache' = WithBlock(Block(Head(toCache), Data[Head(toCache)])) /\ toCache' = Tail(toCache)
  <2>1. toCache \in Seq(Cids) /\ toCache # << >>
    BY <1>1, <1>2 DEF GlobalTypes
  <2>2. Head(toCache) \in Cids /\ Tail(toCache) \in Seq(Cids)
    BY <2>1, HeadTailProperties
  <2> DEFINE b == Block(Head(toCache), Data[Head(toCache)])
  <2>3. b \in Blocks /\ Right(b, b.cid \in tainted')
    BY <2>2, DataIsRight
  <2>4. cache' = WithBlock(b) /\ tainted \subseteq tainted'
    BY <1>1, <1>3
  <2> HIDE DEF b
  <2>5. cache' \in Seq(Blocks) /\ Stored'
    BY <2>3, <2>4, StoredPut
  <2>6. GlobalTypes'
    BY <1>1, <1>2, <1>3, <2>2, <2>5 DEF GlobalTypes
  <2>7. QED
    BY <1>1, <2>5, <2>6, Elsewhere
<1>4. CASE toCache' = << >> /\ UNCHANGED cache
  <2>1. GlobalTypes'
    BY <1>1, <1>2, <1>4 DEF GlobalTypes
  <2>2. QED
    BY <1>1, <1>4, <2>1, StoredSame, Elsewhere
<1>5. QED
  BY <1>3, <1>4 DEF CacheSection

LEMMA ReceiveKeyStep == IInv /\ ReceiveKey => IInv'
<1> SUFFICES ASSUME IInv, ReceiveKey PROVE IInv'
  OBVIOUS
<1>1. GlobalTypes
  BY DEF IInv
<1>2. chan \in Seq(Cids) /\ chan # << >>
  BY <1>1 DEF GlobalTypes, ReceiveKey
<1>3. Tail(chan) \in Seq(Cids) /\ Len(Tail(chan)) = Len(chan) - 1 /\ Len(chan) \in Nat
  BY <1>2, HeadTailProperties, LenProperties
<1>4. GlobalTypes'
  <2>1. /\ UNCHANGED <<indexed, toCache, pos, cache, keys, done, calls, crashed, tainted>>
        /\ chan' = Tail(chan)
    BY DEF ReceiveKey, index, history
  <2>2. Len(chan') <= KeysBuffer /\ chan' \in Seq(Cids)
    BY <1>1, <1>3, <2>1, IndexedAssumption DEF GlobalTypes
  <2>3. QED
    BY <1>1, <2>1, <2>2 DEF GlobalTypes
<1>5. QED
  BY <1>4, StoredSame, Elsewhere DEF ReceiveKey, index, history

LEMMA CancelStep == IInv /\ Cancel => IInv'
<1> SUFFICES ASSUME IInv, Cancel PROVE IInv'
  OBVIOUS
<1>1. GlobalTypes'
  BY DEF IInv, GlobalTypes, Cancel, index, history
<1>2. QED
  BY <1>1, StoredSame, Elsewhere DEF Cancel, index, history

LEMMA Stutter == IInv /\ UNCHANGED vars => IInv'
<1> SUFFICES ASSUME IInv, UNCHANGED vars PROVE IInv'
  OBVIOUS
<1>1. GlobalTypes'
  BY DEF IInv, GlobalTypes, vars, index, listing, history
<1>2. QED
  BY <1>1, StoredSame, Elsewhere DEF vars, index, listing, history

\* A call makes one more, and leaves the rest as it is.
LEMMA CallStep ==
  ASSUME IInv, NEW p \in Procs, Call(p), UNCHANGED <<toCache, pos, tainted>>, indexed' \in {indexed, FALSE}
  PROVE  /\ Once' /\ calls' \in 0..MaxCalls + 1 /\ ~crashed /\ pc[p] = "idle" /\ Local(p)
         /\ indexed' \in BOOLEAN /\ toCache' \in Seq(Cids) /\ pos' \in 0..Len(File) /\ tainted' \subseteq Cids
<1>1. GlobalTypes /\ Once /\ Local(p)
  BY DEF IInv
<1>2. calls < MaxCalls /\ calls' = calls + 1 /\ calls \in Nat /\ MaxCalls \in Nat
  BY <1>1, IndexedAssumption DEF Call, GlobalTypes
<1>3. calls' \in 0..MaxCalls + 1 /\ calls' <= MaxCalls
  BY <1>2
<1>4. ~crashed /\ pc[p] = "idle"
  BY DEF Call, At
<1>5. indexed' \in BOOLEAN /\ toCache' \in Seq(Cids) /\ pos' \in 0..Len(File) /\ tainted' \subseteq Cids
  BY <1>1 DEF GlobalTypes
<1>6. Once'
  BY <1>1, <1>3 DEF GlobalTypes, Once
<1>7. QED
  BY <1>1, <1>3, <1>4, <1>5, <1>6

LEMMA PutStep == \A p \in Procs, c \in Cids : IInv /\ Put(p, c) => IInv'
<1> SUFFICES ASSUME IInv, NEW p \in Procs, NEW c \in Cids, Put(p, c) PROVE IInv'
  OBVIOUS
<1>1. /\ Call(p) /\ cache' = WithBlock(Block(c, Data[c]))
      /\ UNCHANGED <<indexed, toCache, pos, pc, want, entries, prefix, size, body, result, keys, chan, done, crashed>>
      /\ UNCHANGED <<disturbed, tainted, early>>
  BY DEF Put, index, local, reading, listing, history
<1>2. LocalTypes' /\ Others(p) /\ Reading(p) /\ Local(p)'
  BY <1>1 DEF IInv, LocalTypes, Others, Reading, Local, Reload, First, InLength, InBody, DataRead, Answer
<1> DEFINE b == Block(c, Data[c])
<1>3. b \in Blocks /\ Right(b, b.cid \in tainted')
  BY DataIsRight
<1>4. cache' = WithBlock(b) /\ tainted \subseteq tainted'
  BY <1>1
<1> HIDE DEF b
<1>5. cache' \in Seq(Blocks) /\ Stored'
  BY <1>3, <1>4, StoredPut
<1>6. Once' /\ calls' \in 0..MaxCalls + 1 /\ ~crashed
  BY <1>1, CallStep
<1>7. GlobalTypes'
  BY <1>1, <1>5, <1>6 DEF IInv, GlobalTypes
<1>8. QED
  BY <1>1, <1>2, <1>4, <1>5, <1>6, <1>7, Kept DEF CrashOnlyIfOvertaken

LEMMA DeleteStep == \A p \in Procs, c \in Cids : IInv /\ DeleteBlock(p, c) => IInv'
<1> SUFFICES ASSUME IInv, NEW p \in Procs, NEW c \in Cids, DeleteBlock(p, c) PROVE IInv'
  OBVIOUS
<1>1. /\ Call(p) /\ cache' = IF Cached(c) THEN RemoveAt(cache, Place(c)) ELSE cache
      /\ UNCHANGED <<indexed, toCache, pos, pc, want, entries, prefix, size, body, result, keys, chan, done, crashed>>
      /\ UNCHANGED <<disturbed, tainted, early>>
  BY DEF DeleteBlock, index, local, reading, listing, history
<1>2. LocalTypes' /\ Others(p) /\ Reading(p) /\ Local(p)'
  BY <1>1 DEF IInv, LocalTypes, Others, Reading, Local, Reload, First, InLength, InBody, DataRead, Answer
<1>3. cache \in Seq(Blocks) /\ Stored
  BY DEF IInv, GlobalTypes
<1>4. cache' \in Seq(Blocks) /\ ToSet(cache') \subseteq ToSet(cache)
  <2>1. CASE Cached(c)
    <3>1. Place(c) \in 1..Len(cache)
      BY <2>1, CachedPlace
    <3>2. QED
      BY <1>1, <1>3, <2>1, <3>1, RemoveAtElements
  <2>2. CASE ~Cached(c)
    BY <1>1, <1>3, <2>2
  <2>3. QED
    BY <2>1, <2>2
<1>5. Stored'
  BY <1>1, <1>3, <1>4 DEF Stored
<1>6. Once' /\ calls' \in 0..MaxCalls + 1 /\ ~crashed
  BY <1>1, CallStep
<1>7. GlobalTypes'
  BY <1>1, <1>4, <1>6 DEF IInv, GlobalTypes
<1>8. QED
  BY <1>1, <1>2, <1>5, <1>6, <1>7, Kept DEF CrashOnlyIfOvertaken

LEMMA CloseStep == \A p \in Procs : IInv /\ Close(p) => IInv'
<1> SUFFICES ASSUME IInv, NEW p \in Procs, Close(p) PROVE IInv'
  OBVIOUS
<1>1. /\ Call(p) /\ indexed' = FALSE
      /\ UNCHANGED <<toCache, pos, cache, pc, want, entries, prefix, size, body, result, keys, chan, done, crashed>>
      /\ UNCHANGED <<disturbed, tainted, early>>
  BY DEF Close, local, reading, listing, history
<1>2. LocalTypes' /\ Others(p) /\ Reading(p) /\ Local(p)'
  BY <1>1 DEF IInv, LocalTypes, Others, Reading, Local, Reload, First, InLength, InBody, DataRead, Answer
<1>3. Once' /\ calls' \in 0..MaxCalls + 1 /\ ~crashed
  BY <1>1, CallStep
<1>4. GlobalTypes'
  BY <1>1, <1>3 DEF IInv, GlobalTypes
<1>5. QED
  BY <1>1, <1>2, <1>3, <1>4, StoredSame, Kept DEF CrashOnlyIfOvertaken

\* Get and GetSize.
LEMMA BeginStep ==
  \A p \in Procs, c \in Cids : \A step \in {"cache", "size"} : IInv /\ Begin(p, c, step) => IInv'
<1> SUFFICES ASSUME IInv, NEW p \in Procs, NEW c \in Cids, NEW step \in {"cache", "size"}, Begin(p, c, step)
             PROVE  IInv'
  OBVIOUS
<1>1. /\ Call(p) /\ want' = [want EXCEPT ![p] = c] /\ disturbed' = [disturbed EXCEPT ![p] = FALSE]
      /\ early' = [early EXCEPT ![p] = indexed]
      /\ UNCHANGED <<indexed, toCache, pos, cache, keys, chan, done, crashed, tainted>>
  BY DEF Begin, index, listing
<1>2. LocalTypes /\ GlobalTypes
  BY DEF IInv
<1>3. Once' /\ calls' \in 0..MaxCalls + 1 /\ ~crashed /\ pc[p] = "idle" /\ Local(p)
  BY <1>1, CallStep
<1>4. GlobalTypes'
  BY <1>1, <1>2, <1>3 DEF GlobalTypes
<1>5. Stored'
  BY <1>1, StoredSame
<1>6. /\ want' \in [Procs -> Cids] /\ early' \in [Procs -> BOOLEAN] /\ disturbed' \in [Procs -> BOOLEAN]
      /\ \A q \in Procs \ {p} : want'[q] = want[q] /\ early'[q] = early[q]
      /\ Reading(p) /\ early'[p] = indexed /\ want'[p] = c
  BY <1>1, <1>2 DEF LocalTypes, GlobalTypes, Reading
<1>7. CASE indexed
  <2>1. pc' = [pc EXCEPT ![p] = step] /\ result' = [result EXCEPT ![p] = <<"none">>] /\ UNCHANGED <<entries, prefix, size, body>>
    BY <1>7 DEF Begin, reading
  <2>2. step \in Steps
    BY DEF Steps
  <2>3. LocalTypes'
    BY <1>2, <1>6, <2>1, <2>2 DEF LocalTypes
  <2>4. Others(p) /\ pc'[p] = step /\ result'[p] = <<"none">>
    BY <1>2, <1>6, <2>1 DEF LocalTypes, Others
  <2>5. Reload(p)'
    BY <1>3, <2>1, <2>4 DEF Local, Reload, Reloads
  <2>6. Answer(p)'
    <3>1. <<"none">>[1] = "none"
      OBVIOUS
    <3>2. QED
      BY <2>4, <3>1 DEF Answer
  <2>7. Local(p)'
    BY <1>6, <1>7, <2>5, <2>6 DEF Local
  <2>8. QED
    BY <1>1, <1>3, <1>4, <1>5, <1>6, <2>3, <2>4, <2>7, Kept DEF CrashOnlyIfOvertaken
<1>8. CASE ~indexed
  <2>1. Return(p, <<"uninitialized">>)
    BY <1>8 DEF Begin
  <2>2. result'[p] = <<"uninitialized">> => Answer(p)'
    BY DEF Answer
  <2>3. QED
    BY <1>1, <1>3, <1>4, <1>5, <1>6, <2>1, <2>2, ReturnStep
<1>9. QED
  BY <1>7, <1>8

LEMMA AllKeysChanStep == \A p \in Procs : IInv /\ AllKeysChan(p) => IInv'
<1> SUFFICES ASSUME IInv, NEW p \in Procs, AllKeysChan(p) PROVE IInv'
  OBVIOUS
<1>1. /\ Call(p) /\ early' = [early EXCEPT ![p] = indexed] /\ chan' = << >> /\ done' = FALSE
      /\ pc' = [pc EXCEPT ![p] = IF indexed THEN "keys" ELSE @]
      /\ UNCHANGED <<indexed, toCache, pos, cache, want, entries, prefix, size, body, result, keys, crashed, disturbed, tainted>>
  BY DEF AllKeysChan, index, reading
<1>2. LocalTypes /\ GlobalTypes
  BY DEF IInv
<1>3. Once' /\ calls' \in 0..MaxCalls + 1 /\ ~crashed /\ pc[p] = "idle" /\ Local(p)
  BY <1>1, CallStep
<1>4. GlobalTypes'
  <2>1. << >> \in Seq(Cids) /\ Len(<< >>) = 0 /\ 0 <= KeysBuffer
    BY IndexedAssumption
  <2>2. chan' \in Seq(Cids) /\ Len(chan') <= KeysBuffer /\ done' \in BOOLEAN
    BY <1>1, <2>1
  <2>3. QED
    BY <1>1, <1>2, <1>3, <2>2 DEF GlobalTypes
<1>5. "keys" \in Steps /\ "idle" \in Steps
  BY DEF Steps
<1>6. LocalTypes' /\ Others(p) /\ Reading(p)
  BY <1>1, <1>2, <1>5 DEF LocalTypes, GlobalTypes, Others, Reading
<1>7. pc'[p] = (IF indexed THEN "keys" ELSE "idle") /\ early'[p] = indexed
  BY <1>1, <1>2, <1>3 DEF LocalTypes
<1>8. Reload(p)'
  BY <1>1, <1>3, <1>7 DEF Local, Reload, Reloads
<1>9. Answer(p)'
  BY <1>1, <1>3 DEF Local, Answer
<1>10. Local(p)'
  BY <1>7, <1>8, <1>9 DEF Local
<1>11. QED
  BY <1>1, <1>3, <1>4, <1>6, <1>10, StoredSame, Kept DEF CrashOnlyIfOvertaken

LEMMA SizeLookupStep == \A p \in Procs : IInv /\ SizeLookup(p) => IInv'
<1> SUFFICES ASSUME IInv, NEW p \in Procs, SizeLookup(p) PROVE IInv'
  OBVIOUS
<1>1. /\ ~crashed /\ pc[p] = "size"
      /\ UNCHANGED <<indexed, toCache, pos, cache, want, keys, chan, done, calls, crashed, disturbed, tainted, early>>
  BY DEF SizeLookup, At, index, listing, history
<1>2. LocalTypes /\ GlobalTypes /\ Once /\ Local(p)
  BY DEF IInv
<1>3. GlobalTypes' /\ Once' /\ Stored' /\ Reading(p)
  BY <1>1, <1>2, StoredSame DEF GlobalTypes, Once, Reading
<1>4. want' \in [Procs -> Cids] /\ early' \in [Procs -> BOOLEAN] /\ disturbed' \in [Procs -> BOOLEAN]
  BY <1>1, <1>2 DEF LocalTypes
<1>5. CASE Cached(want[p])
  <2> DEFINE b == CachedBlock(want[p])
  <2>1. b \in Blocks /\ Right(b, b.cid \in tainted)
    BY <1>5, CachedIsRight
  <2>2. Return(p, <<"block", b>>)
    BY <1>5 DEF SizeLookup
  <2> HIDE DEF b
  <2>3. result'[p] = <<"block", b>> => Answer(p)'
    BY <1>1, <2>1 DEF Answer
  <2>4. QED
    BY <1>1, <1>3, <1>4, <2>2, <2>3, ReturnStep
<1>6. CASE ~Cached(want[p]) /\ ~indexed
  <2>1. Return(p, <<"uninitialized">>)
    BY <1>6 DEF SizeLookup
  <2>2. result'[p] = <<"uninitialized">> => Answer(p)'
    BY DEF Answer
  <2>3. QED
    BY <1>1, <1>3, <1>4, <2>1, <2>2, ReturnStep
<1>7. CASE ~Cached(want[p]) /\ indexed
  <2>1. pc' = [pc EXCEPT ![p] = "cache"] /\ UNCHANGED <<entries, prefix, size, body, result>>
    BY <1>7 DEF SizeLookup, reading
  <2>2. "cache" \in Steps
    BY DEF Steps
  <2>3. LocalTypes'
    BY <1>1, <1>2, <2>1, <2>2 DEF LocalTypes
  <2>4. pc'[p] = "cache" => Reload(p)'
    BY <1>1, <1>2, <2>1 DEF Local, Reload, Reloads
  <2>5. QED
    BY <1>1, <1>3, <2>1, <2>2, <2>3, <2>4, GoOn
<1>8. QED
  BY <1>5, <1>6, <1>7

LEMMA CacheLookupStep == \A p \in Procs : IInv /\ CacheLookup(p) => IInv'
<1> SUFFICES ASSUME IInv, NEW p \in Procs, CacheLookup(p) PROVE IInv'
  OBVIOUS
<1>1. /\ ~crashed /\ pc[p] = "cache"
      /\ UNCHANGED <<indexed, toCache, pos, want, keys, chan, done, calls, crashed, disturbed, tainted, early>>
  BY DEF CacheLookup, At, index, listing, history
<1>2. LocalTypes /\ GlobalTypes /\ Once /\ Stored /\ Local(p)
  BY DEF IInv
<1>3. Once' /\ Reading(p)
  BY <1>1, <1>2 DEF Once, Reading
<1>4. want' \in [Procs -> Cids] /\ early' \in [Procs -> BOOLEAN] /\ disturbed' \in [Procs -> BOOLEAN]
  BY <1>1, <1>2 DEF LocalTypes
<1>5. CASE Cached(want[p])
  <2> DEFINE b == CachedBlock(want[p])
             i == LRU!PlaceOf(cache, b)
  <2>1. b \in Blocks /\ b \in ToSet(cache) /\ Right(b, b.cid \in tainted)
    BY <1>5, CachedIsRight
  <2>2. Return(p, <<"block", b>>) /\ cache' = LRU!Used(cache, b)
    BY <1>5 DEF CacheLookup
  <2> HIDE DEF b
  <2>3. result'[p] = <<"block", b>> => Answer(p)'
    BY <1>1, <2>1 DEF Answer
  <2>4. cache \in Seq(Blocks)
    BY <1>2 DEF GlobalTypes
  <2>5. i \in 1..Len(cache)
    <3>1. DOMAIN cache = 1..Len(cache)
      BY <2>4, LenProperties
    <3>2. \E j \in 1..Len(cache) : cache[j] = b
      BY <2>1, <3>1 DEF ToSet
    <3>3. QED
      BY <3>2 DEF LRU!PlaceOf
  <2>6. cache' = <<b>> \o RemoveAt(cache, i)
    BY <2>2 DEF LRU!Used, LRU!RemoveAt, RemoveAt
  <2> HIDE DEF i
  <2>7. RemoveAt(cache, i) \in Seq(Blocks) /\ ToSet(RemoveAt(cache, i)) \subseteq ToSet(cache)
    BY <2>4, <2>5, RemoveAtElements
  <2>8. cache' \in Seq(Blocks) /\ ToSet(cache') \subseteq ToSet(cache)
    BY <2>1, <2>6, <2>7, FrontElements
  <2>9. Stored' /\ GlobalTypes'
    BY <1>1, <1>2, <2>8 DEF Stored, GlobalTypes
  <2>10. QED
    BY <1>1, <1>3, <1>4, <2>2, <2>3, <2>9, ReturnStep
<1>6. CASE ~Cached(want[p])
  <2>1. pc' = [pc EXCEPT ![p] = "index"] /\ UNCHANGED <<cache, entries, prefix, size, body, result>>
    BY <1>6 DEF CacheLookup, reading
  <2>2. "index" \in Steps
    BY DEF Steps
  <2>3. LocalTypes' /\ GlobalTypes'
    BY <1>1, <1>2, <2>1, <2>2 DEF LocalTypes, GlobalTypes
  <2>4. pc'[p] = "index" => Reload(p)'
    BY <1>1, <1>2, <2>1 DEF Local, Reload, Reloads
  <2>5. Stored'
    BY <1>1, <2>1, StoredSame
  <2>6. QED
    BY <1>1, <1>3, <2>1, <2>2, <2>3, <2>4, <2>5, GoOn
<1>7. QED
  BY <1>5, <1>6

\* The program ends in a step of a call that was made before Close.
LEMMA Crash ==
  ASSUME IInv, NEW p \in Procs, pc[p] \in {"index", "keys"}, ~indexed, crashed' = TRUE,
         UNCHANGED <<indexed, toCache, pos, cache, pc, want, entries, prefix, size, body, result>>,
         UNCHANGED <<keys, chan, done, calls, disturbed, tainted, early>>
  PROVE  IInv'
<1>1. LocalTypes' /\ GlobalTypes' /\ Once' /\ Stored'
  BY StoredSame DEF IInv, LocalTypes, GlobalTypes, Once
<1>2. \A q \in Procs : Local(q)'
  BY DEF IInv, Local, Reload, First, InLength, InBody, DataRead, Answer
<1>3. Local(p)
  BY DEF IInv
<1>4. CrashOnlyIfOvertaken'
  BY <1>3 DEF CrashOnlyIfOvertaken, Local
<1>5. QED
  BY <1>1, <1>2, <1>4 DEF IInv

LEMMA IndexLookupStep == \A p \in Procs : IInv /\ IndexLookup(p) => IInv'
<1> SUFFICES ASSUME IInv, NEW p \in Procs, IndexLookup(p) PROVE IInv'
  OBVIOUS
<1>1. /\ ~crashed /\ pc[p] = "index"
      /\ UNCHANGED <<indexed, toCache, pos, cache, keys, chan, done, calls, disturbed, tainted, early>>
  BY DEF IndexLookup, At, index, listing, history
<1>2. LocalTypes /\ GlobalTypes /\ Once /\ Local(p)
  BY DEF IInv
<1>3. CASE ~indexed
  <2>1. crashed' = TRUE /\ UNCHANGED <<pc, want, entries, prefix, size, body, result>>
    BY <1>3 DEF IndexLookup, local, reading
  <2>2. QED
    BY <1>1, <1>3, <2>1, Crash
<1>4. CASE indexed
  <2> DEFINE s == SectionsWith(Digest[want[p]])
  <2>1. UNCHANGED <<crashed, want>>
    BY <1>4 DEF IndexLookup
  <2>2. GlobalTypes' /\ Once' /\ Stored' /\ Reading(p)
    BY <1>1, <1>2, <2>1, StoredSame DEF GlobalTypes, Once, Reading
  <2>3. CASE s = {}
    <3>1. Return(p, <<"not found">>)
      BY <1>4, <2>3 DEF IndexLookup
    <3>2. want'[p] = want[p] /\ SectionsWith(Digest[want[p]]) = {}
      BY <2>1, <2>3
    <3>3. SectionsWith(Digest[want'[p]]) = {} /\ <<"not found">>[1] = "not found"
      BY <3>2
    <3>4. result'[p] = <<"not found">> => Answer(p)'
      BY <3>3 DEF Answer, SectionsWith
    <3>5. want' \in [Procs -> Cids] /\ early' \in [Procs -> BOOLEAN] /\ disturbed' \in [Procs -> BOOLEAN]
      BY <1>1, <1>2, <2>1 DEF LocalTypes
    <3>6. QED
      BY <1>1, <2>1, <2>2, <3>1, <3>4, <3>5, ReturnStep
  <2>4. CASE s # {}
    <3>1. /\ entries' = [entries EXCEPT ![p] = s] /\ pc' = [pc EXCEPT ![p] = "seek"]
          /\ UNCHANGED <<prefix, size, body, result>>
      BY <1>4, <2>4 DEF IndexLookup, reading
    <3>2. s \in SUBSET (1..Len(Sections))
      BY DEF SectionsWith
    <3> HIDE DEF s
    <3>3. "seek" \in Steps
      BY DEF Steps
    <3>4. LocalTypes' /\ \A q \in Procs \ {p} : entries'[q] = entries[q]
      BY <1>1, <1>2, <2>1, <3>1, <3>2, <3>3 DEF LocalTypes
    <3>5. entries'[p] = s /\ prefix'[p] = prefix[p] /\ body'[p] = body[p] /\ pc'[p] = "seek"
      BY <1>2, <3>1 DEF LocalTypes
    <3>6. pc'[p] = "seek" => Reload(p)'
      BY <1>1, <1>2, <2>1, <2>4, <3>5 DEF Local, Reload, Reloads, s
    <3>7. QED
      BY <1>1, <2>1, <2>2, <3>1, <3>3, <3>4, <3>6, GoOn
  <2>5. QED
    BY <2>3, <2>4
<1>5. QED
  BY <1>3, <1>4

LEMMA SeekStep == \A p \in Procs : IInv /\ Seek(p) => IInv'
<1> SUFFICES ASSUME IInv, NEW p \in Procs, Seek(p) PROVE IInv'
  OBVIOUS
<1>1. /\ ~crashed /\ pc[p] = "seek" /\ pos' = FirstOffset(p) /\ pc' = [pc EXCEPT ![p] = "length"] /\ Disturb(p)
      /\ UNCHANGED <<indexed, toCache, cache, want, entries, prefix, size, body, result, keys, chan, done, calls, crashed>>
      /\ UNCHANGED <<tainted, early>>
  BY DEF Seek, At, index, listing, reading
<1>2. LocalTypes /\ GlobalTypes /\ Once /\ Local(p)
  BY DEF IInv
<1>3. disturbed' \in [Procs -> BOOLEAN] /\ disturbed'[p] = disturbed[p] /\ Reading(p)
  BY <1>1, <1>2, Disturbs
<1>4. /\ First(p) \in 1..Len(Sections) /\ pos' = Offset(First(p))
  BY <1>1, TriedSection DEF Reloads, FirstOffset, First
<1>5. /\ pos' \in 1..Len(File) /\ (IsCARv1 => pos' = Start[First(p)])
      /\ Start[First(p)] \in Nat /\ LenBytes[First(p)] \in Nat \ {0}
  BY <1>4, SectionAt
<1>6. GlobalTypes' /\ Once' /\ Stored'
  <2>1. pos' \in 0..Len(File) /\ pos' # 0
    BY <1>5, FileSeq
  <2>2. QED
    BY <1>1, <1>2, <2>1, StoredSame DEF GlobalTypes, Once
<1>7. "length" \in Steps
  BY DEF Steps
<1>8. LocalTypes'
  BY <1>1, <1>2, <1>3, <1>7 DEF LocalTypes
<1>9. IsCARv1 => InLength(First(p), prefix[p])'
  <2>1. prefix'[p] = << >> /\ Len(<< >>) = 0
    BY <1>1, <1>2 DEF Local, Reload
  <2>2. First(p)' = First(p)
    BY <1>1 DEF First
  <2>3. QED
    BY <1>5, <2>1, <2>2 DEF InLength
<1>10. pc'[p] = "length" => Reload(p)'
  BY <1>1, <1>2, <1>9 DEF Local, Reload, Reloads
<1>11. QED
  BY <1>1, <1>3, <1>6, <1>7, <1>8, <1>10, GoOn

\* A reload that fails, undisturbed, only with an excuse.
LEMMA FailStep ==
  ASSUME IInv, NEW p \in Procs, ~crashed, pc[p] \in {"length", "body"}, Reads(p), Return(p, <<"failed">>),
         pos' \in 1..Len(File), IsCARv1 => disturbed[p] \/ Excused(want[p])
  PROVE  IInv'
<1>1. /\ Disturb(p)
      /\ UNCHANGED <<indexed, toCache, cache, want, keys, chan, done, calls, crashed, tainted, early>>
  BY DEF Reads, index, listing
<1>2. LocalTypes /\ GlobalTypes /\ Once /\ Local(p)
  BY DEF IInv
<1>3. disturbed' \in [Procs -> BOOLEAN] /\ disturbed'[p] = disturbed[p] /\ Reading(p)
  BY <1>1, <1>2, Disturbs
<1>4. GlobalTypes' /\ Once' /\ Stored'
  <2>1. pos' \in 0..Len(File) /\ pos' # 0
    BY FileSeq
  <2>2. QED
    BY <1>1, <1>2, <2>1, StoredSame DEF GlobalTypes, Once
<1>5. want' \in [Procs -> Cids] /\ early' \in [Procs -> BOOLEAN]
  BY <1>1, <1>2 DEF LocalTypes
<1>6. result'[p] = <<"failed">> => Answer(p)'
  <2>1. <<"failed">>[1] = "failed"
    OBVIOUS
  <2>2. IsCARv1 => disturbed'[p] \/ Excused(want'[p])
    BY <1>1, <1>3
  <2>3. QED
    BY <2>1, <2>2 DEF Answer
<1>7. QED
  BY <1>1, <1>3, <1>4, <1>5, <1>6, ReturnStep

\* What the next byte of a length is, and what to make of it.
LEMMA NextByte ==
  ASSUME IInv, NEW p \in Procs, pc[p] = "length", IsCARv1, ~disturbed[p]
  PROVE  LET i == First(p)
             s == Append(prefix[p], File[pos + 1])
         IN  /\ pos < Len(File)
             /\ IF Unfinished(s) THEN Len(s) < LenBytes[i] /\ \A j \in 1..Len(s) : s[j] = File[Start[i] + j]
                ELSE /\ Len(s) = LenBytes[i] /\ Uvarint(s) = BodyLen(Sections[i])
                     /\ ~IsLength(s) => BodyLen(Sections[i]) > MaxRead
<1> DEFINE i == First(p)
           k == Len(prefix[p])
           n == LenBytes[i]
           b == File[pos + 1]
           s == Append(prefix[p], b)
           len == BodyLen(Sections[i])
<1>1. LocalTypes /\ Local(p)
  BY DEF IInv
<1>2. /\ k < n /\ pos = Start[i] + k
      /\ \A j \in 1..k : prefix[p][j] = File[Start[i] + j]
  BY <1>1 DEF Local, Reload, InLength
<1>3. i \in 1..Len(Sections) /\ Sections[i] \in Cids
  BY TriedSection DEF Reloads
<1>4. prefix[p] \in Seq(Nat) /\ k \in Nat
  BY <1>1, LenProperties DEF LocalTypes
<1>5. /\ Start[i] \in Nat /\ n \in Nat \ {0} /\ n <= MaxPrefix /\ Start[i] + n + len <= Len(File) /\ len \in Nat \ {0}
  BY <1>3, SectionAt, DataSeq
<1>6. /\ \A j \in 1..n : File[Start[i] + j] \in Nat /\ (File[Start[i] + j] >= Radix <=> j # n)
      /\ File[Start[i] + n] = 0 => n = 1
      /\ \A t \in Seq(Nat) : Len(t) = n /\ (\A j \in 1..Len(t) : t[j] = File[Start[i] + j]) => Uvarint(t) = len
  BY <1>3, LengthBytes
<1> HIDE DEF i, k, n, len
<1>7. pos + 1 = Start[i] + (k + 1) /\ k + 1 \in 1..n /\ pos < Len(File) /\ MaxPrefix \in Nat
  <2> DEFINE st == Start[i]
             fl == Len(File)
  <2>1. st \in Nat /\ fl \in Nat /\ st + n + len <= fl /\ pos = st + k
    BY <1>2, <1>5, FileSeq
  <2> HIDE DEF st, fl
  <2>2. pos + 1 = st + (k + 1) /\ k + 1 \in 1..n /\ pos < fl
    BY <1>2, <1>4, <1>5, <2>1
  <2>3. QED
    BY <2>2, IndexedAssumption DEF st, fl
<1>8. b \in Nat /\ (b >= Radix <=> k + 1 # n) /\ b = File[Start[i] + (k + 1)]
  BY <1>6, <1>7
<1> HIDE DEF b
<1>9. /\ s \in Seq(Nat) /\ Len(s) = k + 1 /\ s[k + 1] = b
      /\ \A j \in 1..k : s[j] = prefix[p][j]
  BY <1>4, <1>8, AppendProperties DEF k
<1> HIDE DEF s
<1>10. \A j \in 1..Len(s) : s[j] = File[Start[i] + j]
  BY <1>2, <1>4, <1>8, <1>9
<1>11. Last(s) = b
  BY <1>9 DEF Last
<1>12. Unfinished(s) <=> k + 1 # n
  BY <1>4, <1>5, <1>7, <1>8, <1>9, <1>11 DEF Unfinished
<1>13. CASE k + 1 # n
  BY <1>4, <1>5, <1>7, <1>9, <1>10, <1>12, <1>13 DEF i, b, s, n
<1>14. CASE k + 1 = n
  <2>1. Uvarint(s) = len
    BY <1>6, <1>9, <1>10, <1>14
  <2>2. b < Radix /\ (b = 0 => Len(s) = 1)
    BY <1>6, <1>8, <1>9, <1>14, IndexedAssumption
  <2>3. ~IsLength(s) => len > MaxRead
    <3>1. MaxRead \in Nat
      BY IndexedAssumption
    <3>2. IsLength(s) <=> len \in 1..MaxRead
      BY <1>11, <2>1, <2>2 DEF IsLength, Readable
    <3>3. QED
      BY <1>5, <3>1, <3>2
  <2>4. QED
    BY <1>7, <1>9, <1>12, <1>14, <2>1, <2>3 DEF i, b, s, n, len
<1>15. QED
  BY <1>13, <1>14

LEMMA ReadLengthStep == \A p \in Procs : IInv /\ ReadLength(p) => IInv'
<1> SUFFICES ASSUME IInv, NEW p \in Procs, ReadLength(p) PROVE IInv'
  OBVIOUS
<1> DEFINE i == First(p)
           s == Append(prefix[p], File[pos + 1])
<1>1. /\ ~crashed /\ pc[p] = "length" /\ Reads(p) /\ Disturb(p)
      /\ UNCHANGED <<indexed, toCache, cache, want, keys, chan, done, calls, crashed, tainted, early>>
  BY DEF ReadLength, Reads, At, index, listing
<1>2. LocalTypes /\ GlobalTypes /\ Once /\ Local(p)
  BY DEF IInv
<1>3. disturbed' \in [Procs -> BOOLEAN] /\ disturbed'[p] = disturbed[p] /\ Reading(p)
  BY <1>1, <1>2, Disturbs
<1>4. pos \in 0..Len(File) /\ Len(File) \in Nat \ {0}
  BY <1>2, FileSeq DEF GlobalTypes
<1>5. i \in 1..Len(Sections) /\ Sections[i] \in Cids /\ i = FirstWith(want[p])
  BY <1>1, TriedSection DEF Reloads
<1>6. ASSUME IsCARv1, ~disturbed[p]
      PROVE  /\ pos < Len(File)
             /\ IF Unfinished(s) THEN Len(s) < LenBytes[i] /\ \A j \in 1..Len(s) : s[j] = File[Start[i] + j]
                ELSE /\ Len(s) = LenBytes[i] /\ Uvarint(s) = BodyLen(Sections[i])
                     /\ ~IsLength(s) => BodyLen(Sections[i]) > MaxRead
  BY <1>1, <1>6, NextByte
<1>7. CASE pos >= Len(File)
  <2>1. pos' = pos /\ Return(p, <<"failed">>)
    BY <1>7 DEF ReadLength
  <2>2. IsCARv1 => disturbed[p]
    BY <1>4, <1>6, <1>7
  <2>3. pos' \in 1..Len(File)
    BY <1>4, <1>7, <2>1
  <2>4. QED
    BY <1>1, <2>1, <2>2, <2>3, FailStep
<1>8. CASE ~(pos >= Len(File))
  <2>1. /\ pos' = pos + 1
        /\ IF Unfinished(s) THEN /\ prefix' = [prefix EXCEPT ![p] = s]
                                 /\ UNCHANGED <<pc, entries, size, body, result>>
           ELSE IF IsLength(s) THEN /\ pc' = [pc EXCEPT ![p] = "body"]
                                    /\ prefix' = [prefix EXCEPT ![p] = << >>]
                                    /\ size' = [size EXCEPT ![p] = Uvarint(s)]
                                    /\ UNCHANGED <<entries, body, result>>
           ELSE Return(p, <<"failed">>)
    BY <1>8 DEF ReadLength
  <2>2. pos' \in 1..Len(File)
    BY <1>4, <1>8, <2>1
  <2>3. GlobalTypes' /\ Once' /\ Stored'
    <3>1. pos' \in 0..Len(File) /\ pos' # 0
      BY <1>4, <2>2
    <3>2. QED
      BY <1>1, <1>2, <3>1, StoredSame DEF GlobalTypes, Once
  <2>4. prefix[p] \in Seq(Nat) /\ Len(prefix[p]) \in Nat /\ File[pos + 1] \in Nat
    BY <1>2, <1>4, <1>8, LenProperties, FileSeq DEF LocalTypes
  <2>5. s \in Seq(Nat) /\ Len(s) = Len(prefix[p]) + 1
    BY <2>4, AppendProperties
  <2>6. First(p)' = First(p) \/ Return(p, <<"failed">>)
    BY <2>1 DEF First
  <2> HIDE DEF s
  <2>7. CASE Unfinished(s)
    <3>1. prefix' = [prefix EXCEPT ![p] = s] /\ UNCHANGED <<pc, entries, size, body, result>>
      BY <2>1, <2>7
    <3>2. Len(s) <= MaxPrefix
      BY <2>4, <2>5, <2>7, IndexedAssumption DEF Unfinished
    <3>3. "length" \in Steps /\ pc' = [pc EXCEPT ![p] = "length"]
      BY <1>1, <1>2, <3>1 DEF LocalTypes, Steps
    <3>4. LocalTypes' /\ (\A q \in Procs \ {p} : prefix'[q] = prefix[q]) /\ prefix'[p] = s
      BY <1>1, <1>2, <1>3, <2>5, <3>1, <3>2 DEF LocalTypes
    <3>5. IsCARv1 /\ ~disturbed'[p] => InLength(First(p), prefix[p])'
      <4> SUFFICES ASSUME IsCARv1, ~disturbed'[p] PROVE InLength(First(p), prefix[p])'
        OBVIOUS
      <4>1. Len(s) < LenBytes[i] /\ \A j \in 1..Len(s) : s[j] = File[Start[i] + j]
        BY <1>3, <1>6, <2>7
      <4>2. pos = Start[i] + Len(prefix[p]) /\ Start[i] \in Nat
        BY <1>1, <1>2, <1>3, <1>5, SectionAt DEF Local, Reload, InLength
      <4>3. pos' = Start[i] + Len(s)
        BY <2>1, <2>4, <2>5, <4>2
      <4>4. First(p)' = i
        BY <3>1 DEF First
      <4>5. QED
        BY <3>4, <4>1, <4>3, <4>4 DEF InLength
    <3>6. pc'[p] = "length" => Reload(p)'
      BY <1>1, <1>2, <3>1, <3>5 DEF Local, Reload, Reloads
    <3>7. QED
      BY <1>1, <1>3, <2>3, <3>1, <3>3, <3>4, <3>6, GoOn
  <2>8. CASE ~Unfinished(s) /\ IsLength(s)
    <3>1. /\ pc' = [pc EXCEPT ![p] = "body"] /\ prefix' = [prefix EXCEPT ![p] = << >>]
          /\ size' = [size EXCEPT ![p] = Uvarint(s)] /\ UNCHANGED <<entries, body, result>>
      BY <2>1, <2>8
    <3>2. Uvarint(s) \in 1..MaxRead /\ MaxRead \in Nat
      BY <2>8, IndexedAssumption DEF IsLength, Readable
    <3>3. "body" \in Steps /\ << >> \in Seq(Nat) /\ Len(<< >>) = 0 /\ 0 <= MaxPrefix
      BY IndexedAssumption DEF Steps
    <3>4. body[p] = << >>
      BY <1>1, <1>2 DEF Local, Reload
    <3>5. /\ LocalTypes' /\ prefix'[p] = << >> /\ size'[p] = Uvarint(s) /\ body'[p] = << >>
          /\ \A q \in Procs \ {p} : prefix'[q] = prefix[q] /\ size'[q] = size[q]
      BY <1>1, <1>2, <1>3, <3>1, <3>2, <3>3, <3>4 DEF LocalTypes
    <3>6. IsCARv1 /\ ~disturbed'[p] => size'[p] = BodyLen(Sections[First(p)]) /\ InBody(First(p), body[p])'
      <4> SUFFICES ASSUME IsCARv1, ~disturbed'[p]
                   PROVE  size'[p] = BodyLen(Sections[First(p)]) /\ InBody(First(p), body[p])'
        OBVIOUS
      <4>1. Len(s) = LenBytes[i] /\ Uvarint(s) = BodyLen(Sections[i])
        BY <1>3, <1>6, <2>8
      <4>2. pos = Start[i] + Len(prefix[p]) /\ Start[i] \in Nat
        BY <1>1, <1>2, <1>3, <1>5, SectionAt DEF Local, Reload, InLength
      <4>3. pos' = Start[i] + LenBytes[i] + 0
        <5> DEFINE st == Start[i]
                   k == Len(prefix[p])
                   l == Len(s)
        <5>1. pos' = st + l /\ l \in Nat
          <6>1. pos' = pos + 1 /\ pos = st + k /\ l = k + 1 /\ k \in Nat /\ st \in Nat
            BY <2>1, <2>4, <2>5, <4>2
          <6> HIDE DEF st, k, l
          <6>2. QED
            BY <6>1
        <5>2. QED
          BY <4>1, <4>2, <5>1
      <4>4. First(p)' = i
        BY <3>1 DEF First
      <4>5. QED
        BY <3>3, <3>5, <4>1, <4>3, <4>4 DEF InBody
    <3>7. First(p)' = First(p)
      BY <3>1 DEF First
    <3>8. pc'[p] = "body" => Reload(p)'
      BY <1>1, <1>2, <3>1, <3>2, <3>3, <3>5, <3>6, <3>7 DEF Local, Reload, Reloads
    <3>9. QED
      BY <1>1, <1>3, <2>3, <3>1, <3>3, <3>5, <3>8, GoOn
  <2>9. CASE ~Unfinished(s) /\ ~IsLength(s)
    <3>1. Return(p, <<"failed">>)
      BY <2>1, <2>9
    <3>2. IsCARv1 /\ ~disturbed[p] => Excused(want[p])
      BY <1>5, <1>6, <2>9 DEF Excused
    <3>3. QED
      BY <1>1, <2>2, <3>1, <3>2, FailStep
  <2>10. QED
    BY <2>7, <2>8, <2>9
<1>9. QED
  BY <1>7, <1>8

\* What a read of the body adds to it.
LEMMA BytesRead ==
  ASSUME IInv, NEW p \in Procs, pc[p] = "body", pos < Len(File),
         NEW n \in 1..Smaller(size[p] - Len(body[p]), Len(File) - pos)
  PROVE  LET i == First(p)
             s == body[p] \o SubSeq(File, pos + 1, pos + n)
         IN  /\ pos + n \in 1..Len(File)
             /\ s \in Seq(Nat) /\ Len(s) \in 1..size[p] /\ Len(s) = Len(body[p]) + n
             /\ IsCARv1 /\ ~disturbed[p] =>
                  /\ size[p] = BodyLen(Sections[i])
                  /\ pos + n = Start[i] + LenBytes[i] + Len(s)
                  /\ \A j \in 1..Len(s) : s[j] = File[Start[i] + LenBytes[i] + j]
<1> DEFINE i == First(p)
           m == Start[i] + LenBytes[i]
           k == Len(body[p])
           t == SubSeq(File, pos + 1, pos + n)
           s == body[p] \o t
<1>1. LocalTypes /\ GlobalTypes /\ Local(p)
  BY DEF IInv
<1>2. body[p] \in Seq(Nat) /\ k \in Nat /\ size[p] \in Nat /\ k <= size[p] /\ pos \in Nat /\ Len(File) \in Nat
  BY <1>1, LenProperties, FileSeq, IndexedAssumption DEF LocalTypes, GlobalTypes
<1>3. n \in Nat \ {0} /\ k + n <= size[p] /\ pos + n <= Len(File)
  <2>1. n <= size[p] - k /\ n <= Len(File) - pos /\ n \in Nat /\ n >= 1
    BY <1>2 DEF Smaller
  <2>2. QED
    BY <1>2, <2>1
<1>4. t \in Seq(Nat) /\ Len(t) = n /\ \A j \in 1..n : t[j] = File[pos + j]
  BY <1>2, <1>3, FileBytes
<1> HIDE DEF k, t
<1>5. /\ s \in Seq(Nat) /\ Len(s) = k + n
      /\ \A j \in 1..k + n : s[j] = IF j <= k THEN body[p][j] ELSE t[j - k]
  BY <1>2, <1>4, ConcatProperties DEF k
<1> HIDE DEF s
<1>6. pos + n \in 1..Len(File) /\ Len(s) \in 1..size[p]
  BY <1>2, <1>3, <1>5
<1>7. ASSUME IsCARv1, ~disturbed[p]
      PROVE  size[p] = BodyLen(Sections[i]) /\ pos + n = m + Len(s) /\ \A j \in 1..Len(s) : s[j] = File[m + j]
  <2>1. size[p] = BodyLen(Sections[i]) /\ pos = m + k /\ \A j \in 1..k : body[p][j] = File[m + j]
    BY <1>1, <1>7 DEF Local, Reload, InBody, k
  <2>2. m \in Nat
    <3>1. i \in 1..Len(Sections)
      BY TriedSection DEF Reloads
    <3>2. QED
      BY <3>1, SectionAt
  <2> HIDE DEF i, m
  <2>3. pos + n = m + Len(s)
    BY <1>2, <1>3, <1>5, <2>1, <2>2
  <2>4. ASSUME NEW j \in 1..Len(s) PROVE s[j] = File[m + j]
    <3>1. j \in 1..k + n /\ j \in Nat
      BY <1>2, <1>3, <1>5
    <3>2. CASE j <= k
      <4>1. j \in 1..k /\ s[j] = body[p][j]
        BY <1>2, <1>5, <3>1, <3>2
      <4>2. QED
        BY <2>1, <4>1
    <3>3. CASE j > k
      <4>1. j - k \in 1..n /\ s[j] = t[j - k]
        BY <1>2, <1>3, <1>5, <3>1, <3>3
      <4>2. pos + (j - k) = m + j
        BY <1>2, <2>1, <2>2, <3>1
      <4>3. QED
        BY <1>4, <4>1, <4>2
    <3>4. QED
      BY <1>2, <3>1, <3>2, <3>3
  <2>5. QED
    BY <2>1, <2>3, <2>4
<1>8. QED
  BY <1>5, <1>6, <1>7 DEF k, s, t

LEMMA ReadBodyStep == \A p \in Procs : IInv /\ ReadBody(p) => IInv'
<1> SUFFICES ASSUME IInv, NEW p \in Procs, ReadBody(p) PROVE IInv'
  OBVIOUS
<1>1. /\ ~crashed /\ pc[p] = "body" /\ Reads(p) /\ Disturb(p)
      /\ UNCHANGED <<indexed, toCache, cache, want, keys, chan, done, calls, crashed, tainted, early>>
  BY DEF ReadBody, Reads, At, index, listing
<1>2. LocalTypes /\ GlobalTypes /\ Once /\ Local(p)
  BY DEF IInv
<1>3. disturbed' \in [Procs -> BOOLEAN] /\ disturbed'[p] = disturbed[p] /\ Reading(p)
  BY <1>1, <1>2, Disturbs
<1>4. pos \in 0..Len(File) /\ Len(File) \in Nat \ {0} /\ want[p] \in Cids
  BY <1>2, FileSeq DEF GlobalTypes, LocalTypes
<1> DEFINE i == First(p)
           c == Sections[i]
<1>5. i \in 1..Len(Sections) /\ c \in Cids /\ i = FirstWith(want[p])
  BY <1>1, TriedSection DEF Reloads
<1>6. CASE pos >= Len(File)
  <2>1. pos' = pos /\ Return(p, <<"failed">>)
    BY <1>6 DEF ReadBody
  <2>2. IsCARv1 => disturbed[p]
    <3> SUFFICES ASSUME IsCARv1, ~disturbed[p] PROVE FALSE
      OBVIOUS
    <3>1. pos = Start[i] + LenBytes[i] + Len(body[p]) /\ size[p] = BodyLen(c) /\ Len(body[p]) < size[p]
      BY <1>1, <1>2 DEF Local, Reload, InBody
    <3>2. Start[i] \in Nat /\ LenBytes[i] \in Nat /\ Start[i] + LenBytes[i] + BodyLen(c) <= Len(File)
      BY <1>5, SectionAt
    <3>3. BodyLen(c) \in Nat /\ Len(body[p]) \in Nat
      BY <1>2, <1>5, DataSeq, LenProperties DEF LocalTypes
    <3>4. QED
      BY <1>4, <1>6, <3>1, <3>2, <3>3
  <2>3. pos' \in 1..Len(File)
    BY <1>4, <1>6, <2>1
  <2>4. QED
    BY <1>1, <2>1, <2>2, <2>3, FailStep
<1>7. CASE ~(pos >= Len(File))
  <2>1. pos < Len(File)
    BY <1>4, <1>7
  <2>2. PICK n \in 1..Smaller(size[p] - Len(body[p]), Len(File) - pos) :
          LET bytes == body[p] \o SubSeq(File, pos + 1, pos + n)
          IN  /\ pos' = pos + n
              /\ IF AllRead(p, bytes) /\ ~RightCid(p, bytes) THEN Return(p, <<"failed">>)
                 ELSE /\ body' = [body EXCEPT ![p] = bytes]
                      /\ pc' = [pc EXCEPT ![p] = IF AllRead(p, bytes) THEN "put" ELSE @]
                      /\ UNCHANGED <<entries, prefix, size, result>>
    BY <1>7 DEF ReadBody
  <2> DEFINE s == body[p] \o SubSeq(File, pos + 1, pos + n)
  <2>3. /\ pos' = pos + n
        /\ IF AllRead(p, s) /\ ~RightCid(p, s) THEN Return(p, <<"failed">>)
           ELSE /\ body' = [body EXCEPT ![p] = s]
                /\ pc' = [pc EXCEPT ![p] = IF AllRead(p, s) THEN "put" ELSE @]
                /\ UNCHANGED <<entries, prefix, size, result>>
    BY <2>2
  <2>4. pos' \in 1..Len(File) /\ s \in Seq(Nat) /\ Len(s) \in 1..size[p]
    BY <1>1, <2>1, <2>3, BytesRead
  <2>5. ASSUME IsCARv1, ~disturbed[p]
        PROVE  /\ size[p] = BodyLen(c) /\ pos' = Start[i] + LenBytes[i] + Len(s)
               /\ \A j \in 1..Len(s) : s[j] = File[Start[i] + LenBytes[i] + j]
    BY <1>1, <2>1, <2>3, <2>5, BytesRead
  <2> HIDE DEF s
  <2>6. ASSUME IsCARv1, ~disturbed[p], AllRead(p, s)
        PROVE  s = CidBytes[c] \o Data[c] /\ (RightCid(p, s) <=> want[p] = c)
    <3>1. Len(s) = BodyLen(c)
      BY <2>5, <2>6 DEF AllRead
    <3>2. s = CidBytes[c] \o Data[c]
      BY <1>5, <2>4, <2>5, <2>6, <3>1, BodyBytes
    <3>3. QED
      BY <1>4, <1>5, <3>2, OwnBody DEF RightCid
  <2>7. GlobalTypes' /\ Once' /\ Stored'
    <3>1. pos' \in 0..Len(File) /\ pos' # 0
      BY <1>4, <2>4
    <3>2. QED
      BY <1>1, <1>2, <3>1, StoredSame DEF GlobalTypes, Once
  <2>8. CASE AllRead(p, s) /\ ~RightCid(p, s)
    <3>1. Return(p, <<"failed">>)
      BY <2>3, <2>8
    <3>2. IsCARv1 /\ ~disturbed[p] => Excused(want[p])
      BY <1>5, <2>6, <2>8 DEF Excused
    <3>3. QED
      BY <1>1, <2>4, <3>1, <3>2, FailStep
  <2>9. CASE ~(AllRead(p, s) /\ ~RightCid(p, s))
    <3> DEFINE step == IF AllRead(p, s) THEN "put" ELSE "body"
    <3>1. /\ body' = [body EXCEPT ![p] = s] /\ UNCHANGED <<entries, prefix, size, result>>
          /\ pc' = [pc EXCEPT ![p] = step]
      BY <1>1, <1>2, <2>3, <2>9 DEF LocalTypes
    <3>2. step \in {"put", "body"} /\ step \in Steps /\ (step = "put" <=> AllRead(p, s))
      BY DEF Steps
    <3> HIDE DEF step
    <3>3. /\ LocalTypes' /\ pc'[p] = step /\ body'[p] = s
          /\ \A q \in Procs \ {p} : body'[q] = body[q]
      <4>1. size[p] \in Nat /\ Len(s) <= size[p]
        BY <1>2, <2>4, IndexedAssumption DEF LocalTypes
      <4>2. QED
        BY <1>1, <1>2, <1>3, <2>4, <3>1, <3>2, <4>1 DEF LocalTypes
    <3>4. step = "body" => Len(body'[p]) < size'[p]
      <4>1. step = "body" => Len(s) # size[p]
        BY <3>2 DEF AllRead
      <4>2. size[p] \in Nat
        BY <1>2, IndexedAssumption DEF LocalTypes
      <4>3. QED
        BY <2>4, <3>1, <3>3, <4>1, <4>2
    <3>5. First(p)' = i
      BY <3>1 DEF First
    <3>6. IsCARv1 /\ ~disturbed'[p] => size'[p] = BodyLen(Sections[First(p)']) /\ InBody(First(p), body[p])'
      BY <1>3, <2>5, <3>1, <3>3, <3>5 DEF InBody
    <3>7. step = "put" => Right(Block(want[p], DataRead(p)), disturbed[p])'
      <4> SUFFICES ASSUME step = "put", IsCARv1, ~disturbed[p] PROVE DataRead(p)' = Data[want[p]]
        BY <1>1, <1>3 DEF Right, Block
      <4>1. AllRead(p, s) /\ RightCid(p, s)
        BY <2>9, <3>2
      <4>2. s = CidBytes[want[p]] \o Data[want[p]]
        BY <2>6, <4>1
      <4>3. DataRead(p)' = SubSeq(s, Len(CidBytes[want[p]]) + 1, Len(s))
        BY <1>1, <3>3 DEF DataRead
      <4>4. QED
        BY <1>4, <4>2, <4>3, OwnBody
    <3>8. pc'[p] = step => Reload(p)'
      BY <1>1, <1>2, <3>1, <3>2, <3>3, <3>4, <3>6, <3>7 DEF Local, Reload, Reloads
    <3>9. QED
      BY <1>1, <1>3, <2>7, <3>1, <3>2, <3>3, <3>8, GoOn
  <2>10. QED
    BY <2>8, <2>9
<1>8. QED
  BY <1>6, <1>7

LEMMA CachePutStep == \A p \in Procs : IInv /\ CachePut(p) => IInv'
<1> SUFFICES ASSUME IInv, NEW p \in Procs, CachePut(p) PROVE IInv'
  OBVIOUS
<1> DEFINE b == Block(want[p], DataRead(p))
<1>1. /\ ~crashed /\ pc[p] = "put" /\ cache' = WithBlock(b) /\ Return(p, <<"block", b>>)
      /\ tainted' = IF disturbed[p] THEN tainted \union {want[p]} ELSE tainted
      /\ UNCHANGED <<indexed, toCache, pos, want, keys, chan, done, calls, crashed, disturbed, early>>
  BY DEF CachePut, At, index, listing
<1>2. LocalTypes /\ GlobalTypes /\ Once /\ Local(p)
  BY DEF IInv
<1>3. want[p] \in Cids /\ DataRead(p) \in Seq(Nat) /\ Right(b, disturbed[p])
  <2>1. want[p] \in Cids /\ body[p] \in Seq(Nat) /\ Right(b, disturbed[p])
    BY <1>1, <1>2 DEF LocalTypes, Local, Reload
  <2> DEFINE l == Len(CidBytes[want[p]]) + 1
             h == Len(body[p])
  <2>2. l \in Int /\ l >= 1 /\ h \in Int
    BY <2>1, DataSeq, LenProperties
  <2> HIDE DEF l
  <2>3. \A k \in l..h : body[p][k] \in Nat
    <3> TAKE k \in l..h
    <3>1. k \in 1..Len(body[p])
      BY <2>2
    <3>2. QED
      BY <2>1, <3>1, ElementOfSeq
  <2> HIDE DEF h
  <2>4. SubSeq(body[p], l, h) \in Seq(Nat)
    BY <2>2, <2>3, SubSeqProperties
  <2>5. QED
    BY <2>1, <2>4 DEF DataRead, l, h
<1>4. b \in Blocks /\ b.cid = want[p]
  BY <1>3 DEF Block, Blocks
<1> HIDE DEF b
<1>5. tainted \subseteq tainted' /\ tainted' \subseteq Cids /\ (disturbed[p] => b.cid \in tainted')
  BY <1>1, <1>2, <1>3, <1>4 DEF GlobalTypes
<1>6. Right(b, b.cid \in tainted')
  BY <1>3, <1>5 DEF Right
<1>7. cache' \in Seq(Blocks) /\ Stored'
  BY <1>1, <1>4, <1>5, <1>6, StoredPut
<1>8. GlobalTypes' /\ Once' /\ Reading(p)
  BY <1>1, <1>2, <1>5, <1>7 DEF GlobalTypes, Once, Reading
<1>9. result'[p] = <<"block", b>> => Answer(p)'
  BY <1>4, <1>6 DEF Answer
<1>10. want' \in [Procs -> Cids] /\ early' \in [Procs -> BOOLEAN] /\ disturbed' \in [Procs -> BOOLEAN]
  BY <1>1, <1>2 DEF LocalTypes
<1>11. QED
  BY <1>1, <1>5, <1>7, <1>8, <1>9, <1>10, ReturnStep

LEMMA TakeIndexStep == \A p \in Procs : IInv /\ TakeIndex(p) => IInv'
<1> SUFFICES ASSUME IInv, NEW p \in Procs, TakeIndex(p) PROVE IInv'
  OBVIOUS
<1>1. /\ ~crashed /\ pc[p] = "keys"
      /\ UNCHANGED <<indexed, toCache, pos, cache, want, entries, prefix, size, body, result, chan, done, calls>>
      /\ UNCHANGED <<disturbed, tainted, early>>
  BY DEF TakeIndex, At, index, history, reading
<1>2. LocalTypes /\ GlobalTypes /\ Once /\ Local(p)
  BY DEF IInv
<1>3. CASE ~indexed
  <2>1. crashed' = TRUE /\ UNCHANGED <<pc, keys>>
    BY <1>3 DEF TakeIndex
  <2>2. QED
    BY <1>1, <1>3, <2>1, Crash
<1>4. CASE indexed
  <2>1. keys' = Sections /\ pc' = [pc EXCEPT ![p] = "send"] /\ UNCHANGED crashed
    BY <1>4 DEF TakeIndex
  <2>2. GlobalTypes' /\ Once' /\ Stored' /\ Reading(p)
    BY <1>1, <1>2, <2>1, IndexedAssumption, StoredSame DEF GlobalTypes, Once, Reading
  <2>3. "send" \in Steps
    BY DEF Steps
  <2>4. LocalTypes'
    BY <1>1, <1>2, <2>1, <2>3 DEF LocalTypes
  <2>5. pc'[p] = "send" => Reload(p)'
    BY <1>1, <1>2, <2>1 DEF Local, Reload, Reloads
  <2>6. QED
    BY <1>1, <2>1, <2>2, <2>3, <2>4, <2>5, GoOn
<1>5. QED
  BY <1>3, <1>4

LEMMA SendKeyStep == \A p \in Procs : IInv /\ SendKey(p) => IInv'
<1> SUFFICES ASSUME IInv, NEW p \in Procs, SendKey(p) PROVE IInv'
  OBVIOUS
<1>1. /\ chan' = Append(chan, Head(keys)) /\ keys' = Tail(keys) /\ keys # << >> /\ Len(chan) < KeysBuffer
      /\ UNCHANGED <<indexed, toCache, pos, cache, local, done, calls, crashed, history, tainted>>
  BY DEF SendKey, index, history
<1>2. GlobalTypes
  BY DEF IInv
<1>3. Head(keys) \in Cids /\ Tail(keys) \in Seq(Cids)
  BY <1>1, <1>2, HeadTailProperties DEF GlobalTypes
<1>4. chan \in Seq(Cids) /\ Len(chan) \in Nat
  BY <1>2, LenProperties DEF GlobalTypes
<1>5. chan' \in Seq(Cids) /\ Len(chan') <= KeysBuffer
  <2>1. chan' \in Seq(Cids) /\ Len(chan') = Len(chan) + 1
    BY <1>1, <1>3, <1>4, AppendProperties
  <2>2. QED
    BY <1>1, <1>4, <2>1, IndexedAssumption
<1>6. GlobalTypes'
  BY <1>1, <1>2, <1>3, <1>5 DEF GlobalTypes
<1>7. QED
  BY <1>1, <1>6, StoredSame, Elsewhere

LEMMA CloseChanStep == \A p \in Procs : IInv /\ CloseChan(p) => IInv'
<1> SUFFICES ASSUME IInv, NEW p \in Procs, CloseChan(p) PROVE IInv'
  OBVIOUS
<1> DEFINE r == <<IF keys = << >> THEN "listed" ELSE "cancelled">>
<1>1. /\ ~crashed /\ Return(p, r) /\ keys' = << >>
      /\ UNCHANGED <<indexed, toCache, pos, cache, want, chan, done, calls, crashed, disturbed, tainted, early>>
  BY DEF CloseChan, At, index, history
<1>2. LocalTypes /\ GlobalTypes /\ Once
  BY DEF IInv
<1>3. GlobalTypes' /\ Once' /\ Stored' /\ Reading(p)
  BY <1>1, <1>2, StoredSame DEF GlobalTypes, Once, Reading
<1>4. want' \in [Procs -> Cids] /\ early' \in [Procs -> BOOLEAN] /\ disturbed' \in [Procs -> BOOLEAN]
  BY <1>1, <1>2 DEF LocalTypes
<1>5. r \in {<<"listed">>, <<"cancelled">>}
  OBVIOUS
<1> HIDE DEF r
<1>6. r[1] \notin {"block", "failed", "not found"}
  <2>1. <<"listed">>[1] = "listed" /\ <<"cancelled">>[1] = "cancelled"
    OBVIOUS
  <2>2. QED
    BY <1>5, <2>1
<1>7. result'[p] = r => Answer(p)'
  BY <1>5, <1>6 DEF Answer
<1>8. QED
  BY <1>1, <1>3, <1>4, <1>7, ReturnStep

-----------------------------------------------------------------------------
(* The invariant holds. *)

LEMMA InitInv == Init => IInv
<1> SUFFICES ASSUME Init PROVE IInv
  OBVIOUS
<1>1. "idle" \in Steps /\ << >> \in Seq(Nat) /\ Len(<< >>) = 0 /\ 0 \in 0..MaxRead /\ 0 <= MaxPrefix
  BY IndexedAssumption DEF Steps
<1>2. LocalTypes
  <2>1. (CHOOSE c \in Cids : TRUE) \in Cids
    BY IndexedAssumption
  <2>2. QED
    BY <1>1, <2>1 DEF Init, LocalTypes
<1>3. GlobalTypes /\ Once
  <2>1. << >> \in Seq(Cids) /\ Len(<< >>) = 0 /\ << >> \in Seq(Blocks)
    OBVIOUS
  <2>2. 0 \in 0..Len(File) /\ 0 \in 0..MaxCalls + 1 /\ 0 <= MaxCalls /\ 0 <= KeysBuffer
    BY FileSeq, IndexedAssumption
  <2>3. /\ indexed = FALSE /\ crashed = FALSE /\ toCache = << >> /\ keys = << >> /\ chan = << >>
        /\ pos = 0 /\ calls = 0 /\ cache = << >> /\ tainted = {} /\ done = FALSE
    BY DEF Init
  <2>4. Once
    BY <2>2, <2>3 DEF Once
  <2>5. GlobalTypes
    BY <2>1, <2>2, <2>3 DEF GlobalTypes
  <2>6. QED
    BY <2>4, <2>5
<1>4. Stored
  BY DEF Init, Stored, ToSet
<1>5. ASSUME NEW p \in Procs PROVE Local(p)
  <2>1. pc[p] = "idle" /\ entries[p] = {} /\ prefix[p] = << >> /\ body[p] = << >> /\ result[p] = <<"none">>
    BY DEF Init
  <2>2. <<"none">>[1] = "none"
    OBVIOUS
  <2>3. QED
    BY <2>1, <2>2 DEF Local, Reload, Reloads, Answer
<1>6. CrashOnlyIfOvertaken
  BY DEF Init, CrashOnlyIfOvertaken
<1>7. QED
  BY <1>2, <1>3, <1>4, <1>5, <1>6 DEF IInv

LEMMA NextInv == IInv /\ [Next]_vars => IInv'
<1> SUFFICES ASSUME IInv, [Next]_vars PROVE IInv'
  OBVIOUS
<1>1. CASE IndexAll \/ CacheSection \/ ReceiveKey \/ Cancel \/ UNCHANGED vars
  BY <1>1, IndexAllStep, CacheSectionStep, ReceiveKeyStep, CancelStep, Stutter
<1>2. ASSUME NEW p \in Procs, NEW c \in Cids, Get(p, c) \/ GetSize(p, c) \/ Put(p, c) \/ DeleteBlock(p, c)
      PROVE  IInv'
  BY <1>2, BeginStep, PutStep, DeleteStep DEF Get, GetSize
<1>3. ASSUME NEW p \in Procs, Close(p) \/ AllKeysChan(p) \/ CloseChan(p)
      PROVE  IInv'
  BY <1>3, CloseStep, AllKeysChanStep, CloseChanStep
<1>4. ASSUME NEW p \in Procs, Step(p)
      PROVE  IInv'
  <2>1. CASE SizeLookup(p) \/ CacheLookup(p) \/ IndexLookup(p)
    BY <2>1, SizeLookupStep, CacheLookupStep, IndexLookupStep
  <2>2. CASE Seek(p) \/ ReadLength(p) \/ ReadBody(p) \/ CachePut(p)
    BY <2>2, SeekStep, ReadLengthStep, ReadBodyStep, CachePutStep
  <2>3. CASE TakeIndex(p) \/ SendKey(p) \/ CloseChan(p)
    BY <2>3, TakeIndexStep, SendKeyStep, CloseChanStep
  <2>4. QED
    BY <1>4, <2>1, <2>2, <2>3 DEF Step
<1>5. QED
  BY <1>1, <1>2, <1>3, <1>4 DEF Next

\* What the reads and the cache rest on: in a CARv1, the reader of a reload
\* that no other goroutine has disturbed stands in the first section with the
\* digest of the CID (indexed_blockstore.go:110-170).
THEOREM Invariance == Spec => []IInv
BY InitInv, NextInv, PTL DEF Spec

\* The variables keep their types: whatever bytes are taken for a length, no
\* more than MaxRead bytes of a section are read, and no more CIDs wait in the
\* channel than its capacity (indexed_blockstore.go:110-170, util.go:120-150).
THEOREM TypeCorrect == Spec => []TypeOK
<1>1. IInv => TypeOK
  <2> SUFFICES ASSUME IInv PROVE TypeOK
    OBVIOUS
  <2>1. LocalTypes /\ GlobalTypes
    BY DEF IInv
  <2>2. ASSUME NEW p \in Procs
        PROVE  /\ pc[p] \in {"seek", "length", "body", "put"} <=> entries[p] # {}
               /\ result[p][1] = "block" => result[p][2] \in Blocks
    <3>1. Reload(p) /\ Answer(p)
      BY DEF IInv, Local
    <3>2. \A x \in {<<"none">>, <<"uninitialized">>, <<"not found">>, <<"failed">>, <<"listed">>, <<"cancelled">>} :
            x[1] # "block"
      <4>1. /\ <<"none">>[1] = "none" /\ <<"uninitialized">>[1] = "uninitialized"
            /\ <<"not found">>[1] = "not found" /\ <<"failed">>[1] = "failed"
            /\ <<"listed">>[1] = "listed" /\ <<"cancelled">>[1] = "cancelled"
        OBVIOUS
      <4>2. QED
        BY <4>1
    <3>3. result[p][1] = "block" => result[p][2] \in Blocks
      BY <3>1, <3>2 DEF Answer
    <3>4. QED
      BY <3>1, <3>3 DEF Reload, Reloads
  <2>3. ToSet(cache) \union Returned \subseteq Blocks
    <3>1. ToSet(cache) \subseteq Blocks
      BY <2>1, LenProperties, ElementOfSeq DEF GlobalTypes, ToSet
    <3>2. Returned \subseteq Blocks
      BY <2>2 DEF Returned
    <3>3. QED
      BY <3>1, <3>2
  <2>4. QED
    BY <2>1, <2>2, <2>3 DEF LocalTypes, GlobalTypes, Steps, TypeOK
<1>2. QED
  BY <1>1, Invariance, PTL

\* Of a CARv1 the cache and Get give wrong data only for CIDs that were read
\* while another goroutine used the reader (indexed_blockstore.go:133-163).
THEOREM WrongOnly == Spec => []WrongOnlyIfDisturbed
<1>1. IInv => WrongOnlyIfDisturbed
  <2> SUFFICES ASSUME IInv, IsCARv1, NEW b \in ToSet(cache) \union Returned, b.cid \notin tainted
               PROVE  b.data = Data[b.cid]
    BY DEF WrongOnlyIfDisturbed
  <2>1. Right(b, b.cid \in tainted)
    <3>1. CASE b \in ToSet(cache)
      BY <3>1 DEF IInv, Stored
    <3>2. CASE b \in Returned
      <4>1. PICK p \in Procs : result[p][1] = "block" /\ b = result[p][2]
        BY <3>2 DEF Returned
      <4>2. QED
        BY <4>1 DEF IInv, Local, Answer
    <3>3. QED
      BY <3>1, <3>2
  <2>2. QED
    BY <2>1 DEF Right
<1>2. QED
  BY <1>1, Invariance, PTL

\* Get fails to reload a block of a CARv1 only if another goroutine used the
\* reader, the first section with the digest has another CID, or the section is
\* too long; and, of any CAR, it says "not found" only of a CID whose digest no
\* section has (indexed_blockstore.go:121-172).
THEOREM FailsOnly == Spec => []FailsOnlyIfDisturbed
<1>1. IInv => FailsOnlyIfDisturbed
  <2> SUFFICES ASSUME IInv, NEW p \in Procs
               PROVE  /\ IsCARv1 => (result[p][1] = "failed" => disturbed[p] \/ Excused(want[p]))
                      /\ result[p][1] = "not found" => \A c \in ToSet(Sections) : Digest[c] # Digest[want[p]]
    BY DEF FailsOnlyIfDisturbed, ReloadsUnlessDisturbed, Excused
  <2>1. Answer(p)
    BY DEF IInv, Local
  <2>2. ASSUME SectionsWith(Digest[want[p]]) = {}, NEW c \in ToSet(Sections)
        PROVE  Digest[c] # Digest[want[p]]
    <3>1. PICK j \in 1..Len(Sections) : c = Sections[j]
      BY IndexedAssumption, LenProperties DEF ToSet
    <3>2. QED
      BY <2>2, <3>1 DEF SectionsWith
  <2>3. QED
    BY <2>1, <2>2 DEF Answer
<1>2. QED
  BY <1>1, Invariance, PTL

\* Only a call that Close has overtaken ends the program
\* (indexed_blockstore.go:115-120, 286-291).
THEOREM CrashOnly == Spec => []CrashOnlyIfOvertaken
<1>1. IInv => CrashOnlyIfOvertaken
  BY DEF IInv
<1>2. QED
  BY <1>1, Invariance, PTL

=============================================================================
