---------------------------- MODULE RoundTrip_proofs ----------------------------
(***************************************************************************)
(* Proofs about RoundTrip, for all filesystems, blockstores, lengths and   *)
(* sizes of a batch.                                                       *)
(***************************************************************************)
EXTENDS RoundTrip, Summary_proofs, FunctionTheorems

-----------------------------------------------------------------------------
(* LoadCar. *)

\* A stream as it may arrive: only its last section is flawed.
Stream(s) ==
  /\ IsList(s.sections)
  /\ \A i \in 1..Len(s.sections) : s.sections[i].flaw \in L!Flaws \union {"none"}
  /\ \A i \in 1..Len(s.sections) : i < Len(s.sections) => s.sections[i].flaw = "none"

\* What was read are the blocks stored and then those of the batch.
Loaded ==
  /\ IsList(stored) /\ IsList(batch)
  /\ Len(stored) + Len(batch) = at
  /\ \A i \in 1..Len(stored) : stored[i] = stream.sections[i].cid
  /\ \A i \in 1..Len(batch) : batch[i] = stream.sections[Len(stored) + i].cid

\* Only whole batches are stored, and the batch is not longer than the limit.
WholeBatches ==
  IF batched THEN Len(stored) % (BatchLimit + 1) = 0 /\ Len(batch) <= BatchLimit
             ELSE batch = << >>

\* The invariant of LoadCar.
LoadInv ==
  /\ Stream(stream)
  /\ batched \in BOOLEAN
  /\ at \in 0..Len(stream.sections)
  /\ \A i \in 1..at : stream.sections[i].flaw = "none"
  /\ lpc \in {"idle", "header", "sections"}
  /\ loutcome \in {"none", "loaded", "failed", "store failed"}
  /\ lpc = "header" => at = 0
  /\ lpc # "idle" => loutcome = "none"
  /\ loutcome # "store failed" => Loaded
  /\ loutcome \in {"none", "failed"} => WholeBatches
  /\ loutcome = "failed" /\ stream.header => at < Len(stream.sections)
  /\ loutcome = "loaded" => /\ batch = << >>
                            /\ \A i \in 1..Len(stream.sections) :
                                 i > at => stream.sections[i].flaw = "after prefix"
  /\ IsList(batch) /\ Len(batch) <= BatchLimit
  /\ IsList(stored) /\ Len(stored) <= at
  /\ \A i \in 1..Len(stored) : stored[i] = stream.sections[i].cid

\* The arithmetic of whole batches.
LEMMA NoMultiple ==
  ASSUME NEW k \in Nat \ {0}, NEW d \in Int, NEW r \in 0..(k - 1), k * d = r
  PROVE  r = 0
<1>1. CASE d >= 1
  <2>1. k * d >= k * 1
    BY <1>1, SMT
  <2>2. QED
    BY <2>1, SMT
<1>2. CASE d <= 0
  <2>1. k * d <= k * 0
    BY <1>2, SMT
  <2>2. QED
    BY <2>1, SMT
<1>3. QED
  BY <1>1, <1>2

LEMMA OneMoreBatch ==
  ASSUME NEW a \in Nat, NEW k \in Nat \ {0}, a % k = 0
  PROVE  (a + k) % k = 0
<1> DEFINE q == a \div k
           b == a + k
           p == b \div k
           r == b % k
<1>1. a = k * q /\ q \in Int
  BY SMT
<1>2. b = k * p + r /\ p \in Int /\ r \in 0..(k - 1)
  BY SMT
<1> HIDE DEF q, p, r
<1>3. k * q + k = k * p + r
  BY <1>1, <1>2
<1>4. k * (q + 1 - p) = r
  BY <1>1, <1>2, <1>3
<1>5. r = 0
  BY <1>1, <1>2, <1>4, NoMultiple
<1>6. QED
  BY <1>5 DEF r

\* A list with one more element.
LEMMA ListAppend ==
  ASSUME NEW s, NEW x, IsList(s)
  PROVE  /\ IsList(Append(s, x))
         /\ Len(Append(s, x)) = Len(s) + 1
         /\ \A i \in 1..(Len(s) + 1) : Append(s, x)[i] = IF i <= Len(s) THEN s[i] ELSE x
<1> DEFINE S == ToSet(s) \union {x}
<1>1. s \in Seq(S) /\ x \in S
  BY SeqMonotonic DEF IsList
<1> HIDE DEF S
<1>2. /\ Append(s, x) \in Seq(S)
      /\ Len(Append(s, x)) = Len(s) + 1
      /\ \A i \in 1..Len(s) : Append(s, x)[i] = s[i]
      /\ Append(s, x)[Len(s) + 1] = x
  BY <1>1, AppendProperties
<1>3. Len(s) \in Nat
  BY ListProperties
<1>4. IsList(Append(s, x))
  BY <1>2, SeqIsList
<1>5. ASSUME NEW i \in 1..(Len(s) + 1)
      PROVE  Append(s, x)[i] = IF i <= Len(s) THEN s[i] ELSE x
  <2>1. CASE i <= Len(s)
    BY <1>2, <1>3, <2>1
  <2>2. CASE ~(i <= Len(s))
    <3>1. i = Len(s) + 1
      BY <1>3, <2>2
    <3>2. QED
      BY <1>2, <2>2, <3>1
  <2>3. QED
    BY <2>1, <2>2
<1>6. QED
  BY <1>2, <1>4, <1>5

\* The empty list.
LEMMA EmptyList == IsList(<< >>) /\ Len(<< >>) = 0
BY DEF IsList

\* What LoadCar has put of a batch follows what it has stored.
LEMMA PutBlocks ==
  ASSUME LoadInv, Loaded, NEW blocks, IsList(blocks), Len(stored) + Len(blocks) <= Len(stream.sections),
         \A i \in 1..Len(blocks) : blocks[i] = stream.sections[Len(stored) + i].cid
  PROVE  /\ IsList(stored \o blocks)
         /\ Len(stored \o blocks) = Len(stored) + Len(blocks)
         /\ \A i \in 1..(Len(stored) + Len(blocks)) : (stored \o blocks)[i] = stream.sections[i].cid
<1>1. /\ IsList(stored \o blocks)
      /\ Len(stored \o blocks) = Len(stored) + Len(blocks)
      /\ \A i \in 1..(Len(stored) + Len(blocks)) :
           (stored \o blocks)[i] = IF i <= Len(stored) THEN stored[i] ELSE blocks[i - Len(stored)]
  BY ListConcat DEF Loaded
<1>2. Len(stored) \in Nat /\ Len(blocks) \in Nat
  BY ListProperties DEF Loaded
<1>3. ASSUME NEW i \in 1..(Len(stored) + Len(blocks))
      PROVE  (stored \o blocks)[i] = stream.sections[i].cid
  <2>1. CASE i <= Len(stored)
    BY <1>1, <1>2, <2>1 DEF Loaded
  <2>2. CASE ~(i <= Len(stored))
    <3>1. i - Len(stored) \in 1..Len(blocks) /\ Len(stored) + (i - Len(stored)) = i
      BY <1>2, <2>2
    <3>2. (stored \o blocks)[i] = blocks[i - Len(stored)]
      BY <1>1, <2>2
    <3>3. QED
      BY <3>1, <3>2
  <2>3. QED
    BY <2>1, <2>2
<1>4. QED
  BY <1>1, <1>3

\* LoadCar begins.
LEMMA LoadStarts ==
  ASSUME LoadInv, NEW s, NEW b \in BOOLEAN, Stream(s), L!LoadCar(s, b)
  PROVE  LoadInv'
<1>1. /\ stream' = s /\ batched' = b /\ at' = 0 /\ batch' = << >> /\ stored' = << >>
      /\ lpc' = "header" /\ loutcome' = "none"
  BY DEF L!LoadCar
<1>2. Len(s.sections) \in Nat
  BY ListProperties DEF Stream
<1>3. Loaded'
  BY <1>1, EmptyList DEF Loaded
<1>4. WholeBatches'
  <2>1. 0 % (BatchLimit + 1) = 0
    BY BatchAssumption
  <2>2. QED
    BY <1>1, <2>1, EmptyList, BatchAssumption DEF WholeBatches
<1>5. Stream(stream)'
  BY <1>1 DEF Stream
<1>6. IsList(batch)' /\ IsList(stored)' /\ Len(batch') = 0 /\ Len(stored') = 0
  BY <1>1, EmptyList
<1>7. Len(batch') <= BatchLimit /\ Len(stored') <= at' /\ at' \in 0..Len(stream'.sections)
  BY <1>1, <1>2, <1>6, BatchAssumption
<1>8. (\A i \in 1..at : stream.sections[i].flaw = "none")'
  BY <1>1
<1>9. (\A i \in 1..Len(stored) : stored[i] = stream.sections[i].cid)'
  BY <1>6
<1>10. batched' \in BOOLEAN /\ at' = 0 /\ lpc' = "header" /\ loutcome' = "none"
  BY <1>1
<1>11. QED
  BY <1>3, <1>4, <1>5, <1>6, <1>7, <1>8, <1>9, <1>10 DEF LoadInv

\* The header is read.
LEMMA HeaderRead ==
  ASSUME LoadInv, L!ReadHeader
  PROVE  LoadInv'
<1>1. /\ lpc = "header" /\ UNCHANGED <<stream, batched, at, batch, stored>>
      /\ IF stream.header THEN lpc' = "sections" /\ loutcome' = loutcome
                          ELSE lpc' = "idle" /\ loutcome' = "failed"
  BY DEF L!ReadHeader, L!Return
<1>2. loutcome = "none" /\ at = 0
  BY <1>1 DEF LoadInv
<1>3. Stream(stream)' <=> Stream(stream)
  BY <1>1 DEF Stream
<1>4. Loaded' /\ WholeBatches'
  BY <1>1, <1>2 DEF LoadInv, Loaded, WholeBatches
<1>5. QED
  BY <1>1, <1>2, <1>3, <1>4 DEF LoadInv

\* What LoadCar knows in its loop.
LEMMA InLoop ==
  ASSUME LoadInv, lpc = "sections"
  PROVE  /\ loutcome = "none" /\ Loaded /\ WholeBatches
         /\ Len(stored) \in Nat /\ Len(batch) \in Nat /\ Len(stream.sections) \in Nat
         /\ at \in Nat /\ at <= Len(stream.sections)
<1>1. loutcome = "none" /\ Loaded /\ WholeBatches /\ Stream(stream) /\ at \in 0..Len(stream.sections)
  BY DEF LoadInv
<1>2. Len(stored) \in Nat /\ Len(batch) \in Nat /\ Len(stream.sections) \in Nat
  BY <1>1, ListProperties DEF Loaded, Stream
<1>3. QED
  BY <1>1, <1>2

\* A block is read.
LEMMA BlockRead ==
  ASSUME LoadInv, L!LoadBlock
  PROVE  LoadInv'
<1> DEFINE c == stream.sections[at + 1].cid
           more == Append(batch, c)
<1>1. /\ lpc = "sections" /\ ~L!EndOfStream /\ stream.sections[at + 1].flaw \notin L!Flaws
      /\ at' = at + 1
      /\ UNCHANGED <<stream, batched, lpc, loutcome>>
  BY DEF L!LoadBlock, L!ReadsBlock, L!Section
<1>2. /\ loutcome = "none" /\ Loaded /\ WholeBatches
      /\ Len(stored) \in Nat /\ Len(batch) \in Nat /\ Len(stream.sections) \in Nat
      /\ at \in Nat /\ at <= Len(stream.sections)
  BY <1>1, InLoop
<1>3. at < Len(stream.sections)
  BY <1>1 DEF L!EndOfStream
<1>4. stream.sections[at + 1].flaw = "none"
  BY <1>1, <1>2, <1>3 DEF LoadInv, Stream
<1>5. IF batched
      THEN IF Len(more) > BatchLimit THEN batch' = << >> /\ stored' = stored \o more
                                     ELSE batch' = more /\ stored' = stored
      ELSE stored' = Append(stored, c) /\ batch' = batch
  BY DEF L!LoadBlock, L!PutBatch, L!Section
<1>6. /\ IsList(more) /\ Len(more) = Len(batch) + 1
      /\ \A i \in 1..Len(more) : more[i] = stream.sections[Len(stored) + i].cid
  <2>1. /\ IsList(more) /\ Len(more) = Len(batch) + 1
        /\ \A i \in 1..(Len(batch) + 1) : more[i] = IF i <= Len(batch) THEN batch[i] ELSE c
    BY <1>2, ListAppend DEF Loaded
  <2> HIDE DEF more, c
  <2>2. Len(stored) + (Len(batch) + 1) = at + 1
    <3>1. Len(stored) + Len(batch) = at
      BY <1>2 DEF Loaded
    <3>2. QED
      BY <1>2, <3>1
  <2>3. ASSUME NEW i \in 1..Len(more) PROVE more[i] = stream.sections[Len(stored) + i].cid
    <3>1. CASE i <= Len(batch)
      BY <1>2, <2>1, <3>1 DEF Loaded
    <3>2. CASE ~(i <= Len(batch))
      <4>1. i = Len(batch) + 1
        BY <1>2, <2>1, <3>2
      <4>2. QED
        BY <2>1, <2>2, <3>2, <4>1 DEF c
    <3>3. QED
      BY <3>1, <3>2
  <2>4. QED
    BY <2>1, <2>3
<1> HIDE DEF more, c
<1>7. CASE batched /\ Len(more) > BatchLimit
  <2>1. /\ IsList(stored \o more) /\ Len(stored \o more) = Len(stored) + Len(more)
        /\ \A i \in 1..(Len(stored) + Len(more)) : (stored \o more)[i] = stream.sections[i].cid
    <3>1. Len(stored) + Len(more) <= Len(stream.sections)
      BY <1>2, <1>3, <1>6 DEF Loaded
    <3>2. QED
      BY <1>2, <1>6, <3>1, PutBlocks
  <2>2. Len(stored) + Len(more) = at + 1
    BY <1>2, <1>6 DEF Loaded
  <2>3. Len(more) = BatchLimit + 1
    BY <1>2, <1>6, <1>7, BatchAssumption DEF WholeBatches
  <2>4. (Len(stored) + (BatchLimit + 1)) % (BatchLimit + 1) = 0
    <3>1. Len(stored) % (BatchLimit + 1) = 0
      BY <1>2, <1>7 DEF WholeBatches
    <3>2. BatchLimit + 1 \in Nat \ {0}
      BY BatchAssumption
    <3>3. QED
      BY <1>2, <3>1, <3>2, OneMoreBatch
  <2>5. batch' = << >> /\ stored' = stored \o more
    BY <1>5, <1>7
  <2>6. Loaded'
    BY <1>1, <2>1, <2>2, <2>5, EmptyList DEF Loaded
  <2>7. WholeBatches'
    <3>1. Len(stored') = Len(stored) + (BatchLimit + 1)
      BY <2>1, <2>3, <2>5
    <3>2. Len(stored') % (BatchLimit + 1) = 0 /\ Len(batch') = 0 /\ batched'
      BY <1>1, <1>7, <2>4, <2>5, <3>1, EmptyList
    <3>3. QED
      BY <3>2, BatchAssumption DEF WholeBatches
  <2>8. IsList(batch') /\ Len(batch') <= BatchLimit
    BY <2>5, EmptyList, BatchAssumption
  <2>9. QED
    BY <1>1, <1>2, <1>3, <1>4, <2>1, <2>2, <2>5, <2>6, <2>7, <2>8 DEF LoadInv, Stream
<1>8. CASE batched /\ ~(Len(more) > BatchLimit)
  <2>1. batch' = more /\ stored' = stored
    BY <1>5, <1>8
  <2>2. Loaded'
    <3>1. Len(stored) + Len(more) = at + 1
      BY <1>2, <1>6 DEF Loaded
    <3>2. IsList(stored) /\ \A i \in 1..Len(stored) : stored[i] = stream.sections[i].cid
      BY <1>2 DEF Loaded
    <3>3. QED
      BY <1>1, <1>6, <2>1, <3>1, <3>2 DEF Loaded
  <2>3. Len(more) <= BatchLimit
    BY <1>2, <1>6, <1>8, BatchAssumption
  <2>4. WholeBatches'
    BY <1>1, <1>2, <1>8, <2>1, <2>3 DEF WholeBatches
  <2>5. QED
    BY <1>1, <1>2, <1>3, <1>4, <1>6, <2>1, <2>2, <2>3, <2>4 DEF LoadInv, Stream
<1>9. CASE ~batched
  <2>1. stored' = Append(stored, c) /\ batch' = batch
    BY <1>5, <1>9
  <2>2. batch = << >> /\ Len(stored) = at
    BY <1>2, <1>9, EmptyList DEF WholeBatches, Loaded
  <2>3. /\ IsList(Append(stored, c)) /\ Len(Append(stored, c)) = Len(stored) + 1
        /\ \A i \in 1..(Len(stored) + 1) : Append(stored, c)[i] = IF i <= Len(stored) THEN stored[i] ELSE c
    BY <1>2, ListAppend DEF Loaded
  <2>4. \A i \in 1..(at + 1) : stored'[i] = stream.sections[i].cid
    BY <1>2, <2>1, <2>2, <2>3 DEF Loaded, c
  <2>5. Loaded'
    BY <1>1, <1>2, <2>1, <2>2, <2>3, <2>4, EmptyList DEF Loaded
  <2>6. WholeBatches'
    BY <1>1, <1>9, <2>1, <2>2 DEF WholeBatches
  <2>7. QED
    BY <1>1, <1>2, <1>3, <1>4, <2>1, <2>2, <2>3, <2>4, <2>5, <2>6, EmptyList, BatchAssumption
       DEF LoadInv, Stream
<1>10. QED
  BY <1>7, <1>8, <1>9

\* The store fails.
LEMMA LoadStoreFails ==
  ASSUME LoadInv, L!StoreFails
  PROVE  LoadInv'
<1> DEFINE c == stream.sections[at + 1].cid
           pending == L!Pending
<1>1. PICK n \in 0..(Len(pending) - 1) : stored' = stored \o SubSeq(pending, 1, n)
  BY DEF L!StoreFails
<1>2. /\ lpc = "sections" /\ lpc' = "idle" /\ loutcome' = "store failed"
      /\ UNCHANGED <<stream, batched, at, batch>>
      /\ pending # << >>
  BY DEF L!StoreFails, L!Return
<1>3. /\ loutcome = "none" /\ Loaded /\ WholeBatches
      /\ Len(stored) \in Nat /\ Len(batch) \in Nat /\ Len(stream.sections) \in Nat
      /\ at \in Nat /\ at <= Len(stream.sections)
  BY <1>2, InLoop
<1>4. pending \in {batch, <<c>>, Append(batch, c)}
  BY <1>2 DEF L!Pending, L!Section
<1>5. /\ IsList(batch) /\ IsList(<<c>>) /\ Len(<<c>>) = 1
      /\ IsList(Append(batch, c)) /\ Len(Append(batch, c)) = Len(batch) + 1
      /\ \A i \in 1..(Len(batch) + 1) : Append(batch, c)[i] = IF i <= Len(batch) THEN batch[i] ELSE c
  <2>1. <<c>> \in Seq({c})
    OBVIOUS
  <2>2. IsList(<<c>>) /\ Len(<<c>>) = 1
    BY <2>1, SeqIsList
  <2>3. IsList(batch)
    BY <1>3 DEF Loaded
  <2> HIDE DEF c
  <2>4. QED
    BY <2>2, <2>3, ListAppend
<1>6. ~batched => batch = << >>
  BY <1>3 DEF WholeBatches
<1>7. pending = <<c>> => ~batched \/ pending = batch \/ pending = Append(batch, c)
  BY <1>2 DEF L!Pending, L!Section
<1> HIDE DEF pending
<1>8. IsList(pending) /\ Len(pending) \in Nat /\ n \in 0..Len(batch) /\ n < Len(pending)
  <2>1. IsList(pending)
    BY <1>4, <1>5
  <2>2. Len(pending) \in Nat
    BY <2>1, ListProperties
  <2>3. Len(pending) \in {Len(batch), 1, Len(batch) + 1}
    BY <1>4, <1>5
  <2>4. n \in Nat /\ n < Len(pending)
    BY <1>1, <2>2
  <2>5. QED
    <3>1. n < Len(batch) \/ n < 1 \/ n < Len(batch) + 1
      BY <2>3, <2>4
    <3>2. n <= Len(batch)
      BY <1>3, <2>4, <3>1
    <3>3. QED
      BY <1>3, <2>1, <2>2, <2>4, <3>2
<1>9. \A i \in 1..n : pending[i] = batch[i]
  <2>1. CASE pending = batch
    BY <2>1
  <2>2. CASE pending = <<c>>
    <3>1. n = 0
      BY <1>1, <1>5, <2>2
    <3>2. QED
      BY <3>1
  <2>3. CASE pending = Append(batch, c)
    BY <1>3, <1>5, <1>8, <2>3
  <2>4. QED
    BY <1>4, <2>1, <2>2, <2>3
<1> DEFINE part == SubSeq(pending, 1, n)
<1>10. /\ IsList(part) /\ Len(part) = n
       /\ \A i \in 1..n : part[i] = pending[i]
  <2>1. 1 \in 1..(Len(pending) + 1) /\ n \in 0..Len(pending)
    BY <1>8
  <2>2. /\ IsList(part) /\ Len(part) = IF 1 <= n THEN n - 1 + 1 ELSE 0
        /\ \A j \in 1..(n - 1 + 1) : part[j] = pending[1 + j - 1]
    BY <1>8, <2>1, SliceOfList
  <2> HIDE DEF part
  <2>3. QED
    BY <1>3, <1>8, <2>2
<1> HIDE DEF part
<1>11. /\ IsList(stored \o part)
       /\ Len(stored \o part) = Len(stored) + Len(part)
       /\ \A i \in 1..(Len(stored) + Len(part)) : (stored \o part)[i] = stream.sections[i].cid
  <2>1. \A i \in 1..Len(part) : part[i] = stream.sections[Len(stored) + i].cid
    <3>1. \A i \in 1..Len(batch) : batch[i] = stream.sections[Len(stored) + i].cid
      BY <1>3 DEF Loaded
    <3>2. \A i \in 1..n : i \in 1..Len(batch) /\ part[i] = batch[i]
      BY <1>3, <1>8, <1>9, <1>10
    <3>3. QED
      BY <1>10, <3>1, <3>2
  <2>2. Len(stored) + Len(part) <= Len(stream.sections)
    BY <1>3, <1>8, <1>10 DEF Loaded
  <2>3. QED
    BY <1>3, <1>10, <2>1, <2>2, PutBlocks
<1>12. stored' = stored \o part
  BY <1>1 DEF part
<1>13. Len(stored') <= at
  BY <1>3, <1>8, <1>10, <1>11, <1>12 DEF Loaded
<1>14. QED
  BY <1>2, <1>3, <1>11, <1>12, <1>13 DEF LoadInv, Stream

\* A section is no block.
LEMMA LoadGivesUp ==
  ASSUME LoadInv, L!LoadFails
  PROVE  LoadInv'
<1>1. /\ lpc = "sections" /\ lpc' = "idle" /\ loutcome' = "failed"
      /\ UNCHANGED <<stream, batched, at, batch, stored>>
      /\ at < Len(stream.sections)
  BY DEF L!LoadFails, L!Return, L!EndOfStream
<1>2. loutcome = "none" /\ Loaded /\ WholeBatches
  BY <1>1, InLoop
<1>3. Loaded' /\ WholeBatches'
  BY <1>1, <1>2 DEF Loaded, WholeBatches
<1>4. QED
  BY <1>1, <1>2, <1>3 DEF LoadInv, Stream

\* The stream ends.
LEMMA LoadEnds ==
  ASSUME LoadInv, L!FinishLoad
  PROVE  LoadInv'
<1>1. /\ lpc = "sections" /\ L!EndOfStream /\ lpc' = "idle" /\ loutcome' = "loaded"
      /\ UNCHANGED <<stream, batched, at>>
      /\ stored' = stored \o batch /\ batch' = << >>
  BY DEF L!FinishLoad, L!Return
<1>2. /\ loutcome = "none" /\ Loaded /\ WholeBatches
      /\ Len(stored) \in Nat /\ Len(batch) \in Nat /\ Len(stream.sections) \in Nat
      /\ at \in Nat /\ at <= Len(stream.sections)
  BY <1>1, InLoop
<1>3. /\ IsList(stored \o batch) /\ Len(stored \o batch) = Len(stored) + Len(batch)
      /\ \A i \in 1..(Len(stored) + Len(batch)) : (stored \o batch)[i] = stream.sections[i].cid
  BY <1>2, PutBlocks DEF Loaded
<1>4. Loaded'
  BY <1>1, <1>2, <1>3, EmptyList DEF Loaded
<1>5. ASSUME NEW i \in 1..Len(stream.sections), i > at
      PROVE  stream.sections[i].flaw = "after prefix"
  <2>1. stream.sections[at + 1].flaw = "after prefix"
    <3>1. at < Len(stream.sections)
      BY <1>2, <1>5
    <3>2. QED
      BY <1>1, <3>1 DEF L!EndOfStream
  <2>2. at + 1 \in 1..Len(stream.sections)
    BY <1>2, <1>5
  <2>3. ~(at + 1 < Len(stream.sections))
    BY <2>1, <2>2 DEF LoadInv, Stream
  <2>4. i = at + 1
    BY <1>2, <1>5, <2>3
  <2>5. QED
    BY <2>1, <2>4
<1>6. Len(stored') = at /\ Len(batch') = 0 /\ IsList(stored') /\ IsList(batch')
  BY <1>1, <1>2, <1>3, EmptyList DEF Loaded
<1>7. \A i \in 1..Len(stored') : stored'[i] = stream.sections[i].cid
  BY <1>1, <1>2, <1>3 DEF Loaded
<1>8. /\ Stream(stream)' /\ batched' \in BOOLEAN /\ at' \in 0..Len(stream'.sections)
      /\ \A i \in 1..at' : stream'.sections[i].flaw = "none"
  BY <1>1 DEF LoadInv, Stream
<1>9. Len(batch') <= BatchLimit /\ Len(stored') <= at' /\ at' = at
  BY <1>1, <1>2, <1>6, BatchAssumption
<1>10. \A i \in 1..Len(stored') : stored'[i] = stream'.sections[i].cid
  BY <1>1, <1>7
<1>11. lpc' = "idle" /\ loutcome' = "loaded" /\ batch' = << >>
  BY <1>1
<1>12. \A i \in 1..Len(stream'.sections) : i > at' => stream'.sections[i].flaw = "after prefix"
  BY <1>1, <1>5
<1>13. QED
  BY <1>4, <1>6, <1>8, <1>9, <1>10, <1>11, <1>12 DEF LoadInv


\* Every step of LoadCar.
LEMMA LoadAdvances ==
  ASSUME LoadInv, L!Advance
  PROVE  LoadInv'
BY HeaderRead, BlockRead, LoadStoreFails, LoadGivesUp, LoadEnds DEF L!Advance

-----------------------------------------------------------------------------
(* The CAR that is loaded. *)

\* The builder writes a list of blocks.
LEMMA WrittenStep ==
  ASSUME IsList(written), Next
  PROVE  IsList(written)'
<1>1. WriteHeader => IsList(written)'
  BY EmptyList DEF WriteHeader
<1>2. WriteSection => IsList(written)'
  BY ListAppend DEF WriteSection
<1>3. UNCHANGED written => IsList(written)'
  OBVIOUS
<1>4. CASE WriteCAR
  BY <1>1, <1>4 DEF WriteCAR
<1>5. CASE WriteBlock \/ RemakeDirectory
  BY <1>2, <1>5 DEF WriteBlock, RemakeDirectory
<1>6. ASSUME NEW t \in Trees, NEW w \in BOOLEAN, BuildSummary(t, w) PROVE UNCHANGED written
  BY <1>6 DEF BuildSummary, writing
<1>7. CASE VisitSkipped \/ VisitDir \/ VisitFile \/ ImportBlock \/ CollectBlock \/ CollectFails \/ EnterFile
  BY <1>7 DEF VisitSkipped, VisitDir, VisitFile, ImportBlock, CollectBlock, CollectFails, EnterFile, writing
<1>8. CASE \/ FinishSingleFile \/ StartDirectories \/ StartRegeneration \/ ReimportFile \/ WriteFails
           \/ FinishWrite \/ Stop \/ IOFails \/ Cancel
  BY <1>8 DEF FinishSingleFile, StartDirectories, StartRegeneration, ReimportFile, WriteFails, FinishWrite,
       Stop, IOFails, Cancel, writing
<1>9. ASSUME NEW p \in dirs, MakeDirectory(p) \/ PruneDirectory(p) \/ RegenerateDirectory(p)
      PROVE  UNCHANGED written
  BY <1>9 DEF MakeDirectory, PruneDirectory, RegenerateDirectory, writing
<1>10. QED
  BY <1>3, <1>4, <1>5, <1>6, <1>7, <1>8, <1>9 DEF Next, Advance

\* The steps of the builder in a round trip are steps of the builder.
LEMMA StreamIsNext ==
  ASSUME StreamCAR
  PROVE  Next /\ UNCHANGED <<reader, loader>>
BY DEF StreamCAR, PrepareCAR, ThenWrite, Next

\* A stream that Load is given.
LEMMA StreamArrives ==
  ASSUME IsList(written), NEW n \in Arriving, NEW flaw \in L!Flaws \union {"none"}
  PROVE  Stream(StreamOf(n, flaw))
<1> DEFINE whole == [i \in 1..n |-> [cid |-> written[i], flaw |-> "none"]]
           next == [cid |-> written[n + 1], flaw |-> flaw]
           s == StreamOf(n, flaw)
<1>1. Len(written) \in Nat /\ n \in Nat
  BY ListProperties DEF Arriving
<1>2. s.sections \in {whole, Append(whole, next)}
  BY DEF StreamOf
<1>3. IsList(whole) /\ Len(whole) = n /\ \A i \in 1..n : whole[i].flaw = "none"
  <2>1. whole = [i \in 1..n |-> whole[i]] /\ \A i \in 1..n : whole[i].flaw = "none"
    OBVIOUS
  <2> HIDE DEF whole
  <2>2. QED
    BY <1>1, <2>1, FunctionIsList
<1>4. next.flaw = flaw
  OBVIOUS
<1> HIDE DEF whole, next
<1> SUFFICES Stream(s)
  OBVIOUS
<1> HIDE DEF s
<1>5. CASE s.sections = whole
  <2>1. IsList(s.sections) /\ Len(s.sections) = n /\ \A i \in 1..n : s.sections[i].flaw = "none"
    BY <1>3, <1>5
  <2>2. QED
    BY <1>1, <2>1 DEF Stream
<1>6. CASE s.sections = Append(whole, next)
  <2>1. /\ IsList(Append(whole, next)) /\ Len(Append(whole, next)) = n + 1
        /\ \A i \in 1..(n + 1) : Append(whole, next)[i] = IF i <= n THEN whole[i] ELSE next
    BY <1>3, ListAppend
  <2>2. \A i \in 1..(n + 1) : IF i <= n THEN s.sections[i].flaw = "none" ELSE s.sections[i].flaw = flaw
    BY <1>1, <1>3, <1>4, <1>6, <2>1
  <2>3. IsList(s.sections) /\ Len(s.sections) = n + 1
    BY <1>6, <2>1
  <2>4. ASSUME NEW i \in 1..(n + 1)
        PROVE  /\ s.sections[i].flaw \in L!Flaws \union {"none"}
               /\ i < n + 1 => s.sections[i].flaw = "none"
    <3>1. i \in Nat /\ (i < n + 1 => i <= n)
      BY <1>1
    <3>2. QED
      BY <2>2, <3>1
  <2>5. QED
    BY <2>3, <2>4 DEF Stream
<1>7. QED
  BY <1>2, <1>5, <1>6

\* The invariant of a round trip.
RTInv == IsList(written) /\ LoadInv

\* LoadCar's invariant holds of every stream that the builder's CAR may have
\* become.
THEOREM LoaderInvariance == RTSpec => []RTInv
<1>1. RTInit => RTInv
  <2>1. SUFFICES ASSUME RTInit PROVE RTInv
    OBVIOUS
  <2>2. written = << >>
    BY <2>1 DEF RTInit, Init
  <2>3. /\ stream = [header |-> FALSE, sections |-> << >>] /\ batched = FALSE /\ at = 0
        /\ batch = << >> /\ stored = << >> /\ lpc = "idle" /\ loutcome = "none"
    BY <2>1 DEF RTInit, L!Init, L!NoStream
  <2>4. stream.sections = << >> /\ Len(stream.sections) = 0 /\ Stream(stream)
    BY <2>3, EmptyList DEF Stream
  <2>5. Loaded
    BY <2>3, EmptyList DEF Loaded
  <2>6. WholeBatches
    BY <2>3 DEF WholeBatches
  <2>7. IsList(batch) /\ Len(batch) = 0 /\ IsList(stored) /\ Len(stored) = 0
    BY <2>3, EmptyList
  <2>8. LoadInv
    <3>1. Len(batch) <= BatchLimit /\ Len(stored) <= at /\ at \in 0..Len(stream.sections)
      BY <2>3, <2>4, <2>7, BatchAssumption
    <3>2. /\ \A i \in 1..at : stream.sections[i].flaw = "none"
          /\ \A i \in 1..Len(stored) : stored[i] = stream.sections[i].cid
      BY <2>3, <2>7
    <3>3. lpc = "idle" /\ loutcome = "none" /\ batched \in BOOLEAN
      BY <2>3
    <3>4. QED
      BY <2>4, <2>5, <2>6, <2>7, <3>1, <3>2, <3>3 DEF LoadInv
  <2>9. QED
    BY <2>2, <2>8, EmptyList DEF RTInv
<1>2. RTInv /\ [RTNext]_allVars => RTInv'
  <2>1. SUFFICES ASSUME RTInv, [RTNext]_allVars PROVE RTInv'
    OBVIOUS
  <2>2. UNCHANGED loader => LoadInv'
    <3>1. SUFFICES ASSUME UNCHANGED loader PROVE LoadInv'
      OBVIOUS
    <3>2. /\ stream' = stream /\ batched' = batched /\ at' = at /\ batch' = batch /\ stored' = stored
          /\ lpc' = lpc /\ loutcome' = loutcome
      BY <3>1 DEF loader
    <3>3. (Stream(stream)' <=> Stream(stream)) /\ (Loaded' <=> Loaded) /\ (WholeBatches' <=> WholeBatches)
      BY <3>2 DEF Stream, Loaded, WholeBatches
    <3>4. QED
      BY <2>1, <3>2, <3>3 DEF RTInv, LoadInv
  <2>3. UNCHANGED vars => IsList(written)'
    BY <2>1 DEF RTInv, vars, writing
  <2>4. CASE StreamCAR
    BY <2>1, <2>2, <2>4, StreamIsNext, WrittenStep DEF RTInv
  <2>5. CASE Read \/ ReadStep
    BY <2>2, <2>3, <2>5 DEF RTInv, Read, ReadStep
  <2>6. CASE Load
    <3>1. UNCHANGED vars
      BY <2>6 DEF Load
    <3>2. PICK b \in BOOLEAN :
            \/ L!LoadCar(L!NoStream, b)
            \/ \E n \in Arriving, flaw \in L!Flaws \union {"none"} : L!LoadCar(StreamOf(n, flaw), b)
      BY <2>6 DEF Load
    <3>3. Stream(L!NoStream)
      BY EmptyList DEF Stream, L!NoStream
    <3>4. LoadInv'
      BY <2>1, <3>2, <3>3, LoadStarts, StreamArrives DEF RTInv
    <3>5. QED
      BY <2>3, <3>1, <3>4 DEF RTInv
  <2>7. CASE LoadStep
    BY <2>1, <2>3, <2>7, LoadAdvances DEF RTInv, LoadStep
  <2>8. CASE UNCHANGED allVars
    BY <2>2, <2>3, <2>8 DEF RTInv, allVars
  <2>9. QED
    BY <2>1, <2>4, <2>5, <2>6, <2>7, <2>8 DEF RTNext
<1>3. QED
  BY <1>1, <1>2, PTL DEF RTSpec

\* A list that agrees with another is a prefix of it.
LEMMA PrefixByPositions ==
  ASSUME NEW s, NEW t, IsList(s), IsList(t), Len(s) <= Len(t), \A i \in 1..Len(s) : s[i] = t[i]
  PROVE  IsPrefix(s, t)
<1>1. Len(s) \in Nat /\ Len(t) \in Nat
  BY ListProperties
<1>2. /\ IsList(SubSeq(s, 1, Len(s))) /\ Len(SubSeq(s, 1, Len(s))) = Len(s)
      /\ \A j \in 1..Len(s) : SubSeq(s, 1, Len(s))[j] = s[j]
  <2>1. 1 \in 1..(Len(s) + 1) /\ Len(s) \in 0..Len(s)
    BY <1>1
  <2>2. /\ IsList(SubSeq(s, 1, Len(s))) /\ Len(SubSeq(s, 1, Len(s))) = IF 1 <= Len(s) THEN Len(s) - 1 + 1 ELSE 0
        /\ \A j \in 1..(Len(s) - 1 + 1) : SubSeq(s, 1, Len(s))[j] = s[1 + j - 1]
    BY <2>1, SliceOfList
  <2>3. QED
    BY <1>1, <2>2
<1>3. /\ IsList(SubSeq(t, 1, Len(s))) /\ Len(SubSeq(t, 1, Len(s))) = Len(s)
      /\ \A j \in 1..Len(s) : SubSeq(t, 1, Len(s))[j] = t[j]
  <2>1. 1 \in 1..(Len(t) + 1) /\ Len(s) \in 0..Len(t)
    BY <1>1
  <2>2. /\ IsList(SubSeq(t, 1, Len(s))) /\ Len(SubSeq(t, 1, Len(s))) = IF 1 <= Len(s) THEN Len(s) - 1 + 1 ELSE 0
        /\ \A j \in 1..(Len(s) - 1 + 1) : SubSeq(t, 1, Len(s))[j] = t[1 + j - 1]
    BY <2>1, SliceOfList
  <2>3. QED
    BY <1>1, <2>2
<1>4. SubSeq(s, 1, Len(s)) = SubSeq(t, 1, Len(s))
  BY <1>2, <1>3, ListEqual
<1>5. QED
  BY <1>4 DEF IsPrefix

\* LoadCar puts the blocks in the order of the stream, none beyond the first
\* flaw, all when it succeeds and whole batches when it fails
\* (car.go:185-226).
THEOREM LoadsInOrder == RTSpec => []LoadsAllOrWholeBatches
<1>1. RTInv => LoadsAllOrWholeBatches
  <2>1. SUFFICES ASSUME LoadInv PROVE LoadsAllOrWholeBatches
    BY DEF RTInv
  <2> DEFINE read == [i \in 1..at |-> stream.sections[i].cid]
  <2>2. /\ at \in Nat /\ at <= Len(stream.sections) /\ Len(stream.sections) \in Nat
        /\ DOMAIN stream.sections = 1..Len(stream.sections)
    <3>1. IsList(stream.sections) /\ at \in 0..Len(stream.sections)
      BY <2>1 DEF LoadInv, Stream
    <3>2. Len(stream.sections) \in Nat /\ DOMAIN stream.sections = 1..Len(stream.sections)
      BY <3>1, ListProperties
    <3>3. QED
      BY <3>1, <3>2
  <2>3. \A i \in 1..at : stream.sections[i].flaw = "none"
    BY <2>1 DEF LoadInv
  <2>4. IsList(read) /\ Len(read) = at /\ \A i \in 1..at : read[i] = stream.sections[i].cid
    <3>1. read = [i \in 1..at |-> read[i]] /\ \A i \in 1..at : read[i] = stream.sections[i].cid
      OBVIOUS
    <3> HIDE DEF read
    <3>2. QED
      BY <2>2, <3>1, FunctionIsList
  <2>5. /\ IsList(stored) /\ Len(stored) <= at /\ Len(stored) \in Nat
        /\ \A i \in 1..Len(stored) : stored[i] = stream.sections[i].cid
    BY <2>1, ListProperties DEF LoadInv
  <2> HIDE DEF read
  <2>6. \A i \in 1..Len(stored) : stored[i] = read[i]
    BY <2>2, <2>4, <2>5
  <2>7. IsPrefix(stored, read)
    BY <2>4, <2>5, <2>6, PrefixByPositions
  <2>8. batch = << >> /\ Loaded => stored = read
    <3>1. SUFFICES ASSUME batch = << >>, Loaded PROVE stored = read
      OBVIOUS
    <3>2. Len(stored) = at
      BY <2>2, <2>5, <3>1, EmptyList DEF Loaded
    <3>3. QED
      BY <2>4, <2>5, <2>6, <3>2, ListEqual
  <2>9. ASSUME loutcome = "loaded"
        PROVE  /\ stored = read
               /\ \A i \in DOMAIN stream.sections : i > at => stream.sections[i].flaw = "after prefix"
    BY <2>1, <2>2, <2>8, <2>9 DEF LoadInv
  <2>10. ASSUME loutcome = "failed"
         PROVE  /\ stream.header => at < Len(stream.sections)
                /\ IF batched THEN Len(stored) % (BatchLimit + 1) = 0 /\ at - Len(stored) <= BatchLimit
                              ELSE stored = read
    <3>1. Loaded /\ WholeBatches /\ (stream.header => at < Len(stream.sections))
      BY <2>1, <2>10 DEF LoadInv
    <3>2. Len(batch) \in Nat /\ at - Len(stored) = Len(batch)
      BY <2>2, <2>5, <3>1, ListProperties DEF Loaded
    <3>3. QED
      BY <2>8, <3>1, <3>2 DEF WholeBatches
  <2>11. QED
    BY <2>3, <2>7, <2>9, <2>10 DEF LoadsAllOrWholeBatches, read
<1>2. QED
  BY <1>1, LoaderInvariance, PTL
-----------------------------------------------------------------------------
(* The comparison of two summaries' blocks. *)

\* Two summaries as SummariesAssumption has them.
Comparable(s) ==
  /\ IsList(s.order) /\ IsList(s.sizes) /\ Len(s.order) = Len(s.sizes)
  /\ \A i, j \in DOMAIN s.order : s.order[i] = s.order[j] => s.sizes[i] = s.sizes[j]

\* The positions of a list of n elements are n.
LEMMA Positions ==
  ASSUME NEW n \in Nat
  PROVE  IsFiniteSet(1..n) /\ Cardinality(1..n) = n
<1>1. /\ IsFiniteSet(1..n)
      /\ Cardinality(1..n) = IF 1 > n THEN 0 ELSE n - 1 + 1
  BY FS_Interval
<1>2. QED
  BY <1>1

\* The places of a block are finitely many.
LEMMA FinitePlaces ==
  ASSUME NEW s, IsList(s.order), NEW c
  PROVE  IsFiniteSet(Places(s, c)) /\ Places(s, c) \subseteq DOMAIN s.order
<1>1. Len(s.order) \in Nat /\ DOMAIN s.order = 1..Len(s.order)
  BY ListProperties
<1>2. IsFiniteSet(1..Len(s.order))
  BY <1>1, Positions
<1>3. Places(s, c) \subseteq DOMAIN s.order
  BY DEF Places
<1>4. QED
  BY <1>1, <1>2, <1>3, FS_Subset

\* The size found for a block is that of any of its places.
LEMMA SizeOfPlace ==
  ASSUME NEW s, Comparable(s), NEW i \in DOMAIN s.order
  PROVE  SizeOf(s, s.order[i]) = s.sizes[i]
<1> DEFINE c == s.order[i]
           I == {j \in 1..Len(s.order) : s.order[j] = c}
<1>1. Len(s.order) \in Nat /\ DOMAIN s.order = 1..Len(s.order)
  BY ListProperties DEF Comparable
<1>2. i \in I /\ I \in SUBSET Nat
  BY <1>1
<1>3. IsFiniteSet(I)
  <2>1. IsFiniteSet(1..Len(s.order))
    BY <1>1, Positions
  <2>2. QED
    BY <2>1, FS_Subset
<1>4. SelectLastInSeq(s.order, LAMBDA x : x = c) = Max(I)
  BY <1>2 DEF SelectLastInSeq
<1>5. Max(I) \in I
  <2> HIDE DEF I
  <2>1. QED
    BY <1>2, <1>3, MaxExists
<1>6. s.sizes[Max(I)] = s.sizes[i]
  <2>1. Max(I) \in DOMAIN s.order /\ s.order[Max(I)] = s.order[i]
    BY <1>1, <1>5
  <2> HIDE DEF I
  <2>2. QED
    BY <2>1 DEF Comparable
<1>7. SizeOf(s, c) = s.sizes[Max(I)]
  BY <1>4 DEF SizeOf
<1>8. QED
  BY <1>6, <1>7

\* A permutation takes the places of a block to its places.
LEMMA PermutedEqual ==
  ASSUME NEW s, NEW t, Comparable(s), Comparable(t), Permuted(s, t)
  PROVE  EqualBlocks(s, t)
<1>1. PICK f \in Bijection(DOMAIN s.order, DOMAIN t.order) :
        \A i \in DOMAIN s.order : s.order[i] = t.order[f[i]] /\ s.sizes[i] = t.sizes[f[i]]
  BY DEF Permuted
<1>2. /\ f \in [DOMAIN s.order -> DOMAIN t.order]
      /\ \A a, b \in DOMAIN s.order : f[a] = f[b] => a = b
      /\ \A j \in DOMAIN t.order : \E i \in DOMAIN s.order : f[i] = j
  BY <1>1, Fun_BijectionProperties
<1>3. /\ Len(s.order) \in Nat /\ DOMAIN s.order = 1..Len(s.order)
      /\ Len(t.order) \in Nat /\ DOMAIN t.order = 1..Len(t.order)
  BY ListProperties DEF Comparable
<1>4. Len(s.order) = Len(t.order)
  <2>1. /\ IsFiniteSet(1..Len(s.order)) /\ Cardinality(1..Len(s.order)) = Len(s.order)
        /\ Cardinality(1..Len(t.order)) = Len(t.order)
    BY <1>3, Positions
  <2>2. ExistsBijection(1..Len(s.order), 1..Len(t.order))
    BY <1>1, <1>3 DEF ExistsBijection
  <2>3. QED
    BY <2>1, <2>2, FS_Bijection
<1>5. ASSUME NEW j \in DOMAIN t.order
      PROVE  Places(s, t.order[j]) # {} /\ SizeOf(s, t.order[j]) = t.sizes[j]
  <2>1. PICK i \in DOMAIN s.order : f[i] = j
    BY <1>2
  <2>2. s.order[i] = t.order[j] /\ s.sizes[i] = t.sizes[j]
    BY <1>1, <2>1
  <2>3. i \in Places(s, t.order[j])
    BY <2>2 DEF Places
  <2>4. SizeOf(s, s.order[i]) = s.sizes[i]
    BY SizeOfPlace
  <2>5. QED
    BY <2>2, <2>3, <2>4
<1>6. ASSUME NEW c
      PROVE  Cardinality(Places(s, c)) = Cardinality(Places(t, c))
  <2> DEFINE g == [i \in Places(s, c) |-> f[i]]
  <2>1. \A i \in Places(s, c) : i \in DOMAIN s.order /\ f[i] \in Places(t, c)
    BY <1>1, <1>2 DEF Places
  <2>2. \A j \in Places(t, c) : \E i \in Places(s, c) : f[i] = j
    <3>1. SUFFICES ASSUME NEW j \in Places(t, c) PROVE \E i \in Places(s, c) : f[i] = j
      OBVIOUS
    <3>2. j \in DOMAIN t.order /\ t.order[j] = c
      BY DEF Places
    <3>3. PICK i \in DOMAIN s.order : f[i] = j
      BY <1>2, <3>2
    <3>4. i \in Places(s, c)
      BY <1>1, <3>2, <3>3 DEF Places
    <3>5. QED
      BY <3>3, <3>4
  <2>3. /\ g \in [Places(s, c) -> Places(t, c)]
        /\ \A a, b \in Places(s, c) : g[a] = g[b] => a = b
        /\ \A j \in Places(t, c) : \E i \in Places(s, c) : g[i] = j
    BY <1>2, <2>1, <2>2
  <2> HIDE DEF g
  <2>4. g \in Bijection(Places(s, c), Places(t, c))
    BY <2>3, Fun_IsBij
  <2>5. QED
    BY <2>4, FinitePlaces, FS_Bijection DEF Comparable, ExistsBijection
<1>7. QED
  BY <1>4, <1>5, <1>6 DEF EqualBlocks, Comparable

\* If blocks are listed equally often, bijections between the places of each
\* make one of all.
LEMMA EqualPermuted ==
  ASSUME NEW s, NEW t, Comparable(s), Comparable(t), EqualBlocks(s, t)
  PROVE  Permuted(s, t)
<1> DEFINE g(c) == CHOOSE h \in Bijection(Places(s, c), Places(t, c)) : TRUE
           f == [i \in DOMAIN s.order |-> g(s.order[i])[i]]
<1>1. ASSUME NEW c \in ToSet(s.order)
      PROVE  /\ \A i \in Places(s, c) : g(c)[i] \in Places(t, c)
             /\ \A a, b \in Places(s, c) : g(c)[a] = g(c)[b] => a = b
             /\ \A j \in Places(t, c) : \E i \in Places(s, c) : g(c)[i] = j
  <2>1. Cardinality(Places(s, c)) = Cardinality(Places(t, c))
    BY DEF EqualBlocks
  <2>2. Bijection(Places(s, c), Places(t, c)) # {}
    BY <2>1, FinitePlaces, FS_SameCardinalityBij DEF Comparable, ExistsBijection
  <2>3. g(c) \in Bijection(Places(s, c), Places(t, c))
    BY <2>2
  <2> HIDE DEF g
  <2>4. QED
    BY <2>3, Fun_BijectionProperties
<1>2. \A i \in DOMAIN s.order : s.order[i] \in ToSet(s.order) /\ i \in Places(s, s.order[i])
  BY DEF ToSet, Places
<1> HIDE DEF g
<1>3. \A i \in DOMAIN s.order : f[i] \in DOMAIN t.order /\ t.order[f[i]] = s.order[i]
  <2>1. SUFFICES ASSUME NEW i \in DOMAIN s.order
                 PROVE  f[i] \in DOMAIN t.order /\ t.order[f[i]] = s.order[i]
    OBVIOUS
  <2>2. f[i] \in Places(t, s.order[i])
    BY <1>1, <1>2
  <2>3. QED
    BY <2>2 DEF Places
<1>4. f \in [DOMAIN s.order -> DOMAIN t.order]
  BY <1>3
<1>5. ASSUME NEW a \in DOMAIN s.order, NEW b \in DOMAIN s.order, f[a] = f[b]
      PROVE  a = b
  <2>1. s.order[a] = s.order[b]
    BY <1>3, <1>5
  <2>2. g(s.order[a])[a] = g(s.order[a])[b] /\ b \in Places(s, s.order[a])
    BY <1>2, <1>5, <2>1
  <2>3. QED
    BY <1>1, <1>2, <2>2
<1>6. ASSUME NEW j \in DOMAIN t.order
      PROVE  \E i \in DOMAIN s.order : f[i] = j
  <2> DEFINE c == t.order[j]
  <2>1. PICK k \in Places(s, c) : TRUE
    BY DEF EqualBlocks
  <2>2. c \in ToSet(s.order) /\ j \in Places(t, c)
    BY <2>1 DEF Places, ToSet
  <2>3. PICK i \in Places(s, c) : g(c)[i] = j
    BY <1>1, <2>2
  <2>4. i \in DOMAIN s.order /\ s.order[i] = c
    BY <2>3 DEF Places
  <2>5. QED
    BY <2>3, <2>4
<1> HIDE DEF f
<1>7. f \in Bijection(DOMAIN s.order, DOMAIN t.order)
  BY <1>4, <1>5, <1>6, Fun_IsBij
<1>8. ASSUME NEW i \in DOMAIN s.order
      PROVE  s.order[i] = t.order[f[i]] /\ s.sizes[i] = t.sizes[f[i]]
  <2>1. f[i] \in DOMAIN t.order /\ t.order[f[i]] = s.order[i]
    BY <1>3
  <2>2. SizeOf(s, t.order[f[i]]) = t.sizes[f[i]]
    BY <2>1 DEF EqualBlocks
  <2>3. QED
    BY <2>1, <2>2, SizeOfPlace
<1>9. QED
  BY <1>7, <1>8 DEF Permuted

\* equalBlocks finds whether the blocks are a permutation, for summaries of any
\* length (car_dir_builder.go:318-361).
THEOREM ComparesPermutations == RTSpec => []EqualBlocksIsPermutation
<1>1. \A s \in Summaries : Comparable(s)
  BY SummariesAssumption DEF Comparable, IsList
<1>2. EqualBlocksIsPermutation
  BY <1>1, PermutedEqual, EqualPermuted DEF EqualBlocksIsPermutation
<1>3. QED
  BY <1>2, PTL

-----------------------------------------------------------------------------
(* The links of a block, as the reader sees them. *)

\* The reader's blocks are the builder's.
LEMMA SameBlocks ==
  /\ \A s, S : R!Those(s, S) = Those(s, S)
  /\ \A c : R!BlockLen(c) = BlockLen(c)
  /\ \A chunk : R!Leaf(chunk) = Leaf(chunk)
  /\ \A s : R!ToSet(s) = ToSet(s)
  /\ \A s, x : R!Contains(s, x) <=> Contains(s, x)
  /\ R!Undef = Undef /\ R!ROOT = ROOT
<1>1. ASSUME NEW s, NEW places PROVE R!Picked(s, places) = Picked(s, places)
  BY DEF R!Picked, Picked, R!Cardinality, Cardinality, R!IsFiniteSet, IsFiniteSet
<1>2. ASSUME NEW s, NEW S PROVE R!Those(s, S) = Those(s, S)
  BY <1>1 DEF R!Those, Those
<1>3. ASSUME NEW c PROVE R!BlockLen(c) = BlockLen(c)
  BY DEF R!BlockLen, BlockLen
<1>4. (\A chunk : R!Leaf(chunk) = Leaf(chunk)) /\ R!Undef = Undef /\ R!ROOT = ROOT
  BY DEF R!Leaf, Leaf, R!Undef, Undef, R!ROOT, ROOT
<1>5. (\A s : R!ToSet(s) = ToSet(s)) /\ \A s, x : R!Contains(s, x) <=> Contains(s, x)
  BY DEF R!ToSet, ToSet, R!Contains, Contains
<1>6. QED
  BY <1>2, <1>3, <1>4, <1>5

\* Blocks that are directories, for the reader.
IsDirectory(c) == R!AnalyzeNode(c).isDir

LEMMA DirectoryBlocks ==
  /\ \A links : IsDirectory(DirCid(links))
  /\ \A content : ~IsDirectory(FileCid(content))
  /\ \A chunk : ~IsDirectory(Leaf(chunk))
<1>1. \A c : IsDirectory(c) <=> c[1] = "dir"
  BY DEF IsDirectory, R!AnalyzeNode
<1>2. \A links : DirCid(links)[1] = "dir"
  BY DEF DirCid
<1>3. \A chunk : Leaf(chunk)[1] = "leaf"
  BY DEF Leaf
<1>4. \A content : FileCid(content)[1] \in {"leaf", "file"}
  BY <1>3 DEF FileCid
<1>5. QED
  BY <1>1, <1>2, <1>3, <1>4

\* What the links of a block lead to.
Targets(links) == {l[2] : l \in ToSet(links)}

\* All links of a block, in some order.
Ordered(c) ==
  /\ IsList(R!LinkSeq(c))
  /\ Targets(R!LinkSeq(c)) = Links(c)
  /\ IsDirectory(c) => ToSet(R!LinkSeq(c)) = c[2]

\* A finite set as a list.
LEMMA SetAsList ==
  ASSUME NEW S, IsFiniteSet(S)
  PROVE  IsList(R!SetToSeq(S)) /\ ToSet(R!SetToSeq(S)) = S
<1> DEFINE n == Cardinality(S)
           s == R!SetToSeq(S)
<1>1. n \in Nat /\ ExistsBijection(1..n, S) /\ IsFiniteSet(1..n) /\ Cardinality(1..n) = n
  <2>1. n \in Nat /\ ExistsBijection(1..n, S)
    BY FS_CardinalityType
  <2>2. QED
    BY <2>1, FS_Interval
<1>2. s = CHOOSE f \in [1..n -> S] : R!IsInjective(f)
  <2>1. R!Cardinality(S) = n
    BY DEF R!Cardinality, Cardinality, R!IsFiniteSet, IsFiniteSet
  <2> HIDE DEF n
  <2>2. QED
    BY <2>1 DEF R!SetToSeq
<1> HIDE DEF n, s
<1>3. \E f \in [1..n -> S] : R!IsInjective(f)
  <2>1. PICK f \in Bijection(1..n, S) : TRUE
    BY <1>1 DEF ExistsBijection
  <2>2. f \in [1..n -> S] /\ \A i, j \in 1..n : f[i] = f[j] => i = j
    BY <2>1 DEF Bijection, Injection, IsInjective
  <2>3. R!IsInjective(f)
    BY <2>2 DEF R!IsInjective
  <2>4. QED
    BY <2>2, <2>3
<1>4. s \in [1..n -> S] /\ R!IsInjective(s)
  BY <1>2, <1>3
<1>5. s \in Injection(1..n, S)
  BY <1>4 DEF R!IsInjective, Injection, IsInjective
<1>6. s \in Surjection(1..n, S)
  BY <1>1, <1>5, FS_Injection DEF n
<1>7. ToSet(s) = S
  BY <1>4, <1>6 DEF Surjection, ToSet
<1>8. IsList(s)
  <2>1. s = [i \in 1..n |-> s[i]]
    BY <1>4
  <2>2. QED
    BY <1>1, <2>1, FunctionIsList
<1>9. QED
  BY <1>7, <1>8 DEF s

\* Links of one place have different turns.
LEMMA TurnsDiffer ==
  ASSUME NEW M, IsFiniteSet(M), NEW k \in M, NEW l \in M, R!Place(k[1]) = R!Place(l[1])
  PROVE  R!Turn(M, k) \in Nat /\ (R!Turn(M, k) = R!Turn(M, l) => k = l)
<1> DEFINE T == {m \in M : R!Place(m[1]) = R!Place(l[1])}
           q == R!SetToSeq(T)
<1>1. IsFiniteSet(T) /\ k \in T /\ l \in T
  BY FS_Subset
<1>2. /\ R!Turn(M, k) = CHOOSE i \in DOMAIN q : q[i] = k
      /\ R!Turn(M, l) = CHOOSE i \in DOMAIN q : q[i] = l
  BY DEF R!Turn
<1> HIDE DEF T, q
<1>3. IsList(q) /\ ToSet(q) = T
  BY <1>1, SetAsList DEF q
<1>4. Len(q) \in Nat /\ DOMAIN q = 1..Len(q)
  BY <1>3, ListProperties
<1>5. ASSUME NEW m \in T PROVE \E i \in DOMAIN q : q[i] = m
  BY <1>3 DEF ToSet
<1>6. R!Turn(M, k) \in DOMAIN q /\ q[R!Turn(M, k)] = k
  BY <1>1, <1>2, <1>5
<1>7. R!Turn(M, l) \in DOMAIN q /\ q[R!Turn(M, l)] = l
  BY <1>1, <1>2, <1>5
<1>8. R!Turn(M, k) \in Nat
  BY <1>4, <1>6
<1>9. QED
  BY <1>6, <1>7, <1>8

LEMMA PlaceIsNat ==
  ASSUME NEW name
  PROVE  R!Place(name) \in Nat
<1> DEFINE before == {n \in DOMAIN NameOrder : \A m \in 1..n : NameOrder[m] # name}
<1>1. DOMAIN NameOrder = 1..Len(NameOrder) /\ Len(NameOrder) \in Nat
  BY NamesAssumption
<1>2. IsFiniteSet(DOMAIN NameOrder) /\ before \in SUBSET DOMAIN NameOrder
  BY <1>1, FS_Interval
<1>3. R!Place(name) = Cardinality(before)
  BY DEF R!Place, R!Cardinality, Cardinality, R!IsFiniteSet, IsFiniteSet
<1> HIDE DEF before
<1>4. QED
  BY <1>2, <1>3, FS_Subset, FS_CardinalityType

\* The number of links not behind a link differs from link to link, and is not
\* more than all.
LEMMA RanksDiffer ==
  ASSUME NEW M, IsFiniteSet(M),
         NEW rank, rank = [l \in M |-> Cardinality({k \in M : k = l \/ R!Before(M, k, l)})]
  PROVE  rank \in Injection(M, 1..Cardinality(M))
<1> DEFINE place == [l \in M |-> R!Place(l[1])]
           turn == [l \in M |-> R!Turn(M, l)]
           upTo == [l \in M |-> {k \in M : k = l \/ R!Before(M, k, l)}]
           n == Cardinality(M)
<1>1. \A l \in M : place[l] \in Nat /\ turn[l] \in Nat
  BY PlaceIsNat, TurnsDiffer
<1>2. \A k, l \in M : place[k] = place[l] /\ turn[k] = turn[l] => k = l
  BY TurnsDiffer
<1>3. \A l \in M : upTo[l] = {k \in M : k = l \/ place[k] < place[l] \/ (place[k] = place[l] /\ turn[k] < turn[l])}
  BY DEF R!Before
<1>4. \A l \in M : rank[l] = Cardinality(upTo[l])
  OBVIOUS
<1>5. n \in Nat
  BY FS_CardinalityType
<1> HIDE DEF place, turn, upTo, n
<1>6. ASSUME NEW l \in M
      PROVE  IsFiniteSet(upTo[l]) /\ rank[l] \in 1..n
  <2>1. l \in upTo[l] /\ upTo[l] \in SUBSET M
    BY <1>3
  <2>2. IsFiniteSet(upTo[l]) /\ Cardinality(upTo[l]) <= n
    BY <2>1, FS_Subset DEF n
  <2>3. Cardinality(upTo[l]) \in Nat /\ Cardinality(upTo[l]) # 0
    BY <2>1, <2>2, FS_CardinalityType, FS_EmptySet
  <2>4. QED
    BY <1>4, <1>5, <2>2, <2>3
<1>7. ASSUME NEW l \in M, NEW k \in M, k # l, k \in upTo[l]
      PROVE  rank[l] # rank[k]
  <2>1. place[l] \in Nat /\ place[k] \in Nat /\ turn[l] \in Nat /\ turn[k] \in Nat
    BY <1>1
  <2>2. place[k] < place[l] \/ (place[k] = place[l] /\ turn[k] < turn[l])
    BY <1>3, <1>7
  <2>3. l \notin upTo[k]
    BY <1>3, <1>7, <2>1, <2>2
  <2>4. ASSUME NEW m \in upTo[k] PROVE m \in upTo[l]
    <3>1. m \in M /\ (m = k \/ place[m] < place[k] \/ (place[m] = place[k] /\ turn[m] < turn[k]))
      BY <1>3
    <3>2. place[m] \in Nat /\ turn[m] \in Nat
      BY <1>1, <3>1
    <3>3. place[m] < place[l] \/ (place[m] = place[l] /\ turn[m] < turn[l])
      BY <2>1, <2>2, <3>1, <3>2
    <3>4. QED
      BY <1>3, <3>1, <3>3
  <2>5. l \in upTo[l]
    BY <1>3
  <2>6. upTo[k] \in SUBSET upTo[l] /\ upTo[k] # upTo[l] /\ IsFiniteSet(upTo[l])
    BY <1>6, <2>3, <2>4, <2>5
  <2>7. Cardinality(upTo[l]) # Cardinality(upTo[k])
    BY <2>6, FS_Subset
  <2>8. QED
    BY <1>4, <2>7
<1>8. ASSUME NEW l \in M, NEW k \in M, rank[l] = rank[k] PROVE l = k
  <2>1. place[l] \in Nat /\ place[k] \in Nat /\ turn[l] \in Nat /\ turn[k] \in Nat
    BY <1>1
  <2>2. l \in upTo[k] \/ k \in upTo[l]
    BY <1>2, <1>3, <2>1
  <2>3. QED
    BY <1>7, <1>8, <2>2
<1>9. rank \in [M -> 1..n]
  BY <1>6
<1>10. QED
  BY <1>8, <1>9 DEF Injection, IsInjective, n

\* Sorting the links of a set by names lists them all.
LEMMA SortedElements ==
  ASSUME NEW M, IsFiniteSet(M)
  PROVE  IsList(R!ByName(M)) /\ ToSet(R!ByName(M)) = M
<1> DEFINE n == Cardinality(M)
           rank == [l \in M |-> Cardinality({k \in M : k = l \/ R!Before(M, k, l)})]
           s == R!ByName(M)
<1>1. n \in Nat /\ IsFiniteSet(1..n) /\ Cardinality(1..n) = n
  <2>1. n \in Nat
    BY FS_CardinalityType
  <2>2. QED
    BY <2>1, FS_Interval
<1>2. s = [m \in 1..n |-> CHOOSE l \in M : rank[l] = m]
  BY DEF R!ByName, R!Cardinality, Cardinality, R!IsFiniteSet, IsFiniteSet
<1>3. rank \in Injection(M, 1..n)
  <2> HIDE DEF rank
  <2>1. rank = [l \in M |-> Cardinality({k \in M : k = l \/ R!Before(M, k, l)})]
    BY DEF rank
  <2>2. QED
    BY <2>1, RanksDiffer
<1> HIDE DEF rank, s
<1>4. rank \in Surjection(M, 1..n)
  BY <1>1, <1>3, FS_Injection
<1> HIDE DEF n
<1>5. ASSUME NEW m \in 1..n PROVE s[m] \in M /\ rank[s[m]] = m
  <2>1. \E l \in M : rank[l] = m
    BY <1>4 DEF Surjection
  <2>2. s[m] = CHOOSE l \in M : rank[l] = m
    BY <1>2
  <2>3. QED
    BY <2>1, <2>2
<1>6. IsList(s) /\ DOMAIN s = 1..n
  <2>1. s = [m \in 1..n |-> s[m]]
    BY <1>2
  <2>2. QED
    BY <1>1, <1>2, <2>1, FunctionIsList
<1>7. ASSUME NEW l \in M PROVE \E m \in 1..n : s[m] = l
  <2>1. rank[l] \in 1..n /\ \A k \in M : rank[k] = rank[l] => k = l
    BY <1>3 DEF Injection, IsInjective
  <2>2. s[rank[l]] = l
    BY <1>5, <2>1
  <2>3. QED
    BY <2>1, <2>2
<1>8. ToSet(s) = {s[m] : m \in 1..n}
  BY <1>6 DEF ToSet
<1>9. QED
  BY <1>5, <1>6, <1>7, <1>8 DEF s

\* The links of a directory, sorted by name.
LEMMA DirectoryOrdered ==
  ASSUME NEW V, Tree(V), NEW p, NEW K \in SUBSET Inside(V, p), NEW g
  PROVE  Ordered(DirCid(LinksBy(g, K)))
<1> DEFINE links == LinksBy(g, K)
           c == DirCid(links)
<1>1. c[1] = "dir" /\ c[2] = links
  BY DEF DirCid
<1>2. R!LinkSeq(c) = R!ByName(links)
  <2> HIDE DEF c, links
  <2>1. QED
    BY <1>1 DEF R!LinkSeq
<1>3. IsFiniteSet(links)
  <2> DEFINE f == [k \in K |-> <<k.name, g[k]>>]
  <2>1. IsFiniteSet(K)
    <3>1. K \in SUBSET V /\ IsFiniteSet(V)
      BY DEF Inside, Tree
    <3>2. QED
      BY <3>1, FS_Subset
  <2>2. links = {f[k] : k \in K}
    BY DEF LinksBy
  <2> HIDE DEF f, links
  <2>3. QED
    BY <2>1, <2>2, ImageIsFinite
<1>4. Links(c) = {l[2] : l \in links}
  BY LinksOfBlocks DEF c
<1> HIDE DEF links, c
<1>5. IsList(R!LinkSeq(c)) /\ ToSet(R!LinkSeq(c)) = links
  BY <1>2, <1>3, SortedElements
<1>6. QED
  BY <1>1, <1>4, <1>5 DEF Ordered, Targets, c, links

\* The links of a file lead to its leaves.
LEMMA FileOrdered ==
  ASSUME NEW content, IsList(content), NEW c \in ToSet(TraversalOrder(content))
  PROVE  Ordered(c)
<1>1. ASSUME NEW chunk PROVE Ordered(Leaf(chunk))
  <2>1. Leaf(chunk)[1] = "leaf"
    BY DEF Leaf
  <2>2. R!LinkSeq(Leaf(chunk)) = << >>
    BY <2>1 DEF R!LinkSeq
  <2>3. ToSet(<< >>) = {} /\ IsList(<< >>)
    BY EmptyList DEF ToSet
  <2>4. ~IsDirectory(Leaf(chunk)) /\ Links(Leaf(chunk)) = {}
    BY DirectoryBlocks, LinksOfBlocks
  <2>5. QED
    BY <2>2, <2>3, <2>4 DEF Ordered, Targets
<1>2. ASSUME Len(content) # 1 PROVE Ordered(FileCid(content))
  <2> DEFINE f == FileCid(content)
             s == R!LinkSeq(f)
  <2>1. f[1] = "file" /\ f[2] = content
    BY <1>2 DEF FileCid
  <2>2. s = [i \in DOMAIN content |-> <<R!NoName, R!Leaf(content[i])>>]
    BY <2>1 DEF R!LinkSeq
  <2>3. Len(content) \in Nat /\ DOMAIN content = 1..Len(content)
    BY ListProperties
  <2>4. ~IsDirectory(f) /\ Links(f) = {Leaf(content[i]) : i \in DOMAIN content}
    BY <1>2, DirectoryBlocks, LinksOfBlocks
  <2> HIDE DEF f, s
  <2>5. DOMAIN s = DOMAIN content /\ \A i \in DOMAIN s : s[i] = <<R!NoName, Leaf(content[i])>>
    BY <2>2, SameBlocks
  <2>6. IsList(s)
    <3>1. s = [i \in 1..Len(content) |-> s[i]]
      BY <2>2, <2>3
    <3>2. QED
      BY <2>3, <3>1, FunctionIsList
  <2>7. Targets(s) = Links(f)
    <3>1. \A i \in DOMAIN content : s[i][2] = Leaf(content[i])
      BY <2>5
    <3>2. ToSet(s) = {s[i] : i \in DOMAIN content}
      BY <2>5 DEF ToSet
    <3>3. Targets(s) = {s[i][2] : i \in DOMAIN content}
      BY <3>2 DEF Targets
    <3>4. QED
      BY <2>4, <3>1, <3>3
  <2>8. QED
    BY <2>4, <2>6, <2>7 DEF Ordered, f, s
<1>3. CASE c = FileCid(content)
  <2>1. CASE Len(content) = 1
    BY <1>1, <1>3, <2>1 DEF FileCid
  <2>2. CASE Len(content) # 1
    BY <1>2, <1>3, <2>2
  <2>3. QED
    BY <2>1, <2>2
<1>4. CASE \E i \in DOMAIN content : c = Leaf(content[i])
  BY <1>1, <1>4
<1>5. QED
  BY <1>3, <1>4, ElementsOfTraversal

\* What a summary has published can be read.
LEMMA PublishedOrdered ==
  ASSUME PublishedInv, Built, NotReserved(source.tree), NEW c \in Blocks(summary)
  PROVE  Ordered(c)
<1> DEFINE V == Visible(source.tree)
           g == CidsIn(V, summary.entries)
<1>1. source.tree \in Trees /\ Published(summary, V)
  BY DEF PublishedInv
<1>2. Tree(V) /\ Contents(V)
  BY <1>1, VisibleTree, VisibleContents
<1> HIDE DEF V, g
<1>3. ASSUME NEW x \in FileBlocks(V) PROVE Ordered(x)
  <2>1. PICK it \in V : ~it.isDir /\ x \in ToSet(TraversalOrder(it.content))
    BY DEF FileBlocks
  <2>2. QED
    BY <1>2, <2>1, FileOrdered DEF Contents
<1>4. CASE summary.root = summary.entries[ROOT].cid /\ Finished(V, summary.entries, summary.order, summary.cidToEntry)
  <2>1. \/ c \in FileBlocks(V)
        \/ c = summary.root
        \/ \E p, K : K \subseteq Inside(V, p) \intersect WithFiles(V) /\ c = DirCid(LinksBy(g, K))
    BY <1>2, <1>4, ListedBlocks DEF Blocks, g
  <2>2. summary.root = DirCid(LinksBy(g, Inside(V, << >>)))
    BY <1>4 DEF Finished, g
  <2>3. ASSUME NEW p, NEW K, K \subseteq Inside(V, p), c = DirCid(LinksBy(g, K))
        PROVE  Ordered(c)
    BY <1>2, <2>3, DirectoryOrdered
  <2>4. QED
    BY <1>3, <2>1, <2>2, <2>3
<1>5. ASSUME NEW it \in V, V = {it}, ~it.isDir, ToSet(summary.order) = ToSet(TraversalOrder(it.content))
      PROVE  Ordered(c)
  <2>1. CASE c = EmptyDir
    <3>1. LinksBy(g, {}) = {}
      BY DEF LinksBy
    <3>2. c = DirCid(LinksBy(g, {})) /\ {} \in SUBSET Inside(V, << >>)
      BY <2>1, <3>1 DEF EmptyDir
    <3>3. QED
      BY <1>2, <3>2, DirectoryOrdered
  <2>2. CASE c \in ToSet(summary.order)
    BY <1>2, <1>5, <2>2, FileOrdered DEF Contents
  <2>3. QED
    BY <2>1, <2>2 DEF Blocks
<1>6. QED
  BY <1>1, <1>4, <1>5 DEF Published

-----------------------------------------------------------------------------
(* The builder, while a CAR of its is read. *)

\* A round trip is a behaviour of the builder.
LEMMA BuilderRuns == RTSpec => SafeSpec
<1>1. RTInit => Init
  BY DEF RTInit
<1>2. [RTNext]_allVars => [Next]_vars
  BY StreamIsNext DEF RTNext, Read, ReadStep, Load, LoadStep, allVars
<1>3. QED
  BY <1>1, <1>2, PTL DEF RTSpec, SafeSpec

\* The builder is used once, and writes CARs of the summary it has then.
BuilderInv ==
  /\ builds = 0 => ~Built /\ pc = "idle"
  /\ Built => ~Building
  /\ ~Built => written = << >> /\ bytes = 0
  /\ Built => ToSet(written) \subseteq ToSet(summary.order)

LEMMA BuilderStep ==
  ASSUME TypeInv, BuilderInv, StreamCAR
  PROVE  BuilderInv'
<1>1. builds \in Nat
  BY BoundsAssumption DEF TypeInv, ControlTypes
<1>2. pc \in Pcs
  BY DEF TypeInv, ControlTypes
<1>3. ASSUME NEW t \in Trees, NEW w \in BOOLEAN, PrepareCAR(t, w) PROVE BuilderInv'
  <2>1. builds = 0 /\ builds' = builds + 1 /\ pc' = "walk" /\ UNCHANGED <<summary, written, bytes>>
    BY <1>3 DEF PrepareCAR, BuildSummary, SummaryKept, published, writing
  <2>2. ~Built /\ builds' # 0
    BY <2>1 DEF BuilderInv
  <2>3. QED
    BY <2>1, <2>2 DEF BuilderInv, Built
<1>4. ASSUME WriteCAR PROVE BuilderInv'
  <2>1. Built /\ written' = << >> /\ pc' = "write" /\ UNCHANGED <<summary, builds>>
    BY <1>4 DEF WriteCAR, WriteHeader, Built, given, published
  <2>2. ToSet(<< >>) = {}
    BY DEF ToSet
  <2>3. QED
    BY <2>1, <2>2 DEF BuilderInv, Built, Building
<1>5. ASSUME Building, UNCHANGED <<written, bytes, builds>>, pc' = "idle" PROVE BuilderInv'
  <2>1. ~Built /\ written = << >> /\ bytes = 0 /\ builds # 0
    BY <1>5 DEF BuilderInv, Building
  <2>2. ToSet(<< >>) = {}
    BY DEF ToSet
  <2>3. QED
    BY <1>5, <2>1, <2>2 DEF BuilderInv, Building, Built
<1>6. ASSUME UNCHANGED <<summary, written, bytes, builds>>, pc # "idle", pc' = "idle" \/ Building \/ ~Building'
      PROVE  BuilderInv'
  BY <1>6 DEF BuilderInv, Built, Building
<1>7. ASSUME pc \in {"write", "reimport"}, Len(written) < Len(summary.order), WriteSection,
             pc' \in {"write", "reimport"}, UNCHANGED <<summary, builds>>
      PROVE  BuilderInv'
  <2>1. Built /\ builds # 0
    BY <1>7 DEF BuilderInv, TypeInv, WriteInv
  <2>2. IsList(written) /\ IsList(summary.order)
    BY <2>1 DEF TypeInv, WriteInv, AlignedInv, Aligned
  <2>3. written' = Append(written, NextBlock)
    BY <1>7 DEF WriteSection
  <2>4. NextBlock \in ToSet(summary.order)
    <3>1. Len(written) \in Nat /\ Len(summary.order) \in Nat /\ DOMAIN summary.order = 1..Len(summary.order)
      BY <2>2, ListProperties
    <3>2. Len(written) + 1 \in DOMAIN summary.order
      BY <1>7, <3>1
    <3>3. QED
      BY <3>2 DEF ToSet, NextBlock
  <2>5. ToSet(written') = ToSet(written) \union {NextBlock}
    <3>1. /\ IsList(written') /\ Len(written') = Len(written) + 1 /\ Len(written) \in Nat
          /\ \A i \in 1..(Len(written) + 1) : written'[i] = IF i <= Len(written) THEN written[i] ELSE NextBlock
      BY <2>2, <2>3, ListAppend, ListProperties
    <3>2. DOMAIN written' = 1..(Len(written) + 1) /\ DOMAIN written = 1..Len(written)
      BY <2>2, <3>1, ListProperties
    <3>3. \A i \in 1..Len(written) : written'[i] = written[i]
      BY <3>1
    <3>4. written'[Len(written) + 1] = NextBlock
      BY <3>1
    <3>5. 1..(Len(written) + 1) = 1..Len(written) \union {Len(written) + 1}
      BY <3>1
    <3>6. QED
      BY <3>2, <3>3, <3>4, <3>5 DEF ToSet
  <2>6. QED
    BY <1>7, <2>1, <2>4, <2>5 DEF BuilderInv, Built, Building
<1>8. CASE VisitSkipped \/ VisitDir \/ VisitFile \/ ImportBlock \/ CollectBlock \/ CollectFails \/ EnterFile
           \/ StartDirectories \/ StartRegeneration \/ ReimportFile \/ WriteFails \/ FinishWrite \/ Stop \/ IOFails \/ Cancel
  <2>1. UNCHANGED <<summary, written, bytes, builds>> /\ pc # "idle"
    BY <1>8 DEF VisitSkipped, VisitDir, VisitFile, ImportBlock, CollectBlock, CollectFails, EnterFile,
       StartDirectories, StartRegeneration, ReimportFile, WriteFails, FinishWrite, Stop, IOFails, SectionFails, Cancel,
       published, writing, given, Visiting, Collecting, Importing, Writing, Dropped, Running
  <2>2. pc' = "idle" \/ Building \/ ~Building'
    <3>1. CASE VisitSkipped \/ VisitDir \/ ImportBlock \/ CollectBlock \/ Cancel
      <4>1. pc' = pc
        BY <3>1 DEF VisitSkipped, VisitDir, ImportBlock, CollectBlock, Cancel, control
      <4>2. QED
        BY <4>1 DEF Building
    <3>2. CASE VisitFile \/ EnterFile \/ StartDirectories \/ StartRegeneration
      BY <3>2 DEF VisitFile, Visiting, EnterFile, StartDirectories, StartRegeneration, Building
    <3>3. CASE CollectFails \/ WriteFails \/ FinishWrite \/ Stop \/ IOFails
      BY <3>3 DEF CollectFails, WriteFails, FinishWrite, Stop, IOFails, Return
    <3>4. CASE ReimportFile
      BY <3>4 DEF ReimportFile, Building
    <3>5. QED
      BY <1>8, <3>1, <3>2, <3>3, <3>4
  <2>3. QED
    BY <1>6, <2>1, <2>2
<1>9. CASE FinishSingleFile
  <2>1. Building /\ UNCHANGED <<written, bytes, builds>> /\ pc' = "idle"
    BY <1>9 DEF FinishSingleFile, Return, given, writing, Building
  <2>2. QED
    BY <1>5, <2>1
<1>10. ASSUME NEW p \in dirs, MakeDirectory(p) \/ PruneDirectory(p) \/ RegenerateDirectory(p) PROVE BuilderInv'
  <2>1. Building /\ UNCHANGED <<written, bytes, builds>>
    BY <1>10 DEF MakeDirectory, PruneDirectory, RegenerateDirectory, given, writing, Building
  <2>2. UNCHANGED summary \/ pc' = "idle"
    BY <1>10 DEF MakeDirectory, PruneDirectory, RegenerateDirectory, published, Return
  <2>3. pc # "idle"
    BY <2>1 DEF Building
  <2>4. QED
    BY <1>5, <1>6, <2>1, <2>2, <2>3
<1>11. CASE WriteBlock \/ RemakeDirectory
  <2>1. /\ pc \in {"write", "reimport"} /\ WriteSection /\ pc' \in {"write", "reimport"} /\ UNCHANGED <<summary, builds>>
    BY <1>11 DEF WriteBlock, RemakeDirectory, Writing, Dropped, given, published, control
  <2>2. Len(written) < Len(summary.order)
    BY <1>11 DEF WriteBlock, RemakeDirectory, Writing, Dropped, TypeInv, WriteInv
  <2>3. QED
    BY <1>7, <2>1, <2>2
<1>12. QED
  BY <1>3, <1>4, <1>8, <1>9, <1>10, <1>11 DEF StreamCAR, ThenWrite, Advance

\* What is read is a CAR that the builder has written, or a part of it, and
\* the builder rests.
CarInv ==
  rpc # "idle" \/ routcome # "none" =>
    ~Running /\ Built /\ car.root = summary.root /\ car.blocks \subseteq ToSet(written)

\* What the reader never changes.
LEMMA CarStays ==
  ASSUME R!Advance \/ R!Cancel
  PROVE  UNCHANGED car /\ rpc # "idle"
BY DEF R!Advance, R!Cancel, R!IndexAll, R!IndexFails, R!OpenRoot, R!RootFails, R!SkipLink, R!WalkLink, R!WalkFails,
       R!LeaveDirectory, R!StartBlocks, R!TakeCid, R!TakeSize, R!TakeLinks, R!FinishRead, R!Stop, R!Reading, R!Walking

\* The CARs that may arrive.
LEMMA FilesArrive ==
  ASSUME IsList(written), NEW file \in Files
  PROVE  file.root = summary.root /\ file.blocks \subseteq ToSet(written)
<1>1. ASSUME NEW n \in Arriving PROVE ToSet(SubSeq(written, 1, n)) \subseteq ToSet(written)
  <2>1. Len(written) \in Nat /\ DOMAIN written = 1..Len(written)
    BY ListProperties
  <2>2. 1 \in 1..(Len(written) + 1) /\ n \in 0..Len(written)
    <3>1. CASE outcome = "written"
      BY <2>1, <3>1 DEF Arriving
    <3>2. CASE outcome # "written"
      BY <2>1, <3>2 DEF Arriving
    <3>3. QED
      BY <3>1, <3>2
  <2> DEFINE part == SubSeq(written, 1, n)
  <2>3. /\ IsList(part) /\ Len(part) = IF 1 <= n THEN n - 1 + 1 ELSE 0
        /\ \A j \in 1..(n - 1 + 1) : part[j] = written[1 + j - 1]
    BY <2>2, SliceOfList
  <2> HIDE DEF part
  <2>4. Len(part) = n /\ n <= Len(written) /\ n \in Nat
    BY <2>1, <2>2, <2>3
  <2>5. \A j \in 1..n : part[j] = written[j] /\ j \in 1..Len(written)
    BY <2>1, <2>3, <2>4
  <2>6. DOMAIN part = 1..n
    BY <2>3, <2>4, ListProperties
  <2>7. ToSet(part) \subseteq ToSet(written)
    BY <2>1, <2>5, <2>6 DEF ToSet
  <2>8. QED
    BY <2>7 DEF part
<1>2. QED
  BY <1>1 DEF Files

LEMMA CarStep ==
  ASSUME TypeInv, BuilderInv, CarInv, RTNext
  PROVE  CarInv'
<1>1. CASE StreamCAR
  <2>1. rpc' = "idle" /\ routcome' = "none"
    BY <1>1 DEF StreamCAR, Unused, R!Reading, reader
  <2>2. QED
    BY <2>1 DEF CarInv
<1>2. CASE Read
  <2>1. PICK file \in Files : R!ReadCAR(file)
    BY <1>2 DEF Read
  <2>2. car' = file /\ UNCHANGED vars
    BY <1>2, <2>1 DEF Read, R!ReadCAR
  <2>3. ~Running /\ Built
    <3>1. bytes # 0
      BY <1>2 DEF Read, Delivered, TypeInv, ControlTypes
    <3>2. QED
      BY <1>2, <3>1 DEF Read, Delivered, BuilderInv
  <2>4. IsList(written)
    BY DEF TypeInv, WriteInv
  <2>5. UNCHANGED <<pc, summary, written>>
    BY <2>2 DEF vars, control, published, writing
  <2>6. QED
    BY <2>2, <2>3, <2>4, <2>5, FilesArrive DEF CarInv, Running, Built
<1>3. CASE ReadStep
  <2>1. UNCHANGED <<pc, summary, written>> /\ UNCHANGED car /\ rpc # "idle"
    BY <1>3, CarStays DEF ReadStep, vars, control, published, writing
  <2>2. QED
    BY <2>1 DEF CarInv, Running, Built
<1>4. CASE Load \/ LoadStep
  BY <1>4 DEF Load, LoadStep, CarInv, Running, Built, vars, control, published, writing, reader
<1>5. QED
  BY <1>1, <1>2, <1>3, <1>4 DEF RTNext

\* What is true of the CAR at every moment.
CarInvs == TypeInv /\ PublishedInv /\ SizeAsPredicted /\ BuilderInv /\ CarInv

LEMMA CarInvariance == RTSpec => []CarInvs
<1>1. RTInit => BuilderInv /\ CarInv
  <2>1. RTInit => builds = 0 /\ summary = NoSummary /\ pc = "idle" /\ written = << >> /\ bytes = 0
    BY DEF RTInit, Init
  <2>2. RTInit => rpc = "idle" /\ routcome = "none"
    BY DEF RTInit, R!Init
  <2>3. QED
    BY <2>1, <2>2 DEF BuilderInv, CarInv, Built
<1>2. TypeInv /\ BuilderInv /\ CarInv /\ [RTNext]_allVars => BuilderInv' /\ CarInv'
  <2>1. SUFFICES ASSUME TypeInv, BuilderInv, CarInv, [RTNext]_allVars PROVE BuilderInv' /\ CarInv'
    OBVIOUS
  <2>2. ASSUME UNCHANGED vars PROVE BuilderInv'
    BY <2>1, <2>2 DEF BuilderInv, vars, given, control, published, writing, Built, Building
  <2>3. CASE UNCHANGED allVars
    <3>1. CarInv'
      BY <2>1, <2>3 DEF CarInv, Running, Built, allVars, vars, control, published, writing, reader
    <3>2. QED
      BY <2>2, <2>3, <3>1 DEF allVars
  <2>4. CASE RTNext
    <3>1. BuilderInv'
      BY <2>1, <2>2, <2>4, BuilderStep DEF RTNext, Read, ReadStep, Load, LoadStep
    <3>2. QED
      BY <2>1, <2>4, <3>1, CarStep
  <2>5. QED
    BY <2>1, <2>3, <2>4
<1>3. QED
  BY <1>1, <1>2, BuilderRuns, TypeInvariance, PublishedInvariance, SizeInvariance, PTL DEF RTSpec, CarInvs

-----------------------------------------------------------------------------
(* The types of the reader's variables. *)

\* The reader has a tree, that is being made or is its result.
HasTree == rpc \in {"walk", "blocks", "size", "links"} \/ routcome = "read"

IsTree(t) ==
  /\ t = [root |-> t.root, order |-> t.order, sizes |-> t.sizes, total |-> t.total,
          entries |-> t.entries, cidToEntry |-> t.cidToEntry]
  /\ IsList(t.order) /\ IsList(t.sizes) /\ Len(t.order) = Len(t.sizes)
  /\ ROOT \in DOMAIN t.entries

IsFrame(f, entries) ==
  f = [key |-> f.key, links |-> f.links, skips |-> f.skips] /\ f.key \in DOMAIN entries

ReaderTypes ==
  /\ rpc \in {"idle", "index", "root", "walk", "blocks", "size", "links"}
  /\ routcome \in {"none", "read", "missing", "index", "cancelled"}
  /\ rcancelled \in BOOLEAN
  /\ rpc # "idle" => routcome = "none"
  /\ IF HasTree THEN IsTree(got) /\ IsList(stack) /\ \A f \in ToSet(stack) : IsFrame(f, got.entries)
                ELSE got = NoTree /\ stack = << >>
  /\ rpc # "walk" => stack = << >>
  /\ rpc \notin {"size", "links"} => current = Undef

\* The tree with one entry more, or an entry with another CID.
LEMMA EnteredTree ==
  ASSUME NEW t, IsTree(t), NEW parent, NEW l
  PROVE  LET new == R!Entered(t, parent, l)
             key == R!EntryKey(parent, l[1])
         IN  /\ IsTree(new)
             /\ new.root = t.root /\ new.order = t.order /\ new.sizes = t.sizes /\ new.total = t.total
             /\ DOMAIN new.entries = DOMAIN t.entries \union {key}
             /\ new.cidToEntry = R!With(t.cidToEntry, l[2], key)
<1> DEFINE new == R!Entered(t, parent, l)
           key == R!EntryKey(parent, l[1])
<1>1. PICK updated : LET all == R!With(t.entries, key, updated)
                     IN  new = [t EXCEPT
                           !.entries = IF (parent = ROOT /\ R!AnalyzeNode(l[2]).isDir) \/ parent \notin DOMAIN all THEN all
                                       ELSE [all EXCEPT ![parent].children = R!Listed(@, key)],
                           !.cidToEntry = R!With(@, l[2], key)]
  BY SameBlocks DEF R!Entered
<1> DEFINE all == R!With(t.entries, key, updated)
           entries == IF (parent = ROOT /\ R!AnalyzeNode(l[2]).isDir) \/ parent \notin DOMAIN all THEN all
                      ELSE [all EXCEPT ![parent].children = R!Listed(@, key)]
<1>2. DOMAIN all = DOMAIN t.entries \union {key}
  BY DEF R!With
<1>3. DOMAIN entries = DOMAIN all
  OBVIOUS
<1>4. t = [root |-> t.root, order |-> t.order, sizes |-> t.sizes, total |-> t.total,
           entries |-> t.entries, cidToEntry |-> t.cidToEntry]
  BY DEF IsTree
<1>5. new = [t EXCEPT !.entries = entries, !.cidToEntry = R!With(@, l[2], key)]
  BY <1>1
<1> HIDE DEF new, entries, key, all
<1>6. new = [root |-> t.root, order |-> t.order, sizes |-> t.sizes, total |-> t.total,
             entries |-> entries, cidToEntry |-> R!With(t.cidToEntry, l[2], key)]
  BY <1>4, <1>5
<1>7. /\ new.root = t.root /\ new.order = t.order /\ new.sizes = t.sizes /\ new.total = t.total
      /\ new.entries = entries /\ new.cidToEntry = R!With(t.cidToEntry, l[2], key)
  BY <1>6
<1>8. IsTree(new)
  BY <1>2, <1>3, <1>6, <1>7 DEF IsTree
<1>9. QED
  BY <1>2, <1>3, <1>7, <1>8 DEF new, key

\* The tree with one block more in its lists.
LEMMA ListedTree ==
  ASSUME NEW t, IsTree(t), NEW c
  PROVE  LET new == R!ListedBlock(t, c)
             size == IF R!Available(c) THEN BlockLen(c) ELSE 0
         IN  /\ IsTree(new)
             /\ new.root = t.root /\ new.entries = t.entries /\ new.cidToEntry = t.cidToEntry
             /\ new.order = Append(t.order, c) /\ new.sizes = Append(t.sizes, size) /\ new.total = t.total + size
<1> DEFINE new == R!ListedBlock(t, c)
           size == IF R!Available(c) THEN BlockLen(c) ELSE 0
<1>1. new = [t EXCEPT !.order = Append(@, c), !.sizes = Append(@, size), !.total = @ + size]
  BY SameBlocks DEF R!ListedBlock
<1>2. t = [root |-> t.root, order |-> t.order, sizes |-> t.sizes, total |-> t.total,
           entries |-> t.entries, cidToEntry |-> t.cidToEntry]
  BY DEF IsTree
<1> HIDE DEF new, size
<1>3. new = [root |-> t.root, order |-> Append(t.order, c), sizes |-> Append(t.sizes, size), total |-> t.total + size,
             entries |-> t.entries, cidToEntry |-> t.cidToEntry]
  BY <1>1, <1>2
<1>4. /\ new.root = t.root /\ new.entries = t.entries /\ new.cidToEntry = t.cidToEntry
      /\ new.order = Append(t.order, c) /\ new.sizes = Append(t.sizes, size) /\ new.total = t.total + size
  BY <1>3
<1>5. /\ IsList(t.order) /\ IsList(t.sizes) /\ Len(t.order) = Len(t.sizes) /\ ROOT \in DOMAIN t.entries
  BY DEF IsTree
<1>6. /\ IsList(Append(t.order, c)) /\ Len(Append(t.order, c)) = Len(t.order) + 1
      /\ IsList(Append(t.sizes, size)) /\ Len(Append(t.sizes, size)) = Len(t.sizes) + 1
  BY <1>5, ListAppend
<1>7. IsTree(new)
  BY <1>3, <1>4, <1>5, <1>6 DEF IsTree
<1>8. QED
  BY <1>4, <1>7 DEF new, size

\* The tree that the walk begins with.
LEMMA FirstTrees ==
  ASSUME NEW c
  PROVE  /\ IsTree(R!DirectoryTree(c)) /\ IsTree(R!FileTree(c))
         /\ DOMAIN R!DirectoryTree(c).entries = {ROOT}
         /\ R!DirectoryTree(c).cidToEntry = [x \in {c} |-> ROOT]
         /\ R!DirectoryTree(c).order = << >> /\ R!DirectoryTree(c).sizes = << >> /\ R!DirectoryTree(c).total = 0
         /\ R!FileTree(c).order = << >> /\ R!FileTree(c).sizes = << >> /\ R!FileTree(c).total = 0
         /\ DOMAIN R!FileTree(c).cidToEntry = {c}
<1> DEFINE t == R!DirectoryTree(c)
           u == R!FileTree(c)
<1> DEFINE root == [p \in {R!ROOT} |-> R!Entry("ROOT", TRUE, << >>, c, << >>, 0)]
           file == <<R!CidName>>
           entry == R!Entry(R!CidName, FALSE, << >>, c, << >>, R!AnalyzeNode(c).fileSize)
           listing == [p \in {R!ROOT} |-> R!Entry("ROOT", TRUE, << >>, c, <<file>>, 0)]
           both == R!With(listing, file, entry)
<1>1. /\ t = [root |-> c, order |-> << >>, sizes |-> << >>, total |-> 0, entries |-> root,
               cidToEntry |-> [x \in {c} |-> R!ROOT]]
      /\ DOMAIN root = {R!ROOT}
  BY DEF R!DirectoryTree
<1>2. /\ u = [root |-> c, order |-> << >>, sizes |-> << >>, total |-> 0, entries |-> both,
               cidToEntry |-> [x \in {c} |-> file]]
      /\ R!ROOT \in DOMAIN both
  <2>1. DOMAIN both = {R!ROOT} \union {file}
    BY DEF R!With
  <2>2. QED
    BY <2>1 DEF R!FileTree
<1> HIDE DEF root, file, entry, listing, both
<1> HIDE DEF t, u
<1>3. /\ t.root = c /\ t.order = << >> /\ t.sizes = << >> /\ t.total = 0 /\ DOMAIN t.entries = {R!ROOT}
      /\ t.cidToEntry = [x \in {c} |-> R!ROOT]
      /\ t = [root |-> t.root, order |-> t.order, sizes |-> t.sizes, total |-> t.total,
              entries |-> t.entries, cidToEntry |-> t.cidToEntry]
  BY <1>1
<1>4. /\ u.root = c /\ u.order = << >> /\ u.sizes = << >> /\ u.total = 0 /\ R!ROOT \in DOMAIN u.entries
      /\ DOMAIN u.cidToEntry = {c}
      /\ u = [root |-> u.root, order |-> u.order, sizes |-> u.sizes, total |-> u.total,
              entries |-> u.entries, cidToEntry |-> u.cidToEntry]
  BY <1>2
<1>5. IsTree(t)
  BY <1>3, EmptyList, SameBlocks DEF IsTree
<1>6. IsTree(u)
  BY <1>4, EmptyList, SameBlocks DEF IsTree
<1>7. QED
  BY <1>3, <1>4, <1>5, <1>6, SameBlocks DEF t, u

\* A list with another element in front.
LEMMA Pushed ==
  ASSUME NEW x, NEW s, IsList(s)
  PROVE  IsList(<<x>> \o s) /\ ToSet(<<x>> \o s) = {x} \union ToSet(s)
<1>1. IsList(<<x>>) /\ ToSet(<<x>>) = {x}
  <2>1. <<x>> \in Seq({x})
    OBVIOUS
  <2>2. DOMAIN <<x>> = {1} /\ <<x>>[1] = x
    OBVIOUS
  <2>3. QED
    BY <2>1, <2>2, SeqIsList DEF ToSet
<1>2. QED
  BY <1>1, ListConcat, ElementsOfConcat

\* The directory under walk without the link it has come to.
TopPassed == [Head(stack) EXCEPT !.links = Tail(@)]

LEMMA PassedStack ==
  ASSUME IsList(stack), stack # << >>
  PROVE  /\ IsList(R!Passed) /\ ToSet(R!Passed) = {TopPassed} \union ToSet(Tail(stack))
         /\ IsList(Tail(stack)) /\ ToSet(stack) = {Head(stack)} \union ToSet(Tail(stack))
<1>1. IsList(Tail(stack)) /\ ToSet(stack) = ToSet(Tail(stack)) \union {Head(stack)}
  BY HeadAndTail
<1>2. R!Passed = <<TopPassed>> \o Tail(stack)
  BY DEF R!Passed, TopPassed
<1>3. QED
  BY <1>1, <1>2, Pushed

LEMMA PassedFrame ==
  ASSUME ReaderTypes, R!Walking
  PROVE  /\ HasTree /\ IsTree(got) /\ IsList(stack) /\ stack # << >>
         /\ Head(stack) \in ToSet(stack) /\ Head(stack).key \in DOMAIN got.entries
         /\ Head(stack) = [key |-> Head(stack).key, links |-> Head(stack).links, skips |-> Head(stack).skips]
         /\ TopPassed = [key |-> Head(stack).key, links |-> Tail(Head(stack).links), skips |-> Head(stack).skips]
<1>1. rpc = "walk" /\ stack # << >>
  BY DEF R!Walking
<1>2. HasTree
  BY <1>1 DEF HasTree
<1>3. IsTree(got) /\ IsList(stack) /\ \A f \in ToSet(stack) : IsFrame(f, got.entries)
  BY <1>2 DEF ReaderTypes
<1>4. Head(stack) \in ToSet(stack)
  BY <1>1, <1>3, HeadAndTail
<1>5. IsFrame(Head(stack), got.entries)
  BY <1>3, <1>4
<1> DEFINE f == Head(stack)
<1>6. f = [key |-> f.key, links |-> f.links, skips |-> f.skips]
  BY <1>5 DEF IsFrame
<1>7. TopPassed = [f EXCEPT !.links = Tail(@)]
  BY DEF TopPassed
<1> HIDE DEF f
<1>8. TopPassed = [key |-> f.key, links |-> Tail(f.links), skips |-> f.skips]
  BY <1>6, <1>7
<1>9. QED
  BY <1>1, <1>2, <1>3, <1>4, <1>5, <1>6, <1>8 DEF f, IsFrame

\* A call fails.
LEMMA FailTypes ==
  ASSUME ReaderTypes, NEW how \in {"missing", "index", "cancelled"}, R!Fail(how), UNCHANGED rcancelled
  PROVE  ReaderTypes'
<1>1. rpc' = "idle" /\ routcome' = how /\ got' = NoTree /\ stack' = << >> /\ current' = Undef
  BY SameBlocks DEF R!Fail
<1>2. ~HasTree'
  BY <1>1 DEF HasTree
<1>3. rcancelled' \in BOOLEAN
  BY DEF ReaderTypes
<1>4. QED
  BY <1>1, <1>2, <1>3 DEF ReaderTypes

LEMMA WalkTypes ==
  ASSUME ReaderTypes, R!WalkLink \/ R!SkipLink \/ R!LeaveDirectory
  PROVE  ReaderTypes'
<1>1. rpc = "walk" /\ rpc' = "walk" /\ UNCHANGED <<current, rcancelled, routcome>> /\ stack # << >>
  BY DEF R!WalkLink, R!SkipLink, R!LeaveDirectory, R!Walking
<1>2. HasTree /\ HasTree'
  BY <1>1 DEF HasTree
<1>3. IsTree(got) /\ IsList(stack) /\ \A f \in ToSet(stack) : IsFrame(f, got.entries)
  BY <1>2 DEF ReaderTypes
<1>4. /\ IsList(Tail(stack)) /\ IsList(R!Passed)
      /\ ToSet(stack) = {Head(stack)} \union ToSet(Tail(stack)) /\ ToSet(R!Passed) = {TopPassed} \union ToSet(Tail(stack))
  BY <1>1, <1>3, PassedStack
<1>5. ASSUME IsTree(got'), IsList(stack'), \A f \in ToSet(stack') : IsFrame(f, got'.entries) PROVE ReaderTypes'
  <2>1. rpc \notin {"size", "links"} => current = Undef
    BY DEF ReaderTypes
  <2>2. QED
    BY <1>1, <1>2, <1>5, <2>1 DEF ReaderTypes
<1>6. CASE R!LeaveDirectory
  <2>1. stack' = Tail(stack) /\ got' = got
    BY <1>6 DEF R!LeaveDirectory
  <2>2. QED
    BY <1>3, <1>4, <1>5, <2>1
<1>7. R!Walking => IsFrame(TopPassed, got.entries)
  BY PassedFrame DEF IsFrame
<1>8. CASE R!SkipLink
  <2>1. stack' = R!Passed /\ got' = got /\ R!Walking
    BY <1>8 DEF R!SkipLink
  <2>2. QED
    BY <1>3, <1>4, <1>5, <1>7, <2>1
<1>9. CASE R!WalkLink
  <2> DEFINE key == R!EntryKey(Head(stack).key, R!Link[1])
             frame == [key |-> key, links |-> R!LinkSeq(R!Link[2]), skips |-> TRUE]
  <2>1. /\ R!Walking /\ got' = R!Entered(got, Head(stack).key, R!Link)
        /\ stack' \in {R!Passed, <<frame>> \o R!Passed}
    BY <1>9 DEF R!WalkLink
  <2>2. IsTree(got') /\ DOMAIN got'.entries = DOMAIN got.entries \union {key}
    BY <1>3, <2>1, EnteredTree
  <2>3. \A f : IsFrame(f, got.entries) => IsFrame(f, got'.entries)
    BY <2>2 DEF IsFrame
  <2>4. IsFrame(frame, got'.entries)
    BY <2>2 DEF IsFrame
  <2>5. IsList(<<frame>> \o R!Passed) /\ ToSet(<<frame>> \o R!Passed) = {frame} \union ToSet(R!Passed)
    BY <1>4, Pushed
  <2> HIDE DEF frame, key
  <2>6. IsList(stack') /\ ToSet(stack') \subseteq {frame, TopPassed} \union ToSet(stack)
    BY <1>4, <2>1, <2>5
  <2>7. \A f \in {frame, TopPassed} \union ToSet(stack) : IsFrame(f, got'.entries)
    BY <1>3, <1>7, <2>1, <2>3, <2>4
  <2>8. QED
    BY <1>5, <2>2, <2>6, <2>7
<1>10. QED
  BY <1>6, <1>8, <1>9

LEMMA OpenTypes ==
  ASSUME ReaderTypes, R!OpenRoot
  PROVE  ReaderTypes'
<1> DEFINE frame == [key |-> R!ROOT, links |-> R!LinkSeq(car.root), skips |-> FALSE]
<1>1. /\ rpc = "root" /\ rpc' = "walk" /\ UNCHANGED <<current, rcancelled, routcome>>
      /\ \/ got' = R!DirectoryTree(car.root) /\ stack' = <<frame>>
         \/ got' = R!FileTree(car.root) /\ stack' = << >>
  BY DEF R!OpenRoot
<1>2. routcome = "none" /\ current = Undef /\ rcancelled \in BOOLEAN
  BY <1>1 DEF ReaderTypes
<1>3. HasTree'
  BY <1>1 DEF HasTree
<1>4. IsTree(got')
  BY <1>1, FirstTrees
<1>5. IsFrame(frame, got'.entries)
  <2>1. ROOT \in DOMAIN got'.entries
    BY <1>4 DEF IsTree
  <2>2. QED
    BY <2>1, SameBlocks DEF IsFrame
<1> HIDE DEF frame
<1>6. IsList(stack') /\ ToSet(stack') \subseteq {frame}
  <2>1. IsList(<<frame>>) /\ ToSet(<<frame>>) = {frame}
    <3>1. <<frame>> \in Seq({frame})
      OBVIOUS
    <3>2. DOMAIN <<frame>> = {1} /\ <<frame>>[1] = frame
      OBVIOUS
    <3>3. QED
      BY <3>1, <3>2, SeqIsList DEF ToSet
  <2>2. IsList(<< >>) /\ ToSet(<< >>) = {}
    BY EmptyList DEF ToSet
  <2>3. QED
    BY <1>1, <2>1, <2>2
<1>7. QED
  BY <1>1, <1>2, <1>3, <1>4, <1>5, <1>6 DEF ReaderTypes

LEMMA BlockTypes ==
  ASSUME ReaderTypes, R!StartBlocks \/ R!TakeCid \/ R!TakeSize \/ R!TakeLinks \/ R!FinishRead
  PROVE  ReaderTypes'
<1>1. /\ rpc # "idle" /\ HasTree /\ stack = << >> /\ UNCHANGED <<stack, rcancelled>>
      /\ rpc \in {"walk", "blocks", "size", "links"}
  BY DEF R!StartBlocks, R!TakeCid, R!TakeSize, R!TakeLinks, R!FinishRead, ReaderTypes, HasTree
<1>2. /\ IsTree(got) /\ IsList(stack) /\ ToSet(stack) = {} /\ routcome = "none" /\ rcancelled' \in BOOLEAN
      /\ (rpc \notin {"size", "links"} => current = Undef)
  BY <1>1 DEF ReaderTypes, ToSet
<1>3. ASSUME got' = got, HasTree', rpc' # "idle" => routcome' = "none",
             rpc' \in {"idle", "blocks", "size", "links"}, routcome' \in {"none", "read"},
             rpc' \notin {"size", "links"} => current' = Undef
      PROVE  ReaderTypes'
  BY <1>1, <1>2, <1>3 DEF ReaderTypes
<1>4. CASE R!StartBlocks
  <2>1. got' = got /\ rpc = "walk" /\ rpc' = "blocks" /\ current' = current /\ routcome' = routcome
    BY <1>4 DEF R!StartBlocks
  <2>2. QED
    BY <1>2, <1>3, <2>1 DEF HasTree
<1>5. CASE R!TakeCid
  <2>1. /\ got' = got /\ rpc = "blocks" /\ routcome' = routcome
        /\ \/ rpc' = rpc /\ current' = current
           \/ rpc' = "size"
    BY <1>5 DEF R!TakeCid
  <2>2. QED
    BY <1>2, <1>3, <2>1 DEF HasTree
<1>6. CASE R!TakeSize
  <2>1. got' = R!ListedBlock(got, current) /\ rpc' = "links" /\ current' = current /\ routcome' = routcome
    BY <1>6 DEF R!TakeSize
  <2>2. IsTree(got')
    BY <1>2, <2>1, ListedTree
  <2>3. QED
    BY <1>1, <1>2, <2>1, <2>2 DEF ReaderTypes, HasTree
<1>7. CASE R!TakeLinks
  <2>1. got' = got /\ rpc' = "blocks" /\ current' = Undef /\ routcome' = routcome
    BY <1>7, SameBlocks DEF R!TakeLinks
  <2>2. QED
    BY <1>2, <1>3, <2>1 DEF HasTree
<1>8. CASE R!FinishRead
  <2>1. got' = got /\ rpc = "blocks" /\ rpc' = "idle" /\ current' = current /\ routcome' = "read"
    BY <1>8 DEF R!FinishRead
  <2>2. QED
    BY <1>2, <1>3, <2>1 DEF HasTree
<1>9. QED
  BY <1>4, <1>5, <1>6, <1>7, <1>8

LEMMA ReaderTypesStep ==
  ASSUME ReaderTypes, RTNext
  PROVE  ReaderTypes'
<1>1. ASSUME UNCHANGED reader PROVE ReaderTypes'
  BY <1>1 DEF ReaderTypes, HasTree, reader
<1>2. CASE Read
  <2>1. PICK file \in Files : R!ReadCAR(file)
    BY <1>2 DEF Read
  <2>2. /\ rpc = "idle" /\ routcome = "none" /\ rpc' = "index" /\ routcome' = "none" /\ rcancelled' = FALSE
        /\ UNCHANGED <<stack, got, current>>
    BY <1>2, <2>1 DEF Read, Unused, R!Reading, R!ReadCAR
  <2>3. ~HasTree /\ ~HasTree'
    BY <2>2 DEF HasTree
  <2>4. got = NoTree /\ stack = << >> /\ current = Undef
    BY <2>2, <2>3 DEF ReaderTypes
  <2>5. QED
    BY <2>2, <2>3, <2>4 DEF ReaderTypes
<1>3. CASE R!IndexAll
  <2>1. rpc = "index" /\ rpc' = "root" /\ UNCHANGED <<stack, got, current, rcancelled, routcome>>
    BY <1>3 DEF R!IndexAll
  <2>2. QED
    BY <2>1 DEF ReaderTypes, HasTree
<1>4. CASE R!Cancel
  <2>1. rcancelled' = TRUE /\ UNCHANGED <<rpc, stack, got, current, routcome>>
    BY <1>4 DEF R!Cancel
  <2>2. QED
    BY <2>1 DEF ReaderTypes, HasTree
<1>5. CASE R!IndexFails \/ R!RootFails \/ R!WalkFails \/ R!Stop
  <2>1. \E how \in {"missing", "index", "cancelled"} : R!Fail(how) /\ UNCHANGED rcancelled
    BY <1>5 DEF R!IndexFails, R!RootFails, R!WalkFails, R!Stop
  <2>2. QED
    BY <2>1, FailTypes
<1>6. QED
  BY <1>1, <1>2, <1>3, <1>4, <1>5, WalkTypes, OpenTypes, BlockTypes
     DEF RTNext, ReadStep, R!Advance, StreamCAR, Load, LoadStep

LEMMA ReaderTypesInvariance == RTSpec => []ReaderTypes
<1>1. RTInit => ReaderTypes
  <2>1. SUFFICES ASSUME RTInit PROVE ReaderTypes
    OBVIOUS
  <2>2. rpc = "idle" /\ stack = << >> /\ got = NoTree /\ current = Undef /\ rcancelled = FALSE /\ routcome = "none"
    BY <2>1, SameBlocks DEF RTInit, R!Init
  <2>3. ~HasTree
    BY <2>2 DEF HasTree
  <2>4. QED
    BY <2>2, <2>3 DEF ReaderTypes
<1>2. ReaderTypes /\ [RTNext]_allVars => ReaderTypes'
  <2>1. UNCHANGED allVars /\ ReaderTypes => ReaderTypes'
    BY DEF ReaderTypes, HasTree, allVars, reader
  <2>2. QED
    BY <2>1, ReaderTypesStep
<1>3. QED
  BY <1>1, <1>2, PTL DEF RTSpec

\* The reader's and the loader's variables have their types at every moment
\* of every call: the lists of blocks and sizes stay parallel, and what is
\* walked has its entry (car_reconstructor.go:560-621, 853-920).
THEOREM ReaderTypesCorrect == RTSpec => []RTTypeOK
<1>1. ReaderTypes /\ RTInv => RTTypeOK
  <2>1. SUFFICES ASSUME ReaderTypes, RTInv PROVE RTTypeOK
    OBVIOUS
  <2>2. got # NoTree => Len(got.order) = Len(got.sizes) /\ ROOT \in DOMAIN got.entries
    BY <2>1 DEF ReaderTypes, IsTree
  <2>3. \A i \in DOMAIN stack : stack[i].key \in DOMAIN got.entries
    <3>1. CASE HasTree
      BY <2>1, <3>1 DEF ReaderTypes, IsFrame, ToSet
    <3>2. CASE ~HasTree
      BY <2>1, <3>2 DEF ReaderTypes
    <3>3. QED
      BY <3>1, <3>2
  <2>4. /\ lpc \in {"idle", "header", "sections"} /\ loutcome \in {"none", "loaded", "failed", "store failed"}
        /\ at \in 0..Len(stream.sections) /\ Len(batch) <= BatchLimit
    BY <2>1 DEF RTInv, LoadInv
  <2>5. QED
    BY <2>1, <2>2, <2>3, <2>4 DEF ReaderTypes, RTTypeOK
<1>2. QED
  BY <1>1, ReaderTypesInvariance, LoaderInvariance, PTL

-----------------------------------------------------------------------------
(* The walk. *)

\* The CIDs that have an entry, and those that links not yet walked lead to.
Known == DOMAIN got.cidToEntry
Pending(frames) == UNION {Targets(f.links) : f \in ToSet(frames)}

\* The links under walk are those of directories that have an entry.
FramesOf(frames, known) ==
  \A f \in ToSet(frames) :
    /\ IsList(f.links)
    /\ \E d \in known : IsDirectory(d) /\ Targets(f.links) \subseteq Links(d)

\* The directories that have an entry are of the CAR, and their links lead to
\* such CIDs, or will be walked.
Explored ==
  /\ summary.root \in Known
  /\ Known \subseteq car.blocks
  /\ \A c \in Known : IsDirectory(c) => Links(c) \subseteq Known \union Pending(stack)
  /\ FramesOf(stack, Known)

EntriesInv ==
  /\ NotReserved(source.tree) /\ HasTree => Explored
  /\ ReadsIfEntriesPresent

\* What does not change while a CAR is read.
LEMMA BuilderRests ==
  ASSUME UNCHANGED vars
  PROVE  /\ UNCHANGED <<summary, source, outcome, written, bytes>>
         /\ DAG' = DAG /\ EntryBlocks' = EntryBlocks
         /\ car' = car => (Whole' <=> Whole)
<1>1. UNCHANGED <<summary, source, outcome, written, bytes>>
  BY DEF vars, published, control, writing
<1>2. DAG' = DAG
  BY <1>1 DEF DAG
<1>3. QED
  BY <1>1, <1>2 DEF EntryBlocks, Whole

\* What is known of the CAR that is read, and of the blocks it is from.
LEMMA CarFacts ==
  ASSUME CarInvs, rpc # "idle" \/ routcome # "none"
  PROVE  /\ Built /\ car.root = summary.root
         /\ car.blocks \subseteq ToSet(summary.order)
         /\ Whole => car.blocks = ToSet(summary.order)
         /\ NotReserved(source.tree) => Closed(summary, DAG) /\ \A c \in Blocks(summary) : Ordered(c)
<1>1. Built /\ car.root = summary.root /\ car.blocks \subseteq ToSet(written)
  BY DEF CarInvs, CarInv
<1>2. ToSet(written) \subseteq ToSet(summary.order)
  BY <1>1 DEF CarInvs, BuilderInv
<1>3. outcome = "written" => written = summary.order
  <2>1. SUFFICES ASSUME outcome = "written" PROVE written = summary.order
    OBVIOUS
  <2>2. IsList(written) /\ Filled /\ Len(written) = Len(summary.order) /\ IsList(summary.order)
    BY <1>1, <2>1 DEF CarInvs, TypeInv, WriteInv, AlignedInv, Aligned
  <2>3. QED
    BY <2>2, ListEqual DEF Filled
<1>4. NotReserved(source.tree) => Closed(summary, DAG) /\ \A c \in Blocks(summary) : Ordered(c)
  BY <1>1, PublishedIsClosed, PublishedOrdered DEF CarInvs
<1>5. QED
  BY <1>1, <1>2, <1>3, <1>4 DEF Whole

\* A set with the root and all that its blocks link to has the DAG.
LEMMA DAGIsLeast ==
  ASSUME CarInvs, Built, NotReserved(source.tree), NEW X, summary.root \in X, \A x \in X : Links(x) \subseteq X
  PROVE  DAG \subseteq X
<1> DEFINE n == 2 + Max({0} \union {Len(it.path) : it \in ToSet(source.tree)})
<1>1. source.tree \in Trees
  BY DEF CarInvs, PublishedInv
<1>2. n \in Nat
  BY <1>1, DeepEnough
<1>3. DAG = Under(summary.root, n)
  BY DEF DAG
<1> HIDE DEF n
<1>4. QED
  BY <1>2, <1>3, UnderIsLeast

\* What a block that is not a directory links to is no directory either.
LEMMA LeavesBelow ==
  ASSUME CarInvs, Built, NotReserved(source.tree), NEW c \in Blocks(summary), ~IsDirectory(c), NEW x \in Links(c)
  PROVE  ~IsDirectory(x)
<1> DEFINE V == Visible(source.tree)
<1>1. source.tree \in Trees /\ Published(summary, V)
  BY DEF CarInvs, PublishedInv
<1>2. Tree(V) /\ Contents(V)
  BY <1>1, VisibleTree, VisibleContents
<1> HIDE DEF V
<1>3. c \in FileBlocks(V)
  <2>1. ~IsDirectory(c) => c # EmptyDir /\ \A links : c # DirCid(links)
    BY DirectoryBlocks DEF EmptyDir
  <2>2. CASE summary.root = summary.entries[ROOT].cid /\ Finished(V, summary.entries, summary.order, summary.cidToEntry)
    <3>1. \/ c \in FileBlocks(V)
          \/ c = summary.root
          \/ \E p, K : K \subseteq Inside(V, p) \intersect WithFiles(V) /\ c = DirCid(LinksBy(CidsIn(V, summary.entries), K))
      BY <1>2, <2>2, ListedBlocks DEF Blocks
    <3>2. \E links : summary.root = DirCid(links)
      BY <2>2 DEF Finished
    <3>3. QED
      BY <2>1, <3>1, <3>2
  <2>3. CASE \E it \in V : /\ V = {it} /\ ~it.isDir /\ ToSet(summary.order) = ToSet(TraversalOrder(it.content))
    <3>1. c \in ToSet(summary.order)
      BY <2>1 DEF Blocks
    <3>2. QED
      BY <2>3, <3>1 DEF FileBlocks
  <2>4. QED
    BY <1>1, <2>2, <2>3 DEF Published
<1>4. PICK it \in V : ~it.isDir /\ c \in ToSet(TraversalOrder(it.content))
  BY <1>3 DEF FileBlocks
<1>5. IsList(it.content)
  BY <1>2 DEF Contents
<1>6. c \in {FileCid(it.content)} \union Links(FileCid(it.content)) /\ \A b \in Links(FileCid(it.content)) : Links(b) = {}
  BY <1>4, <1>5, FileIsItsLinks
<1>7. c = FileCid(it.content)
  BY <1>6
<1>8. CASE Len(it.content) = 1
  BY <1>7, <1>8, LinksOfBlocks DEF FileCid
<1>9. CASE Len(it.content) # 1
  <2>1. x \in {Leaf(it.content[i]) : i \in DOMAIN it.content}
    BY <1>7, <1>9, LinksOfBlocks
  <2>2. QED
    BY <2>1, DirectoryBlocks
<1>10. QED
  BY <1>8, <1>9

\* A walk that is over has seen the blocks of all entries.
LEMMA EntriesSeen ==
  ASSUME CarInvs, NotReserved(source.tree), Explored, stack = << >>, rpc # "idle" \/ routcome # "none"
  PROVE  EntryBlocks \subseteq car.blocks
<1> DEFINE X == {c \in Blocks(summary) : IsDirectory(c) => c \in Known}
<1>1. /\ Built /\ Closed(summary, DAG) /\ car.blocks \subseteq Blocks(summary)
  BY CarFacts DEF Blocks
<1>2. Pending(stack) = {}
  BY DEF Pending, ToSet
<1>3. /\ Known \subseteq car.blocks /\ summary.root \in Known
      /\ \A c \in Known : IsDirectory(c) => Links(c) \subseteq Known
  BY <1>2 DEF Explored
<1>4. summary.root \in X
  BY <1>1, <1>3
<1>5. ASSUME NEW c \in X PROVE Links(c) \subseteq X
  <2>1. Links(c) \subseteq Blocks(summary)
    BY <1>1 DEF Closed
  <2>2. CASE IsDirectory(c)
    BY <1>3, <2>1, <2>2
  <2>3. CASE ~IsDirectory(c)
    BY <1>1, <2>1, <2>3, LeavesBelow
  <2>4. QED
    BY <2>2, <2>3
<1> HIDE DEF X
<1>6. DAG \subseteq X
  BY <1>1, <1>4, <1>5, DAGIsLeast
<1>7. ASSUME NEW c \in DAG, R!AnalyzeNode(c).isDir PROVE Links(c) \subseteq car.blocks
  <2>1. c \in Known
    BY <1>6, <1>7 DEF X, IsDirectory
  <2>2. QED
    BY <1>3, <1>7, <2>1 DEF IsDirectory
<1>8. QED
  BY <1>3, <1>7 DEF EntryBlocks

\* A block is missing that an entry is made of.
LEMMA EntryMissing ==
  ASSUME CarInvs, rpc # "idle", NotReserved(source.tree), NEW x, x \notin car.blocks,
         x = summary.root \/ \E d \in car.blocks : IsDirectory(d) /\ x \in Links(d)
  PROVE  ~(EntryBlocks \subseteq car.blocks) /\ (Whole => EmptyDir \in Links(summary.root))
<1>1. /\ Built /\ car.blocks \subseteq ToSet(summary.order) /\ Closed(summary, DAG)
      /\ Whole => car.blocks = ToSet(summary.order)
  BY CarFacts
<1>2. CASE x = summary.root
  BY <1>1, <1>2 DEF EntryBlocks, Closed
<1>3. ASSUME NEW d \in car.blocks, IsDirectory(d), x \in Links(d)
      PROVE  ~(EntryBlocks \subseteq car.blocks) /\ (Whole => EmptyDir \in Links(summary.root))
  <2>1. d \in DAG /\ d \in Blocks(summary)
    BY <1>1 DEF Closed, Blocks
  <2>2. x \in EntryBlocks
    BY <1>3, <2>1 DEF EntryBlocks, IsDirectory
  <2>3. x \in Blocks(summary) /\ (d # summary.root => x \in ToSet(summary.order))
    BY <1>1, <1>3, <2>1 DEF Closed
  <2>4. QED
    BY <1>1, <1>3, <2>2, <2>3 DEF Blocks
<1>4. QED
  BY <1>2, <1>3

\* The first link of a list is walked.
LEMMA TargetsOfTail ==
  ASSUME NEW s, IsList(s), s # << >>
  PROVE  IsList(Tail(s)) /\ Targets(s) = {Head(s)[2]} \union Targets(Tail(s)) /\ Head(s) \in ToSet(s)
         /\ ToSet(Tail(s)) \subseteq ToSet(s)
<1>1. IsList(Tail(s)) /\ ToSet(s) = ToSet(Tail(s)) \union {Head(s)}
  BY HeadAndTail
<1>2. QED
  BY <1>1 DEF Targets

LEMMA PassedPending ==
  ASSUME ReaderTypes, R!Walking, NEW known, FramesOf(stack, known)
  PROVE  /\ FramesOf(R!Passed, known)
         /\ Pending(stack) \subseteq {R!Link[2]} \union Pending(R!Passed)
         /\ \E d \in known : IsDirectory(d) /\ R!Link[2] \in Links(d)
<1> DEFINE f == Head(stack)
           g == TopPassed
<1>1. /\ IsList(stack) /\ stack # << >> /\ f \in ToSet(stack)
      /\ g = [key |-> f.key, links |-> Tail(f.links), skips |-> f.skips]
  BY PassedFrame
<1>2. /\ ToSet(R!Passed) = {g} \union ToSet(Tail(stack)) /\ ToSet(stack) = {f} \union ToSet(Tail(stack))
  BY <1>1, PassedStack
<1>3. f.links # << >> /\ R!Link = Head(f.links)
  BY DEF R!Walking, R!Link
<1> HIDE DEF f, g
<1>4. IsList(f.links) /\ \E d \in known : IsDirectory(d) /\ Targets(f.links) \subseteq Links(d)
  BY <1>1 DEF FramesOf
<1>5. /\ IsList(Tail(f.links)) /\ Targets(f.links) = {R!Link[2]} \union Targets(Tail(f.links))
  BY <1>3, <1>4, TargetsOfTail
<1>6. g.links = Tail(f.links)
  BY <1>1
<1>7. IsList(g.links) /\ \E d \in known : IsDirectory(d) /\ Targets(g.links) \subseteq Links(d)
  BY <1>4, <1>5, <1>6
<1>8. FramesOf(R!Passed, known)
  BY <1>2, <1>7 DEF FramesOf
<1>9. Pending(stack) \subseteq {R!Link[2]} \union Pending(R!Passed)
  <2>1. ASSUME NEW h \in ToSet(stack) PROVE Targets(h.links) \subseteq {R!Link[2]} \union Pending(R!Passed)
    <3>1. CASE h = f
      BY <1>2, <1>5, <1>6, <3>1 DEF Pending
    <3>2. CASE h # f
      BY <1>2, <3>2 DEF Pending
    <3>3. QED
      BY <3>1, <3>2
  <2>2. QED
    BY <2>1 DEF Pending
<1>10. QED
  BY <1>4, <1>5, <1>8, <1>9

LEMMA ExploredStep ==
  ASSUME CarInvs, ReaderTypes, NotReserved(source.tree), Explored, UNCHANGED vars,
         R!WalkLink \/ R!SkipLink \/ R!LeaveDirectory
  PROVE  Explored'
<1>1. /\ summary.root \in Known /\ Known \subseteq car.blocks /\ FramesOf(stack, Known)
      /\ \A c \in Known : IsDirectory(c) => Links(c) \subseteq Known \union Pending(stack)
  BY DEF Explored
<1>2. summary' = summary /\ rpc = "walk" /\ car' = car
  BY BuilderRests DEF R!WalkLink, R!SkipLink, R!LeaveDirectory, R!Walking
<1>3. IsTree(got) /\ IsList(stack)
  BY <1>2 DEF ReaderTypes, HasTree
<1>4. ASSUME NEW known, known = Known', NEW x, known = Known \union {x}, x \in car.blocks, FramesOf(stack', known),
             Pending(stack) \subseteq known \union Pending(stack'),
             IsDirectory(x) => x \in Known \/ Links(x) \subseteq Pending(stack')
      PROVE  Explored'
  <2>1. \A c \in known : IsDirectory(c) => Links(c) \subseteq known \union Pending(stack')
    BY <1>1, <1>4
  <2>2. QED
    BY <1>1, <1>2, <1>4, <2>1 DEF Explored
<1>5. CASE R!LeaveDirectory
  <2>1. stack' = Tail(stack) /\ got' = got /\ stack # << >> /\ Head(stack).links = << >>
    BY <1>5 DEF R!LeaveDirectory
  <2>2. ToSet(stack) = ToSet(stack') \union {Head(stack)}
    BY <1>3, <2>1, HeadAndTail
  <2>3. FramesOf(stack', Known)
    BY <1>1, <2>2 DEF FramesOf
  <2>4. Pending(stack) \subseteq Pending(stack')
    <3>1. Targets(Head(stack).links) = {}
      BY <2>1 DEF Targets, ToSet
    <3>2. QED
      BY <2>2, <3>1 DEF Pending
  <2>5. Known' = Known \union {summary.root}
    BY <1>1, <2>1 DEF Known
  <2>6. QED
    BY <1>1, <1>4, <2>3, <2>4, <2>5
<1>6. R!Walking => /\ FramesOf(R!Passed, Known)
                   /\ Pending(stack) \subseteq {R!Link[2]} \union Pending(R!Passed)
  BY <1>1, PassedPending
<1>7. CASE R!SkipLink
  <2>1. stack' = R!Passed /\ got' = got /\ R!Walking /\ R!Link[2] \in Known
    BY <1>7 DEF R!SkipLink, R!Skipped, Known
  <2>2. Known' = Known \union {summary.root}
    BY <1>1, <2>1 DEF Known
  <2>3. QED
    BY <1>1, <1>4, <1>6, <2>1, <2>2
<1>8. CASE R!WalkLink
  <2> DEFINE x == R!Link[2]
             frame == [key |-> R!EntryKey(Head(stack).key, R!Link[1]), links |-> R!LinkSeq(x), skips |-> TRUE]
  <2>1. /\ R!Walking /\ got' = R!Entered(got, Head(stack).key, R!Link) /\ x \in car.blocks
        /\ IF IsDirectory(x) THEN stack' = <<frame>> \o R!Passed ELSE stack' = R!Passed
    BY <1>8 DEF R!WalkLink, R!Has, IsDirectory
  <2>2. Known' = Known \union {x}
    <3>1. \E key : got'.cidToEntry = R!With(got.cidToEntry, x, key)
      BY <1>3, <2>1, EnteredTree
    <3>2. QED
      BY <3>1 DEF Known, R!With
  <2> HIDE DEF frame
  <2>3. CASE ~IsDirectory(x)
    <3>1. stack' = R!Passed
      BY <2>1, <2>3
    <3>2. FramesOf(stack', Known')
      BY <1>6, <2>1, <2>2, <3>1 DEF FramesOf
    <3>3. QED
      BY <1>4, <1>6, <2>1, <2>2, <2>3, <3>1, <3>2
  <2>4. CASE IsDirectory(x)
    <3>1. stack' = <<frame>> \o R!Passed
      BY <2>1, <2>4
    <3>2. IsList(R!Passed)
      BY <1>3, <2>1, PassedStack DEF R!Walking
    <3>3. ToSet(stack') = {frame} \union ToSet(R!Passed)
      BY <3>1, <3>2, Pushed
    <3>4. Ordered(x)
      <4>1. x \in Blocks(summary)
        BY <1>2, <2>1, CarFacts DEF Blocks
      <4>2. QED
        BY <1>2, <4>1, CarFacts
    <3>5. frame.links = R!LinkSeq(x)
      BY DEF frame
    <3>6. IsList(frame.links) /\ Targets(frame.links) = Links(x)
      BY <3>4, <3>5 DEF Ordered
    <3>7. FramesOf(stack', Known')
      BY <1>6, <2>1, <2>2, <2>4, <3>3, <3>6 DEF FramesOf
    <3>8. Pending(stack') = Links(x) \union Pending(R!Passed)
      BY <3>3, <3>6 DEF Pending
    <3>9. QED
      BY <1>4, <1>6, <2>1, <2>2, <3>7, <3>8
  <2>5. QED
    BY <2>3, <2>4
<1>9. QED
  BY <1>5, <1>7, <1>8

\* The walk begins with the root and its links.
LEMMA ExploredFirst ==
  ASSUME CarInvs, ReaderTypes, NotReserved(source.tree), UNCHANGED vars, R!OpenRoot
  PROVE  Explored'
<1> DEFINE c == summary.root
           frame == [key |-> R!ROOT, links |-> R!LinkSeq(c), skips |-> FALSE]
<1>1. /\ rpc = "root" /\ car' = car /\ car.root \in car.blocks
      /\ IF IsDirectory(car.root)
         THEN /\ got' = R!DirectoryTree(car.root)
              /\ stack' = <<[key |-> R!ROOT, links |-> R!LinkSeq(car.root), skips |-> FALSE]>>
         ELSE got' = R!FileTree(car.root) /\ stack' = << >>
  BY DEF R!OpenRoot, R!Has, IsDirectory
<1>2. /\ Built /\ car.root = c /\ summary' = summary /\ Closed(summary, DAG) /\ \A x \in Blocks(summary) : Ordered(x)
  BY <1>1, CarFacts, BuilderRests
<1>3. Known' = {c}
  <2>1. DOMAIN R!DirectoryTree(c).cidToEntry = {c} /\ DOMAIN R!FileTree(c).cidToEntry = {c}
    BY FirstTrees
  <2>2. got' \in {R!DirectoryTree(c), R!FileTree(c)}
    BY <1>1, <1>2
  <2>3. QED
    BY <2>1, <2>2 DEF Known
<1>4. c \in car.blocks /\ Ordered(c)
  BY <1>1, <1>2 DEF Closed, Blocks
<1>5. CASE IsDirectory(c)
  <2>1. stack' = <<frame>>
    BY <1>1, <1>2, <1>5
  <2>2. frame.links = R!LinkSeq(c)
    OBVIOUS
  <2> HIDE DEF frame
  <2>3. ToSet(stack') = {frame}
    <3>1. DOMAIN <<frame>> = {1} /\ <<frame>>[1] = frame
      OBVIOUS
    <3>2. QED
      BY <2>1, <3>1 DEF ToSet
  <2>4. IsList(frame.links) /\ Targets(frame.links) = Links(c)
    BY <1>4, <2>2 DEF Ordered
  <2>5. FramesOf(stack', {c}) /\ Pending(stack') = Links(c)
    BY <1>5, <2>3, <2>4 DEF FramesOf, Pending
  <2> HIDE DEF c
  <2>6. c = summary.root
    BY DEF c
  <2>7. QED
    BY <1>1, <1>2, <1>3, <1>4, <2>5, <2>6 DEF Explored
<1>6. CASE ~IsDirectory(c)
  <2>1. ToSet(stack') = {}
    BY <1>1, <1>2, <1>6 DEF ToSet
  <2>2. FramesOf(stack', {c})
    BY <2>1 DEF FramesOf
  <2>3. QED
    BY <1>1, <1>2, <1>3, <1>4, <1>6, <2>2 DEF Explored
<1>7. QED
  BY <1>5, <1>6

LEMMA EntriesStep ==
  ASSUME CarInvs, ReaderTypes, EntriesInv, RTNext
  PROVE  EntriesInv'
<1>1. CASE StreamCAR
  <2>1. rpc' = "idle" /\ routcome' = "none"
    BY <1>1 DEF StreamCAR, Unused, R!Reading, reader
  <2>2. ~HasTree' /\ ~ReadBack'
    BY <2>1 DEF HasTree, ReadBack
  <2>3. QED
    BY <2>1, <2>2 DEF EntriesInv, ReadsIfEntriesPresent
<1>2. CASE Read
  <2>1. PICK file \in Files : R!ReadCAR(file)
    BY <1>2 DEF Read
  <2>2. rpc' = "index" /\ routcome' = "none"
    BY <2>1 DEF R!ReadCAR
  <2>3. ~HasTree' /\ ~ReadBack'
    BY <2>2 DEF HasTree, ReadBack
  <2>4. QED
    BY <2>2, <2>3 DEF EntriesInv, ReadsIfEntriesPresent
<1>3. ASSUME UNCHANGED <<vars, car>> PROVE /\ source' = source /\ summary' = summary
                                           /\ EntryBlocks' = EntryBlocks /\ (Whole' <=> Whole)
  BY <1>3, BuilderRests
<1>4. CASE Load \/ LoadStep
  <2>1. UNCHANGED <<vars, reader>>
    BY <1>4 DEF Load, LoadStep
  <2>2. UNCHANGED <<car, rpc, stack, got, routcome>>
    BY <2>1 DEF reader
  <2>3. QED
    BY <1>3, <2>1, <2>2 DEF EntriesInv, ReadsIfEntriesPresent, Explored, HasTree, ReadBack, Known
<1>5. CASE ReadStep
  <2>1. UNCHANGED vars /\ car' = car /\ rpc # "idle" /\ source' = source
    BY <1>3, <1>5, CarStays DEF ReadStep
  <2>2. routcome = "none"
    BY <2>1 DEF ReaderTypes
  <2>3. ASSUME routcome' \notin {"read", "missing"}, NotReserved(source.tree) /\ HasTree' => Explored' PROVE EntriesInv'
    BY <2>1, <2>3 DEF EntriesInv, ReadsIfEntriesPresent, ReadBack
  <2>4. CASE R!WalkLink \/ R!SkipLink \/ R!LeaveDirectory
    <3>1. HasTree /\ routcome' = routcome
      BY <2>4 DEF HasTree, R!WalkLink, R!SkipLink, R!LeaveDirectory, R!Walking
    <3>2. QED
      BY <2>1, <2>2, <2>3, <2>4, <3>1, ExploredStep DEF EntriesInv
  <2>5. CASE R!OpenRoot
    <3>1. routcome' = routcome
      BY <2>5 DEF R!OpenRoot
    <3>2. QED
      BY <2>1, <2>2, <2>3, <2>5, <3>1, ExploredFirst
  <2>6. ASSUME UNCHANGED <<summary, car, stack>>, Known' = Known, Explored PROVE Explored'
    BY <2>6 DEF Explored
  <2>7. CASE R!StartBlocks \/ R!TakeCid \/ R!TakeSize \/ R!TakeLinks \/ R!Cancel
    <3>1. UNCHANGED <<stack, routcome>>
      BY <2>7 DEF R!StartBlocks, R!TakeCid, R!TakeSize, R!TakeLinks, R!Cancel
    <3>2. HasTree' => HasTree
      BY <2>2, <2>7 DEF HasTree, R!StartBlocks, R!TakeCid, R!TakeSize, R!TakeLinks, R!Cancel
    <3>3. HasTree => Known' = Known
      <4>1. CASE R!TakeSize
        <5>1. got' = R!ListedBlock(got, current)
          BY <4>1 DEF R!TakeSize
        <5>2. HasTree => got'.cidToEntry = got.cidToEntry
          BY <5>1, ListedTree DEF ReaderTypes
        <5>3. QED
          BY <5>2 DEF Known
      <4>2. CASE got' = got
        BY <4>2 DEF Known
      <4>3. QED
        BY <2>7, <4>1, <4>2 DEF R!StartBlocks, R!TakeCid, R!TakeLinks, R!Cancel
    <3>4. QED
      BY <1>3, <2>1, <2>2, <2>3, <2>6, <3>1, <3>2, <3>3 DEF EntriesInv
  <2>8. CASE R!FinishRead
    <3>1. rpc = "blocks" /\ UNCHANGED <<stack, got>> /\ routcome' = "read"
      BY <2>8 DEF R!FinishRead
    <3>2. HasTree /\ stack = << >>
      BY <3>1 DEF HasTree, ReaderTypes
    <3>3. NotReserved(source.tree) => Explored' /\ EntryBlocks \subseteq car.blocks
      BY <1>3, <2>1, <2>6, <3>1, <3>2, EntriesSeen DEF EntriesInv, Known
    <3>4. QED
      BY <1>3, <2>1, <3>1, <3>3 DEF EntriesInv, ReadsIfEntriesPresent
  <2>9. CASE R!IndexAll \/ R!IndexFails \/ R!Stop
    <3>1. rpc' \in {"root", "idle"} /\ routcome' \in {"none", "index", "cancelled"}
      BY <2>2, <2>9 DEF R!IndexAll, R!IndexFails, R!Stop, R!Fail
    <3>2. ~HasTree'
      BY <3>1 DEF HasTree
    <3>3. QED
      BY <2>3, <3>1, <3>2
  <2>10. CASE R!RootFails \/ R!WalkFails
    <3>1. rpc' = "idle" /\ routcome' = "missing"
      BY <2>10 DEF R!RootFails, R!WalkFails, R!Fail
    <3>2. ~HasTree' /\ ~ReadBack'
      BY <3>1 DEF HasTree, ReadBack
    <3>3. NotReserved(source.tree) => ~(EntryBlocks \subseteq car.blocks) /\ (Whole => EmptyDir \in Links(summary.root))
      <4>1. SUFFICES ASSUME NotReserved(source.tree)
                     PROVE  ~(EntryBlocks \subseteq car.blocks) /\ (Whole => EmptyDir \in Links(summary.root))
        OBVIOUS
      <4>2. CASE R!RootFails
        <5>1. car.root \notin car.blocks
          BY <4>2 DEF R!RootFails, R!Has
        <5>2. QED
          BY <2>1, <4>1, <5>1, CarFacts, EntryMissing
      <4>3. CASE R!WalkFails
        <5>1. R!Walking /\ R!Link[2] \notin car.blocks
          BY <4>3 DEF R!WalkFails, R!Has
        <5>2. Explored
          BY <4>1, <5>1 DEF R!Walking, HasTree, EntriesInv
        <5>3. \E d \in Known : IsDirectory(d) /\ R!Link[2] \in Links(d)
          BY <5>1, <5>2, PassedPending DEF Explored
        <5>4. \E d \in car.blocks : IsDirectory(d) /\ R!Link[2] \in Links(d)
          BY <5>2, <5>3 DEF Explored
        <5>5. QED
          BY <2>1, <4>1, <5>1, <5>4, EntryMissing
      <4>4. QED
        BY <2>10, <4>2, <4>3
    <3>4. QED
      BY <1>3, <2>1, <3>1, <3>2, <3>3 DEF EntriesInv, ReadsIfEntriesPresent
  <2>11. QED
    BY <1>5, <2>4, <2>5, <2>7, <2>8, <2>9, <2>10 DEF ReadStep, R!Advance
<1>6. QED
  BY <1>1, <1>2, <1>4, <1>5 DEF RTNext

LEMMA EntriesInvariance == RTSpec => []EntriesInv
<1>1. RTInit => EntriesInv
  <2>1. SUFFICES ASSUME RTInit PROVE EntriesInv
    OBVIOUS
  <2>2. rpc = "idle" /\ routcome = "none"
    BY <2>1 DEF RTInit, R!Init
  <2>3. ~HasTree /\ ~ReadBack
    BY <2>2 DEF HasTree, ReadBack
  <2>4. QED
    BY <2>2, <2>3 DEF EntriesInv, ReadsIfEntriesPresent
<1>2. CarInvs /\ ReaderTypes /\ EntriesInv /\ [RTNext]_allVars => EntriesInv'
  <2>1. SUFFICES ASSUME EntriesInv, UNCHANGED allVars PROVE EntriesInv'
    BY EntriesStep
  <2>2. UNCHANGED <<vars, car, rpc, stack, got, routcome>>
    BY <2>1 DEF allVars, reader
  <2>3. UNCHANGED <<source, summary>> /\ EntryBlocks' = EntryBlocks /\ (Whole' <=> Whole)
    BY <2>2, BuilderRests
  <2>4. QED
    BY <2>1, <2>2, <2>3 DEF EntriesInv, ReadsIfEntriesPresent, Explored, HasTree, ReadBack, Known
<1>3. QED
  BY <1>1, <1>2, CarInvariance, ReaderTypesInvariance, PTL DEF RTSpec

\* ReadCAR fails for a missing block exactly when the block of an entry is
\* missing: the walk has seen the blocks of all entries when it ends, and a
\* link of an entry to a missing block when it fails (car_reconstructor.go:549-632).
THEOREM ReadsAllEntries == RTSpec => []ReadsIfEntriesPresent
<1>1. EntriesInv => ReadsIfEntriesPresent
  BY DEF EntriesInv
<1>2. QED
  BY <1>1, EntriesInvariance, PTL

-----------------------------------------------------------------------------
(* The blocks. *)

\* Different blocks take no more bytes than a list that has them all.
LEMMA SectionsOfPart ==
  ASSUME NEW s, NEW t, IsList(s), IsInjective(s), IsList(t), ToSet(s) \subseteq ToSet(t), Sized(ToSet(t))
  PROVE  /\ Total(SectionsOf(s)) \in Nat /\ Total(SectionsOf(t)) \in Nat
         /\ Total(SectionsOf(s)) <= Total(SectionsOf(t))
<1> DEFINE S == DOMAIN s
           T == DOMAIN t
           f == SectionsOf(s)
           g == SectionsOf(t)
           m == [i \in S |-> CHOOSE j \in T : t[j] = s[i]]
<1>1. S = 1..Len(s) /\ T = 1..Len(t) /\ Len(s) \in Nat /\ Len(t) \in Nat
  BY ListProperties
<1>2. IsFiniteSet(S) /\ IsFiniteSet(T)
  BY <1>1, FS_Interval
<1>3. \A i \in S : \E j \in T : t[j] = s[i]
  BY DEF ToSet
<1>4. \A i \in S : m[i] \in T /\ t[m[i]] = s[i]
  BY <1>3
<1>5. (\A i \in S : f[i] = SectionLen(BlockLen(s[i]))) /\ (\A j \in T : g[j] = SectionLen(BlockLen(t[j])))
  BY DEF SectionsOf
<1>6. \A j \in T : g[j] \in Nat
  <2>1. \A j \in T : BlockLen(t[j]) \in Nat
    BY DEF Sized, ToSet
  <2>2. QED
    BY <1>5, <2>1, SectionLenIsNat
<1>7. \A i \in S : f[i] \in Nat /\ m[i] \in T /\ g[m[i]] = f[i]
  BY <1>4, <1>5, <1>6
<1>8. \A i, j \in S : m[i] = m[j] => i = j
  BY <1>4 DEF IsInjective
<1>9. Total(f) = SumOver(f, S) /\ Total(g) = SumOver(g, T)
  <2>1. \A r : Total(r) = SumOver(r, DOMAIN r)
    BY DEF Total, FoldSeq, FoldFunction, SumOver
  <2>2. DOMAIN f = S /\ DOMAIN g = T
    BY DEF SectionsOf
  <2> HIDE DEF f, g, S, T
  <2>3. QED
    BY <2>1, <2>2
<1> HIDE DEF S, T, f, g, m
<1>10. SumOver(f, S) <= SumOver(g, T)
  BY <1>2, <1>6, <1>7, <1>8, SumOfPart
<1>11. SumOver(f, S) \in Nat /\ SumOver(g, T) \in Nat
  <2>1. \A i \in S : f[i] \in Nat
    BY <1>7
  <2>2. QED
    BY <1>2, <1>6, <2>1, SumIsNat
<1>12. QED
  BY <1>9, <1>10, <1>11 DEF f, g

\* The size with which a block is listed.
SizeHad(c) == IF c \in car.blocks THEN BlockLen(c) ELSE 0

\* The CIDs that were taken from the queue, and those that will be.
Queued == ToSet(got.order) \union ToSet(queue) \union (IF rpc = "size" THEN {current} ELSE {})

\* The list has no block twice, and the sizes of all.
ReadSizesInv ==
  /\ IsInjective(got.order)
  /\ rpc = "size" => current \notin ToSet(got.order)
  /\ \A i \in DOMAIN got.order : got.sizes[i] = SizeHad(got.order[i])
  /\ got.sizes \in Seq(Nat) /\ got.total = Total(got.sizes)
  /\ rpc = "walk" => got.order = << >>

\* What is below a block of the list is in the list, or queued.
QueueInv ==
  /\ IsList(queue)
  /\ rpc = "links" => current \in ToSet(got.order)
  /\ routcome = "read" => queue = << >>
  /\ summary.root \in Queued
  /\ \A c \in ToSet(got.order) \intersect car.blocks : Links(c) \subseteq Queued \/ (rpc = "links" /\ c = current)
  /\ Whole => Queued \subseteq ToSet(summary.order)

BlocksInv ==
  HasTree /\ ~rcancelled =>
    /\ ReadSizesInv
    /\ NotReserved(source.tree) /\ rpc # "walk" => QueueInv

\* The blocks of the CAR have lengths.
LEMMA CarSized ==
  ASSUME CarInvs, rpc # "idle" \/ routcome # "none", NEW c
  PROVE  SizeHad(c) \in Nat
<1>1. Built /\ car.blocks \subseteq ToSet(summary.order)
  BY CarFacts
<1>2. Sized(ToSet(summary.order))
  BY <1>1 DEF CarInvs, TypeInv, Proper
<1>3. QED
  BY <1>1, <1>2 DEF SizeHad, Sized

\* A list with another element at its end.
LEMMA ElementAppended ==
  ASSUME NEW s, IsList(s), NEW x
  PROVE  /\ ToSet(Append(s, x)) = ToSet(s) \union {x}
         /\ IsInjective(s) /\ x \notin ToSet(s) => IsInjective(Append(s, x))
<1> DEFINE t == Append(s, x)
           n == Len(s)
<1>1. /\ IsList(t) /\ Len(t) = n + 1 /\ n \in Nat
      /\ \A i \in 1..(n + 1) : t[i] = IF i <= n THEN s[i] ELSE x
  BY ListAppend, ListProperties
<1>2. DOMAIN t = 1..(n + 1) /\ DOMAIN s = 1..n
  BY <1>1, ListProperties
<1>3. (\A i \in 1..n : t[i] = s[i]) /\ t[n + 1] = x
  BY <1>1
<1>4. 1..(n + 1) = 1..n \union {n + 1}
  BY <1>1
<1> HIDE DEF t, n
<1>5. ToSet(t) = ToSet(s) \union {x}
  BY <1>2, <1>3, <1>4 DEF ToSet
<1>6. ASSUME IsInjective(s), x \notin ToSet(s) PROVE IsInjective(t)
  <2>1. \A i \in 1..n : s[i] # x
    BY <1>2, <1>6 DEF ToSet
  <2>2. \A i, j \in 1..n : s[i] = s[j] => i = j
    BY <1>2, <1>6 DEF IsInjective
  <2>3. \A i, j \in 1..n \union {n + 1} : t[i] = t[j] => i = j
    BY <1>3, <2>1, <2>2
  <2>4. QED
    BY <1>2, <1>4, <2>3 DEF IsInjective
<1>7. QED
  BY <1>5, <1>6 DEF t

\* The list after another block.
LEMMA ListedNext ==
  ASSUME CarInvs, ReaderTypes, ReadSizesInv, HasTree, ~rcancelled, R!TakeSize
  PROVE  ReadSizesInv' /\ ToSet(got'.order) = ToSet(got.order) \union {current}
<1> DEFINE k == SizeHad(current)
<1>1. rpc = "size" /\ rpc' = "links" /\ got' = R!ListedBlock(got, current) /\ car' = car
  BY DEF R!TakeSize
<1>2. IsTree(got) /\ current \notin ToSet(got.order)
  BY <1>1 DEF ReaderTypes, ReadSizesInv
<1>3. (R!Available(current) <=> current \in car.blocks) /\ k \in Nat
  BY <1>1, CarSized DEF R!Available, R!Has
<1>4. got'.order = Append(got.order, current) /\ got'.sizes = Append(got.sizes, k) /\ got'.total = got.total + k
  BY <1>1, <1>2, <1>3, ListedTree DEF SizeHad
<1>5. /\ IsList(got.order) /\ Len(got.sizes) = Len(got.order) /\ got.sizes \in Seq(Nat) /\ IsInjective(got.order)
      /\ got.total = Total(got.sizes) /\ \A i \in DOMAIN got.order : got.sizes[i] = SizeHad(got.order[i])
  BY <1>2 DEF IsTree, ReadSizesInv
<1>6. (\A c : SizeHad(c)' = SizeHad(c)) /\ k = SizeHad(current)
  BY <1>1 DEF SizeHad
<1> HIDE DEF k
<1>7. ToSet(got'.order) = ToSet(got.order) \union {current} /\ IsInjective(got'.order)
  BY <1>2, <1>4, <1>5, ElementAppended
<1>8. got'.sizes \in Seq(Nat) /\ got'.total = Total(got'.sizes)
  BY <1>3, <1>4, <1>5, TotalOfAppend
<1>9. \A i \in DOMAIN got'.order : got'.sizes[i] = SizeHad(got'.order[i])
  <2> DEFINE n == Len(got.order)
  <2>1. /\ IsList(got'.order) /\ Len(got'.order) = n + 1 /\ n \in Nat
        /\ \A i \in 1..(n + 1) : got'.order[i] = IF i <= n THEN got.order[i] ELSE current
    BY <1>4, <1>5, ListAppend, ListProperties
  <2>2. \A i \in 1..(n + 1) : got'.sizes[i] = IF i <= n THEN got.sizes[i] ELSE k
    <3>1. IsList(got.sizes)
      BY <1>5, SeqIsList
    <3>2. QED
      BY <1>4, <1>5, <3>1, ListAppend, ListProperties
  <2>3. DOMAIN got'.order = 1..(n + 1) /\ DOMAIN got.order = 1..n
    BY <1>5, <2>1, ListProperties
  <2>4. \A i \in 1..(n + 1) : i <= n => i \in 1..n
    BY <2>1
  <2> HIDE DEF n
  <2>5. QED
    BY <1>5, <1>6, <2>1, <2>2, <2>3, <2>4
<1>10. QED
  BY <1>1, <1>6, <1>7, <1>8, <1>9 DEF ReadSizesInv

LEMMA QueueStarted ==
  ASSUME CarInvs, ReadSizesInv, NotReserved(source.tree), UNCHANGED vars, R!StartBlocks, routcome = "none"
  PROVE  QueueInv'
<1>1. /\ rpc = "walk" /\ rpc' = "blocks" /\ queue' = <<car.root>> /\ UNCHANGED <<car, got, routcome>>
  BY DEF R!StartBlocks
<1>2. car.root = summary.root /\ summary.root \in ToSet(summary.order) /\ summary' = summary
  BY <1>1, CarFacts, BuilderRests DEF Closed
<1>3. ToSet(got.order) = {}
  <2>1. got.order = << >>
    BY <1>1 DEF ReadSizesInv
  <2>2. QED
    BY <2>1 DEF ToSet
<1>4. IsList(<<car.root>>) /\ ToSet(<<car.root>>) = {car.root}
  <2>1. <<car.root>> \in Seq({car.root})
    OBVIOUS
  <2>2. DOMAIN <<car.root>> = {1} /\ <<car.root>>[1] = car.root
    OBVIOUS
  <2>3. QED
    BY <2>1, <2>2, SeqIsList DEF ToSet
<1>5. Queued' = {summary.root}
  BY <1>1, <1>2, <1>3, <1>4 DEF Queued
<1>6. QED
  BY <1>1, <1>2, <1>3, <1>4, <1>5 DEF QueueInv

LEMMA QueueTaken ==
  ASSUME CarInvs, QueueInv, UNCHANGED vars, R!TakeCid, routcome = "none"
  PROVE  QueueInv' /\ (rpc' = "size" => current' \notin ToSet(got.order))
<1> DEFINE c == Head(queue)
<1>1. /\ rpc = "blocks" /\ queue # << >> /\ queue' = Tail(queue) /\ UNCHANGED <<car, got, routcome>>
      /\ IF c \in ToSet(got.order) THEN UNCHANGED <<rpc, current>> ELSE current' = c /\ rpc' = "size"
  BY SameBlocks DEF R!TakeCid, R!Dropped, R!Seen
<1>2. IsList(queue)
  BY DEF QueueInv
<1>3. IsList(queue') /\ ToSet(queue) = ToSet(queue') \union {c}
  BY <1>1, <1>2, HeadAndTail
<1> HIDE DEF c
<1>4. Queued' = Queued
  <2>1. Queued = ToSet(got.order) \union ToSet(queue') \union {c}
    BY <1>1, <1>3 DEF Queued
  <2>2. CASE c \in ToSet(got.order)
    BY <1>1, <2>1, <2>2 DEF Queued
  <2>3. CASE c \notin ToSet(got.order)
    <3>1. rpc' = "size" /\ current' = c
      BY <1>1, <2>3
    <3>2. QED
      BY <1>1, <2>1, <3>1 DEF Queued
  <2>4. QED
    BY <2>2, <2>3
<1>5. summary' = summary /\ (Whole' <=> Whole) /\ rpc' # "links" /\ routcome' = "none"
  BY <1>1, BuilderRests
<1>6. /\ summary.root \in Queued /\ (Whole => Queued \subseteq ToSet(summary.order))
      /\ \A x \in ToSet(got.order) \intersect car.blocks : Links(x) \subseteq Queued
  BY <1>1 DEF QueueInv
<1>7. QueueInv'
  BY <1>1, <1>3, <1>4, <1>5, <1>6 DEF QueueInv
<1>8. QED
  BY <1>1, <1>7

LEMMA QueueSized ==
  ASSUME QueueInv, UNCHANGED vars, R!TakeSize, routcome = "none",
         ToSet(got'.order) = ToSet(got.order) \union {current}
  PROVE  QueueInv'
<1>1. rpc = "size" /\ rpc' = "links" /\ UNCHANGED <<car, queue, current, routcome>>
  BY DEF R!TakeSize
<1>2. summary' = summary /\ (Whole' <=> Whole)
  BY <1>1, BuilderRests
<1>3. Queued' = Queued
  BY <1>1 DEF Queued
<1>4. /\ IsList(queue) /\ summary.root \in Queued /\ (Whole => Queued \subseteq ToSet(summary.order))
      /\ \A x \in ToSet(got.order) \intersect car.blocks : Links(x) \subseteq Queued
  BY <1>1 DEF QueueInv
<1>5. QED
  BY <1>1, <1>2, <1>3, <1>4 DEF QueueInv

\* The links of a block that is had, and was not met in the walk, are listed.
LEMMA LinksListed ==
  ASSUME CarInvs, NotReserved(source.tree), Explored, stack = << >>, rpc # "idle", NEW c \in car.blocks, Whole
  PROVE  Links(c) \subseteq ToSet(summary.order)
<1>1. /\ Built /\ Closed(summary, DAG) /\ car.blocks = ToSet(summary.order)
  BY CarFacts
<1>2. c \in Blocks(summary) /\ Links(c) \subseteq Blocks(summary)
  BY <1>1 DEF Blocks, Closed
<1>3. CASE ~IsDirectory(c)
  <2>1. IsDirectory(EmptyDir)
    BY DirectoryBlocks DEF EmptyDir
  <2>2. QED
    BY <1>1, <1>2, <1>3, <2>1, LeavesBelow DEF Blocks
<1>4. CASE IsDirectory(c)
  <2>1. c \in DAG
    BY <1>1 DEF Closed
  <2>2. Links(c) \subseteq EntryBlocks
    BY <1>4, <2>1 DEF EntryBlocks, IsDirectory
  <2>3. EntryBlocks \subseteq car.blocks
    BY EntriesSeen
  <2>4. QED
    BY <1>1, <2>2, <2>3
<1>5. QED
  BY <1>3, <1>4

LEMMA QueueLinked ==
  ASSUME CarInvs, QueueInv, NotReserved(source.tree), Explored, stack = << >>, ~rcancelled,
         UNCHANGED vars, R!TakeLinks, routcome = "none"
  PROVE  QueueInv'
<1>1. rpc = "links" /\ rpc' = "blocks" /\ UNCHANGED <<car, got, routcome>>
  BY DEF R!TakeLinks
<1>2. /\ summary' = summary /\ (Whole' <=> Whole) /\ \A c \in Blocks(summary) : Ordered(c)
      /\ car.blocks \subseteq Blocks(summary)
  BY <1>1, BuilderRests, CarFacts DEF Blocks
<1>3. /\ IsList(queue) /\ summary.root \in Queued /\ (Whole => Queued \subseteq ToSet(summary.order))
      /\ \A x \in ToSet(got.order) \intersect car.blocks : Links(x) \subseteq Queued \/ x = current
  BY <1>1 DEF QueueInv
<1>4. R!Available(current) <=> current \in car.blocks
  BY DEF R!Available, R!Has
<1>5. ASSUME current \notin car.blocks PROVE QueueInv'
  <2>1. queue' = queue
    BY <1>4, <1>5 DEF R!TakeLinks
  <2>2. Queued' = Queued
    BY <1>1, <2>1 DEF Queued
  <2>3. \A x \in ToSet(got.order) \intersect car.blocks : Links(x) \subseteq Queued
    BY <1>3, <1>5
  <2>4. QED
    BY <1>1, <1>2, <1>3, <2>1, <2>2, <2>3 DEF QueueInv
<1>6. ASSUME current \in car.blocks PROVE QueueInv'
  <2> DEFINE links == R!LinkSeq(current)
             cids == [i \in DOMAIN links |-> links[i][2]]
             more == Those(cids, ToSet(cids) \ ToSet(got.order))
  <2>1. queue' = queue \o more
    BY <1>4, <1>6, SameBlocks DEF R!TakeLinks, R!Seen
  <2>2. IsList(links) /\ Targets(links) = Links(current)
    BY <1>2, <1>6 DEF Ordered
  <2>3. IsList(cids) /\ ToSet(cids) = Links(current)
    <3>1. Len(links) \in Nat /\ DOMAIN links = 1..Len(links)
      BY <2>2, ListProperties
    <3>2. cids = [i \in 1..Len(links) |-> cids[i]]
      BY <3>1
    <3>3. IsList(cids)
      BY <3>1, <3>2, FunctionIsList
    <3>4. ToSet(cids) = Targets(links)
      BY DEF ToSet, Targets
    <3>5. QED
      BY <2>2, <3>3, <3>4
  <2> HIDE DEF links, cids
  <2>4. IsList(more) /\ ToSet(more) = Links(current) \ ToSet(got.order)
    BY <2>3, ThoseElements
  <2> HIDE DEF more
  <2>5. IsList(queue') /\ ToSet(queue') = ToSet(queue) \union ToSet(more)
    BY <1>3, <2>1, <2>4, ListConcat, ElementsOfConcat
  <2>6. Queued' = Queued \union Links(current)
    BY <1>1, <2>4, <2>5 DEF Queued
  <2>7. Whole => Links(current) \subseteq ToSet(summary.order)
    BY <1>1, <1>6, LinksListed
  <2>8. \A x \in ToSet(got.order) \intersect car.blocks : Links(x) \subseteq Queued'
    BY <1>3, <2>6
  <2>9. summary.root \in Queued' /\ (Whole => Queued' \subseteq ToSet(summary.order))
    BY <1>3, <2>6, <2>7
  <2>10. QED
    BY <1>1, <1>2, <2>5, <2>8, <2>9 DEF QueueInv
<1>7. QED
  BY <1>5, <1>6

\* When the queue is empty, all blocks are listed.
LEMMA AllListed ==
  ASSUME CarInvs, ReaderTypes, ReadSizesInv, QueueInv, NotReserved(source.tree), routcome = "read", Whole
  PROVE  /\ ToSet(got.order) = ToSet(summary.order)
         /\ CARSize(got) <= bytes
         /\ IsInjective(written) => CARSize(got) = bytes
<1>1. rpc = "idle" /\ HasTree
  BY DEF ReaderTypes, HasTree
<1>2. /\ Built /\ car.blocks = ToSet(summary.order) /\ Closed(summary, DAG)
      /\ Sized(ToSet(summary.order))
  <2>1. Built /\ car.blocks = ToSet(summary.order) /\ Closed(summary, DAG)
    BY CarFacts
  <2>2. QED
    BY <2>1 DEF CarInvs, TypeInv, Proper
<1>3. IsList(got.order) /\ IsInjective(got.order)
  BY <1>1 DEF ReaderTypes, IsTree, ReadSizesInv
<1>4. ToSet(got.order) = ToSet(summary.order)
  <2>1. Queued = ToSet(got.order)
    <3>1. queue = << >>
      BY DEF QueueInv
    <3>2. QED
      BY <1>1, <3>1 DEF Queued, ToSet
  <2>2. summary.root \in ToSet(got.order) /\ ToSet(got.order) \subseteq ToSet(summary.order)
    BY <2>1 DEF QueueInv
  <2>3. \A c \in ToSet(got.order) : Links(c) \subseteq ToSet(got.order)
    BY <1>1, <1>2, <2>1, <2>2 DEF QueueInv
  <2>4. DAG \subseteq ToSet(got.order)
    BY <1>2, <2>2, <2>3, DAGIsLeast
  <2>5. QED
    BY <1>2, <2>2, <2>4 DEF Closed
<1>5. CARSize(got) = HeaderLen + Total(SectionsOf(got.order))
  <2>1. \A i \in DOMAIN got.order : got.sizes[i] = BlockLen(got.order[i])
    <3>1. \A i \in DOMAIN got.order : got.order[i] \in car.blocks
      BY <1>2, <1>4 DEF ToSet
    <3>2. QED
      BY <3>1 DEF ReadSizesInv, SizeHad
  <2>2. [i \in DOMAIN got.order |-> SectionLen(got.sizes[i])] = SectionsOf(got.order)
    BY <2>1 DEF SectionsOf
  <2>3. QED
    BY <2>2 DEF CARSize
<1>6. /\ IsList(written) /\ ToSet(written) = ToSet(summary.order)
      /\ bytes = HeaderLen + Total(SectionsOf(written))
  <2>1. outcome = "written" /\ car.blocks = ToSet(written)
    BY DEF Whole
  <2>2. QED
    BY <1>2, <2>1 DEF CarInvs, TypeInv, WriteInv, Filled
<1>7. HeaderLen \in Nat
  BY BoundsAssumption DEF BoundsAssumption
<1>8. /\ Total(SectionsOf(got.order)) \in Nat /\ Total(SectionsOf(written)) \in Nat
      /\ Total(SectionsOf(got.order)) <= Total(SectionsOf(written))
  BY <1>2, <1>3, <1>4, <1>6, SectionsOfPart
<1>9. IsInjective(written) => Total(SectionsOf(written)) <= Total(SectionsOf(got.order))
  BY <1>2, <1>3, <1>4, <1>6, SectionsOfPart
<1>10. QED
  BY <1>4, <1>5, <1>6, <1>7, <1>8, <1>9

LEMMA ListKept ==
  ASSUME ReadSizesInv, UNCHANGED <<car, got>>, rpc' = "walk" => rpc = "walk",
         rpc' = "size" => current' \notin ToSet(got.order)
  PROVE  ReadSizesInv'
BY DEF ReadSizesInv, SizeHad

LEMMA BlocksStep ==
  ASSUME CarInvs, ReaderTypes, EntriesInv, BlocksInv, RTNext
  PROVE  BlocksInv'
<1>1. CASE StreamCAR
  <2>1. rpc' = "idle" /\ routcome' = "none"
    BY <1>1 DEF StreamCAR, Unused, R!Reading, reader
  <2>2. QED
    BY <2>1 DEF BlocksInv, HasTree
<1>2. CASE Read
  <2>1. PICK file \in Files : R!ReadCAR(file)
    BY <1>2 DEF Read
  <2>2. rpc' = "index" /\ routcome' = "none"
    BY <2>1 DEF R!ReadCAR
  <2>3. QED
    BY <2>2 DEF BlocksInv, HasTree
<1>3. ASSUME UNCHANGED <<vars, car, rpc, got, queue, current, routcome, rcancelled>> PROVE BlocksInv'
  <2>1. source' = source /\ summary' = summary /\ (Whole' <=> Whole) /\ Queued' = Queued
    BY <1>3, BuilderRests DEF Queued
  <2>2. \A c : SizeHad(c)' = SizeHad(c)
    BY <1>3 DEF SizeHad
  <2>3. ReadSizesInv => ReadSizesInv'
    BY <1>3, <2>2 DEF ReadSizesInv
  <2>4. QueueInv => QueueInv'
    BY <1>3, <2>1 DEF QueueInv
  <2>5. QED
    BY <1>3, <2>1, <2>3, <2>4 DEF BlocksInv, HasTree
<1>4. CASE Load \/ LoadStep
  BY <1>3, <1>4 DEF Load, LoadStep, reader
<1>5. CASE ReadStep
  <2>1. UNCHANGED vars /\ car' = car /\ rpc # "idle" /\ source' = source
    BY <1>5, CarStays, BuilderRests DEF ReadStep
  <2>2. routcome = "none"
    BY <2>1 DEF ReaderTypes
  <2>3. CASE R!IndexAll \/ R!IndexFails \/ R!RootFails \/ R!WalkFails \/ R!Stop
    <3>1. rpc' \in {"root", "idle"} /\ routcome' # "read"
      BY <2>2, <2>3 DEF R!IndexAll, R!IndexFails, R!RootFails, R!WalkFails, R!Stop, R!Fail
    <3>2. QED
      BY <3>1 DEF BlocksInv, HasTree
  <2>4. CASE R!Cancel
    <3>1. rcancelled' = TRUE
      BY <2>4 DEF R!Cancel
    <3>2. QED
      BY <3>1 DEF BlocksInv
  <2>5. CASE R!OpenRoot
    <3>1. /\ rpc' = "walk" /\ got' \in {R!DirectoryTree(car.root), R!FileTree(car.root)}
      BY <2>5 DEF R!OpenRoot
    <3>2. got'.order = << >> /\ got'.sizes = << >> /\ got'.total = 0
      BY <3>1, FirstTrees
    <3>3. DOMAIN << >> = {} /\ << >> \in Seq(Nat) /\ Total(<< >>) = 0
      <4>1. << >> \in Seq(Nat)
        OBVIOUS
      <4>2. Total(<< >>) = 0
        BY <4>1, TotalOfAppend
      <4>3. DOMAIN << >> = {}
        OBVIOUS
      <4>4. QED
        BY <4>1, <4>2, <4>3
    <3>4. ReadSizesInv'
      BY <3>1, <3>2, <3>3 DEF ReadSizesInv, IsInjective
    <3>5. QED
      BY <3>1, <3>4 DEF BlocksInv
  <2>6. SUFFICES ASSUME rpc \in {"walk", "blocks", "size", "links"}, ~rcancelled PROVE BlocksInv'
    <3>1. \/ R!SkipLink \/ R!WalkLink \/ R!LeaveDirectory
          \/ R!StartBlocks \/ R!TakeCid \/ R!TakeSize \/ R!TakeLinks \/ R!FinishRead
          => rpc \in {"walk", "blocks", "size", "links"} /\ rcancelled' = rcancelled
      BY DEF R!SkipLink, R!WalkLink, R!LeaveDirectory, R!Walking, R!StartBlocks, R!TakeCid, R!TakeSize, R!TakeLinks,
             R!FinishRead
    <3>2. QED
      BY <1>5, <2>3, <2>4, <2>5, <2>6, <3>1 DEF ReadStep, R!Advance, BlocksInv
  <2>7. HasTree /\ ReadSizesInv /\ (NotReserved(source.tree) /\ rpc # "walk" => QueueInv)
    BY <2>6 DEF HasTree, BlocksInv
  <2>8. IsTree(got) /\ (rpc # "walk" => stack = << >>)
    BY <2>7 DEF ReaderTypes
  <2>9. NotReserved(source.tree) => Explored
    BY <2>7 DEF EntriesInv
  <2>10. ASSUME ReadSizesInv', rpc' # "walk" => (NotReserved(source.tree) => QueueInv') PROVE BlocksInv'
    BY <2>1, <2>10 DEF BlocksInv
  <2>11. CASE R!SkipLink \/ R!WalkLink \/ R!LeaveDirectory
    <3>1. rpc = "walk" /\ rpc' = "walk" /\ car' = car
      BY <2>11 DEF R!SkipLink, R!WalkLink, R!LeaveDirectory, R!Walking
    <3>2. got'.order = got.order /\ got'.sizes = got.sizes /\ got'.total = got.total
      <4>1. CASE R!WalkLink
        <5>1. got' = R!Entered(got, Head(stack).key, R!Link)
          BY <4>1 DEF R!WalkLink
        <5>2. QED
          BY <2>8, <5>1, EnteredTree
      <4>2. CASE got' = got
        BY <4>2
      <4>3. QED
        BY <2>11, <4>1, <4>2 DEF R!SkipLink, R!LeaveDirectory
    <3>3. ReadSizesInv'
      BY <2>7, <3>1, <3>2 DEF ReadSizesInv, SizeHad
    <3>4. QED
      BY <2>10, <3>1, <3>3
  <2>12. CASE R!StartBlocks
    <3>1. got' = got /\ rpc' = "blocks"
      BY <2>12 DEF R!StartBlocks
    <3>2. ReadSizesInv'
      BY <2>1, <2>7, <3>1, ListKept
    <3>3. QED
      BY <2>1, <2>2, <2>7, <2>10, <2>12, <3>2, QueueStarted
  <2>13. CASE R!TakeCid
    <3>1. got' = got /\ rpc = "blocks" /\ rpc' \in {"blocks", "size"}
      BY <2>13 DEF R!TakeCid
    <3>2. rpc' = "size" => current' \notin ToSet(got.order)
      BY <2>13, SameBlocks DEF R!TakeCid, R!Seen
    <3>3. ReadSizesInv'
      BY <2>1, <2>7, <3>1, <3>2, ListKept
    <3>4. QED
      BY <2>1, <2>2, <2>7, <2>10, <2>13, <3>1, <3>3, QueueTaken
  <2>14. CASE R!TakeSize
    <3>1. ReadSizesInv' /\ ToSet(got'.order) = ToSet(got.order) \union {current} /\ rpc = "size"
      BY <2>6, <2>7, <2>14, ListedNext DEF R!TakeSize
    <3>2. QED
      BY <2>1, <2>2, <2>7, <2>10, <2>14, <3>1, QueueSized
  <2>15. CASE R!TakeLinks
    <3>1. got' = got /\ rpc = "links" /\ rpc' = "blocks"
      BY <2>15 DEF R!TakeLinks
    <3>2. ReadSizesInv'
      BY <2>1, <2>7, <3>1, ListKept
    <3>3. QED
      BY <2>1, <2>2, <2>6, <2>7, <2>8, <2>9, <2>10, <2>15, <3>1, <3>2, QueueLinked
  <2>16. CASE R!FinishRead
    <3>1. /\ rpc = "blocks" /\ rpc' = "idle" /\ queue = << >> /\ UNCHANGED <<car, got, queue, current>>
      BY <2>16 DEF R!FinishRead
    <3>2. ReadSizesInv'
      BY <2>1, <2>7, <3>1, ListKept
    <3>3. QueueInv => QueueInv'
      <4>1. summary' = summary /\ (Whole' <=> Whole)
        BY <2>1, BuilderRests
      <4>2. Queued' = Queued
        BY <3>1 DEF Queued
      <4>3. QED
        BY <3>1, <4>1, <4>2 DEF QueueInv
    <3>4. QED
      BY <2>7, <2>10, <3>1, <3>2, <3>3
  <2>17. QED
    BY <1>5, <2>3, <2>4, <2>5, <2>11, <2>12, <2>13, <2>14, <2>15, <2>16 DEF ReadStep, R!Advance
<1>6. QED
  BY <1>1, <1>2, <1>4, <1>5 DEF RTNext

LEMMA BlocksInvariance == RTSpec => []BlocksInv
<1>1. RTInit => BlocksInv
  <2>1. RTInit => rpc = "idle" /\ routcome = "none"
    BY DEF RTInit, R!Init
  <2>2. QED
    BY <2>1 DEF BlocksInv, HasTree
<1>2. CarInvs /\ ReaderTypes /\ EntriesInv /\ BlocksInv /\ [RTNext]_allVars => BlocksInv'
  <2>1. SUFFICES ASSUME BlocksInv, UNCHANGED allVars PROVE BlocksInv'
    BY BlocksStep
  <2>2. UNCHANGED <<vars, car, rpc, got, queue, current, routcome, rcancelled>>
    BY <2>1 DEF allVars, reader
  <2>3. source' = source /\ summary' = summary /\ (Whole' <=> Whole) /\ Queued' = Queued
    BY <2>2, BuilderRests DEF Queued
  <2>4. ReadSizesInv => ReadSizesInv'
    BY <2>2 DEF ReadSizesInv, SizeHad
  <2>5. QueueInv => QueueInv'
    BY <2>2, <2>3 DEF QueueInv
  <2>6. QED
    BY <2>1, <2>2, <2>3, <2>4, <2>5 DEF BlocksInv, HasTree
<1>3. QED
  BY <1>1, <1>2, CarInvariance, ReaderTypesInvariance, EntriesInvariance, PTL DEF RTSpec

\* What ReadCAR lists of a CAR are different blocks with their sizes, all of
\* them when the CAR is whole, and it predicts the size of the CAR
\* (car_reconstructor.go:853-920): the queue leads from the root to every
\* block, since what a listed block links to is listed or queued.
THEOREM BlocksAreRead == RTSpec => []BlocksSurvive
<1>1. CarInvs /\ ReaderTypes /\ BlocksInv => BlocksSurvive
  <2>1. SUFFICES ASSUME CarInvs, ReaderTypes, BlocksInv, ReadBack, ~rcancelled
                 PROVE  /\ IsInjective(got.order)
                        /\ \A i \in DOMAIN got.order :
                             got.sizes[i] = IF got.order[i] \in car.blocks THEN BlockLen(got.order[i]) ELSE 0
                        /\ got.total = Total(got.sizes)
                        /\ Whole /\ NotReserved(source.tree) =>
                             /\ ToSet(got.order) = ToSet(summary.order)
                             /\ CARSize(got) <= bytes
                             /\ IsInjective(written) => CARSize(got) = bytes
    BY DEF BlocksSurvive
  <2>2. HasTree /\ routcome = "read" /\ rpc = "idle"
    BY <2>1 DEF HasTree, ReadBack, ReaderTypes
  <2>3. ReadSizesInv /\ (NotReserved(source.tree) => QueueInv)
    BY <2>1, <2>2 DEF BlocksInv
  <2>4. QED
    BY <2>1, <2>2, <2>3, AllListed DEF ReadSizesInv, SizeHad
<1>2. QED
  BY <1>1, CarInvariance, ReaderTypesInvariance, BlocksInvariance, PTL

-----------------------------------------------------------------------------
(* The tree. *)

\* The entries V, of which g gives the CIDs, under a root that is a directory
\* and links to all at the top; others link to what has files.
WellMade(V, g, root) ==
  /\ Tree(V) /\ \A it \in V : it.path # CurrentDir
  /\ \A x \in V : g[x] = IF x.isDir THEN DirCid(LinksBy(g, Inside(V, x.path) \intersect WithFiles(V)))
                                    ELSE FileCid(x.content)
  /\ root = DirCid(LinksBy(g, Inside(V, << >>)))

\* A place is the root, or where a directory is; the entries it has links to.
IsPlace(V, d) == d = ROOT \/ \E x \in V : x.isDir /\ x.path = d
Held(V, d) == IF d = ROOT THEN Inside(V, << >>) ELSE Inside(V, d) \intersect WithFiles(V)

\* The place of an entry in the summary it is read into.
LEMMA HeldPlaces ==
  ASSUME NEW V, NEW g, NEW root, WellMade(V, g, root), NEW d, IsPlace(V, d), NEW k \in Held(V, d)
  PROVE  /\ k \in V /\ R!EntryKey(d, k.name) = k.path /\ k.path # d /\ k.path # ROOT
         /\ Front(k.path) = IF d = ROOT THEN << >> ELSE d
         /\ (IF Front(k.path) = << >> THEN ROOT ELSE Front(k.path)) = d
         /\ k.isDir \in BOOLEAN /\ (IsDirectory(g[k]) <=> k.isDir)
<1>1. k \in V
  BY DEF Held, Inside
<1>2. /\ IsList(k.path) /\ k.path # << >> /\ k.path # ROOT /\ k.name = Last(k.path) /\ k.isDir \in BOOLEAN
  BY <1>1 DEF WellMade, Tree
<1>3. Front(k.path) = IF d = ROOT THEN << >> ELSE d
  BY DEF Held, Inside
<1>4. d # << >>
  <2>1. ROOT # << >>
    BY DEF ROOT
  <2>2. QED
    BY <2>1 DEF IsPlace, WellMade, Tree
<1>5. R!EntryKey(d, k.name) = k.path
  <2>1. Append(Front(k.path), Last(k.path)) = k.path
    BY <1>2, FrontAppended
  <2>2. R!EntryKey(d, k.name) = Append(Front(k.path), k.name)
    <3>1. Append(<< >>, k.name) = <<k.name>>
      OBVIOUS
    <3>2. QED
      BY <1>3, <3>1, SameBlocks DEF R!EntryKey
  <2>3. QED
    BY <1>2, <2>1, <2>2
<1>6. k.path # d
  <2>1. CASE d = ROOT
    BY <1>2, <2>1
  <2>2. CASE d # ROOT
    <3>1. Front(k.path) = d
      BY <1>3, <2>2
    <3>2. Len(Front(k.path)) = Len(k.path) - 1 /\ Len(k.path) \in Nat
      BY <1>2, FrontOfList
    <3>3. QED
      BY <3>1, <3>2
  <2>3. QED
    BY <2>1, <2>2
<1>7. IsDirectory(g[k]) <=> k.isDir
  <2>1. g[k] = IF k.isDir THEN DirCid(LinksBy(g, Inside(V, k.path) \intersect WithFiles(V))) ELSE FileCid(k.content)
    BY <1>1 DEF WellMade
  <2>2. QED
    BY <1>2, <2>1, DirectoryBlocks
<1>8. QED
  BY <1>1, <1>2, <1>3, <1>4, <1>5, <1>6, <1>7

\* The block of a place has the links to what it holds.
PlaceCid(V, g, root, d, c) ==
  \/ d = ROOT /\ c = root
  \/ \E x \in V : x.isDir /\ x.path = d /\ c = g[x]

LEMMA PlaceLinks ==
  ASSUME NEW V, NEW g, NEW root, WellMade(V, g, root), NEW d, NEW c, PlaceCid(V, g, root, d, c), Ordered(c)
  PROVE  IsPlace(V, d) /\ IsList(R!LinkSeq(c)) /\ ToSet(R!LinkSeq(c)) = LinksBy(g, Held(V, d))
<1>1. c = DirCid(LinksBy(g, Held(V, d))) /\ IsPlace(V, d)
  BY DEF PlaceCid, WellMade, Held, IsPlace, Tree
<1>2. IsDirectory(c) /\ c[2] = LinksBy(g, Held(V, d))
  <2>1. \A links : DirCid(links)[2] = links
    BY DEF DirCid
  <2>2. QED
    BY <1>1, <2>1, DirectoryBlocks
<1>3. QED
  BY <1>1, <1>2 DEF Ordered

\* An entry, as a record.
IsNode(e) ==
  /\ e = [name |-> e.name, isDir |-> e.isDir, path |-> e.path, cid |-> e.cid, children |-> e.children, size |-> e.size]
  /\ IsList(e.children)

LEMMA ListedElements ==
  ASSUME NEW children, IsList(children), NEW key
  PROVE  IsList(R!Listed(children, key)) /\ ToSet(R!Listed(children, key)) = ToSet(children) \union {key}
<1>1. Contains(children, key) <=> key \in ToSet(children)
  <2>1. DOMAIN children = 1..Len(children)
    BY ListProperties
  <2>2. QED
    BY <2>1 DEF Contains, ToSet
<1>2. IsList(Append(children, key)) /\ ToSet(Append(children, key)) = ToSet(children) \union {key}
  BY ElementAppended, ListAppend
<1>3. R!Listed(children, key) = IF Contains(children, key) THEN children ELSE Append(children, key)
  BY SameBlocks DEF R!Listed
<1>4. QED
  BY <1>1, <1>2, <1>3

\* The entry that a link makes, and the one of the directory that has the
\* link.
EnteredAs(t, d, l, key, new) ==
  /\ DOMAIN new = DOMAIN t.entries \union {key}
  /\ IsNode(new[key]) /\ new[key].cid = l[2]
  /\ LET old == t.entries[key]
     IN  key \in DOMAIN t.entries => /\ new[key].name = old.name /\ new[key].isDir = old.isDir
                                     /\ new[key].path = old.path /\ new[key].children = old.children
  /\ key \notin DOMAIN t.entries => /\ new[key].name = l[1] /\ new[key].isDir = IsDirectory(l[2])
                                    /\ new[key].path = (IF d = ROOT THEN << >> ELSE d)
                                    /\ new[key].children = << >>
  /\ IsNode(new[d])
  /\ new[d].name = t.entries[d].name /\ new[d].isDir = t.entries[d].isDir
  /\ new[d].path = t.entries[d].path /\ new[d].cid = t.entries[d].cid
  /\ ToSet(new[d].children) =
       IF d = ROOT /\ IsDirectory(l[2]) THEN ToSet(t.entries[d].children) ELSE ToSet(t.entries[d].children) \union {key}
  /\ \A p \in DOMAIN t.entries \ {key, d} : new[p] = t.entries[p]

LEMMA EnteredEntries ==
  ASSUME NEW t, IsTree(t), \A p \in DOMAIN t.entries : IsNode(t.entries[p]), NEW d \in DOMAIN t.entries,
         NEW l, NEW key, key = R!EntryKey(d, l[1]), key # d,
         NEW new, new = R!Entered(t, d, l).entries
  PROVE  EnteredAs(t, d, l, key, new)
<1> DEFINE found == IF key \in DOMAIN t.entries THEN t.entries[key]
                    ELSE R!Entry(l[1], R!AnalyzeNode(l[2]).isDir, IF d = R!ROOT THEN << >> ELSE d, l[2], << >>, 0)
           updated == [found EXCEPT !.cid = l[2],
                                    !.size = IF R!AnalyzeNode(l[2]).fileSize > 0 THEN R!AnalyzeNode(l[2]).fileSize ELSE @]
           all == R!With(t.entries, key, updated)
           entries == IF (d = R!ROOT /\ R!AnalyzeNode(l[2]).isDir) \/ d \notin DOMAIN all THEN all
                      ELSE [all EXCEPT ![d].children = R!Listed(@, key)]
<1>1. new = entries
  <2>1. t = [root |-> t.root, order |-> t.order, sizes |-> t.sizes, total |-> t.total,
             entries |-> t.entries, cidToEntry |-> t.cidToEntry]
    BY DEF IsTree
  <2>2. R!Entered(t, d, l) = [t EXCEPT !.entries = entries, !.cidToEntry = R!With(@, l[2], key)]
    BY DEF R!Entered
  <2> HIDE DEF entries
  <2>3. [t EXCEPT !.entries = entries, !.cidToEntry = R!With(@, l[2], key)].entries = entries
    BY <2>1
  <2>4. QED
    BY <2>2, <2>3
<1>2. /\ IsNode(found)
      /\ key \notin DOMAIN t.entries => /\ found.name = l[1] /\ found.isDir = IsDirectory(l[2])
                                        /\ found.path = (IF d = ROOT THEN << >> ELSE d) /\ found.children = << >>
  <2>1. CASE key \in DOMAIN t.entries
    BY <2>1
  <2>2. CASE key \notin DOMAIN t.entries
    <3> DEFINE place == IF d = R!ROOT THEN << >> ELSE d
               is == R!AnalyzeNode(l[2]).isDir
    <3>1. found = [name |-> l[1], isDir |-> is, path |-> place, cid |-> l[2], children |-> << >>, size |-> 0]
      BY <2>2 DEF R!Entry
    <3>2. is = IsDirectory(l[2]) /\ place = IF d = ROOT THEN << >> ELSE d
      BY SameBlocks DEF IsDirectory
    <3> HIDE DEF is, place, found
    <3>3. /\ found.name = l[1] /\ found.isDir = is /\ found.path = place /\ found.children = << >>
          /\ found = [name |-> found.name, isDir |-> found.isDir, path |-> found.path, cid |-> found.cid,
                      children |-> found.children, size |-> found.size]
      BY <3>1
    <3>4. QED
      BY <2>2, <3>2, <3>3, EmptyList DEF IsNode
  <2>3. QED
    BY <2>1, <2>2
<1>3. key \in DOMAIN t.entries => found = t.entries[key]
  OBVIOUS
<1>4. \E size : updated = [found EXCEPT !.cid = l[2], !.size = size]
  OBVIOUS
<1> HIDE DEF found, updated
<1>5. /\ IsNode(updated) /\ updated.cid = l[2]
      /\ updated.name = found.name /\ updated.isDir = found.isDir /\ updated.path = found.path /\ updated.children = found.children
  <2>1. PICK size : updated = [found EXCEPT !.cid = l[2], !.size = size]
    BY <1>4
  <2>2. updated = [name |-> found.name, isDir |-> found.isDir, path |-> found.path, cid |-> l[2],
                   children |-> found.children, size |-> size]
    BY <1>2, <2>1 DEF IsNode
  <2>3. /\ updated.cid = l[2] /\ updated.name = found.name /\ updated.isDir = found.isDir
        /\ updated.path = found.path /\ updated.children = found.children
        /\ updated = [name |-> updated.name, isDir |-> updated.isDir, path |-> updated.path, cid |-> updated.cid,
                      children |-> updated.children, size |-> updated.size]
    BY <2>2
  <2>4. QED
    BY <1>2, <2>3 DEF IsNode
<1>6. /\ DOMAIN all = DOMAIN t.entries \union {key} /\ all[key] = updated
      /\ \A p \in DOMAIN t.entries \ {key} : all[p] = t.entries[p]
  BY DEF R!With
<1>7. entries = IF d = ROOT /\ IsDirectory(l[2]) THEN all ELSE [all EXCEPT ![d].children = R!Listed(@, key)]
  BY <1>6, SameBlocks DEF IsDirectory
<1> HIDE DEF all, entries
<1>8. all[d] = t.entries[d] /\ IsNode(t.entries[d]) /\ d \in DOMAIN all
  BY <1>6
<1>9. CASE d = ROOT /\ IsDirectory(l[2])
  <2>1. new = all
    BY <1>1, <1>7, <1>9
  <2>2. QED
    BY <1>2, <1>3, <1>5, <1>6, <1>8, <1>9, <2>1 DEF EnteredAs
<1>10. CASE ~(d = ROOT /\ IsDirectory(l[2]))
  <2> DEFINE e == t.entries[d]
             listed == R!Listed(e.children, key)
  <2>1. new = [all EXCEPT ![d].children = R!Listed(@, key)]
    BY <1>1, <1>7, <1>10
  <2>2. /\ DOMAIN new = DOMAIN all /\ new[d] = [all[d] EXCEPT !.children = R!Listed(@, key)]
        /\ \A p \in DOMAIN all \ {d} : new[p] = all[p]
    <3>1. all = [p \in DOMAIN all |-> all[p]]
      BY DEF all, R!With
    <3>2. QED
      BY <1>8, <2>1, <3>1
  <2>3. new[d] = [e EXCEPT !.children = listed]
    BY <1>8, <2>2
  <2>4. IsList(listed) /\ ToSet(listed) = ToSet(e.children) \union {key}
    BY <1>8, ListedElements DEF IsNode
  <2>5. e = [name |-> e.name, isDir |-> e.isDir, path |-> e.path, cid |-> e.cid, children |-> e.children, size |-> e.size]
    BY <1>8 DEF IsNode
  <2> HIDE DEF e, listed
  <2>6. new[d] = [name |-> e.name, isDir |-> e.isDir, path |-> e.path, cid |-> e.cid, children |-> listed, size |-> e.size]
    BY <2>3, <2>5
  <2>7. /\ new[d].name = e.name /\ new[d].isDir = e.isDir /\ new[d].path = e.path /\ new[d].cid = e.cid
        /\ new[d].children = listed /\ new[d].size = e.size
    BY <2>6
  <2>8. IsNode(new[d])
    BY <2>4, <2>6, <2>7 DEF IsNode
  <2>9. new[key] = updated /\ \A p \in DOMAIN t.entries \ {key, d} : new[p] = t.entries[p]
    BY <1>6, <2>2
  <2>10. /\ new[d].name = t.entries[d].name /\ new[d].isDir = t.entries[d].isDir
         /\ new[d].path = t.entries[d].path /\ new[d].cid = t.entries[d].cid
         /\ ToSet(new[d].children) = ToSet(t.entries[d].children) \union {key}
    BY <2>4, <2>7 DEF e
  <2>11. DOMAIN new = DOMAIN t.entries \union {key}
    BY <1>6, <2>2
  <2>12. QED
    BY <1>2, <1>3, <1>5, <1>10, <2>8, <2>9, <2>10, <2>11 DEF EnteredAs
<1>11. QED
  BY <1>9, <1>10

\* The entry e is that of k.
NodeOf(V, g, e, k) ==
  /\ e.name = k.name /\ e.isDir = k.isDir /\ e.path = Front(k.path) /\ e.cid = g[k]
  /\ ToSet(e.children) \subseteq {j.path : j \in Held(V, k.path)}

ParentOf(e) == IF e.path = << >> THEN ROOT ELSE e.path

\* The entries are those of V, and listed by their parents.
Placed(V, g, root, entries) ==
  /\ \A p \in DOMAIN entries : IsNode(entries[p])
  /\ ROOT \in DOMAIN entries /\ entries[ROOT].isDir = TRUE /\ entries[ROOT].cid = root
  /\ ToSet(entries[ROOT].children) \subseteq {j.path : j \in {k \in Held(V, ROOT) : ~k.isDir}}
  /\ \A p \in DOMAIN entries \ {ROOT} : \E k \in V : k.path = p /\ NodeOf(V, g, entries[p], k)
  /\ \A p \in DOMAIN entries \ {ROOT} :
       LET q == ParentOf(entries[p])
       IN  q \in DOMAIN entries /\ ((entries[p].isDir /\ q = ROOT) \/ p \in ToSet(entries[q].children))

\* A CID that has an entry is the entry's.
IndexesEntries(entries, index) == \A c \in DOMAIN index : index[c] \in DOMAIN entries /\ entries[index[c]].cid = c

\* An entry with the CID of k, and the entry of its parent.
LEMMA PlacedEntered ==
  ASSUME NEW V, NEW g, NEW root, WellMade(V, g, root), NEW t, IsTree(t), Placed(V, g, root, t.entries),
         IndexesEntries(t.entries, t.cidToEntry),
         NEW d \in DOMAIN t.entries, IsPlace(V, d), NEW k \in Held(V, d),
         NEW new, new = R!Entered(t, d, <<k.name, g[k]>>)
  PROVE  /\ Placed(V, g, root, new.entries) /\ IndexesEntries(new.entries, new.cidToEntry)
         /\ DOMAIN new.entries = DOMAIN t.entries \union {k.path}
         /\ DOMAIN new.cidToEntry = DOMAIN t.cidToEntry \union {g[k]}
<1> DEFINE l == <<k.name, g[k]>>
           key == k.path
           now == new.entries
<1>1. l[1] = k.name /\ l[2] = g[k] /\ key = k.path
  OBVIOUS
<1>2. /\ k \in V /\ key = R!EntryKey(d, l[1]) /\ key # d /\ key # ROOT
      /\ Front(k.path) = (IF d = ROOT THEN << >> ELSE d)
      /\ (IF Front(k.path) = << >> THEN ROOT ELSE Front(k.path)) = d
      /\ k.isDir \in BOOLEAN /\ (IsDirectory(l[2]) <=> k.isDir)
  BY <1>1, HeldPlaces
<1>3. \A p \in DOMAIN t.entries : IsNode(t.entries[p])
  BY DEF Placed
<1>4. new = R!Entered(t, d, l)
  OBVIOUS
<1>5. now = R!Entered(t, d, l).entries /\ new.cidToEntry = R!Entered(t, d, l).cidToEntry
  BY <1>4
<1> HIDE DEF l, key, now
<1>6. /\ new.cidToEntry = R!With(t.cidToEntry, l[2], key)
      /\ DOMAIN now = DOMAIN t.entries \union {key}
  BY <1>2, <1>5, EnteredTree
<1>7. EnteredAs(t, d, l, key, now)
  BY <1>2, <1>3, <1>5, EnteredEntries
<1>8. /\ IsNode(now[key]) /\ now[key].cid = l[2]
      /\ LET old == t.entries[key]
         IN  key \in DOMAIN t.entries => /\ now[key].name = old.name /\ now[key].isDir = old.isDir
                                         /\ now[key].path = old.path /\ now[key].children = old.children
      /\ key \notin DOMAIN t.entries => /\ now[key].name = l[1] /\ now[key].isDir = IsDirectory(l[2])
                                        /\ now[key].path = (IF d = ROOT THEN << >> ELSE d)
                                        /\ now[key].children = << >>
      /\ IsNode(now[d])
      /\ now[d].name = t.entries[d].name /\ now[d].isDir = t.entries[d].isDir
      /\ now[d].path = t.entries[d].path /\ now[d].cid = t.entries[d].cid
      /\ ToSet(now[d].children) =
           IF d = ROOT /\ IsDirectory(l[2]) THEN ToSet(t.entries[d].children) ELSE ToSet(t.entries[d].children) \union {key}
      /\ \A p \in DOMAIN t.entries \ {key, d} : now[p] = t.entries[p]
  BY <1>7 DEF EnteredAs
<1>9. \A x, y \in V : x.path = y.path => x = y
  BY DEF WellMade, Tree
<1>10. NodeOf(V, g, now[key], k)
  <2>1. CASE key \in DOMAIN t.entries
    <3>1. PICK j \in V : j.path = key /\ NodeOf(V, g, t.entries[key], j)
      BY <1>2, <2>1 DEF Placed
    <3>2. j = k
      BY <1>1, <1>2, <1>9, <3>1
    <3>3. QED
      BY <1>1, <1>8, <2>1, <3>1, <3>2 DEF NodeOf
  <2>2. CASE key \notin DOMAIN t.entries
    <3>1. IsDirectory(l[2]) \in BOOLEAN
      BY DEF IsDirectory, R!AnalyzeNode
    <3>2. now[key].isDir = k.isDir
      BY <1>2, <1>8, <2>2, <3>1
    <3>3. now[key].name = k.name /\ now[key].path = Front(k.path) /\ now[key].cid = g[k] /\ ToSet(now[key].children) = {}
      BY <1>1, <1>2, <1>8, <2>2 DEF ToSet
    <3>4. QED
      BY <3>2, <3>3 DEF NodeOf
  <2>3. QED
    BY <2>1, <2>2
<1>11. ASSUME NEW p \in DOMAIN t.entries
      PROVE  now[p].isDir = t.entries[p].isDir /\ now[p].path = t.entries[p].path /\ ToSet(t.entries[p].children) \subseteq ToSet(now[p].children)
             /\ IsNode(now[p]) /\ now[p].cid = t.entries[p].cid
  <2>1. CASE p = key
    <3>1. PICK j \in V : j.path = key /\ NodeOf(V, g, t.entries[key], j)
      BY <1>2, <2>1 DEF Placed
    <3>2. j = k
      BY <1>1, <1>2, <1>9, <3>1
    <3>3. t.entries[key].cid = l[2]
      BY <1>1, <3>1, <3>2 DEF NodeOf
    <3>4. QED
      BY <1>8, <2>1, <3>3
  <2>2. CASE p = d
    BY <1>8, <2>2
  <2>3. CASE p \notin {key, d}
    BY <1>3, <1>8, <2>3
  <2>4. QED
    BY <2>1, <2>2, <2>3
<1>12. \A p \in DOMAIN now : IsNode(now[p])
  BY <1>6, <1>8, <1>11
<1>13. ROOT \in DOMAIN now /\ now[ROOT].isDir = TRUE /\ now[ROOT].cid = root
  BY <1>6, <1>11 DEF Placed
<1>14. ToSet(now[ROOT].children) \subseteq {j.path : j \in {x \in Held(V, ROOT) : ~x.isDir}}
  <2>1. ToSet(t.entries[ROOT].children) \subseteq {j.path : j \in {x \in Held(V, ROOT) : ~x.isDir}} /\ ROOT \in DOMAIN t.entries
    BY DEF Placed
  <2>2. CASE d = ROOT
    <3>1. k \in Held(V, ROOT) /\ (k.isDir <=> IsDirectory(l[2]))
      BY <1>2, <2>2
    <3>2. ToSet(now[ROOT].children) \subseteq ToSet(t.entries[ROOT].children) \union (IF k.isDir THEN {} ELSE {k.path})
      BY <1>1, <1>8, <2>2, <3>1
    <3>3. QED
      BY <2>1, <3>1, <3>2
  <2>3. CASE d # ROOT
    BY <1>1, <1>2, <1>8, <2>1, <2>3
  <2>4. QED
    BY <2>2, <2>3
<1>15. ASSUME NEW p \in DOMAIN now \ {ROOT} PROVE \E j \in V : j.path = p /\ NodeOf(V, g, now[p], j)
  <2>1. CASE p = key
    BY <1>1, <1>2, <1>10, <2>1
  <2>2. CASE p # key
    <3>1. p \in DOMAIN t.entries \ {ROOT}
      BY <1>6, <2>2
    <3>2. PICK j \in V : j.path = p /\ NodeOf(V, g, t.entries[p], j)
      BY <3>1 DEF Placed
    <3>3. CASE p = d
      <4>1. k.path \in {i.path : i \in Held(V, j.path)}
        BY <3>2, <3>3
      <4>2. ToSet(now[p].children) \subseteq {i.path : i \in Held(V, j.path)}
        BY <1>1, <1>8, <3>2, <3>3, <4>1 DEF NodeOf
      <4>3. QED
        BY <1>8, <3>2, <3>3, <4>2 DEF NodeOf
    <3>4. CASE p # d
      BY <1>8, <2>2, <3>1, <3>2, <3>4
    <3>5. QED
      BY <3>3, <3>4
  <2>3. QED
    BY <2>1, <2>2
<1>16. ASSUME NEW p \in DOMAIN now \ {ROOT}
       PROVE  LET q == ParentOf(now[p])
              IN  q \in DOMAIN now /\ ((now[p].isDir /\ q = ROOT) \/ p \in ToSet(now[q].children))
  <2>1. CASE p = key
    <3>1. ParentOf(now[p]) = d
      BY <1>1, <1>2, <1>10, <2>1 DEF NodeOf, ParentOf
    <3>2. now[p].isDir = k.isDir
      BY <1>10, <2>1 DEF NodeOf
    <3>3. QED
      BY <1>2, <1>6, <1>8, <2>1, <3>1, <3>2
  <2>2. CASE p # key
    <3>1. p \in DOMAIN t.entries \ {ROOT}
      BY <1>6, <2>2
    <3> DEFINE q == ParentOf(t.entries[p])
    <3>2. q \in DOMAIN t.entries /\ ((t.entries[p].isDir /\ q = ROOT) \/ p \in ToSet(t.entries[q].children))
      BY <3>1 DEF Placed
    <3>3. ParentOf(now[p]) = q /\ now[p].isDir = t.entries[p].isDir
      BY <1>11, <3>1 DEF ParentOf
    <3>4. ToSet(t.entries[q].children) \subseteq ToSet(now[q].children)
      BY <1>11, <3>2
    <3> HIDE DEF q
    <3>5. QED
      BY <1>6, <3>2, <3>3, <3>4
  <2>3. QED
    BY <2>1, <2>2
<1>17. Placed(V, g, root, now)
  BY <1>12, <1>13, <1>14, <1>15, <1>16 DEF Placed
<1>18. IndexesEntries(now, new.cidToEntry)
  <2>1. ASSUME NEW c \in DOMAIN new.cidToEntry PROVE new.cidToEntry[c] \in DOMAIN now /\ now[new.cidToEntry[c]].cid = c
    <3>1. DOMAIN new.cidToEntry = DOMAIN t.cidToEntry \union {l[2]}
      BY <1>6 DEF R!With
    <3>2. CASE c = l[2]
      <4>1. new.cidToEntry[c] = key
        BY <1>6, <3>2 DEF R!With
      <4>2. QED
        BY <1>6, <1>8, <3>2, <4>1
    <3>3. CASE c # l[2]
      <4>1. c \in DOMAIN t.cidToEntry /\ new.cidToEntry[c] = t.cidToEntry[c]
        BY <1>6, <3>1, <3>3 DEF R!With
      <4>2. t.cidToEntry[c] \in DOMAIN t.entries /\ t.entries[t.cidToEntry[c]].cid = c
        BY <4>1 DEF IndexesEntries
      <4>3. QED
        BY <1>6, <1>11, <4>1, <4>2
    <3>4. QED
      BY <3>2, <3>3
  <2>2. QED
    BY <2>1 DEF IndexesEntries
<1>19. QED
  BY <1>1, <1>6, <1>17, <1>18 DEF R!With, now

\* The directories under walk have their own links.
FramesIn(V, g, entries, frames) ==
  \A f \in ToSet(frames) :
    /\ f.key \in DOMAIN entries /\ IsPlace(V, f.key)
    /\ IsList(f.links) /\ ToSet(f.links) \subseteq LinksBy(g, Held(V, f.key))
    /\ f.skips => f.key # ROOT

\* An entry k that a directory d holds was read, or skipped for another of its
\* CID, or its link is not walked yet.
Ahead(g, frames, d, k) == \E f \in ToSet(frames) : f.key = d /\ <<k.name, g[k]>> \in ToSet(f.links)
Met(g, entries, index, frames, d, k) ==
  \/ k.path \in DOMAIN entries
  \/ d # ROOT /\ g[k] \in DOMAIN index
  \/ Ahead(g, frames, d, k)

AllMet(V, g, entries, index, frames) ==
  \A d \in DOMAIN entries : IsPlace(V, d) => \A k \in Held(V, d) : Met(g, entries, index, frames, d, k)

TreeInv(V, g, root, t, frames) ==
  /\ Placed(V, g, root, t.entries)
  /\ IndexesEntries(t.entries, t.cidToEntry)
  /\ FramesIn(V, g, t.entries, frames)
  /\ AllMet(V, g, t.entries, t.cidToEntry, frames)

\* The link that is walked, and what is left of the walk.
LEMMA LinkPassed ==
  ASSUME ReaderTypes, R!Walking, NEW V, NEW g, FramesIn(V, g, got.entries, stack)
  PROVE  LET d == Head(stack).key
         IN  /\ d \in DOMAIN got.entries /\ IsPlace(V, d) /\ (Head(stack).skips => d # ROOT)
             /\ \E k \in Held(V, d) : R!Link = <<k.name, g[k]>>
             /\ FramesIn(V, g, got.entries, R!Passed)
             /\ \A b, k : Ahead(g, stack, b, k) => \/ Ahead(g, R!Passed, b, k)
                                                   \/ b = d /\ R!Link = <<k.name, g[k]>>
<1> DEFINE f == Head(stack)
           h == TopPassed
<1>1. /\ IsList(stack) /\ stack # << >> /\ f \in ToSet(stack)
      /\ h = [key |-> f.key, links |-> Tail(f.links), skips |-> f.skips]
  BY PassedFrame
<1>2. /\ ToSet(R!Passed) = {h} \union ToSet(Tail(stack)) /\ ToSet(stack) = {f} \union ToSet(Tail(stack))
  BY <1>1, PassedStack
<1>3. f.links # << >> /\ R!Link = Head(f.links)
  BY DEF R!Walking, R!Link
<1> HIDE DEF f, h
<1>4. /\ f.key \in DOMAIN got.entries /\ IsPlace(V, f.key)
      /\ IsList(f.links) /\ ToSet(f.links) \subseteq LinksBy(g, Held(V, f.key))
      /\ f.skips => f.key # ROOT
  BY <1>1 DEF FramesIn
<1>5. IsList(Tail(f.links)) /\ ToSet(f.links) = ToSet(Tail(f.links)) \union {R!Link}
  BY <1>3, <1>4, HeadAndTail
<1>6. h.key = f.key /\ h.links = Tail(f.links) /\ h.skips = f.skips
  BY <1>1
<1>7. \E k \in Held(V, f.key) : R!Link = <<k.name, g[k]>>
  BY <1>4, <1>5 DEF LinksBy
<1>8. FramesIn(V, g, got.entries, R!Passed)
  BY <1>2, <1>4, <1>5, <1>6 DEF FramesIn
<1>9. ASSUME NEW b, NEW k, Ahead(g, stack, b, k)
      PROVE  Ahead(g, R!Passed, b, k) \/ (b = f.key /\ R!Link = <<k.name, g[k]>>)
  <2>1. PICK e \in ToSet(stack) : e.key = b /\ <<k.name, g[k]>> \in ToSet(e.links)
    BY <1>9 DEF Ahead
  <2>2. CASE e = f
    BY <1>2, <1>5, <1>6, <2>1, <2>2 DEF Ahead
  <2>3. CASE e # f
    BY <1>2, <2>1, <2>3 DEF Ahead
  <2>4. QED
    BY <2>2, <2>3
<1>10. QED
  BY <1>4, <1>7, <1>8, <1>9 DEF f

LEMMA TreeLeft ==
  ASSUME ReaderTypes, NEW V, NEW g, NEW root, TreeInv(V, g, root, got, stack), R!LeaveDirectory
  PROVE  TreeInv(V, g, root, got', stack')
<1>1. rpc = "walk" /\ stack # << >> /\ Head(stack).links = << >> /\ stack' = Tail(stack) /\ got' = got
  BY DEF R!LeaveDirectory
<1>2. IsList(stack)
  BY <1>1 DEF ReaderTypes, HasTree
<1>3. ToSet(stack) = ToSet(stack') \union {Head(stack)}
  BY <1>1, <1>2, HeadAndTail
<1>4. ToSet(Head(stack).links) = {}
  BY <1>1 DEF ToSet
<1>5. \A b, k : Ahead(g, stack, b, k) => Ahead(g, stack', b, k)
  BY <1>3, <1>4 DEF Ahead
<1>6. FramesIn(V, g, got.entries, stack')
  BY <1>3 DEF TreeInv, FramesIn
<1>7. AllMet(V, g, got.entries, got.cidToEntry, stack')
  BY <1>5 DEF TreeInv, AllMet, Met
<1>8. QED
  BY <1>1, <1>6, <1>7 DEF TreeInv

LEMMA TreeSkipped ==
  ASSUME ReaderTypes, NEW V, NEW g, NEW root, TreeInv(V, g, root, got, stack), R!SkipLink
  PROVE  TreeInv(V, g, root, got', stack')
<1> DEFINE d == Head(stack).key
<1>1. /\ R!Walking /\ stack' = R!Passed /\ got' = got
      /\ Head(stack).skips /\ R!Link[2] \in DOMAIN got.cidToEntry
  BY DEF R!SkipLink, R!Skipped
<1>2. /\ d # ROOT /\ FramesIn(V, g, got.entries, stack')
      /\ \A b, k : Ahead(g, stack, b, k) => Ahead(g, stack', b, k) \/ (b = d /\ R!Link = <<k.name, g[k]>>)
  BY <1>1, LinkPassed DEF TreeInv
<1> HIDE DEF d
<1>3. \A k : R!Link = <<k.name, g[k]>> => g[k] \in DOMAIN got.cidToEntry
  BY <1>1
<1>4. AllMet(V, g, got.entries, got.cidToEntry, stack')
  BY <1>2, <1>3 DEF TreeInv, AllMet, Met
<1>5. QED
  BY <1>1, <1>2, <1>4 DEF TreeInv

LEMMA TreeWalked ==
  ASSUME CarInvs, ReaderTypes, NotReserved(source.tree),
         NEW V, NEW g, NEW root, WellMade(V, g, root), TreeInv(V, g, root, got, stack), R!WalkLink
  PROVE  TreeInv(V, g, root, got', stack')
<1> DEFINE d == Head(stack).key
           x == R!Link[2]
           frame == [key |-> R!EntryKey(d, R!Link[1]), links |-> R!LinkSeq(x), skips |-> TRUE]
<1>1. /\ R!Walking /\ rpc = "walk" /\ x \in car.blocks /\ got' = R!Entered(got, d, R!Link)
      /\ IF IsDirectory(x) THEN stack' = <<frame>> \o R!Passed ELSE stack' = R!Passed
  BY DEF R!WalkLink, R!Walking, R!Has, IsDirectory
<1>2. /\ IsTree(got) /\ IsList(stack) /\ stack # << >>
  BY <1>1, PassedFrame
<1>3. /\ d \in DOMAIN got.entries /\ IsPlace(V, d)
      /\ FramesIn(V, g, got.entries, R!Passed)
      /\ \A b, k : Ahead(g, stack, b, k) => Ahead(g, R!Passed, b, k) \/ (b = d /\ R!Link = <<k.name, g[k]>>)
  BY <1>1, LinkPassed DEF TreeInv
<1>4. PICK k \in Held(V, d) : R!Link = <<k.name, g[k]>>
  BY <1>1, LinkPassed DEF TreeInv
<1>5. x = g[k] /\ R!Link[1] = k.name
  BY <1>4
<1> HIDE DEF d
<1>6. /\ k \in V /\ R!EntryKey(d, k.name) = k.path /\ k.path # ROOT /\ (IsDirectory(g[k]) <=> k.isDir)
  BY <1>3, HeldPlaces
<1>7. frame = [key |-> k.path, links |-> R!LinkSeq(x), skips |-> TRUE]
  BY <1>5, <1>6
<1>8. frame.key = k.path /\ frame.links = R!LinkSeq(x)
  BY <1>7
<1> HIDE DEF frame, x
<1>9. /\ Placed(V, g, root, got'.entries) /\ IndexesEntries(got'.entries, got'.cidToEntry)
      /\ DOMAIN got'.entries = DOMAIN got.entries \union {k.path}
      /\ DOMAIN got'.cidToEntry = DOMAIN got.cidToEntry \union {g[k]}
  BY <1>1, <1>2, <1>3, <1>4, PlacedEntered DEF TreeInv
<1>10. IsList(R!Passed) /\ ToSet(<<frame>> \o R!Passed) = {frame} \union ToSet(R!Passed)
  BY <1>2, PassedStack, Pushed
<1>11. ToSet(R!Passed) \subseteq ToSet(stack')
  BY <1>1, <1>10
<1>12. ASSUME k.isDir
       PROVE  /\ frame \in ToSet(stack') /\ IsPlace(V, k.path)
              /\ IsList(frame.links) /\ ToSet(frame.links) = LinksBy(g, Held(V, k.path))
  <2>1. PlaceCid(V, g, root, k.path, x)
    BY <1>5, <1>6, <1>12 DEF PlaceCid
  <2>2. Ordered(x)
    <3>1. x \in Blocks(summary)
      BY <1>1, CarFacts DEF Blocks
    <3>2. QED
      BY <1>1, <3>1, CarFacts
  <2>3. IsPlace(V, k.path) /\ IsList(R!LinkSeq(x)) /\ ToSet(R!LinkSeq(x)) = LinksBy(g, Held(V, k.path))
    BY <2>1, <2>2, PlaceLinks
  <2>4. stack' = <<frame>> \o R!Passed
    BY <1>1, <1>5, <1>6, <1>12
  <2>5. QED
    BY <1>8, <1>10, <2>3, <2>4
<1>13. FramesIn(V, g, got'.entries, stack')
  <2>1. ToSet(stack') \subseteq {frame} \union ToSet(R!Passed) /\ (~k.isDir => ToSet(stack') = ToSet(R!Passed))
    BY <1>1, <1>5, <1>6, <1>10
  <2>2. FramesIn(V, g, got'.entries, R!Passed)
    BY <1>3, <1>9 DEF FramesIn
  <2>3. k.isDir => /\ frame.key \in DOMAIN got'.entries /\ IsPlace(V, frame.key)
                   /\ IsList(frame.links) /\ ToSet(frame.links) \subseteq LinksBy(g, Held(V, frame.key))
                   /\ (frame.skips => frame.key # ROOT)
    BY <1>6, <1>8, <1>9, <1>12
  <2>4. QED
    BY <2>1, <2>2, <2>3 DEF FramesIn
<1>14. ASSUME NEW b \in DOMAIN got'.entries, IsPlace(V, b), NEW j \in Held(V, b)
       PROVE  Met(g, got'.entries, got'.cidToEntry, stack', b, j)
  <2>1. CASE b = k.path
    <3>1. k.isDir
      <4>1. PICK y \in V : y.isDir /\ y.path = k.path
        BY <1>6, <1>14, <2>1 DEF IsPlace
      <4>2. y = k
        BY <1>6, <4>1 DEF WellMade, Tree
      <4>3. QED
        BY <4>1, <4>2
    <3>2. <<j.name, g[j]>> \in ToSet(frame.links)
      BY <1>12, <1>14, <2>1, <3>1 DEF LinksBy
    <3>3. QED
      BY <1>8, <1>12, <2>1, <3>1, <3>2 DEF Met, Ahead
  <2>2. CASE b # k.path
    <3>1. Met(g, got.entries, got.cidToEntry, stack, b, j)
      BY <1>9, <1>14, <2>2 DEF TreeInv, AllMet
    <3>2. Ahead(g, R!Passed, b, j) => Ahead(g, stack', b, j)
      BY <1>11 DEF Ahead
    <3>3. ASSUME b = d, R!Link = <<j.name, g[j]>> PROVE j.path = k.path
      <4>1. R!EntryKey(d, j.name) = j.path
        BY <1>3, <1>14, <3>3, HeldPlaces
      <4>2. j.name = k.name
        BY <1>4, <3>3
      <4>3. QED
        BY <1>6, <4>1, <4>2
    <3>4. QED
      BY <1>3, <1>9, <3>1, <3>2, <3>3 DEF Met
  <2>3. QED
    BY <2>1, <2>2
<1>15. QED
  BY <1>9, <1>13, <1>14 DEF TreeInv, AllMet

\* The walk begins with the entry of the root.
LEMMA TreeFirst ==
  ASSUME NEW V, NEW g, NEW root, WellMade(V, g, root), Ordered(root), NEW frame,
         frame = [key |-> ROOT, links |-> R!LinkSeq(root), skips |-> FALSE]
  PROVE  TreeInv(V, g, root, R!DirectoryTree(root), <<frame>>)
<1> DEFINE t == R!DirectoryTree(root)
           e == R!Entry("ROOT", TRUE, << >>, root, << >>, 0)
<1>1. DOMAIN t.entries = {ROOT} /\ t.cidToEntry = [x \in {root} |-> ROOT]
  BY FirstTrees
<1>2. t.entries[ROOT] = e
  <2>1. t = [root |-> root, order |-> << >>, sizes |-> << >>, total |-> 0,
             entries |-> [p \in {ROOT} |-> e], cidToEntry |-> [x \in {root} |-> ROOT]]
    BY SameBlocks DEF R!DirectoryTree
  <2> DEFINE f == [p \in {ROOT} |-> e]
  <2>2. f[ROOT] = e
    OBVIOUS
  <2> HIDE DEF t, f, e
  <2>3. t.entries = f
    BY <2>1 DEF f
  <2>4. QED
    BY <2>2, <2>3
<1>3. /\ e = [name |-> "ROOT", isDir |-> TRUE, path |-> << >>, cid |-> root, children |-> << >>, size |-> 0]
  BY DEF R!Entry
<1> HIDE DEF e, t
<1>4. IsNode(e) /\ e.isDir = TRUE /\ e.cid = root /\ ToSet(e.children) = {}
  <2>1. /\ e.isDir = TRUE /\ e.cid = root /\ e.children = << >>
        /\ e = [name |-> e.name, isDir |-> e.isDir, path |-> e.path, cid |-> e.cid, children |-> e.children, size |-> e.size]
    BY <1>3
  <2>2. ToSet(<< >>) = {}
    BY DEF ToSet
  <2>3. QED
    BY <2>1, <2>2, EmptyList DEF IsNode
<1>5. Placed(V, g, root, t.entries)
  BY <1>1, <1>2, <1>4 DEF Placed
<1>6. IndexesEntries(t.entries, t.cidToEntry)
  BY <1>1, <1>2, <1>4 DEF IndexesEntries
<1>7. ToSet(<<frame>>) = {frame}
  <2>1. DOMAIN <<frame>> = {1} /\ <<frame>>[1] = frame
    OBVIOUS
  <2>2. QED
    BY <2>1 DEF ToSet
<1>8. frame.key = ROOT /\ frame.links = R!LinkSeq(root) /\ frame.skips = FALSE
  OBVIOUS
<1>9. IsPlace(V, ROOT) /\ IsList(frame.links) /\ ToSet(frame.links) = LinksBy(g, Held(V, ROOT))
  <2>1. PlaceCid(V, g, root, ROOT, root)
    BY DEF PlaceCid
  <2>2. QED
    BY <1>8, <2>1, PlaceLinks
<1>10. FramesIn(V, g, t.entries, <<frame>>)
  BY <1>1, <1>7, <1>8, <1>9 DEF FramesIn
<1>11. AllMet(V, g, t.entries, t.cidToEntry, <<frame>>)
  <2>1. \A k \in Held(V, ROOT) : <<k.name, g[k]>> \in ToSet(frame.links)
    BY <1>9 DEF LinksBy
  <2>2. \A k \in Held(V, ROOT) : Ahead(g, <<frame>>, ROOT, k)
    BY <1>7, <1>8, <2>1 DEF Ahead
  <2>3. QED
    BY <1>1, <2>2 DEF AllMet, Met
<1>12. QED
  BY <1>5, <1>6, <1>10, <1>11 DEF TreeInv, t

\* The tree that is made is that of the summary.
StructInv ==
  HasTree /\ Ordinary /\ IsDirectory(summary.root) =>
    LET V == Visible(source.tree)
    IN  TreeInv(V, CidsIn(V, summary.entries), summary.root, got, stack)

\* What is known of a summary whose root is a directory.
LEMMA SummaryMade ==
  ASSUME CarInvs, Built, Ordinary, IsDirectory(summary.root), NEW V, V = Visible(source.tree)
  PROVE  /\ WellMade(V, CidsIn(V, summary.entries), summary.root)
         /\ Listing(summary.entries, V, Barren(V))
<1> DEFINE g == CidsIn(V, summary.entries)
<1>1. NotReserved(source.tree) /\ source.tree \in Trees /\ Published(summary, V)
  BY DEF Ordinary, CarInvs, PublishedInv
<1>2. Tree(V)
  BY <1>1, VisibleTree
<1>3. \A it \in V : it.path # CurrentDir
  BY DEF Ordinary, Visible
<1>4. summary.root = summary.entries[ROOT].cid /\ Finished(V, summary.entries, summary.order, summary.cidToEntry)
  <2>1. \A content : summary.root # FileCid(content)
    BY DirectoryBlocks
  <2>2. QED
    BY <1>1, <2>1 DEF Published
<1>5. \A x \in V : g[x] = IF x.isDir THEN DirCid(LinksBy(g, Inside(V, x.path) \intersect WithFiles(V)))
                                     ELSE FileCid(x.content)
  BY <1>4 DEF Finished, Hashed
<1>6. summary.root = DirCid(LinksBy(g, Inside(V, << >>)))
  BY <1>4 DEF Finished
<1>7. QED
  BY <1>2, <1>3, <1>4, <1>5, <1>6 DEF WellMade, Finished

LEMMA TreeKept ==
  ASSUME NEW V, NEW g, NEW root, NEW t, NEW u, NEW frames, TreeInv(V, g, root, t, frames),
         u.entries = t.entries, u.cidToEntry = t.cidToEntry
  PROVE  TreeInv(V, g, root, u, frames)
BY DEF TreeInv

LEMMA StructStep ==
  ASSUME CarInvs, ReaderTypes, StructInv, RTNext
  PROVE  StructInv'
<1>1. CASE StreamCAR
  <2>1. rpc' = "idle" /\ routcome' = "none"
    BY <1>1 DEF StreamCAR, Unused, R!Reading, reader
  <2>2. QED
    BY <2>1 DEF StructInv, HasTree
<1>2. CASE Read
  <2>1. PICK file \in Files : R!ReadCAR(file)
    BY <1>2 DEF Read
  <2>2. rpc' = "index" /\ routcome' = "none"
    BY <2>1 DEF R!ReadCAR
  <2>3. QED
    BY <2>2 DEF StructInv, HasTree
<1>3. CASE Load \/ LoadStep
  <2>1. UNCHANGED <<vars, rpc, stack, got, routcome>>
    BY <1>3 DEF Load, LoadStep, reader
  <2>2. UNCHANGED <<source, summary>>
    BY <2>1, BuilderRests
  <2>3. QED
    BY <2>1, <2>2 DEF StructInv, HasTree, Ordinary
<1>4. CASE ReadStep
  <2>1. UNCHANGED vars /\ car' = car /\ rpc # "idle" /\ UNCHANGED <<source, summary>>
    BY <1>4, CarStays, BuilderRests DEF ReadStep
  <2>2. routcome = "none"
    BY <2>1 DEF ReaderTypes
  <2>3. SUFFICES ASSUME HasTree', Ordinary, IsDirectory(summary.root), NEW V, V = Visible(source.tree),
                        NEW g, g = CidsIn(V, summary.entries), NEW root, root = summary.root
                 PROVE  TreeInv(V, g, root, got', stack')
    BY <2>1 DEF StructInv, Ordinary
  <2>4. /\ Built /\ NotReserved(source.tree) /\ WellMade(V, g, root)
        /\ car.root = root /\ root \in Blocks(summary) /\ Ordered(root)
    <3>1. Built /\ NotReserved(source.tree) /\ car.root = root
      BY <2>1, <2>3, CarFacts DEF Ordinary
    <3>2. Closed(summary, DAG) /\ \A c \in Blocks(summary) : Ordered(c)
      BY <2>1, <3>1, CarFacts
    <3>3. QED
      BY <2>3, <3>1, <3>2, SummaryMade DEF Closed, Blocks
  <2>5. HasTree => TreeInv(V, g, root, got, stack)
    BY <2>3 DEF StructInv
  <2>6. CASE R!OpenRoot
    <3> DEFINE frame == [key |-> R!ROOT, links |-> R!LinkSeq(car.root), skips |-> FALSE]
    <3>1. got' = R!DirectoryTree(root) /\ stack' = <<frame>>
      BY <2>3, <2>4, <2>6 DEF R!OpenRoot, IsDirectory
    <3>2. frame = [key |-> ROOT, links |-> R!LinkSeq(root), skips |-> FALSE]
      BY <2>4, SameBlocks
    <3> HIDE DEF frame
    <3>3. TreeInv(V, g, root, R!DirectoryTree(root), <<frame>>)
      BY <2>4, <3>2, TreeFirst
    <3>4. QED
      BY <3>1, <3>3
  <2>7. CASE R!WalkLink \/ R!SkipLink \/ R!LeaveDirectory
    <3>1. HasTree
      BY <2>7 DEF HasTree, R!WalkLink, R!SkipLink, R!LeaveDirectory, R!Walking
    <3>2. QED
      BY <2>4, <2>5, <2>7, <3>1, TreeWalked, TreeSkipped, TreeLeft
  <2>8. CASE R!StartBlocks \/ R!TakeCid \/ R!TakeSize \/ R!TakeLinks \/ R!FinishRead \/ R!Cancel
    <3>1. stack' = stack
      BY <2>8 DEF R!StartBlocks, R!TakeCid, R!TakeSize, R!TakeLinks, R!FinishRead, R!Cancel
    <3>2. HasTree
      BY <2>2, <2>3, <2>8 DEF HasTree, R!StartBlocks, R!TakeCid, R!TakeSize, R!TakeLinks, R!FinishRead, R!Cancel
    <3>3. got'.entries = got.entries /\ got'.cidToEntry = got.cidToEntry
      <4>1. CASE R!TakeSize
        <5>1. got' = R!ListedBlock(got, current)
          BY <4>1 DEF R!TakeSize
        <5>2. QED
          BY <3>2, <5>1, ListedTree DEF ReaderTypes
      <4>2. CASE got' = got
        BY <4>2
      <4>3. QED
        BY <2>8, <4>1, <4>2 DEF R!StartBlocks, R!TakeCid, R!TakeLinks, R!FinishRead, R!Cancel
    <3>4. QED
      BY <2>5, <3>1, <3>2, <3>3, TreeKept
  <2>9. CASE R!IndexAll \/ R!IndexFails \/ R!RootFails \/ R!WalkFails \/ R!Stop
    <3>1. rpc' \in {"root", "idle"} /\ routcome' # "read"
      BY <2>2, <2>9 DEF R!IndexAll, R!IndexFails, R!RootFails, R!WalkFails, R!Stop, R!Fail
    <3>2. QED
      BY <2>3, <3>1 DEF HasTree
  <2>10. QED
    BY <1>4, <2>6, <2>7, <2>8, <2>9 DEF ReadStep, R!Advance
<1>5. QED
  BY <1>1, <1>2, <1>3, <1>4 DEF RTNext

LEMMA StructInvariance == RTSpec => []StructInv
<1>1. RTInit => StructInv
  <2>1. RTInit => rpc = "idle" /\ routcome = "none"
    BY DEF RTInit, R!Init
  <2>2. QED
    BY <2>1 DEF StructInv, HasTree
<1>2. CarInvs /\ ReaderTypes /\ StructInv /\ [RTNext]_allVars => StructInv'
  <2>1. SUFFICES ASSUME StructInv, UNCHANGED allVars PROVE StructInv'
    BY StructStep
  <2>2. UNCHANGED <<vars, rpc, stack, got, routcome>>
    BY <2>1 DEF allVars, reader
  <2>3. UNCHANGED <<source, summary>>
    BY <2>2, BuilderRests
  <2>4. QED
    BY <2>1, <2>2, <2>3 DEF StructInv, HasTree, Ordinary
<1>3. QED
  BY <1>1, <1>2, CarInvariance, ReaderTypesInvariance, PTL DEF RTSpec

\* The tree of a walk that is over.
LEMMA TreeRead ==
  ASSUME CarInvs, ReaderTypes, StructInv, ReadBack, Ordinary, R!AnalyzeNode(summary.root).isDir,
         NEW V, V = Visible(source.tree), NEW g, g = CidsIn(V, summary.entries)
  PROVE  /\ WellMade(V, g, summary.root) /\ Listing(summary.entries, V, Barren(V))
         /\ Placed(V, g, summary.root, got.entries) /\ IndexesEntries(got.entries, got.cidToEntry)
         /\ \A d \in DOMAIN got.entries : IsPlace(V, d) => \A k \in Held(V, d) :
              k.path \in DOMAIN got.entries \/ (d # ROOT /\ g[k] \in DOMAIN got.cidToEntry)
<1>1. HasTree /\ routcome = "read" /\ rpc = "idle" /\ stack = << >>
  BY DEF ReadBack, HasTree, ReaderTypes
<1>2. Built
  BY <1>1, CarFacts
<1>3. WellMade(V, g, summary.root) /\ Listing(summary.entries, V, Barren(V))
  BY <1>2, SummaryMade DEF IsDirectory
<1>4. TreeInv(V, g, summary.root, got, << >>)
  BY <1>1 DEF StructInv, IsDirectory
<1>5. \A d, k : ~Ahead(g, << >>, d, k)
  BY DEF Ahead, ToSet
<1>6. QED
  BY <1>3, <1>4, <1>5 DEF TreeInv, AllMet, Met

\* An entry that was read, and that of the summary.
LEMMA EntryRead ==
  ASSUME NEW V, NEW g, NEW entries, g = CidsIn(V, entries), Tree(V), Listing(entries, V, Barren(V)),
         NEW k \in V, NEW e, NodeOf(V, g, e, k)
  PROVE  /\ k.path \in DOMAIN entries
         /\ \A f \in {"name", "isDir", "path", "cid"} : e[f] = entries[k.path][f]
         /\ ToSet(e.children) \subseteq ToSet(entries[k.path].children)
<1> DEFINE old == entries[k.path]
<1>1. /\ k.path \in DOMAIN entries /\ k.path # ROOT
      /\ old.name = k.name /\ old.isDir = k.isDir /\ old.path = Front(k.path)
      /\ ToSet(old.children) = {j.path : j \in Inside(V, k.path)} \ Barren(V)
  BY DEF Listing, EntryFor, Tree
<1>2. g[k] = old.cid
  BY DEF CidsIn
<1> HIDE DEF old
<1>3. /\ e.name = old.name /\ e.isDir = old.isDir /\ e.path = old.path /\ e.cid = old.cid
      /\ ToSet(e.children) \subseteq {j.path : j \in Held(V, k.path)}
  BY <1>1, <1>2 DEF NodeOf
<1>4. ASSUME NEW j \in Held(V, k.path) PROVE j.path \in ToSet(old.children)
  <2>1. j \in Inside(V, k.path) /\ HasFile(V, j.path)
    BY <1>1 DEF Held, WithFiles
  <2>2. j.path \notin Barren(V)
    BY <2>1 DEF Barren
  <2>3. QED
    BY <1>1, <2>1, <2>2
<1>5. QED
  BY <1>1, <1>3, <1>4 DEF old

LEMMA StructureRead ==
  ASSUME CarInvs, ReaderTypes, StructInv, ReadBack, Ordinary, R!AnalyzeNode(summary.root).isDir
  PROVE  /\ \A p \in DOMAIN got.entries \ {ROOT} :
              LET e == got.entries[p]
                  parent == IF e.path = << >> THEN ROOT ELSE e.path
              IN  /\ p \in DOMAIN summary.entries
                  /\ \A f \in {"name", "isDir", "path", "cid"} : e[f] = summary.entries[p][f]
                  /\ ToSet(e.children) \subseteq ToSet(summary.entries[p].children)
                  /\ parent \in DOMAIN got.entries
                  /\ (e.isDir /\ parent = ROOT) \/ Contains(got.entries[parent].children, p)
         /\ ToSet(got.entries[ROOT].children) = ToSet(summary.entries[ROOT].children)
<1>1. PICK V : V = Visible(source.tree)
  OBVIOUS
<1>2. PICK g : g = CidsIn(V, summary.entries)
  OBVIOUS
<1>3. /\ Tree(V) /\ Listing(summary.entries, V, Barren(V))
      /\ Placed(V, g, summary.root, got.entries)
      /\ \A d \in DOMAIN got.entries : IsPlace(V, d) => \A k \in Held(V, d) :
           k.path \in DOMAIN got.entries \/ (d # ROOT /\ g[k] \in DOMAIN got.cidToEntry)
  BY <1>1, <1>2, TreeRead DEF WellMade
<1>4. ASSUME NEW q \in DOMAIN got.entries, NEW p \in ToSet(got.entries[q].children)
      PROVE  Contains(got.entries[q].children, p)
  <2>1. IsList(got.entries[q].children)
    BY <1>3 DEF Placed, IsNode
  <2>2. DOMAIN got.entries[q].children = 1..Len(got.entries[q].children)
    BY <2>1, ListProperties
  <2>3. QED
    BY <1>4, <2>2 DEF Contains, ToSet
<1>5. ASSUME NEW p \in DOMAIN got.entries \ {ROOT}
      PROVE  LET e == got.entries[p]
                 parent == IF e.path = << >> THEN ROOT ELSE e.path
             IN  /\ p \in DOMAIN summary.entries
                 /\ \A f \in {"name", "isDir", "path", "cid"} : e[f] = summary.entries[p][f]
                 /\ ToSet(e.children) \subseteq ToSet(summary.entries[p].children)
                 /\ parent \in DOMAIN got.entries
                 /\ (e.isDir /\ parent = ROOT) \/ Contains(got.entries[parent].children, p)
  <2> DEFINE e == got.entries[p]
             parent == IF e.path = << >> THEN ROOT ELSE e.path
  <2>1. PICK k \in V : k.path = p /\ NodeOf(V, g, e, k)
    BY <1>3, <1>5 DEF Placed
  <2>2. /\ p \in DOMAIN summary.entries
        /\ \A f \in {"name", "isDir", "path", "cid"} : e[f] = summary.entries[p][f]
        /\ ToSet(e.children) \subseteq ToSet(summary.entries[p].children)
    <3> HIDE DEF e
    <3>1. QED
      BY <1>2, <1>3, <2>1, EntryRead
  <2>3. parent = ParentOf(e)
    BY DEF ParentOf
  <2>4. parent \in DOMAIN got.entries /\ ((e.isDir /\ parent = ROOT) \/ p \in ToSet(got.entries[parent].children))
    BY <1>3, <1>5, <2>3 DEF Placed
  <2>5. (e.isDir /\ parent = ROOT) \/ Contains(got.entries[parent].children, p)
    BY <1>4, <2>4
  <2>6. QED
    BY <2>2, <2>4, <2>5
<1>6. ToSet(got.entries[ROOT].children) = ToSet(summary.entries[ROOT].children)
  <2>1. ToSet(summary.entries[ROOT].children) = {k.path : k \in {x \in Held(V, ROOT) : ~x.isDir}}
    BY <1>3 DEF Listing, Held
  <2>2. ToSet(got.entries[ROOT].children) \subseteq ToSet(summary.entries[ROOT].children) /\ ROOT \in DOMAIN got.entries
    BY <1>3, <2>1 DEF Placed
  <2>3. ASSUME NEW k \in Held(V, ROOT), ~k.isDir PROVE k.path \in ToSet(got.entries[ROOT].children)
    <3>1. k.path \in DOMAIN got.entries /\ k \in V /\ Front(k.path) = << >>
      BY <1>3, <2>2 DEF IsPlace, Held, Inside
    <3>2. k.path # ROOT
      BY <1>3, <3>1 DEF Tree
    <3>3. PICK j \in V : j.path = k.path /\ NodeOf(V, g, got.entries[k.path], j)
      BY <1>3, <3>1, <3>2 DEF Placed
    <3>4. j = k
      BY <1>3, <3>1, <3>3 DEF Tree
    <3>5. got.entries[k.path].path = << >> /\ ~got.entries[k.path].isDir
      BY <2>3, <3>1, <3>3, <3>4 DEF NodeOf
    <3>6. ParentOf(got.entries[k.path]) = ROOT
      BY <3>5 DEF ParentOf
    <3>7. QED
      BY <1>3, <3>1, <3>2, <3>5, <3>6 DEF Placed
  <2>4. QED
    BY <2>1, <2>2, <2>3
<1>7. QED
  BY <1>5, <1>6

\* No entry is invented, moved, or taken for another kind, and every entry is
\* listed by its parent (car_reconstructor.go:560-621): what is walked are
\* the links of a directory of the summary, under its own place, and names
\* tell them apart.
THEOREM StructureIsRead == RTSpec => []StructureSurvives
<1>1. CarInvs /\ ReaderTypes /\ StructInv => StructureSurvives
  BY StructureRead DEF StructureSurvives
<1>2. QED
  BY <1>1, CarInvariance, ReaderTypesInvariance, StructInvariance, PTL

\* What is above an entry are directories.
LEMMA PartsOfPath ==
  ASSUME NEW p, IsList(p), NEW n \in 1..Len(p)
  PROVE  LET s == SubSeq(p, 1, n)
         IN  /\ IsList(s) /\ s # << >> /\ Len(s) = n /\ \A i \in 1..n : s[i] = p[i]
             /\ n = Len(p) => s = p
             /\ n = 1 => Front(s) = << >>
             /\ n # 1 => n - 1 \in 1..Len(p) /\ Front(s) = SubSeq(p, 1, n - 1)
<1> DEFINE s == SubSeq(p, 1, n)
<1>1. Len(p) \in Nat /\ n \in Nat /\ 1 \in 1..(Len(p) + 1) /\ n \in 0..Len(p)
  BY ListProperties
<1>2. /\ IsList(s) /\ Len(s) = (IF 1 <= n THEN n - 1 + 1 ELSE 0)
      /\ \A j \in 1..(n - 1 + 1) : s[j] = p[1 + j - 1]
  BY <1>1, SliceOfList
<1>3. Len(s) = n /\ \A i \in 1..n : s[i] = p[i]
  BY <1>1, <1>2
<1>4. s # << >>
  <2>1. Len(<< >>) = 0
    OBVIOUS
  <2>2. QED
    BY <1>1, <1>3, <2>1
<1>5. n = Len(p) => s = p
  BY <1>2, <1>3, ListEqual
<1>6. /\ IsList(Front(s)) /\ Len(Front(s)) = n - 1 /\ \A i \in 1..(n - 1) : Front(s)[i] = s[i]
  BY <1>2, <1>3, <1>4, FrontOfList
<1>7. ASSUME n = 1 PROVE Front(s) = << >>
  <2>1. ~(Len(s) > 1)
    BY <1>3, <1>7
  <2> HIDE DEF s
  <2>2. QED
    BY <1>2, <1>4, <2>1, FrontOfOne
<1>8. ASSUME n # 1 PROVE n - 1 \in 1..Len(p) /\ Front(s) = SubSeq(p, 1, n - 1)
  <2> DEFINE u == SubSeq(p, 1, n - 1)
  <2>1. n - 1 \in 1..Len(p) /\ n - 1 \in 0..Len(p) /\ n - 1 \in Nat
    BY <1>1, <1>8
  <2>2. /\ IsList(u) /\ Len(u) = (IF 1 <= n - 1 THEN (n - 1) - 1 + 1 ELSE 0)
        /\ \A j \in 1..((n - 1) - 1 + 1) : u[j] = p[1 + j - 1]
    BY <1>1, <2>1, SliceOfList
  <2> HIDE DEF u
  <2>3. Len(u) = n - 1 /\ \A i \in 1..(n - 1) : u[i] = p[i]
    BY <1>1, <2>1, <2>2
  <2>4. \A i \in 1..(n - 1) : Front(s)[i] = u[i]
    <3>1. \A i \in 1..(n - 1) : i \in 1..n
      BY <1>1
    <3>2. QED
      BY <1>3, <1>6, <2>3, <3>1
  <2>5. Front(s) = u
    BY <1>6, <2>2, <2>3, <2>4, ListEqual
  <2>6. QED
    BY <2>1, <2>5 DEF u
<1>9. QED
  BY <1>2, <1>3, <1>4, <1>5, <1>7, <1>8

LEMMA PathsAbove ==
  ASSUME NEW V, Tree(V), NEW it \in V, NEW n \in 1..Len(it.path)
  PROVE  \E y \in V : y.path = SubSeq(it.path, 1, n) /\ (n # Len(it.path) => y.isDir)
<1> DEFINE p == it.path
           m == Len(p)
           Good(i) == \E y \in V : y.path = SubSeq(p, 1, i) /\ (i # m => y.isDir)
           Bad == {i \in 1..m : ~Good(i)}
<1>1. IsList(p) /\ m \in Nat
  BY ListProperties DEF Tree
<1>2. ASSUME Bad # {} PROVE FALSE
  <2>1. Bad \in SUBSET Nat /\ IsFiniteSet(Bad)
    <3>1. IsFiniteSet(1..m)
      BY <1>1, FS_Interval
    <3>2. QED
      BY <1>1, <3>1, FS_Subset
  <2>2. PICK i \in Bad : \A j \in Bad : i >= j
    BY <1>2, <2>1, MaxExists
  <2>3. i \in 1..m /\ ~Good(i)
    OBVIOUS
  <2> HIDE DEF p, m, Good, Bad
  <2>4. i # m
    <3>1. SubSeq(p, 1, m) = p
      <4>1. m \in 1..Len(p)
        BY <1>1, <2>3 DEF m
      <4>2. QED
        BY <1>1, <4>1, PartsOfPath DEF m
    <3>2. Good(m)
      BY <3>1 DEF Good, p
    <3>3. QED
      BY <2>3, <3>2
  <2>5. i + 1 \in 1..m /\ i + 1 \notin Bad
    BY <1>1, <2>2, <2>3, <2>4
  <2>6. PICK y \in V : y.path = SubSeq(p, 1, i + 1)
    BY <2>5 DEF Bad, Good
  <2>7. Len(y.path) = i + 1 /\ Front(y.path) = SubSeq(p, 1, i)
    <3>1. i + 1 \in 1..Len(p) /\ i + 1 # 1 /\ (i + 1) - 1 = i
      BY <1>1, <2>3, <2>5 DEF m
    <3>2. QED
      BY <1>1, <2>6, <3>1, PartsOfPath
  <2>8. \E z \in V : z.isDir /\ z.path = Front(y.path)
    BY <1>1, <2>3, <2>7 DEF Tree
  <2>9. Good(i)
    BY <2>7, <2>8 DEF Good
  <2>10. QED
    BY <2>3, <2>9
<1>3. QED
  BY <1>2

LEMMA TwinsRead ==
  ASSUME CarInvs, ReaderTypes, StructInv, ReadBack, Ordinary, R!AnalyzeNode(summary.root).isDir,
         NEW p \in R!GetFileTree(summary) \ R!GetFileTree(got)
  PROVE  \E n \in 2..Len(p) : HasTwin(SubSeq(p, 1, n))
<1>1. PICK V : V = Visible(source.tree)
  OBVIOUS
<1>2. PICK g : g = CidsIn(V, summary.entries)
  OBVIOUS
<1>3. /\ Tree(V) /\ Listing(summary.entries, V, Barren(V))
      /\ Placed(V, g, summary.root, got.entries) /\ IndexesEntries(got.entries, got.cidToEntry)
      /\ \A d \in DOMAIN got.entries : IsPlace(V, d) => \A k \in Held(V, d) :
           k.path \in DOMAIN got.entries \/ (d # ROOT /\ g[k] \in DOMAIN got.cidToEntry)
  BY <1>1, <1>2, TreeRead DEF WellMade
<1>4. PICK it \in V : it.path = p /\ ~it.isDir /\ p # ROOT
  <2>1. p \in DOMAIN summary.entries \ {ROOT} /\ ~summary.entries[p].isDir
    BY SameBlocks DEF R!GetFileTree
  <2>2. PICK it \in V : it.path = p
    BY <1>3, <2>1 DEF Listing
  <2>3. ~it.isDir
    BY <1>3, <2>1, <2>2 DEF Listing, EntryFor
  <2>4. QED
    BY <2>1, <2>2, <2>3
<1>5. p \notin DOMAIN got.entries
  <2>1. SUFFICES ASSUME p \in DOMAIN got.entries PROVE FALSE
    OBVIOUS
  <2>2. PICK k \in V : k.path = p /\ NodeOf(V, g, got.entries[p], k)
    BY <1>3, <1>4, <2>1 DEF Placed
  <2>3. k = it
    BY <1>3, <1>4, <2>2 DEF Tree
  <2>4. ~got.entries[p].isDir
    BY <1>4, <2>2, <2>3 DEF NodeOf
  <2>5. QED
    BY <1>4, <2>1, <2>4, SameBlocks DEF R!GetFileTree
<1>6. IsList(p) /\ p # << >> /\ Len(p) \in Nat \ {0}
  BY <1>3, <1>4, FrontOfList DEF Tree
<1> DEFINE missing == {i \in 1..Len(p) : SubSeq(p, 1, i) \notin DOMAIN got.entries}
<1>7. Len(p) \in missing
  <2>1. Len(p) \in 1..Len(p)
    BY <1>6
  <2>2. SubSeq(p, 1, Len(p)) = p
    BY <1>6, <2>1, PartsOfPath
  <2>3. QED
    BY <1>5, <2>1, <2>2
<1>8. PICK n \in missing : \A i \in missing : n <= i
  <2>1. missing \in SUBSET Nat
    BY <1>6
  <2> HIDE DEF missing
  <2>2. QED
    BY <1>7, <2>1, MinExists
<1>9. n \in 1..Len(p) /\ SubSeq(p, 1, n) \notin DOMAIN got.entries
  OBVIOUS
<1>10. PICK y \in V : y.path = SubSeq(p, 1, n)
  BY <1>3, <1>4, <1>9, PathsAbove
<1>11. n # 1
  <2>1. SUFFICES ASSUME n = 1 PROVE FALSE
    OBVIOUS
  <2>2. Front(y.path) = << >>
    BY <1>6, <1>9, <1>10, <2>1, PartsOfPath
  <2>3. y \in Held(V, ROOT) /\ IsPlace(V, ROOT) /\ ROOT \in DOMAIN got.entries
    BY <1>3, <1>10, <2>2 DEF Held, Inside, IsPlace, Placed
  <2>4. QED
    BY <1>3, <1>9, <1>10, <2>3
<1>12. n - 1 \in 1..Len(p) /\ Front(y.path) = SubSeq(p, 1, n - 1) /\ n \in 2..Len(p)
  <2>1. n - 1 \in 1..Len(p) /\ Front(y.path) = SubSeq(p, 1, n - 1)
    BY <1>6, <1>9, <1>10, <1>11, PartsOfPath
  <2>2. QED
    BY <1>6, <1>9, <1>11, <2>1
<1>13. PICK x \in V : x.path = SubSeq(p, 1, n - 1) /\ x.isDir
  <2>1. n - 1 # Len(p)
    BY <1>6, <1>9
  <2>2. QED
    BY <1>3, <1>4, <1>12, <2>1, PathsAbove
<1>14. x.path \in DOMAIN got.entries /\ x.path # ROOT /\ IsPlace(V, x.path)
  <2>1. n - 1 \notin missing
    BY <1>6, <1>8, <1>9
  <2>2. QED
    BY <1>3, <1>12, <1>13, <2>1 DEF Tree, IsPlace
<1>15. y \in Held(V, x.path)
  <2>1. HasFile(V, y.path)
    <3>1. IsList(y.path) /\ Len(y.path) = n /\ \A i \in 1..n : y.path[i] = p[i]
      BY <1>6, <1>9, <1>10, PartsOfPath
    <3>2. n <= Len(p)
      BY <1>6, <1>9
    <3>3. IsPrefix(y.path, p)
      BY <1>6, <3>1, <3>2, PrefixIs
    <3>4. QED
      BY <1>4, <3>3 DEF HasFile
  <2>2. QED
    BY <1>10, <1>12, <1>13, <1>14, <2>1 DEF Held, Inside, WithFiles
<1>16. g[y] \in DOMAIN got.cidToEntry
  BY <1>3, <1>9, <1>10, <1>14, <1>15
<1>17. g[y] = summary.entries[y.path].cid
  BY <1>2 DEF CidsIn
<1>18. HasTwin(y.path)
  <2>1. PICK q : q = got.cidToEntry[g[y]]
    OBVIOUS
  <2>2. q \in DOMAIN got.entries /\ got.entries[q].cid = g[y]
    BY <1>3, <1>16, <2>1 DEF IndexesEntries
  <2>3. y.path \notin DOMAIN got.entries
    BY <1>9, <1>10
  <2>4. q # y.path /\ got.entries[q].cid = summary.entries[y.path].cid
    BY <1>17, <2>2, <2>3
  <2>5. QED
    BY <2>2, <2>4 DEF HasTwin
<1>19. QED
  BY <1>10, <1>12, <1>18

\* A file is missing from what was read of its CAR only if an entry on the
\* way to it has the CID of one that was read (car_reconstructor.go:624-632):
\* the walk has passed every other link of a directory it has entered, and
\* all links of the root.
THEOREM LostFilesHaveTwins == RTSpec => []LostOnlyToTwins
<1>1. CarInvs /\ ReaderTypes /\ StructInv => LostOnlyToTwins
  BY TwinsRead DEF LostOnlyToTwins
<1>2. QED
  BY <1>1, CarInvariance, ReaderTypesInvariance, StructInvariance, PTL
=============================================================================
