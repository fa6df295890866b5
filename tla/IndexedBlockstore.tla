--------------------------- MODULE IndexedBlockstore ---------------------------
(***************************************************************************)
(* blockstore.IndexedBlockstore (src/blockstore/indexed_blockstore.go):    *)
(* blocks of a CAR behind an LRU cache.  A block that is not cached is     *)
(* read again at the offset the index has for it: Seek, then the length of *)
(* the section byte by byte, then its body, calls of one shared reader.    *)
(* The store has a lock, but Get does not hold it while it uses the reader *)
(* or the index, so the goroutines of Procs interleave between these       *)
(* calls, and read wherever another has left the reader.                   *)
(*                                                                         *)
(* File is any sequence of bytes that has the sections where they start;   *)
(* what else it has (headers, the index and the padding of a CARv2) is     *)
(* left open, and a block's data may hold the bytes of other CIDs.  One    *)
(* call of the reader is one step, as it is with a file, and delivers at   *)
(* least one byte before the end of the file.  No CID of a section is an   *)
(* identity CID, which the index would not have.                           *)
(***************************************************************************)
EXTENDS Naturals, Sequences, FiniteSets, SequencesExt, Functions

CONSTANTS Procs,     \* the goroutines that use the store
          Cids,      \* the CIDs they ask for
          CidBytes,  \* the bytes of a CID
          Digest,    \* the multihash of a CID; two CIDs may share one
          Data,      \* the data of the block with a CID
          Sections,  \* the CIDs of the sections of the CAR, in order
          File,      \* the bytes of the file
          Start,     \* where each section starts in the file
          LenBytes,  \* the number of bytes of each section's length prefix
          DataOffset,\* where the CARv1 in the file starts: 0 if the file is one
          Radix,     \* a byte of a length that is no less is not the last (128)
          MaxPrefix, \* the bytes that a length may have (9)
          MaxRead,   \* the longest section that Get reads (10 MiB)
          Limit,     \* the size limit of the cache, in bytes
          KeysBuffer,\* the capacity of the channel of AllKeysChan (100)
          MaxCalls   \* bound on the number of calls

VARIABLES
  indexed,   \* ibs.idx is not nil
  toCache,   \* the sections IndexAll has still to cache
  pos,       \* the position of ibs.reader
  cache,     \* ibs.lru: blocks, the most recently used one first
  pc,        \* where each goroutine is
  want,      \* the CID it asks for
  entries,   \* the sections the index gave it
  prefix,    \* the bytes of a length that it has read
  size,      \* the length that it has read
  body,      \* the bytes of the section that it has read
  result,    \* what its last call returned
  keys,      \* the CIDs AllKeysChan has still to send
  chan,      \* the CIDs sent and not received
  done,      \* the context of AllKeysChan is cancelled
  calls,     \* the number of calls
  crashed,   \* a nil pointer was dereferenced, and the program has ended
  \* history
  disturbed, \* another goroutine used the reader between Seek and the last read
  tainted,   \* the CIDs that a disturbed Get has put into the cache
  early      \* the call was made before Close

reading == <<prefix, size, body>>
local == <<pc, want, entries, reading, result>>
listing == <<keys, chan, done>>
index == <<indexed, toCache>>
history == <<disturbed, tainted, early>>
vars == <<index, pos, cache, local, listing, calls, crashed, history>>

-----------------------------------------------------------------------------
(* The file. *)

\* The length of a section's body: its CID and its data.
BodyLen(c) == Len(CidBytes[c]) + Len(Data[c])

\* The number that the bytes of a varint stand for, the lowest digit first.
Uvarint(s) ==
  LET from[k \in 1..Len(s) + 1] ==
        IF k > Len(s) THEN 0 ELSE (s[k] % Radix) + Radix * from[k + 1]
  IN  from[1]

\* The bytes of the file from the from-th to the to-th of section i.
SectionBytes(i, from, to) == SubSeq(File, Start[i] + from, Start[i] + to)

\* GetAll: the sections whose CIDs have the digest d.
SectionsWith(d) == {i \in 1..Len(Sections) : Digest[Sections[i]] = d}

\* What LoadIndex has for a section: where it starts in the CARv1, although
\* Get seeks to that position of the file.
Offset(i) == Start[i] - DataOffset

ASSUME IndexedAssumption ==
  /\ Cids # {} /\ Digest \in [Cids -> Range(Digest)]
  /\ CidBytes \in [Cids -> Seq(Nat) \ {<< >>}] /\ Data \in [Cids -> Seq(Nat)]
  /\ Sections \in Seq(Cids)
  /\ Radix \in Nat \ {0} /\ MaxPrefix \in Nat /\ MaxRead \in Nat
  /\ Limit \in Nat /\ KeysBuffer \in Nat /\ MaxCalls \in Nat

\* The bytes of a CID say where it ends: none begins with another.
ASSUME CidAssumption == \A c, d \in Cids : IsPrefix(CidBytes[c], CidBytes[d]) => c = d

\* The bytes s are a varint of the number n.
Encodes(s, n) ==
  /\ s # << >> /\ \A k \in 1..Len(s) : s[k] >= Radix <=> k # Len(s)
  /\ Last(s) = 0 => Len(s) = 1
  /\ Uvarint(s) = n

\* The file has the sections: length, CID and data, after a header.
ASSUME LayoutAssumption ==
  /\ File \in Seq(Nat) /\ File # << >> /\ DataOffset \in Nat
  /\ Start \in [1..Len(Sections) -> Nat] /\ LenBytes \in [1..Len(Sections) -> Nat]
  /\ \A i \in 1..Len(Sections) :
       LET c == Sections[i]
           n == LenBytes[i]
       IN  /\ DataOffset < Start[i] /\ n <= MaxPrefix
           /\ Start[i] + n + BodyLen(c) <= Len(File)
           /\ Encodes(SectionBytes(i, 1, n), BodyLen(c))
           /\ SectionBytes(i, n + 1, n + BodyLen(c)) = CidBytes[c] \o Data[c]

-----------------------------------------------------------------------------
(* The cache. *)

Smaller(m, n) == IF m <= n THEN m ELSE n

LRU == INSTANCE LRUOrder WITH Length <- LAMBDA b : Len(b.data)

Block(c, data) == [cid |-> c, data |-> data]

Cached(c) == \E i \in 1..Len(cache) : cache[i].cid = c
Place(c) == CHOOSE i \in 1..Len(cache) : cache[i].cid = c
CachedBlock(c) == cache[Place(c)]

\* lru.Put: a block whose CID is cached is not replaced.
WithBlock(b) == LRU!Put(cache, IF Cached(b.cid) THEN CachedBlock(b.cid) ELSE b, Limit)

Init == /\ indexed = FALSE
        /\ toCache = << >>
        /\ pos = 0
        /\ cache = << >>
        /\ pc = [p \in Procs |-> "idle"]
        /\ want \in [Procs -> {CHOOSE c \in Cids : TRUE}]
        /\ entries = [p \in Procs |-> {}]
        /\ prefix = [p \in Procs |-> << >>]
        /\ size = [p \in Procs |-> 0]
        /\ body = [p \in Procs |-> << >>]
        /\ result = [p \in Procs |-> <<"none">>]
        /\ keys = << >>
        /\ chan = << >>
        /\ done = FALSE
        /\ calls = 0
        /\ crashed = FALSE
        /\ disturbed = [p \in Procs |-> FALSE]
        /\ tainted = {}
        /\ early = [p \in Procs |-> FALSE]

\* p's call returns r, and its local variables are gone.
Return(p, r) == /\ pc' = [pc EXCEPT ![p] = "idle"]
                /\ result' = [result EXCEPT ![p] = r]
                /\ entries' = [entries EXCEPT ![p] = {}]
                /\ prefix' = [prefix EXCEPT ![p] = << >>]
                /\ size' = [size EXCEPT ![p] = 0]
                /\ body' = [body EXCEPT ![p] = << >>]

\* p is at the step, of a program that has not ended.
At(p, step) == ~crashed /\ pc[p] = step

\* p makes a call, which waits while IndexAll holds the lock.
Call(p) == /\ At(p, "idle") /\ calls < MaxCalls
           /\ toCache = << >>
           /\ calls' = calls + 1

-----------------------------------------------------------------------------
(* Calls that hold the lock, or need none, from their beginning to their end. *)

\* IndexAll, once: the index is made, then the blocks of the CAR are cached,
\* all of them or those before a failure or a cancellation.
IndexAll ==
  /\ ~crashed /\ ~indexed /\ pos = 0
  /\ indexed' = TRUE /\ toCache' = Sections
  /\ calls' = calls + 1
  /\ pos' = Len(File)
  /\ UNCHANGED <<cache, local, listing, crashed, history>>

CacheSection ==
  /\ toCache # << >>
  /\ \/ cache' = WithBlock(Block(Head(toCache), Data[Head(toCache)])) /\ toCache' = Tail(toCache)
     \/ toCache' = << >> /\ UNCHANGED cache
  /\ UNCHANGED <<indexed, pos, local, listing, calls, crashed, history>>

Put(p, c) ==
  /\ Call(p)
  /\ cache' = WithBlock(Block(c, Data[c]))
  /\ UNCHANGED <<index, pos, local, listing, crashed, history>>

DeleteBlock(p, c) ==
  /\ Call(p)
  /\ cache' = IF Cached(c) THEN RemoveAt(cache, Place(c)) ELSE cache
  /\ UNCHANGED <<index, pos, local, listing, crashed, history>>

Close(p) ==
  /\ Call(p)
  /\ indexed
  /\ indexed' = FALSE
  /\ UNCHANGED <<toCache, pos, cache, local, listing, crashed, history>>

-----------------------------------------------------------------------------
(* Get and GetSize. *)

\* A faulty beginning that does not ask whether there is an index.
BeginUnchecked(p, c, step) ==
  /\ Call(p)
  /\ want' = [want EXCEPT ![p] = c]
  /\ disturbed' = [disturbed EXCEPT ![p] = FALSE]
  /\ early' = [early EXCEPT ![p] = indexed]
  /\ pc' = [pc EXCEPT ![p] = step]
  /\ result' = [result EXCEPT ![p] = <<"none">>]
  /\ UNCHANGED <<entries, reading, index, pos, cache, listing, crashed, tainted>>

\* p asks for c, if there is an index.
Begin(p, c, step) ==
  /\ Call(p)
  /\ want' = [want EXCEPT ![p] = c]
  /\ disturbed' = [disturbed EXCEPT ![p] = FALSE]
  /\ early' = [early EXCEPT ![p] = indexed]
  /\ IF indexed THEN /\ pc' = [pc EXCEPT ![p] = step]
                     /\ result' = [result EXCEPT ![p] = <<"none">>]
                     /\ UNCHANGED <<entries, reading>>
                ELSE Return(p, <<"uninitialized">>)
  /\ UNCHANGED <<index, pos, cache, listing, crashed, tainted>>

Get(p, c) == Begin(p, c, "cache")

GetSize(p, c) == Begin(p, c, "size")

\* GetSize finds the block in the cache, without a use of it, or calls Get,
\* which looks at the index again.
SizeLookup(p) ==
  /\ At(p, "size")
  /\ IF Cached(want[p]) THEN Return(p, <<"block", CachedBlock(want[p])>>)
     ELSE IF ~indexed THEN Return(p, <<"uninitialized">>)
     ELSE /\ pc' = [pc EXCEPT ![p] = "cache"]
          /\ UNCHANGED <<entries, reading, result>>
  /\ UNCHANGED <<index, pos, cache, want, listing, calls, crashed, history>>

CacheLookup(p) ==
  /\ At(p, "cache")
  /\ IF Cached(want[p])
     THEN /\ cache' = LRU!Used(cache, CachedBlock(want[p]))
          /\ Return(p, <<"block", CachedBlock(want[p])>>)
     ELSE /\ pc' = [pc EXCEPT ![p] = "index"]
          /\ UNCHANGED <<cache, entries, reading, result>>
  /\ UNCHANGED <<index, pos, want, listing, calls, crashed, history>>

\* The index is used without the lock: Close may have taken it away.
IndexLookup(p) ==
  /\ At(p, "index")
  /\ IF ~indexed THEN crashed' = TRUE /\ UNCHANGED local
     ELSE /\ UNCHANGED <<crashed, want>>
          /\ IF SectionsWith(Digest[want[p]]) = {} THEN Return(p, <<"not found">>)
             ELSE /\ entries' = [entries EXCEPT ![p] = SectionsWith(Digest[want[p]])]
                  /\ pc' = [pc EXCEPT ![p] = "seek"]
                  /\ UNCHANGED <<reading, result>>
  /\ UNCHANGED <<index, pos, cache, listing, calls, history>>

\* p uses the reader, which disturbs those between their Seek and their body.
Disturb(p) == disturbed' = [q \in Procs |-> disturbed[q] \/ (q # p /\ pc[q] \in {"length", "body"})]

\* A faulty choice of the last offset.
LastOffset(p) == Offset(Max(entries[p]))

\* The offset tried: after a failure at it the others are skipped.
FirstOffset(p) == Offset(Min(entries[p]))

Seek(p) ==
  /\ At(p, "seek")
  /\ pos' = FirstOffset(p)
  /\ pc' = [pc EXCEPT ![p] = "length"]
  /\ Disturb(p)
  /\ UNCHANGED <<index, cache, want, entries, reading, result, listing, calls, crashed, tainted, early>>

\* p reads, and leaves everything but the reader and its own call alone.
Reads(p) == /\ Disturb(p)
            /\ UNCHANGED <<index, cache, want, listing, calls, crashed, tainted, early>>

\* The bytes s are not all of a length.
Unfinished(s) == Last(s) >= Radix /\ Len(s) < MaxPrefix

\* A faulty reader of lengths, that allows any.
AnyLength(n) == n > 0

\* The length of a section that Get reads.  An empty one has no CID.
Readable(n) == n \in 1..MaxRead

\* The bytes s are a length, without a zero at its end.
IsLength(s) == Last(s) < Radix /\ (Last(s) = 0 => Len(s) = 1) /\ Readable(Uvarint(s))

\* ReadUvarint and LdReadSize: the next byte of the length.
ReadLength(p) ==
  /\ At(p, "length")
  /\ Reads(p)
  /\ IF pos >= Len(File) THEN pos' = pos /\ Return(p, <<"failed">>)
     ELSE LET s == Append(prefix[p], File[pos + 1])
          IN  /\ pos' = pos + 1
              /\ IF Unfinished(s) THEN /\ prefix' = [prefix EXCEPT ![p] = s]
                                       /\ UNCHANGED <<pc, entries, size, body, result>>
                 ELSE IF IsLength(s) THEN /\ pc' = [pc EXCEPT ![p] = "body"]
                                          /\ prefix' = [prefix EXCEPT ![p] = << >>]
                                          /\ size' = [size EXCEPT ![p] = Uvarint(s)]
                                          /\ UNCHANGED <<entries, body, result>>
                 ELSE Return(p, <<"failed">>)

\* A faulty read that does not wait for the whole section.
FirstRead(p, bytes) == Len(bytes) >= Len(CidBytes[want[p]])

\* io.ReadFull has read the section.
AllRead(p, bytes) == Len(bytes) = size[p]

\* The section begins with the CID asked for.
RightCid(p, bytes) == IsPrefix(CidBytes[want[p]], bytes)

\* One Read of io.ReadFull, which may give less than is asked for.
ReadBody(p) ==
  /\ At(p, "body")
  /\ Reads(p)
  /\ IF pos >= Len(File) THEN pos' = pos /\ Return(p, <<"failed">>)
     ELSE \E n \in 1..Smaller(size[p] - Len(body[p]), Len(File) - pos) :
            LET bytes == body[p] \o SubSeq(File, pos + 1, pos + n)
            IN  /\ pos' = pos + n
                /\ IF AllRead(p, bytes) /\ ~RightCid(p, bytes) THEN Return(p, <<"failed">>)
                   ELSE /\ body' = [body EXCEPT ![p] = bytes]
                        /\ pc' = [pc EXCEPT ![p] = IF AllRead(p, bytes) THEN "put" ELSE @]
                        /\ UNCHANGED <<entries, prefix, size, result>>

\* The data behind the CID.
DataRead(p) == SubSeq(body[p], Len(CidBytes[want[p]]) + 1, Len(body[p]))

CachePut(p) ==
  /\ At(p, "put")
  /\ LET b == Block(want[p], DataRead(p))
     IN  /\ cache' = WithBlock(b)
         /\ Return(p, <<"block", b>>)
  /\ tainted' = IF disturbed[p] THEN tainted \union {want[p]} ELSE tainted
  /\ UNCHANGED <<index, pos, want, listing, calls, crashed, disturbed, early>>

-----------------------------------------------------------------------------
(* AllKeysChan: a goroutine p sends all CIDs of the index to a channel. *)

\* One listing at a time.
AllKeysChan(p) ==
  /\ Call(p)
  /\ \A q \in Procs : pc[q] \notin {"keys", "send"}
  /\ early' = [early EXCEPT ![p] = indexed]
  /\ chan' = << >> /\ done' = FALSE
  /\ pc' = [pc EXCEPT ![p] = IF indexed THEN "keys" ELSE @]
  /\ UNCHANGED <<index, pos, cache, want, entries, reading, result, keys, crashed, disturbed, tainted>>

\* The goroutine takes the index without the lock.
TakeIndex(p) ==
  /\ At(p, "keys")
  /\ IF ~indexed THEN crashed' = TRUE /\ UNCHANGED <<pc, keys>>
     ELSE /\ keys' = Sections
          /\ pc' = [pc EXCEPT ![p] = "send"]
          /\ UNCHANGED crashed
  /\ UNCHANGED <<index, pos, cache, want, entries, reading, result, chan, done, calls, history>>

SendKey(p) ==
  /\ At(p, "send") /\ keys # << >>
  /\ Len(chan) < KeysBuffer
  /\ chan' = Append(chan, Head(keys))
  /\ keys' = Tail(keys)
  /\ UNCHANGED <<index, pos, cache, local, done, calls, crashed, history>>

\* A faulty loop that does not look at the context.
AllSent == keys = << >>

\* The loop ends: all keys are sent, or the context is cancelled.
SentOrDone == keys = << >> \/ done

\* The channel is closed.
CloseChan(p) ==
  /\ At(p, "send") /\ SentOrDone
  /\ Return(p, <<IF keys = << >> THEN "listed" ELSE "cancelled">>)
  /\ keys' = << >>
  /\ UNCHANGED <<index, pos, cache, want, chan, done, calls, crashed, history>>

\* Who has called AllKeysChan receives a key, or cancels.
ReceiveKey ==
  /\ ~crashed /\ chan # << >>
  /\ chan' = Tail(chan)
  /\ UNCHANGED <<index, pos, cache, local, keys, done, calls, crashed, history>>

Cancel ==
  /\ ~crashed /\ ~done
  /\ \E p \in Procs : pc[p] \in {"keys", "send"}
  /\ done' = TRUE
  /\ UNCHANGED <<index, pos, cache, local, keys, chan, calls, crashed, history>>

-----------------------------------------------------------------------------
\* The next step of the call that p is in.
Step(p) == \/ SizeLookup(p) \/ CacheLookup(p) \/ IndexLookup(p)
           \/ Seek(p) \/ ReadLength(p) \/ ReadBody(p) \/ CachePut(p)
           \/ TakeIndex(p) \/ SendKey(p) \/ CloseChan(p)

Next ==
  \/ IndexAll \/ CacheSection
  \/ \E p \in Procs : \/ \E c \in Cids : Get(p, c) \/ GetSize(p, c) \/ Put(p, c) \/ DeleteBlock(p, c)
                      \/ Close(p)
                      \/ AllKeysChan(p)
                      \/ Step(p)
  \/ ReceiveKey \/ Cancel

\* Every goroutine goes on.  Nobody has to receive the keys, or to cancel.
Fairness == \A p \in Procs : WF_vars(Step(p))

Spec == Init /\ [][Next]_vars /\ Fairness

-----------------------------------------------------------------------------
(* Correctness. *)

Blocks == [cid : Cids, data : Seq(Nat)]

Returned == {result[q][2] : q \in {p \in Procs : result[p][1] = "block"}}

\* The types of the variables.  Whatever is taken for a length, no more than
\* MaxRead bytes are read.
TypeOK ==
  /\ indexed \in BOOLEAN /\ toCache \in Seq(Cids) /\ crashed \in BOOLEAN /\ done \in BOOLEAN
  /\ pos \in 0..Len(File) /\ calls \in 0..MaxCalls + 1
  /\ ToSet(cache) \union Returned \subseteq Blocks
  /\ pc \in [Procs -> {"idle", "size", "cache", "index", "seek", "length", "body", "put", "keys", "send"}]
  /\ want \in [Procs -> Cids]
  /\ \A p \in Procs : pc[p] \in {"seek", "length", "body", "put"} <=> entries[p] # {}
  /\ \A p \in Procs : size[p] \in 0..MaxRead /\ Len(body[p]) <= size[p] /\ Len(prefix[p]) <= MaxPrefix
  /\ Len(chan) <= KeysBuffer
  /\ disturbed \in [Procs -> BOOLEAN] /\ early \in [Procs -> BOOLEAN] /\ tainted \subseteq Cids

IsCARv1 == DataOffset = 0

\* The cache, and what Get returns, is exactly the data of the CID, except for
\* CIDs that were read while another goroutine used the reader: these may have
\* any data that follows the bytes of their CID somewhere, and keep it while
\* they are cached (indexed_blockstore.go:133-163).
WrongOnlyIfDisturbed ==
  IsCARv1 => \A b \in ToSet(cache) \union Returned : b.cid \notin tainted => b.data = Data[b.cid]

\* The first section with the digest of a CID.
FirstWith(c) == Min(SectionsWith(Digest[c]))

\* Get finds every block of the CAR: it fails only if another goroutine used
\* the reader, if the first section with the digest of the CID has another
\* CID, after which the others are not tried, or if the section is too long
\* (indexed_blockstore.go:125-167).
ReloadsUnlessDisturbed ==
  \A p \in Procs :
    result[p][1] = "failed" =>
      \/ disturbed[p]
      \/ Sections[FirstWith(want[p])] # want[p]
      \/ BodyLen(want[p]) > MaxRead

\* In a CARv1 it does, and in any CAR it says "not found" only of a CID that
\* no section has (indexed_blockstore.go:126-177).
FailsOnlyIfDisturbed ==
  /\ IsCARv1 => ReloadsUnlessDisturbed
  /\ \A p \in Procs : result[p][1] = "not found" => \A c \in ToSet(Sections) : Digest[c] # Digest[want[p]]

\* A call made after Close is answered: the program ends only in a call that
\* Close has overtaken (indexed_blockstore.go:110-126, 265-269, 283-288).
CrashOnlyIfOvertaken ==
  crashed => \E p \in Procs : pc[p] \in {"index", "keys"} /\ early[p] /\ ~indexed

\* The listing waits for somebody to receive or to cancel.
Abandoned(p) == pc[p] = "send" /\ Len(chan) = KeysBuffer /\ ~done

\* Every call returns, and the goroutine of AllKeysChan ends, unless the
\* program ends or nobody receives its keys nor cancels its context
\* (indexed_blockstore.go:266-278).
CallsReturn == \A p \in Procs : pc[p] # "idle" ~> (pc[p] = "idle" \/ crashed \/ Abandoned(p))

\* What Get returns has the data of its CID (doc.go:35, "All operations use
\* proper locking (RWMutex) for concurrent access").  The code moves the
\* reader without the lock.
ReturnsItsBlock == \A b \in Returned : b.data = Data[b.cid]
=============================================================================
