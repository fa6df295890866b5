---------------------------- MODULE LRUBlockstore ----------------------------
(***************************************************************************)
(* blockstore.LRUBlockstore (src/blockstore/car_blockstore.go): a map from *)
(* CIDs to the nodes of a doubly-linked list, a byte counter and a limit,  *)
(* all guarded by one mutex.  CARBuilder generates its DAG into one.       *)
(*                                                                         *)
(* Every method runs under the mutex, so a method is one step, except the  *)
(* Put of a new block: its eviction loop takes one step per evicted block, *)
(* with the mutex held ("putting" is the CID being put) and every other    *)
(* method waiting.  Methods of several goroutines interleave in any order; *)
(* PutMany is a Put per block, with no lock held in between.  Has,         *)
(* GetSize, AllKeysChan, Size and Len only read, and a Get or DeleteBlock  *)
(* of an absent CID changes nothing: they are stuttering steps.            *)
(*                                                                         *)
(* "lastUse" and "now" are history variables: when a block was last put or *)
(* fetched.  They guard no action, except for the bound MaxUses on the     *)
(* number of uses.                                                         *)
(***************************************************************************)
EXTENDS LRUList

CONSTANTS BlockLen,   \* the length in bytes of each CID's block
          Limit,      \* sizeLimit of NewLRUBlockstore
          MaxUses     \* bound on the number of Puts and successful Gets

ASSUME LRUAssumption == /\ IsFiniteSet(CIDs)
                        /\ BlockLen \in [CIDs -> Nat]
                        /\ Limit \in Nat
                        /\ MaxUses \in Nat

VARIABLES blocks,    \* the CIDs in the map
          list,      \* the linked list
          size,      \* the byte counter
          putting,   \* the CID whose Put holds the mutex, or NoNode
          lastUse,   \* history: when each CID was last used, 0 for never
          now        \* history: the number of uses so far

vars == <<blocks, list, size, putting, lastUse, now>>

Init == /\ blocks = {}
        /\ list = EmptyList
        /\ size = 0
        /\ putting = NoNode
        /\ lastUse = [c \in CIDs |-> 0]
        /\ now = 0

\* The mutex is free.
Unlocked == putting = NoNode

\* The history of a use of c.
RecordUse(c) == /\ now' = now + 1
                /\ lastUse' = [lastUse EXCEPT ![c] = now + 1]

\* A faulty loop condition that evicts for a block that fits exactly.
MustEvictAtLimit(c) == size + BlockLen[c] >= Limit /\ blocks # {}

\* A faulty loop condition that evicts from an empty store.
MustEvictEvenEmpty(c) == size + BlockLen[c] > Limit

\* The loop condition of Put: the block of c does not fit, and there is
\* something to evict.
MustEvict(c) == size + BlockLen[c] > Limit /\ blocks # {}

-----------------------------------------------------------------------------
(* The methods. *)

\* Put of a block that is stored: it moves to the front.
PutKnown(c) == /\ Unlocked
               /\ c \in blocks
               /\ now < MaxUses
               /\ list' = MoveToFront(list, c)
               /\ RecordUse(c)
               /\ UNCHANGED <<blocks, size, putting>>

\* Put of a new block: the mutex is taken and the loop begins.
PutNew(c) == /\ Unlocked
             /\ c \notin blocks
             /\ now < MaxUses
             /\ putting' = c
             /\ UNCHANGED <<blocks, list, size, lastUse, now>>

\* A faulty evictOne that drops the node but forgets the byte counter.
EvictOneKeepsSize == /\ ~Unlocked
                     /\ MustEvict(putting)
                     /\ list.tail # NoNode
                     /\ blocks' = blocks \ {list.tail}
                     /\ list' = RemoveTail(list)
                     /\ UNCHANGED <<size, putting, lastUse, now>>

\* One round of the loop: evictOne, which does nothing without a tail.
EvictOne == /\ ~Unlocked
            /\ MustEvict(putting)
            /\ list.tail # NoNode
            /\ blocks' = blocks \ {list.tail}
            /\ size' = size - BlockLen[list.tail]
            /\ list' = RemoveTail(list)
            /\ UNCHANGED <<putting, lastUse, now>>

\* A faulty Put that evicts at most while the limit is exceeded already.
InsertEarly == /\ ~Unlocked
               /\ ~(size > Limit /\ blocks # {})
               /\ list' = AddToFront(list, putting)
               /\ blocks' = blocks \union {putting}
               /\ size' = size + BlockLen[putting]
               /\ putting' = NoNode
               /\ RecordUse(putting)

\* After the loop: the new node is linked and counted, the mutex released.
Insert == /\ ~Unlocked
          /\ ~MustEvict(putting)
          /\ list' = AddToFront(list, putting)
          /\ blocks' = blocks \union {putting}
          /\ size' = size + BlockLen[putting]
          /\ putting' = NoNode
          /\ RecordUse(putting)

\* Get of a block that is stored: it moves to the front.
Get(c) == /\ Unlocked
          /\ c \in blocks
          /\ now < MaxUses
          /\ list' = MoveToFront(list, c)
          /\ RecordUse(c)
          /\ UNCHANGED <<blocks, size, putting>>

\* A faulty DeleteBlock that does not look the CID up first.
DeleteBlockUnchecked(c) == /\ Unlocked
                           /\ size' = size - BlockLen[c]
                           /\ blocks' = blocks \ {c}
                           /\ list' = Unlink(list, c)
                           /\ UNCHANGED <<putting, lastUse, now>>

\* DeleteBlock of a block that is stored.
DeleteBlock(c) == /\ Unlocked
                  /\ c \in blocks
                  /\ size' = size - BlockLen[c]
                  /\ blocks' = blocks \ {c}
                  /\ list' = Unlink(list, c)
                  /\ UNCHANGED <<putting, lastUse, now>>

Next == \/ \E c \in CIDs : \/ PutKnown(c)
                           \/ PutNew(c)
                           \/ Get(c)
                           \/ DeleteBlock(c)
        \/ EvictOne
        \/ Insert

\* A goroutine that holds the mutex runs on: nothing in the loop blocks.
Fairness == WF_vars(EvictOne \/ Insert)

Spec == Init /\ [][Next]_vars /\ Fairness

-----------------------------------------------------------------------------
(* Correctness. *)

\* The types of the variables.
TypeOK == /\ blocks \subseteq CIDs
          /\ list \in NodeLists
          /\ size \in Nat
          /\ putting \in Pointer
          /\ lastUse \in [CIDs -> 0..now]
          /\ now \in Nat

\* The map and the list hold the same blocks, in order of last use, however
\* Puts, Gets, evictions and deletes have moved the nodes about
\* (car_blockstore.go, moveToFront, addToFront, evictOne, DeleteBlock).
ListMatchesMap == Linked(list, blocks) /\ ByRecency(list, blocks, lastUse)

\* The bytes of the blocks in S, one element per byte, so that their number
\* is a cardinality.
ByteSet(S) == UNION {{c} \X (1..BlockLen[c]) : c \in S}

\* The counter that decides evictions is the number of bytes stored: it never
\* drifts, and its unsigned subtractions never wrap (car_blockstore.go,
\* Put, evictOne, DeleteBlock).
SizeIsBytesStored == size = Cardinality(ByteSet(blocks))

\* The limit is exceeded by nothing except one block that alone is larger
\* (car_blockstore.go, Put: the loop stops when nothing is left to evict).
LimitOrOneBlock == size <= Limit \/ \E c \in blocks : blocks = {c} /\ BlockLen[c] > Limit

\* A Put evicts the least recently used of the blocks stored, never another
\* (car_blockstore.go:24-25, "the least recently used blocks are evicted").
EvictsLeastRecentlyUsed ==
  [][~Unlocked => \A c \in blocks \ blocks' : \A d \in blocks : lastUse[c] <= lastUse[d]]_vars

\* A Put that has the mutex finishes with its block stored, at the front:
\* the eviction loop ends even for a block larger than the limit
\* (car_blockstore.go, Put).
PutFinishes ==
  \A c \in CIDs : putting = c ~> (Unlocked /\ c \in blocks)
=============================================================================
