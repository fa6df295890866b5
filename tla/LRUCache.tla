------------------------------- MODULE LRUCache -------------------------------
(***************************************************************************)
(* What blockstore.LRUBlockstore promises (src/blockstore/                 *)
(* car_blockstore.go, the comments of its type and of its methods): a set  *)
(* of blocks in order of recency, and a Put that evicts the least recently *)
(* used blocks, and no more of them than it must, to make room.  There are *)
(* no pointers here, no counter and no loop: a Put has its whole effect    *)
(* when it begins, and nothing else happens until it returns.              *)
(***************************************************************************)
EXTENDS LRUOrder

CONSTANTS CIDs,    \* the CIDs that may be stored
          Limit,   \* the size limit, in bytes
          NoNode   \* no CID

VARIABLES recency,   \* the CIDs stored, the most recently used one first
          busy       \* the CID whose Put has not returned, or NoNode

cache == <<recency, busy>>

Init == recency = << >> /\ busy = NoNode

Idle == busy = NoNode

PutBlock(c) == /\ Idle /\ c \notin ToSet(recency)
               /\ recency' = Put(recency, c, Limit)
               /\ busy' = c

PutReturns == ~Idle /\ busy' = NoNode /\ UNCHANGED recency

\* A Get, or a Put of a block that is stored.
UseBlock(c) == /\ Idle /\ c \in ToSet(recency)
               /\ recency' = Used(recency, c)
               /\ UNCHANGED busy

DeleteBlock(c) == /\ Idle /\ c \in ToSet(recency)
                  /\ recency' = RemoveAt(recency, PlaceOf(recency, c))
                  /\ UNCHANGED busy

Next == PutReturns \/ \E c \in CIDs : PutBlock(c) \/ UseBlock(c) \/ DeleteBlock(c)

Spec == Init /\ [][Next]_cache
=============================================================================
