------------------------------- MODULE LRUList -------------------------------
(***************************************************************************)
(* The doubly-linked list of lruNodes kept by blockstore.LRUBlockstore     *)
(* (src/blockstore/car_blockstore.go), as a value: the head and tail       *)
(* pointers and the prev and next field of the node of every CID.  A node  *)
(* belongs to one CID (the map "blocks" holds one node per CID), so a      *)
(* pointer is the CID of the node it points to, or NoNode for nil.         *)
(*                                                                         *)
(* A node that has left the list is unreachable garbage in Go; here both   *)
(* its fields read NoNode.                                                 *)
(***************************************************************************)
EXTENDS Naturals, FiniteSets

CONSTANTS CIDs,    \* the CIDs that may be stored
          NoNode   \* the nil pointer

ASSUME NoNodeAssumption == NoNode \notin CIDs

Pointer == CIDs \union {NoNode}

NodeLists == [prev : [CIDs -> Pointer], next : [CIDs -> Pointer],
              head : Pointer, tail : Pointer]

EmptyList == [prev |-> [n \in CIDs |-> NoNode],
              next |-> [n \in CIDs |-> NoNode],
              head |-> NoNode, tail |-> NoNode]

-----------------------------------------------------------------------------
(* The list operations. *)

\* addToFront: node becomes the head, in front of the old head.
AddToFront(l, node) ==
  [prev |-> [n \in CIDs |-> IF n = l.head THEN node
                            ELSE IF n = node THEN NoNode ELSE l.prev[n]],
   next |-> [l.next EXCEPT ![node] = l.head],
   head |-> node,
   tail |-> IF l.tail = NoNode THEN node ELSE l.tail]

\* A faulty Unlink that forgets to pull the tail pointer back.
UnlinkKeepsTail(l, node) ==
  [prev |-> [n \in CIDs |-> IF n = node THEN NoNode
                            ELSE IF n = l.next[node] THEN l.prev[node] ELSE l.prev[n]],
   next |-> [n \in CIDs |-> IF n = node THEN NoNode
                            ELSE IF n = l.prev[node] THEN l.next[node] ELSE l.next[n]],
   head |-> IF node = l.head THEN l.next[node] ELSE l.head,
   tail |-> l.tail]

\* The neighbours of node are joined; head and tail step past it.
Unlink(l, node) ==
  [prev |-> [n \in CIDs |-> IF n = node THEN NoNode
                            ELSE IF n = l.next[node] THEN l.prev[node] ELSE l.prev[n]],
   next |-> [n \in CIDs |-> IF n = node THEN NoNode
                            ELSE IF n = l.prev[node] THEN l.next[node] ELSE l.next[n]],
   head |-> IF node = l.head THEN l.next[node] ELSE l.head,
   tail |-> IF node = l.tail THEN l.prev[node] ELSE l.tail]

\* A faulty moveToFront that leaves the node where it is (a FIFO queue).
NoMove(l, node) == l

\* moveToFront: nothing to do for the head.
MoveToFront(l, node) ==
  IF node = l.head THEN l ELSE AddToFront(Unlink(l, node), node)

\* evictOne, the part that changes the list: the tail's predecessor is the
\* new tail.
RemoveTail(l) ==
  IF l.head = l.tail
  THEN [prev |-> [l.prev EXCEPT ![l.tail] = NoNode],
        next |-> [l.next EXCEPT ![l.tail] = NoNode],
        head |-> NoNode, tail |-> NoNode]
  ELSE [prev |-> [l.prev EXCEPT ![l.tail] = NoNode],
        next |-> [l.next EXCEPT ![l.prev[l.tail]] = NoNode],
        head |-> l.head, tail |-> l.prev[l.tail]]

-----------------------------------------------------------------------------
(* What makes a list well formed. *)

\* The list l links the nodes of S, all of them if there is no cycle: its ends
\* are in S, the links of neighbours agree, only the head lacks a
\* predecessor and only the tail a successor.
Linked(l, S) ==
  /\ IF S = {} THEN l.head = NoNode /\ l.tail = NoNode
               ELSE l.head \in S /\ l.tail \in S
  /\ \A n \in S :
       /\ l.prev[n] = NoNode <=> n = l.head
       /\ l.next[n] = NoNode <=> n = l.tail
       /\ l.prev[n] # NoNode => l.prev[n] \in S /\ l.next[l.prev[n]] = n
       /\ l.next[n] # NoNode => l.next[n] \in S /\ l.prev[l.next[n]] = n
  /\ \A n \in CIDs \ S : l.prev[n] = NoNode /\ l.next[n] = NoNode

\* Along next, the times t of last use decrease: the list is in order of
\* recency, hence without a cycle.
ByRecency(l, S, t) ==
  \A n \in S : l.next[n] # NoNode => t[l.next[n]] < t[n]
=============================================================================
