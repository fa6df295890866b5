---------------------------- MODULE LRURefinement ----------------------------
(***************************************************************************)
(* LRUBlockstore seen as the LRUCache it implements.                       *)
(***************************************************************************)
EXTENDS LRUBlockstore, Sequences, SequencesExt

\* The nodes of S in the order in which the next pointers of l visit them.
OrderOf(l, S) ==
  LET nth[i \in 1..Cardinality(S)] == IF i = 1 THEN l.head ELSE l.next[nth[i - 1]]
  IN  [i \in 1..Cardinality(S) |-> nth[i]]

LengthOf(c) == BlockLen[c]

Order == INSTANCE LRUOrder WITH Length <- LengthOf

\* What the abstract cache holds: a Put takes effect when it takes the mutex,
\* so while its loop runs the abstract cache already holds the outcome.
Recency == IF Unlocked THEN OrderOf(list, blocks)
                       ELSE Order!Put(OrderOf(list, blocks), putting, Limit)

Abstract == INSTANCE LRUCache WITH
  Length <- LengthOf, busy <- putting, recency <- Recency

\* The pointers, the counter and the loop implement the abstract cache
\* (car_blockstore.go:24-27, 46-47, 124).
RefinesLRUCache == Abstract!Spec
=============================================================================
