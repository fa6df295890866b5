------------------------------- MODULE LRUOrder -------------------------------
(***************************************************************************)
(* The blocks of a store with a size limit and eviction of the least       *)
(* recently used (src/blockstore/car_blockstore.go), as a sequence in      *)
(* order of recency, and what a use and a Put make of it.  LRUCache is the *)
(* specification of the store in these terms, and CARBuilder's model keeps *)
(* its blocks in such a sequence.                                          *)
(***************************************************************************)
EXTENDS Naturals, Sequences, SequencesExt

CONSTANT Length(_)   \* the length of a CID's block

\* The bytes of the blocks in the sequence s.
Bytes(s) == FoldSeq(+, 0, [i \in DOMAIN s |-> Length(s[i])])

\* The longest prefix of s that leaves room for the block of c under a limit,
\* or nothing when not even the empty prefix does.
KeptFor(s, c, limit) ==
  LET fits == {n \in 1..Len(s) : Bytes(SubSeq(s, 1, n)) + Length(c) <= limit}
  IN  IF fits = {} THEN << >> ELSE SubSeq(s, 1, Max(fits))

\* The place of c, which is stored, in s.
PlaceOf(s, c) == CHOOSE i \in 1..Len(s) : s[i] = c

\* s after the use of c, which is stored.
Used(s, c) == <<c>> \o RemoveAt(s, PlaceOf(s, c))

\* s after a Put of c: a use, or the evictions and the new block.
Put(s, c, limit) ==
  IF c \in ToSet(s) THEN Used(s, c) ELSE <<c>> \o KeptFor(s, c, limit)
=============================================================================
