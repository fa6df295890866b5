-------------------------------- MODULE UnixFS --------------------------------
(***************************************************************************)
(* The blocks that src/unixfs/unixfs_generator.go makes, up to what the    *)
(* builder, the CAR and the reader can tell apart.  A CID is a hash of its *)
(* block, so a CID is modelled by what its block says: two blocks with the *)
(* same contents have the same CID, and other blocks other CIDs.           *)
(*                                                                         *)
(* The layout is the importer's (boxo's balanced.Layout, no code of this   *)
(* repository): a file of one chunk is one leaf, a longer one a root that  *)
(* links to its leaves, which are stored before it.  One level of links is *)
(* all a file of up to maxLinks (174) chunks has.                          *)
(***************************************************************************)
EXTENDS Naturals, Sequences, FiniteSets, SequencesExt

CONSTANTS LeafLen,   \* the length of a leaf block, in bytes
          NodeLen,   \* the length of a file root or a directory without links
          LinkLen    \* the length of a link

ASSUME LengthsAssumption == LeafLen \in Nat /\ NodeLen \in Nat /\ LinkLen \in Nat

\* cid.Undef
Undef == <<"undef">>

Leaf(chunk) == <<"leaf", chunk>>

\* The root of a file, given its chunks.
FileCid(content) ==
  IF Len(content) = 1 THEN Leaf(content[1]) ELSE <<"file", content>>

\* A directory, given its links, pairs of a name and a CID.
DirCid(links) == <<"dir", links>>

EmptyDir == DirCid({})

\* The CIDs that the block of c links to.
Links(c) == CASE c[1] = "file" -> {Leaf(c[2][i]) : i \in DOMAIN c[2]}
              [] c[1] = "dir"  -> {l[2] : l \in c[2]}
              [] OTHER         -> {}

\* The length of the block of c.
BlockLen(c) == CASE c[1] = "file" -> NodeLen + LinkLen * Len(c[2])
                 [] c[1] = "dir"  -> NodeLen + LinkLen * Cardinality(c[2])
                 [] OTHER         -> LeafLen

\* The elements of a sequence at the positions in the set at, in their order.
Picked(s, at) ==
  [n \in 1..Cardinality(at) |-> s[CHOOSE i \in at : Cardinality({j \in at : j <= i}) = n]]

\* The distinct elements of a sequence, in order of first occurrence.
Distinct(s) == Picked(s, {i \in DOMAIN s : \A j \in 1..(i - 1) : s[j] # s[i]})

\* The elements of a sequence that are in the set S.
Those(s, S) == Picked(s, {i \in DOMAIN s : s[i] \in S})

Leaves(content) == [i \in 1..Len(content) |-> Leaf(content[i])]

\* The blocks in the order in which the importer adds them.
StoredOrder(content) ==
  IF Len(content) = 1 THEN Leaves(content) ELSE Append(Leaves(content), FileCid(content))

\* The blocks in breadth-first order from the root, each once.
TraversalOrder(content) ==
  IF Len(content) = 1 THEN Leaves(content)
  ELSE Distinct(<<FileCid(content)>> \o Leaves(content))

\* The CIDs of the DAG under c, to a depth of n links.
Under(c, n) ==
  LET level[i \in 0..n] == IF i = 0 THEN {c}
                           ELSE level[i - 1] \union UNION {Links(x) : x \in level[i - 1]}
  IN  level[n]
=============================================================================
