--------------------------- MODULE MCLRUBlockstore ---------------------------
(***************************************************************************)
(* LRUBlockstore and its refinement of LRUCache for TLC.                   *)
(***************************************************************************)
EXTENDS LRURefinement, TLC

CONSTANTS c1, c2, c3, c4, c5

\* Five CIDs: c1 to c4 fill a store of five together, and c5 alone is larger
\* than the limit of every configuration.
MCCIDs == {c1, c2, c3, c4, c5}
MCBlockLen == c1 :> 1 @@ c2 :> 1 @@ c3 :> 1 @@ c4 :> 2 @@ c5 :> 6
=============================================================================
