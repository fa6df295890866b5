--------------------------- MODULE MCLevelBlockStore ---------------------------
(***************************************************************************)
(* LevelBlockStore for TLC.                                                *)
(***************************************************************************)
EXTENDS LevelBlockStore, TLC

\* A chain a, p, q, r with a shortcut from r to p, and v, a raw block with
\* the digest of p.
MCCids == {"a", "p", "q", "r", "v"}
MCLinks == "a" :> {} @@ "p" :> {"a"} @@ "q" :> {"p", "a"} @@ "r" :> {"q", "p"} @@ "v" :> {}
MCHeight == "a" :> 0 @@ "p" :> 1 @@ "q" :> 2 @@ "r" :> 3 @@ "v" :> 0
MCDigest == [c \in MCCids |-> IF c = "v" THEN "p" ELSE c]
=============================================================================
