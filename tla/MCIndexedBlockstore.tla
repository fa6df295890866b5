-------------------------- MODULE MCIndexedBlockstore --------------------------
(***************************************************************************)
(* IndexedBlockstore for TLC.  Bytes are numbers below 8, and a length has *)
(* two bits per byte.                                                      *)
(***************************************************************************)
EXTENDS IndexedBlockstore, TLC

CONSTANTS p1, p2

MCProcs == {p1, p2}

\* Nothing tells the goroutines apart.
MCSymmetry == Permutations(MCProcs)

\* a and v are one block under two codecs; w is not in the CAR; x is too long.
MCCids == {"a", "b", "v", "w", "x"}
MCDigest == [c \in MCCids |-> IF c = "v" THEN "a" ELSE c]
MCCidBytes == [c \in MCCids |-> CASE c = "a" -> <<1, 2>> [] c = "v" -> <<3, 2>>
                                  [] c = "b" -> <<1, 3>> [] c = "w" -> <<1, 0>> [] c = "x" -> <<1, 1>>]

\* The data of b has a length and the CID of a in it.
MCData == [c \in MCCids |-> CASE c \in {"a", "v"} -> <<7>> [] c = "w" -> <<5>>
                              [] c = "b" -> <<3, 1, 2, 0>> [] c = "x" -> <<0, 0, 0, 0, 0>>]

MCSections == <<"b", "a", "v", "x">>

\* A header and the sections: length, CID and data.
MCCAR == <<1, 0>> \o <<6, 1, 1, 3, 3, 1, 2, 0>> \o <<3, 1, 2, 7>> \o <<3, 3, 2, 7>>
           \o <<7, 1, 1, 1, 0, 0, 0, 0, 0>>
MCStart == <<2, 10, 14, 18>>
MCLenBytes == <<2, 1, 1, 2>>

\* A CARv2 with the same CAR behind three bytes.
MCPragma == <<2, 0, 0>>
MCDataOffset == Len(MCPragma)
MCFileV2 == MCPragma \o MCCAR
MCStartV2 == [i \in 1..Len(MCSections) |-> MCDataOffset + MCStart[i]]
=============================================================================
