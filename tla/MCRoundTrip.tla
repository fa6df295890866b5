------------------------------ MODULE MCRoundTrip ------------------------------
(***************************************************************************)
(* RoundTrip for TLC.                                                      *)
(***************************************************************************)
EXTENDS RoundTrip

File(p, content) == [path |-> p, name |-> Last(p), isDir |-> FALSE, content |-> content]
Dir(p) == [path |-> p, name |-> Last(p), isDir |-> TRUE, content |-> << >>]

\* Files with the same contents: at the top, below one directory, and below
\* two; a chunk that two files share.
Copies == << Dir(<<"a">>), File(<<"a", "f">>, <<"x", "y">>), File(<<"a", "g">>, <<"x", "y">>),
             Dir(<<"b">>), File(<<"b", "f">>, <<"z">>), File(<<"f">>, <<"y">>), File(<<"g">>, <<"y">>) >>

\* Directories with the same contents, nested and at the top.
TwinDirs == << Dir(<<"a">>), Dir(<<"a", "c">>), File(<<"a", "c", "f">>, <<"x">>),
               Dir(<<"b">>), Dir(<<"b", "c">>), File(<<"b", "c", "f">>, <<"x">>),
               Dir(<<"c">>), File(<<"c", "f">>, <<"x">>) >>

\* A chain of directories with an empty one at its end, and one at the top.
Chain == << Dir(<<"a">>), Dir(<<"a", "b">>), Dir(<<"a", "b", "e">>), File(<<"a", "b", "f">>, <<"x", "y">>) >>
EmptyTop == << File(<<"f">>, <<"x", "z">>), Dir(<<"d">>) >>

OneFile == << File(<<"f">>, <<"x", "y", "x">>) >>
Nothing == << >>

\* A filesystem that is a file, and three that use the name ROOT: one that
\* cannot be read back, one that can, and one whose root has two links of one
\* name and keeps a directory from being linked.
Itself == << [path |-> <<".">>, name |-> "f", isDir |-> FALSE, content |-> <<"x", "y">>] >>
Reserved == << Dir(<<"a">>), Dir(<<"a", "ROOT">>), File(<<"a", "ROOT", "f">>, <<"x">>) >>
ReservedRead == << Dir(<<"a">>), Dir(<<"a", "ROOT">>), File(<<"a", "ROOT", "a">>, <<"x">>),
                   Dir(<<"b">>), File(<<"b", "f">>, <<"y">>) >>
ReservedTop == << Dir(<<"ROOT">>), File(<<"ROOT", "a">>, <<"y">>), File(<<"ROOT", "f">>, <<"x">>),
                  Dir(<<"a">>), File(<<"a", "b">>, <<"x">>), File(<<"f">>, <<"y">>) >>

MCTrees == {Copies, TwinDirs, Chain, EmptyTop, OneFile, Nothing, Itself, Reserved, ReservedRead, ReservedTop}
CopiesOnly == {Copies}

\* The names in the order of their bytes.
MCNameOrder == <<"ROOT", "a", "b", "c", "d", "e", "f", "g">>

\* A store that never drops a block, and one that makes WriteCAR import files
\* again.  A leaf is shorter than 16384, its section's body is not.
MCStores == {[limit |-> Unlimited, touches |-> FALSE], [limit |-> 32900, touches |-> TRUE]}
DefaultStore == {[limit |-> Unlimited, touches |-> FALSE]}

\* Summaries of up to three blocks, each block of one size.
SmallSummaries ==
  {[order |-> o, sizes |-> [i \in DOMAIN o |-> size[o[i]]]] :
     o \in UNION {[1..n -> {"x", "y"}] : n \in 0..3}, size \in [{"x", "y"} -> {1, 2}]}
=============================================================================
