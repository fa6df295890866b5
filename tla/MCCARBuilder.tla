----------------------------- MODULE MCCARBuilder -----------------------------
(***************************************************************************)
(* CARBuilder for TLC.                                                     *)
(***************************************************************************)
EXTENDS CARBuilder

File(p, content) == [path |-> p, name |-> Last(p), isDir |-> FALSE, content |-> content]
Dir(p) == [path |-> p, name |-> Last(p), isDir |-> TRUE, content |-> << >>]

\* One file of two chunks, and the same as a filesystem that is one file.
TwoChunks == << File(<<"f">>, <<"x", "y">>) >>
OneFileFS == << [path |-> CurrentDir, name |-> "f", isDir |-> FALSE, content |-> <<"x", "y">>] >>

\* Two directories with the same contents, a chunk repeated, and a file whose
\* only chunk is a chunk of another.
Twins == << Dir(<<"a">>), File(<<"a", "f">>, <<"x", "x", "y">>),
            Dir(<<"b">>), File(<<"b", "f">>, <<"x", "x", "y">>), File(<<"c">>, <<"y">>) >>

\* Empty directories below directories that keep files: a loses two levels
\* and becomes the twin of b, c loses all of its subdirectories.
Pruned == << Dir(<<"a">>), Dir(<<"a", "e">>), Dir(<<"a", "e", "e">>), File(<<"a", "f">>, <<"x">>),
             Dir(<<"b">>), File(<<"b", "f">>, <<"x">>), Dir(<<"c">>), Dir(<<"c", "e">>) >>

\* A chain of directories, with an empty one at the end of a side branch.
Chain == << Dir(<<"a">>), Dir(<<"a", "b">>), Dir(<<"a", "b", "e">>), File(<<"a", "b", "f">>, <<"x", "y">>),
            Dir(<<"a", "d">>), Dir(<<"a", "d", "e">>) >>

\* Two files that have no chunk in common: a store for one of them drops the
\* other.
TwoFiles == << Dir(<<"a">>), File(<<"a", "f">>, <<"x", "y">>), File(<<"g">>, <<"z", "w">>) >>

\* A file whose name the builder reserves for the virtual root.
Reserved == << File(<<"ROOT">>, <<"x", "y">>), File(<<"g">>, <<"z">>) >>

Nothing == << >>

\* Another version of TwoChunks' file, and an empty directory at the top.
Edited == << File(<<"f">>, <<"x", "z">>), Dir(<<"d">>) >>

MCTrees == {TwoChunks, OneFileFS, Twins, Pruned, Chain, TwoFiles, Reserved, Nothing, Edited}

\* What a builder is given that has been used before.
MCLater == {Edited}

\* A directory of that name, below which there are a file and a directory.
ReservedDir == << Dir(<<"ROOT">>), Dir(<<"ROOT", "d">>), File(<<"ROOT", "d", "f">>, <<"x">>) >>

\* One filesystem each: a reserved name, an empty directory at the top.
ReservedOnly == {ReservedDir}
EmptyOnly == {Edited}

\* The default store, which never drops a block; LRU stores that hold the
\* largest file and little more, over a block service that touches the
\* blocks it has and over one that does not; one that is too small.
MCStores == {[limit |-> Unlimited, touches |-> FALSE], [limit |-> 370, touches |-> TRUE],
             [limit |-> 330, touches |-> FALSE], [limit |-> 200, touches |-> TRUE]}

DefaultStore == {[limit |-> Unlimited, touches |-> FALSE]}
=============================================================================
