------------------------------- MODULE RoundTrip -------------------------------
(***************************************************************************)
(* A CAR from the builder to its reader.  car.StreamCAR and its variants   *)
(* (src/car/car.go) build a summary and write the CAR; what has reached    *)
(* the reader may be all of it, or less when the writer failed or the file *)
(* was cut.  Then ReadCAR makes a summary of it again (CARReader), or      *)
(* LoadCar puts its blocks into a store (CARLoader).                       *)
(***************************************************************************)
EXTENDS CARBuilder

CONSTANTS NameOrder, NoTree, BatchLimit,
          Summaries  \* summaries to compare, up to their lists of blocks

\* The order of the names is a list; what it lacks comes last.
ASSUME NamesAssumption == NameOrder \in Seq(ToSet(NameOrder))

\* Any number of blocks may be the most that a batch is left with.
ASSUME BatchAssumption == BatchLimit \in Nat

\* In a summary that was built or read, the lists of blocks and of sizes are
\* parallel, and a block has one size wherever it is listed.
ASSUME SummariesAssumption ==
  \A s \in Summaries :
    /\ s.order \in Seq(ToSet(s.order)) /\ s.sizes \in Seq(ToSet(s.sizes))
    /\ Len(s.order) = Len(s.sizes)
    /\ \A i, j \in DOMAIN s.order : s.order[i] = s.order[j] => s.sizes[i] = s.sizes[j]

VARIABLES
  \* of the reader
  car, rpc, stack, got, queue, current, rcancelled, routcome,
  \* of the loader
  stream, batched, at, batch, stored, lpc, loutcome

reader == <<car, rpc, stack, got, queue, current, rcancelled, routcome>>
loader == <<stream, batched, at, batch, stored, lpc, loutcome>>

R == INSTANCE CARReader WITH pc <- rpc, cancelled <- rcancelled, outcome <- routcome
L == INSTANCE CARLoader WITH pc <- lpc, outcome <- loutcome

allVars == <<vars, reader, loader>>

RTInit == Init /\ R!Init /\ L!Init

\* The CAR is written, as far as it will be.
Delivered == ~Running /\ bytes > 0

Unused == routcome = "none" /\ ~R!Reading /\ loutcome = "none" /\ ~L!Loading

\* newCARBuilder makes a builder for one call; its first pass.
PrepareCAR(t, w) == builds = 0 /\ BuildSummary(t, w)

\* The second pass.
ThenWrite == outcome = "built" /\ WriteCAR

StreamCAR ==
  /\ Unused
  /\ \/ \E t \in Trees, w \in BOOLEAN : PrepareCAR(t, w)
     \/ ThenWrite
     \/ Advance
     \/ IOFails
     \/ Cancel
  /\ UNCHANGED <<reader, loader>>

\* The number of sections that arrive: all that were written, or fewer when a
\* complete CAR is cut on its way.
Arriving == IF outcome = "written" THEN 0..Len(written) ELSE {Len(written)}

\* The CAR that arrives: as it was written, ending inside a section, or
\* without some of its last sections; in a CAR of the same blocks by another
\* writer, with another order, any block may be the last.
Files ==
  LET file(blocks, torn) == [root |-> summary.root, blocks |-> blocks, torn |-> torn]
      all == ToSet(written)
  IN  {file(all, TRUE)} \union {file(ToSet(SubSeq(written, 1, n)), FALSE) : n \in Arriving}
      \union (IF outcome = "written" THEN {file(all \ {c}, FALSE) : c \in all} ELSE {})

Read == /\ Delivered /\ Unused
        /\ \E file \in Files : R!ReadCAR(file)
        /\ UNCHANGED <<vars, loader>>

ReadStep == /\ R!Advance \/ R!Cancel
            /\ UNCHANGED <<vars, loader>>

\* The stream, whose section after the first n is flawed if it has one.
StreamOf(n, flaw) ==
  LET whole == [i \in 1..n |-> [cid |-> written[i], flaw |-> "none"]]
  IN  [header |-> TRUE,
       sections |-> IF flaw = "none" \/ n = Len(written) THEN whole
                    ELSE Append(whole, [cid |-> written[n + 1], flaw |-> flaw])]

Load == /\ Delivered /\ Unused
        /\ \E b \in BOOLEAN :
             \/ L!LoadCar(L!NoStream, b)
             \/ \E n \in Arriving, flaw \in L!Flaws \union {"none"} : L!LoadCar(StreamOf(n, flaw), b)
        /\ UNCHANGED <<vars, reader>>

LoadStep == /\ L!Advance
            /\ UNCHANGED <<vars, reader>>

RTNext == StreamCAR \/ Read \/ ReadStep \/ Load \/ LoadStep

\* A call that runs is not suspended for ever.
RTFairness == /\ WF_vars(Advance /\ Unused /\ UNCHANGED <<reader, loader>>)
              /\ WF_reader(R!Advance /\ UNCHANGED <<vars, loader>>)
              /\ WF_loader(L!Advance /\ UNCHANGED <<vars, reader>>)

RTSpec == RTInit /\ [][RTNext]_allVars /\ RTFairness

-----------------------------------------------------------------------------
(* The blocks of two summaries, as TreeSummary.Equal compares them. *)

\* A faulty equalBlocks without the counts.
EqualBlockSets(s, t) ==
  /\ Len(s.order) = Len(t.order)
  /\ \A i \in DOMAIN t.order : \E j \in DOMAIN s.order : s.order[j] = t.order[i] /\ s.sizes[j] = t.sizes[i]

\* The positions at which a block is listed.
Places(s, c) == {i \in DOMAIN s.order : s.order[i] = c}

\* The size that is left in the map when all blocks of s were entered in it.
SizeOf(s, c) == s.sizes[SelectLastInSeq(s.order, LAMBDA x : x = c)]

\* The blocks of s are counted, with the last size of each; those of t are
\* counted off.
EqualBlocks(s, t) ==
  /\ Len(s.order) = Len(t.order)
  /\ Len(s.sizes) = Len(t.sizes)
  /\ Len(s.order) = Len(s.sizes)
  /\ \A i \in DOMAIN t.order : /\ Places(s, t.order[i]) # {}
                               /\ SizeOf(s, t.order[i]) = t.sizes[i]
  /\ \A c \in ToSet(s.order) : Cardinality(Places(s, c)) = Cardinality(Places(t, c))

-----------------------------------------------------------------------------
(* Correctness. *)

\* All of the CAR that WriteCAR reported as written is there to be read.
Whole == outcome = "written" /\ ~car.torn /\ car.blocks = ToSet(written)

ReadBack == routcome = "read"

\* The blocks an entry is made of: the root, and what a directory links to.
EntryBlocks ==
  {summary.root} \union UNION {Links(c) : c \in {d \in DAG : R!AnalyzeNode(d).isDir}}

\* The types of the reader's and the loader's variables.
RTTypeOK ==
  /\ rpc \in {"idle", "index", "root", "walk", "blocks", "size", "links"}
  /\ routcome \in {"none", "read", "missing", "index", "cancelled"}
  /\ rcancelled \in BOOLEAN
  /\ got # NoTree => Len(got.order) = Len(got.sizes) /\ ROOT \in DOMAIN got.entries
  /\ \A i \in DOMAIN stack : stack[i].key \in DOMAIN got.entries
  /\ rpc \notin {"size", "links"} => current = Undef
  /\ lpc \in {"idle", "header", "sections"}
  /\ loutcome \in {"none", "loaded", "failed", "store failed"}
  /\ at \in 0..Len(stream.sections) /\ Len(batch) <= BatchLimit

\* ReadCAR fails for a missing block exactly when the block of an entry is
\* missing: it reads every complete CAR but those whose root links to an
\* empty directory, and a CAR that lacks chunks of files reads as if it were
\* whole (car_reader.go:184-227, car_reconstructor.go:549-552).  A directory
\* with the root's name links to blocks that are not in the CAR.
ReadsIfEntriesPresent ==
  NotReserved(source.tree) =>
    /\ ReadBack => EntryBlocks \subseteq car.blocks
    /\ routcome = "missing" => ~(EntryBlocks \subseteq car.blocks)
    /\ routcome = "missing" /\ Whole => EmptyDir \in Links(summary.root)

\* The blocks of a CAR that was read are listed once each, with their sizes,
\* and size 0 stands for a block that is missing; a CAR that is whole has
\* them all.  The size predicted from that list is the size of the CAR unless
\* a block was written twice (car_reconstructor.go:853-920).  A directory with
\* the root's name may keep others from being linked, whose blocks are in the
\* CAR all the same (car_dir_builder.go:1060-1076).
BlocksSurvive ==
  ReadBack /\ ~rcancelled =>
    /\ IsInjective(got.order)
    /\ \A i \in DOMAIN got.order :
         got.sizes[i] = IF got.order[i] \in car.blocks THEN BlockLen(got.order[i]) ELSE 0
    /\ got.total = Total(got.sizes)
    /\ Whole /\ NotReserved(source.tree) =>
         /\ ToSet(got.order) = ToSet(summary.order)
         /\ CARSize(got) <= bytes
         /\ IsInjective(written) => CARSize(got) = bytes

\* The filesystem gives no directory the root's name, and is not a file
\* itself: the entry of that is "." for the builder, and its name for the
\* reader.
Ordinary == NotReserved(source.tree) /\ \A it \in ToSet(source.tree) : it.path # CurrentDir

\* An entry that another one has the CID of, in the tree that was read.
HasTwin(p) == \E q \in DOMAIN got.entries : q # p /\ got.entries[q].cid = summary.entries[p].cid

\* A file of the filesystem is missing from what was read of its CAR only if
\* the file, or a directory above it that is not at the top, has the same
\* contents as an entry that was read (car_reconstructor.go:624-632).
LostOnlyToTwins ==
  ReadBack /\ Whole /\ R!AnalyzeNode(summary.root).isDir /\ Ordinary =>
    \A p \in R!GetFileTree(summary) \ R!GetFileTree(got) :
      \E n \in 2..Len(p) : HasTwin(SubSeq(p, 1, n))

\* No entry is invented, moved, or taken for another kind, and every entry is
\* listed by its parent, as the builder listed it; the virtual root lists the
\* same files (car_reconstructor.go:560-621).
StructureSurvives ==
  ReadBack /\ R!AnalyzeNode(summary.root).isDir /\ Ordinary =>
    /\ \A p \in DOMAIN got.entries \ {ROOT} :
         LET e == got.entries[p]
             parent == IF e.path = << >> THEN ROOT ELSE e.path
         IN  /\ p \in DOMAIN summary.entries
             /\ \A f \in {"name", "isDir", "path", "cid"} : e[f] = summary.entries[p][f]
             /\ ToSet(e.children) \subseteq ToSet(summary.entries[p].children)
             /\ parent \in DOMAIN got.entries
             /\ (e.isDir /\ parent = ROOT) \/ Contains(got.entries[parent].children, p)
    /\ ToSet(got.entries[ROOT].children) = ToSet(summary.entries[ROOT].children)

\* LoadCar puts the blocks in the order of the stream and none beyond the
\* first flaw; when it reports success all of them are in the store, which a
\* stream that ends right after a length prefix makes it do too; when it
\* fails, what is in the store are whole batches, unless the store failed
\* (car.go:185-226).
LoadsAllOrWholeBatches ==
  LET read == [i \in 1..at |-> stream.sections[i].cid]
  IN  /\ \A i \in 1..at : stream.sections[i].flaw = "none"
      /\ IsPrefix(stored, read)
      /\ loutcome = "loaded" => /\ stored = read
                                /\ \A i \in DOMAIN stream.sections :
                                     i > at => stream.sections[i].flaw = "after prefix"
      /\ loutcome = "failed" => /\ stream.header => at < Len(stream.sections)
                                /\ IF batched THEN Len(stored) % (BatchLimit + 1) = 0 /\ at - Len(stored) <= BatchLimit
                                              ELSE stored = read

\* One of two lists of blocks and sizes is a permutation of the other.
Permuted(s, t) ==
  \E f \in Bijection(DOMAIN s.order, DOMAIN t.order) :
    \A i \in DOMAIN s.order : s.order[i] = t.order[f[i]] /\ s.sizes[i] = t.sizes[f[i]]

\* equalBlocks finds whether one list of blocks and sizes is a permutation of
\* the other, whatever the number of times a block is listed
\* (car_dir_builder.go:318-361, "Tracking both size and count handles
\* duplicate CIDs correctly").
EqualBlocksIsPermutation ==
  builds = 0 => \A s, t \in Summaries : EqualBlocks(s, t) <=> Permuted(s, t)

\* Every call of ReadCAR and of LoadCar returns.
ReadsEnd == R!Reading \/ L!Loading ~> ~(R!Reading \/ L!Loading)

\* What is read from a CAR are the files it was built from
\* (car_reconstructor.go:974-975, "Round-trip: BuildSummary -> WriteCAR ->
\* ReadCAR -> GetFileTree = original files").
RoundTripKeepsFiles ==
  ReadBack /\ Whole /\ wrap => R!GetFileTree(got) = R!GetFileTree(summary)
=============================================================================
