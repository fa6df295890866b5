------------------------------- MODULE CARReader -------------------------------
(***************************************************************************)
(* car.ReadCAR (src/car/car_reader.go) and the reconstruction of a tree of *)
(* entries from a CAR (src/car/car_reconstructor.go): the CAR is indexed,  *)
(* walkDAG makes an entry for each link below the root, depth first, and   *)
(* collectBlockMetadata lists the blocks, breadth first.                   *)
(*                                                                         *)
(* The recursion of walkDAG is a stack of directories whose links are not  *)
(* all walked.  One action is one call of walkDAG, or one of the steps of  *)
(* the loop over the queue between which the context can be cancelled.     *)
(*                                                                         *)
(* The blockstore is an IndexedBlockstore over the CAR that nobody else    *)
(* uses: it has the blocks of the CAR, whatever its cache has dropped.     *)
(***************************************************************************)
EXTENDS UnixFS, Functions

CONSTANTS NameOrder,  \* the names of links, in the order of their bytes
          NoTree      \* the nil summary

VARIABLES
  car,        \* the CAR read: its root, the CIDs of its sections, and whether
              \* it ends inside a section
  pc,         \* where ReadCAR is
  stack,      \* the directories under walk, the innermost first
  got,        \* the summary being made, and its result, or NoTree
  queue,      \* the queue of collectBlockMetadata
  current,    \* the CID taken from it, or Undef
  cancelled,  \* the context is cancelled
  outcome     \* how the call ended

vars == <<car, pc, stack, got, queue, current, cancelled, outcome>>

ROOT == <<"ROOT">>

\* The name that stands for the string of the root's CID.
CidName == "cid"

\* The name of a file's link to one of its leaves.
NoName == ""

NoCAR == [root |-> Undef, blocks |-> {}, torn |-> FALSE]

Init == /\ car = NoCAR
        /\ pc = "idle"
        /\ stack = << >>
        /\ got = NoTree
        /\ queue = << >>
        /\ current = Undef
        /\ cancelled = FALSE
        /\ outcome = "none"

Reading == pc # "idle"

Has(c) == c \in car.blocks

\* What walkDAG reads in a block: whether it is a directory, and the length
\* of a file, in chunks.
AnalyzeNode(c) == [isDir |-> c[1] = "dir",
                   fileSize |-> CASE c[1] = "file" -> Len(c[2]) [] c[1] = "leaf" -> 1 [] OTHER -> 0]

\* The number of names before a name in the order.
Place(name) == Cardinality({n \in DOMAIN NameOrder : \A m \in 1..n : NameOrder[m] # name})

\* The links of the set L, sorted by name.  Only a directory that is named
\* ROOT can have several of one name, which then take turns.
Turn(L, l) == LET same == SetToSeq({k \in L : Place(k[1]) = Place(l[1])})
              IN  CHOOSE i \in DOMAIN same : same[i] = l
Before(L, k, l) == \/ Place(k[1]) < Place(l[1])
                   \/ Place(k[1]) = Place(l[1]) /\ Turn(L, k) < Turn(L, l)
ByName(L) ==
  LET rank == [l \in L |-> Cardinality({k \in L : k = l \/ Before(L, k, l)})]
  IN  [n \in 1..Cardinality(L) |-> CHOOSE l \in L : rank[l] = n]

\* The links of a block, pairs of a name and a CID, in the order of the
\* block: those of a directory are sorted by name, those of a file have none.
LinkSeq(c) ==
  CASE c[1] = "dir" -> ByName(c[2])
    [] c[1] = "file" -> [i \in DOMAIN c[2] |-> <<NoName, Leaf(c[2][i])>>]
    [] OTHER -> << >>

Fail(how) == /\ pc' = "idle"
             /\ outcome' = how
             /\ got' = NoTree
             /\ stack' = << >>
             /\ queue' = << >>
             /\ current' = Undef

-----------------------------------------------------------------------------
(* ReadCAR, up to the root. *)

ReadCAR(c) ==
  /\ ~Reading
  /\ car' = c
  /\ pc' = "index"
  /\ outcome' = "none"
  /\ cancelled' = FALSE
  /\ UNCHANGED <<stack, got, queue, current>>

\* IndexAll reads every section; the header is read after it.
IndexAll ==
  /\ pc = "index" /\ ~cancelled /\ ~car.torn
  /\ pc' = "root"
  /\ UNCHANGED <<car, stack, got, queue, current, cancelled, outcome>>

IndexFails ==
  /\ pc = "index" /\ ~cancelled /\ car.torn
  /\ Fail("index")
  /\ UNCHANGED <<car, cancelled>>

Entry(name, isDir, path, c, children, size) ==
  [name |-> name, isDir |-> isDir, path |-> path, cid |-> c, children |-> children, size |-> size]

\* The map f with the value e at x.
With(f, x, e) == [y \in DOMAIN f \union {x} |-> IF y = x THEN e ELSE f[y]]

\* The summary of a directory, before its links are walked.
DirectoryTree(c) ==
  [root |-> c, order |-> << >>, sizes |-> << >>, total |-> 0,
   entries |-> [p \in {ROOT} |-> Entry("ROOT", TRUE, << >>, c, << >>, 0)],
   cidToEntry |-> [x \in {c} |-> ROOT]]

\* The summary of a CAR that is one file, under the name of its CID.
FileTree(c) ==
  LET file == <<CidName>>
  IN  [root |-> c, order |-> << >>, sizes |-> << >>, total |-> 0,
       entries |-> With([p \in {ROOT} |-> Entry("ROOT", TRUE, << >>, c, <<file>>, 0)],
                        file, Entry(CidName, FALSE, << >>, c, << >>, AnalyzeNode(c).fileSize)),
       cidToEntry |-> [x \in {c} |-> file]]

\* The links of the root are walked whether or not their CIDs have an entry.
OpenRoot ==
  /\ pc = "root" /\ ~cancelled
  /\ Has(car.root)
  /\ pc' = "walk"
  /\ IF AnalyzeNode(car.root).isDir
     THEN /\ got' = DirectoryTree(car.root)
          /\ stack' = <<[key |-> ROOT, links |-> LinkSeq(car.root), skips |-> FALSE]>>
     ELSE /\ got' = FileTree(car.root)
          /\ stack' = << >>
  /\ UNCHANGED <<car, queue, current, cancelled, outcome>>

RootFails ==
  /\ pc = "root" /\ ~cancelled
  /\ ~Has(car.root)
  /\ Fail("missing")
  /\ UNCHANGED <<car, cancelled>>

-----------------------------------------------------------------------------
(* walkDAG. *)

\* A faulty test that skips an entry when another has its name.
SkippedByName(l) ==
  /\ Head(stack).skips
  /\ \E p \in DOMAIN got.entries : got.entries[p].name = l[1]

\* A faulty test that skips a link that leads nowhere.
SkippedMissing(l) == Head(stack).skips /\ (l[2] \in DOMAIN got.cidToEntry \/ ~Has(l[2]))

\* A link is skipped, below the root's own links, when its CID has an entry.
Skipped(l) == Head(stack).skips /\ l[2] \in DOMAIN got.cidToEntry

\* A faulty key, of the name alone.
NameKey(parent, name) == <<name>>

\* The key of an entry: what is below a directory whose key reads ROOT is
\* taken for an entry of the root.
EntryKey(parent, name) == IF parent = ROOT THEN <<name>> ELSE Append(parent, name)

\* A child is listed once.
Listed(children, key) == IF Contains(children, key) THEN children ELSE Append(children, key)

\* The tree with the node of link l below parent; ROOT lists files only.
Entered(tree, parent, l) ==
  LET key == EntryKey(parent, l[1])
      info == AnalyzeNode(l[2])
      new == IF key \in DOMAIN tree.entries THEN tree.entries[key]
             ELSE Entry(l[1], info.isDir, IF parent = ROOT THEN << >> ELSE parent, l[2], << >>, 0)
      updated == [new EXCEPT !.cid = l[2],
                             !.size = IF info.fileSize > 0 THEN info.fileSize ELSE @]
      all == With(tree.entries, key, updated)
  IN  [tree EXCEPT
        !.entries = IF (parent = ROOT /\ info.isDir) \/ parent \notin DOMAIN all THEN all
                    ELSE [all EXCEPT ![parent].children = Listed(@, key)],
        !.cidToEntry = With(@, l[2], key)]

\* A directory under walk has a link left.
Walking == pc = "walk" /\ stack # << >> /\ Head(stack).links # << >>

Link == Head(Head(stack).links)

\* The stack without the link.
Passed == <<[Head(stack) EXCEPT !.links = Tail(@)]>> \o Tail(stack)

SkipLink ==
  /\ Walking /\ Skipped(Link)
  /\ stack' = Passed
  /\ UNCHANGED <<car, pc, got, queue, current, cancelled, outcome>>

WalkLink ==
  /\ Walking /\ ~Skipped(Link) /\ ~cancelled
  /\ Has(Link[2])
  /\ got' = Entered(got, Head(stack).key, Link)
  /\ stack' = IF AnalyzeNode(Link[2]).isDir
              THEN <<[key |-> EntryKey(Head(stack).key, Link[1]), links |-> LinkSeq(Link[2]),
                      skips |-> TRUE]>> \o Passed
              ELSE Passed
  /\ UNCHANGED <<car, pc, queue, current, cancelled, outcome>>

WalkFails ==
  /\ Walking /\ ~Skipped(Link) /\ ~cancelled
  /\ ~Has(Link[2])
  /\ Fail("missing")
  /\ UNCHANGED <<car, cancelled>>

LeaveDirectory ==
  /\ pc = "walk" /\ stack # << >> /\ Head(stack).links = << >>
  /\ stack' = Tail(stack)
  /\ UNCHANGED <<car, pc, got, queue, current, cancelled, outcome>>

-----------------------------------------------------------------------------
(* collectBlockMetadata. *)

StartBlocks ==
  /\ pc = "walk" /\ stack = << >>
  /\ pc' = "blocks"
  /\ queue' = <<car.root>>
  /\ UNCHANGED <<car, stack, got, current, cancelled, outcome>>

\* A faulty set of the CIDs seen, that stays empty.
SeenNothing == {}

\* The CIDs taken from the queue before, when the next one is.
Seen == ToSet(got.order)

\* A faulty queue, that keeps a CID seen before.
NotDropped(c) == IF c \in Seen THEN queue ELSE Tail(queue)

\* The queue after its first CID, c, was taken.
Dropped(c) == Tail(queue)

TakeCid ==
  /\ pc = "blocks" /\ queue # << >> /\ ~cancelled
  /\ queue' = Dropped(Head(queue))
  /\ IF Head(queue) \in Seen
     THEN UNCHANGED <<pc, current>>
     ELSE current' = Head(queue) /\ pc' = "size"
  /\ UNCHANGED <<car, stack, got, cancelled, outcome>>

\* A block that cannot be had: it is missing, or the context is cancelled.
Available(c) == Has(c) /\ ~cancelled

\* A faulty list of sizes, without those of the blocks that cannot be had.
ListedIfAvailable(tree, c) ==
  [tree EXCEPT !.order = Append(@, c),
               !.sizes = IF Available(c) THEN Append(@, BlockLen(c)) ELSE @]

\* The block is listed, with the size 0 if it cannot be had.
ListedBlock(tree, c) ==
  LET size == IF Available(c) THEN BlockLen(c) ELSE 0
  IN  [tree EXCEPT !.order = Append(@, c), !.sizes = Append(@, size), !.total = @ + size]

TakeSize ==
  /\ pc = "size"
  /\ got' = ListedBlock(got, current)
  /\ pc' = "links"
  /\ UNCHANGED <<car, stack, queue, current, cancelled, outcome>>

\* Its links are queued if it can be had.
TakeLinks ==
  /\ pc = "links"
  /\ LET links == LinkSeq(current)
         cids == [i \in DOMAIN links |-> links[i][2]]
     IN  queue' = IF Available(current) THEN queue \o Those(cids, ToSet(cids) \ Seen)
                  ELSE queue
  /\ current' = Undef
  /\ pc' = "blocks"
  /\ UNCHANGED <<car, stack, got, cancelled, outcome>>

FinishRead ==
  /\ pc = "blocks" /\ queue = << >>
  /\ pc' = "idle"
  /\ outcome' = "read"
  /\ UNCHANGED <<car, stack, got, queue, current, cancelled>>

-----------------------------------------------------------------------------
Cancel == /\ Reading /\ ~cancelled
          /\ cancelled' = TRUE
          /\ UNCHANGED <<car, pc, stack, got, queue, current, outcome>>

\* The checks of ctx.Err(): while the CAR is indexed, at every node of the
\* walk, and at every CID taken from the queue.
Stop ==
  /\ cancelled
  /\ \/ pc \in {"index", "root"}
     \/ Walking /\ ~Skipped(Link)
     \/ pc = "blocks" /\ queue # << >>
  /\ Fail("cancelled")
  /\ UNCHANGED <<car, cancelled>>

Advance == \/ IndexAll \/ IndexFails \/ OpenRoot \/ RootFails
           \/ SkipLink \/ WalkLink \/ WalkFails \/ LeaveDirectory
           \/ StartBlocks \/ TakeCid \/ TakeSize \/ TakeLinks \/ FinishRead
           \/ Stop

-----------------------------------------------------------------------------
(* The lists a caller takes from a summary. *)

GetFileTree(tree) == {p \in DOMAIN tree.entries \ {ROOT} : ~tree.entries[p].isDir}

GetDirectoryTree(tree) == {p \in DOMAIN tree.entries \ {ROOT} : tree.entries[p].isDir}
=============================================================================
