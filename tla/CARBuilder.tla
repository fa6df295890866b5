------------------------------ MODULE CARBuilder ------------------------------
(***************************************************************************)
(* car.CARBuilder (src/car/car_dir_builder.go): the two passes that turn a *)
(* filesystem into a CAR.  BuildSummary walks the filesystem, makes the    *)
(* blocks of its files, then those of its directories from the deepest up, *)
(* prunes the empty directories and makes all directory blocks again.      *)
(* WriteCAR writes the blocks the summary lists, making those again that   *)
(* the blockstore has dropped in the meantime.                             *)
(*                                                                         *)
(* One action is one round of a loop of the code: the builder is           *)
(* sequential, but its context can be cancelled, a file or the writer can  *)
(* fail between any two rounds, and the loops over Go maps run in any      *)
(* order.  A builder may be used again, for another filesystem.            *)
(*                                                                         *)
(* A path is the sequence of its elements.  ROOT, the key of the virtual   *)
(* root in TreeEntries, is the path of a top-level entry of that name: the *)
(* code uses one string for both.                                          *)
(***************************************************************************)
EXTENDS UnixFS, FiniteSetsExt, Functions

CONSTANTS Trees,      \* the filesystems: sequences of entries in walk order
          Stores,     \* the kinds of blockstore the builder may be given
          CidLen,     \* the length of a CID, in bytes
          HeaderLen,  \* the length of a CAR header, with its length prefix
          Unlimited,  \* no limit: the limit of a store that never drops a block
          NoSummary,  \* the nil summary
          MaxBuilds,  \* bound on the number of calls of BuildSummary
          Later       \* bound on the filesystems that calls after the first get

\* The filesystems, and the contents of their files, are sequences.  The
\* directory "." that the walk begins with is not in them.
ASSUME TreesAssumption ==
  \A t \in Trees : /\ t \in Seq(ToSet(t))
                   /\ \A it \in ToSet(t) : it.content \in Seq(ToSet(it.content))

CurrentDir == <<".">>

\* fs.WalkDir visits an entry once, under a path that ends with its name, and
\* a directory before what is in it.  A filesystem that is one file has the
\* path "." for it.
WalkOrder(t) ==
  /\ \A i, j \in DOMAIN t : t[i].path = t[j].path => i = j
  /\ \A i \in DOMAIN t :
       LET it == t[i]
       IN  /\ it.isDir \in BOOLEAN
           /\ it.path \in Seq(ToSet(it.path)) \ {<< >>}
           /\ IF it.path = CurrentDir THEN ~it.isDir /\ Len(t) = 1 ELSE it.name = Last(it.path)
           /\ Len(it.path) > 1 => \E j \in 1..(i - 1) : t[j].isDir /\ t[j].path = Front(it.path)

ASSUME WalkAssumption == \A t \in Trees : WalkOrder(t)

\* A store may hold so many bytes, or drops no block.
ASSUME StoresAssumption == \A s \in Stores : s.limit \in Nat \union {Unlimited}

ASSUME BoundsAssumption == CidLen \in Nat /\ HeaderLen \in Nat /\ MaxBuilds \in Nat

VARIABLES
  bs,         \* the kind of blockstore: its limit, and whether adding a block
              \* that is stored counts as a use of it
  store,      \* the CIDs in the blockstore, the most recently used one first
  tree,       \* b.filesystem
  wrap,       \* b.wrapInDir
  summary,    \* b.summary, or NoSummary
  work,       \* the summary that BuildSummary is building
  walk,       \* the entries fs.WalkDir has not visited yet
  dirs,       \* the directories the current loop has not handled yet
  todo,       \* what is left of the import of a file: blocks to add to the
              \* store, then blocks to collect from it
  pc,         \* where the builder is
  cancelled,  \* the context of the running call is cancelled
  outcome,    \* how the last call ended
  written,    \* the CIDs of the blocks in the CAR being written
  bytes,      \* the number of bytes written to that CAR
  builds,     \* the number of calls of BuildSummary
  source      \* history: the call of BuildSummary that b.summary is from

given == <<bs, tree, wrap, builds>>       \* what only a new call changes
locals == <<work, walk, dirs, todo>>      \* the variables of the running call
control == <<pc, outcome, cancelled>>
published == <<summary, source>>
writing == <<written, bytes>>
vars == <<given, locals, control, published, writing, store>>

LRU == INSTANCE LRUOrder WITH Length <- BlockLen

ROOT == <<"ROOT">>

\* The virtual root that BuildSummary starts with.
NewSummary ==
  [root |-> Undef, order |-> << >>, sizes |-> << >>, total |-> 0,
   entries |-> [p \in {ROOT} |-> [name |-> "ROOT", isDir |-> TRUE, path |-> ROOT,
                                   cid |-> Undef, children |-> << >>]],
   cidToEntry |-> << >>]

NoImport == [add |-> << >>, collect |-> << >>]

Init == /\ bs \in Stores
        /\ store = << >>
        /\ tree = << >>
        /\ wrap = TRUE
        /\ summary = NoSummary
        /\ work = NewSummary
        /\ walk = << >>
        /\ dirs = {}
        /\ todo = NoImport
        /\ pc = "idle"
        /\ cancelled = FALSE
        /\ outcome = "none"
        /\ written = << >>
        /\ bytes = 0
        /\ builds = 0
        /\ source = [tree |-> << >>, wrap |-> TRUE]

Running == pc # "idle"

\* The call under way returns, and its local variables are gone.
Return(how) == /\ pc' = "idle"
               /\ outcome' = how
               /\ work' = NewSummary
               /\ walk' = << >>
               /\ dirs' = {}
               /\ todo' = NoImport

-----------------------------------------------------------------------------
(* The blockstore, through the DAG service. *)

\* The DAG service adds a block: whether it puts a block that is stored
\* already is up to the block service.  A store without a limit drops none.
Add(s, c) ==
  IF Contains(s, c) THEN IF bs.touches THEN LRU!Used(s, c) ELSE s
  ELSE IF bs.limit = Unlimited THEN <<c>> \o s ELSE LRU!Put(s, c, bs.limit)

\* A faulty collectAllBlocks that leaves the block it visited in its queue.
NotDequeued(s) == s

\* The queue of collectAllBlocks without the block just visited.
Dequeued(s) == Tail(s)

\* createUnixFSBlocks: the importer adds the blocks of a file, then
\* collectAllBlocks fetches them, root first.
ImportOf(content) == [add |-> StoredOrder(content), collect |-> TraversalOrder(content)]

Importing == pc \in {"import", "reimport"}
Imported == todo = NoImport

ImportBlock ==
  /\ Importing /\ todo.add # << >>
  /\ store' = Add(store, Head(todo.add))
  /\ todo' = [todo EXCEPT !.add = Tail(@)]
  /\ UNCHANGED <<given, work, walk, dirs, control, published, writing>>

Collecting == Importing /\ ~cancelled /\ todo.add = << >> /\ todo.collect # << >>

CollectBlock ==
  /\ Collecting
  /\ Contains(store, Head(todo.collect))
  /\ store' = LRU!Used(store, Head(todo.collect))
  /\ todo' = [todo EXCEPT !.collect = Dequeued(@)]
  /\ UNCHANGED <<given, work, walk, dirs, control, published, writing>>

\* The store has dropped a block of the file before it was collected.
CollectFails ==
  /\ Collecting
  /\ ~Contains(store, Head(todo.collect))
  /\ Return("missing")
  /\ UNCHANGED <<given, cancelled, published, writing, store>>

-----------------------------------------------------------------------------
(* The tree of entries. *)

\* The map f with the value e at x, and without x.
With(f, x, e) == [y \in DOMAIN f \union {x} |-> IF y = x THEN e ELSE f[y]]
Without(f, x) == [y \in DOMAIN f \ {x} |-> f[y]]

\* The map f, over the map g where it says nothing.
Over(f, g) == [y \in DOMAIN f \union DOMAIN g |-> IF y \in DOMAIN f THEN f[y] ELSE g[y]]

Total(sizes) == FoldSeq(+, 0, sizes)

SizesOf(cs) == [i \in DOMAIN cs |-> BlockLen(cs[i])]

\* A new entry e at path p joins the children of its parent; a top-level
\* directory joins no one's.
Entered(entries, p, e) ==
  LET all == With(entries, p, e)
      parent == IF e.path = << >> THEN ROOT ELSE e.path
  IN  IF (e.isDir /\ e.path = << >>) \/ parent \notin DOMAIN all THEN all
      ELSE [all EXCEPT ![parent].children = Append(@, p)]

\* A faulty order of the directories: parents before what is below them.
Shallowest(D) == {p \in D : \A q \in D : Len(p) <= Len(q)}

\* pathDepth orders the directories, deepest first and the root last.
Deepest(D) ==
  LET below == D \ {ROOT}
  IN  IF below = {} THEN D ELSE {p \in below : \A q \in below : Len(q) <= Len(p)}

Directories(entries) == {p \in DOMAIN entries : entries[p].isDir}

\* The links of a directory to those of its children that have a CID.
ChildLinks(entries, e) ==
  {<<entries[p].name, entries[p].cid>> :
     p \in {q \in ToSet(e.children) \intersect DOMAIN entries : entries[q].cid # Undef}}

\* The links that only the root has, to the top-level directories.
TopLinks(entries, present) ==
  {<<entries[p].name, entries[p].cid>> :
     p \in {q \in Directories(entries) \ {ROOT} :
              entries[q].path = << >> /\ \A l \in present : l[1] # entries[q].name}}

\* createDirectoryBlock: the CID of the block made for the entry e.
DirectoryBlock(entries, e) ==
  LET links == ChildLinks(entries, e)
  IN  DirCid(links \union IF e.name = "ROOT" THEN TopLinks(entries, links) ELSE {})

\* isDirectoryEmpty: no file below, at any depth.
IsEmptyDir(entries, p) ==
  LET emptyAt[q \in DOMAIN entries] ==
        /\ entries[q].isDir
        /\ \A k \in ToSet(entries[q].children) \intersect DOMAIN entries : emptyAt[k]
  IN  emptyAt[p]

EmptyDirs(entries) ==
  {p \in Directories(entries) \ {ROOT} : IsEmptyDir(entries, p)}

\* The first position of x in the sequence s, or 0.
Position(s, x) == SelectInSeq(s, LAMBDA y : y = x)

-----------------------------------------------------------------------------
(* Pass 1: BuildSummary. *)

\* b.summary is the last summary until the new one is complete.
SummaryKept(t, w) == UNCHANGED published

BuildSummary(t, w) ==
  /\ ~Running
  /\ builds < MaxBuilds /\ (builds > 0 => t \in Later)
  /\ builds' = builds + 1
  /\ tree' = t
  /\ wrap' = w
  /\ work' = NewSummary
  /\ walk' = t
  /\ pc' = "walk"
  /\ outcome' = "none"
  /\ cancelled' = FALSE
  /\ SummaryKept(t, w)
  /\ UNCHANGED <<bs, dirs, todo, writing, store>>

\* The walk has an entry to visit, and its context is alive.
Visiting == pc = "walk" /\ ~cancelled /\ walk # << >>

\* An entry whose path reads ROOT is skipped.
VisitSkipped ==
  /\ Visiting
  /\ Head(walk).path = ROOT
  /\ walk' = Tail(walk)
  /\ UNCHANGED <<given, work, dirs, todo, control, published, writing, store>>

VisitDir ==
  /\ Visiting
  /\ Head(walk).path # ROOT /\ Head(walk).isDir
  /\ LET it == Head(walk)
     IN  work' = [work EXCEPT !.entries =
                    Entered(@, it.path, [name |-> it.name, isDir |-> TRUE, path |-> Front(it.path),
                                         cid |-> Undef, children |-> << >>])]
  /\ walk' = Tail(walk)
  /\ UNCHANGED <<given, dirs, todo, control, published, writing, store>>

\* A file is opened, and its blocks are made.
VisitFile ==
  /\ Visiting
  /\ Head(walk).path # ROOT /\ ~Head(walk).isDir
  /\ todo' = ImportOf(Head(walk).content)
  /\ pc' = "import"
  /\ UNCHANGED <<given, work, walk, dirs, outcome, cancelled, published, writing, store>>

\* A faulty index of a file's blocks, without its leaves.
IndexOfRoot(it) == FileCid(it.content) :> it.path

\* All blocks of a file are indexed under it.
IndexOf(it) == [c \in ToSet(TraversalOrder(it.content)) |-> it.path]

\* Its blocks are listed and indexed.
EnterFile ==
  /\ pc = "import" /\ Imported
  /\ LET it == Head(walk)
         cids == TraversalOrder(it.content)
     IN  work' = [work EXCEPT
           !.order = @ \o cids,
           !.sizes = @ \o SizesOf(cids),
           !.total = @ + Total(SizesOf(cids)),
           !.entries = Entered(@, it.path,
                         [name |-> it.name, isDir |-> FALSE, path |-> Front(it.path),
                          cid |-> FileCid(it.content), children |-> << >>]),
           !.cidToEntry = Over(IndexOf(it), @)]
  /\ walk' = Tail(walk)
  /\ pc' = "walk"
  /\ UNCHANGED <<given, dirs, todo, outcome, cancelled, published, writing, store>>

TopFiles(entries) == {p \in DOMAIN entries \ {ROOT} : entries[p].path = << >>}

\* The walk found one file and no directory, and the file is not to be
\* wrapped: it is its own root.
SingleFile ==
  /\ ~wrap
  /\ Directories(work.entries) = {ROOT}
  /\ Cardinality(TopFiles(work.entries)) = 1

FinishSingleFile ==
  /\ pc = "walk" /\ walk = << >> /\ SingleFile
  /\ \E p \in TopFiles(work.entries) : summary' = [work EXCEPT !.root = work.entries[p].cid]
  /\ source' = [tree |-> tree, wrap |-> wrap]
  /\ Return("built")
  /\ UNCHANGED <<given, cancelled, writing, store>>

StartDirectories ==
  /\ pc = "walk" /\ walk = << >> /\ ~SingleFile
  /\ dirs' = Directories(work.entries)
  /\ pc' = "directories"
  /\ UNCHANGED <<given, work, walk, todo, outcome, cancelled, published, writing, store>>

\* A directory block is made for the first time.
MakeDirectory(p) ==
  /\ pc = "directories" /\ ~cancelled
  /\ p \in Deepest(dirs)
  /\ LET c == DirectoryBlock(work.entries, work.entries[p])
     IN  /\ store' = Add(store, c)
         /\ work' = [work EXCEPT
              !.root = IF p = ROOT THEN c ELSE @,
              !.order = Append(@, c),
              !.sizes = Append(@, BlockLen(c)),
              !.total = @ + BlockLen(c),
              !.entries[p].cid = c,
              !.cidToEntry = With(@, c, p)]
  /\ IF dirs = {p} THEN dirs' = EmptyDirs(work.entries) /\ pc' = "prune"
                   ELSE dirs' = dirs \ {p} /\ pc' = pc
  /\ UNCHANGED <<given, walk, todo, outcome, cancelled, published, writing>>

\* A faulty removal from BlockSizes, that leaves them as they are.
SizesKept(sizes, at) == sizes

\* The sizes without the one at position at, if it is one.
SizesWithout(sizes, at) == IF at = 0 THEN sizes ELSE RemoveAt(sizes, at)

\* One directory without files is pruned: it leaves its parent's children,
\* the block list and the index, but not the tree of entries.
PruneDirectory(p) ==
  /\ pc = "prune"
  /\ p \in dirs
  /\ LET e == work.entries[p]
         parent == IF e.path = << >> THEN ROOT ELSE e.path
         at == Position(work.order, e.cid)
     IN  work' = [work EXCEPT
           !.entries[parent].children = RemoveFirst(@, p),
           !.order = IF at = 0 THEN @ ELSE RemoveAt(@, at),
           !.sizes = SizesWithout(@, at),
           !.cidToEntry = IF at = 0 THEN @ ELSE Without(@, e.cid)]
  /\ dirs' = dirs \ {p}
  /\ UNCHANGED <<given, walk, todo, control, published, writing, store>>

StartRegeneration ==
  /\ pc = "prune" /\ dirs = {}
  /\ dirs' = Directories(work.entries)
  /\ pc' = "regenerate"
  /\ UNCHANGED <<given, work, walk, todo, outcome, cancelled, published, writing, store>>

\* A faulty update of a list that leaves the old element where it is.
OldKept(s, at, appended, x) == Append(s, x)

\* A list with x in place of the element at position at, or at its end.
Relisted(s, at, appended, x) ==
  IF at # 0 THEN ReplaceAt(s, at, x) ELSE IF appended THEN Append(s, x) ELSE s

\* A faulty update of the index that deletes the old CID last.
ReindexedThenDeleted(index, old, new, p) == Without(With(index, new, p), old)

\* The index with the directory at p under its new CID.
Reindexed(index, old, new, p) == With(Without(index, old), new, p)

\* The summary after the block of the directory at p was made again: the new
\* CID takes the place of the old one.
Regenerated(p) ==
  LET e == work.entries[p]
      c == DirectoryBlock(work.entries, e)
      at == Position(work.order, e.cid)
      appended == e.children # << >>
  IN  [work EXCEPT
        !.root = IF p = ROOT THEN c ELSE @,
        !.order = Relisted(@, at, appended, c),
        !.sizes = Relisted(@, at, appended, BlockLen(c)),
        !.entries[p].cid = c,
        !.cidToEntry = Reindexed(@, e.cid, c, p)]

RegenerateDirectory(p) ==
  /\ pc = "regenerate" /\ ~cancelled
  /\ p \in Deepest(dirs)
  /\ store' = Add(store, DirectoryBlock(work.entries, work.entries[p]))
  /\ IF dirs # {p}
     THEN /\ work' = Regenerated(p)
          /\ dirs' = dirs \ {p}
          /\ UNCHANGED <<walk, todo, pc, outcome, published>>
     ELSE /\ summary' = Regenerated(p)
          /\ source' = [tree |-> tree, wrap |-> wrap]
          /\ Return("built")
  /\ UNCHANGED <<given, cancelled, writing>>

-----------------------------------------------------------------------------
(* The size predicted from a summary, and pass 2: WriteCAR. *)

\* The length of the length prefix n, up to 2^28, far beyond any block: seven
\* bits to a byte.
UvarintSize(n) ==
  IF n < 128 THEN 1 ELSE IF n < 16384 THEN 2 ELSE IF n < 2097152 THEN 3 ELSE 4

\* The length of the section of a block of n bytes: length prefix, CID, data.
SectionLen(n) == UvarintSize(CidLen + n) + CidLen + n

\* CalculateCARSize
CARSize(s) == HeaderLen + Total([i \in DOMAIN s.order |-> SectionLen(s.sizes[i])])

\* A faulty header, appended to what the last call has written.
HeaderAppended == /\ bytes' = bytes + HeaderLen
                  /\ UNCHANGED written

\* The CAR begins with its header.
WriteHeader == /\ written' = << >>
               /\ bytes' = HeaderLen

WriteCAR ==
  /\ ~Running
  /\ summary # NoSummary
  /\ WriteHeader
  /\ pc' = "write"
  /\ outcome' = "none"
  /\ cancelled' = FALSE
  /\ UNCHANGED <<given, locals, published, store>>

\* A block is left to write, and the context is alive.
Writing == pc = "write" /\ ~cancelled /\ Len(written) < Len(summary.order)

NextBlock == summary.order[Len(written) + 1]

\* A faulty write that goes on as if the block were not in the store, and so
\* writes it twice.
WriteSectionTwice == /\ written' = written \o <<NextBlock, NextBlock>>
                     /\ bytes' = bytes + 2 * SectionLen(BlockLen(NextBlock))

\* The next section is written, with the data of its CID.
WriteSection == /\ written' = Append(written, NextBlock)
                /\ bytes' = bytes + SectionLen(BlockLen(NextBlock))

\* The block is in the store, or is again after its file was imported again.
WriteBlock ==
  /\ Writing \/ (pc = "reimport" /\ Imported)
  /\ Contains(store, NextBlock)
  /\ store' = LRU!Used(store, NextBlock)
  /\ WriteSection
  /\ pc' = "write"
  /\ UNCHANGED <<given, locals, outcome, cancelled, published>>

Dropped == Writing /\ ~Contains(store, NextBlock)
Indexed == NextBlock \in DOMAIN summary.cidToEntry
EntryOfBlock == summary.entries[summary.cidToEntry[NextBlock]]

\* The files that Open(entry.Path/entry.Name) finds, one at most: a
\* filesystem that is one file opens it by its name too.
Opened(e) ==
  {it \in ToSet(tree) : ~it.isDir /\ (\/ it.path = Append(e.path, e.name)
                                      \/ it.path = CurrentDir /\ e.path = << >> /\ it.name = e.name)}

\* A block that the store has dropped is one of a file: the file is imported
\* again.
ReimportFile ==
  /\ Dropped /\ Indexed /\ ~EntryOfBlock.isDir
  /\ \E it \in Opened(EntryOfBlock) : todo' = ImportOf(it.content)
  /\ pc' = "reimport"
  /\ UNCHANGED <<given, work, walk, dirs, outcome, cancelled, published, writing, store>>

\* It is the block of a directory: the directory is made again, which adds it
\* to the store.
RemakeDirectory ==
  /\ Dropped /\ Indexed /\ EntryOfBlock.isDir
  /\ DirectoryBlock(summary.entries, EntryOfBlock) = NextBlock
  /\ store' = Add(store, NextBlock)
  /\ WriteSection
  /\ UNCHANGED <<given, locals, control, published>>

\* No entry is known for the block, its file cannot be opened, its directory
\* has another block now, or its file was imported without bringing it back.
WriteFails ==
  /\ \/ /\ Dropped
        /\ Indexed => IF EntryOfBlock.isDir
                      THEN DirectoryBlock(summary.entries, EntryOfBlock) # NextBlock
                      ELSE Opened(EntryOfBlock) = {}
        /\ store' = IF Indexed /\ EntryOfBlock.isDir
                    THEN Add(store, DirectoryBlock(summary.entries, EntryOfBlock)) ELSE store
     \/ /\ pc = "reimport" /\ Imported /\ ~Contains(store, NextBlock)
        /\ UNCHANGED store
  /\ Return("missing")
  /\ UNCHANGED <<given, cancelled, published, writing>>

FinishWrite ==
  /\ pc = "write" /\ Len(written) = Len(summary.order)
  /\ Return("written")
  /\ UNCHANGED <<given, cancelled, published, writing, store>>

-----------------------------------------------------------------------------
(* The context and the outside world. *)

\* The writer fails at the next section, when its block has been fetched or its
\* directory made again.
SectionFails ==
  \/ /\ Writing \/ (pc = "reimport" /\ Imported)
     /\ Contains(store, NextBlock)
     /\ store' = LRU!Used(store, NextBlock)
  \/ /\ Dropped /\ Indexed /\ EntryOfBlock.isDir
     /\ DirectoryBlock(summary.entries, EntryOfBlock) = NextBlock
     /\ store' = Add(store, NextBlock)

\* An entry cannot be visited or opened, a file cannot be read to its end or,
\* when its blocks are made, closed, or the writer fails at the header or at a
\* section.
IOFails ==
  /\ \/ /\ Visiting \/ Writing \/ (Importing /\ todo.add # << >>) \/ (pc = "import" /\ Imported)
        /\ UNCHANGED store
     \/ SectionFails
  /\ Return("io")
  /\ UNCHANGED <<given, cancelled, published, writing>>

Cancel == /\ Running /\ ~cancelled
          /\ cancelled' = TRUE
          /\ UNCHANGED <<given, locals, pc, outcome, published, writing, store>>

\* The checks of ctx.Err(), at every visit, block collected, directory block
\* and block written.
Stop ==
  /\ cancelled
  /\ \/ pc = "walk" /\ walk # << >>
     \/ Importing /\ todo.collect # << >>
     \/ pc \in {"directories", "regenerate"}
     \/ pc = "write" /\ Len(written) < Len(summary.order)
  /\ Return("cancelled")
  /\ UNCHANGED <<given, cancelled, published, writing, store>>

Advance ==
  \/ VisitSkipped \/ VisitDir \/ VisitFile \/ ImportBlock \/ CollectBlock \/ CollectFails \/ EnterFile
  \/ FinishSingleFile \/ StartDirectories \/ StartRegeneration
  \/ \E p \in dirs : MakeDirectory(p) \/ PruneDirectory(p) \/ RegenerateDirectory(p)
  \/ WriteBlock \/ ReimportFile \/ RemakeDirectory \/ WriteFails \/ FinishWrite
  \/ Stop

Next == \/ \E t \in Trees, w \in BOOLEAN : BuildSummary(t, w)
        \/ WriteCAR
        \/ Advance
        \/ IOFails
        \/ Cancel

\* A call that runs is not suspended for ever.
Fairness == WF_vars(Advance)

Spec == Init /\ [][Next]_vars /\ Fairness

-----------------------------------------------------------------------------
(* What the summary should be, from the filesystem alone. *)

\* The entries that the walk does not skip.
Visible(t) == {it \in ToSet(t) : it.path # ROOT}

\* The name ROOT, which is the virtual root's, is given to no directory but an
\* empty one at the top, which is skipped.
NotReserved(t) ==
  \A it \in ToSet(t) : /\ \A i \in DOMAIN it.path : it.path[i] = "ROOT" => i = Len(it.path)
                       /\ it.isDir /\ it.name = "ROOT" => it.path = ROOT

\* The entries of V in the directory at p.
Inside(V, p) == {it \in V : Front(it.path) = p}

HasFile(V, p) == \E it \in V : ~it.isDir /\ IsPrefix(p, it.path)

\* The CID of the tree of entries V, by recursion over it.  Directories
\* without files are left out, except, as in the code, at the top.
MerkleRoot(V) ==
  LET cidAt[it \in V] ==
        IF it.isDir
        THEN DirCid({<<k.name, cidAt[k]>> : k \in {x \in Inside(V, it.path) : HasFile(V, x.path)}})
        ELSE FileCid(it.content)
  IN  DirCid({<<k.name, cidAt[k]>> : k \in Inside(V, << >>)})

\* A filesystem of one file.
LoneFile(V) == \E it \in V : V = {it} /\ ~it.isDir

\* When it is not wrapped it has the file's CID.
ExpectedRoot(call) ==
  LET V == Visible(call.tree)
  IN  IF ~call.wrap /\ LoneFile(V) THEN FileCid((CHOOSE it \in V : TRUE).content) ELSE MerkleRoot(V)

\* The CIDs of the DAG below the summary's root: as deep as the paths are
\* long, and two more for a file's root and leaves.
DAG == Under(summary.root, 2 + Max({0} \union {Len(it.path) : it \in ToSet(source.tree)}))

Built == summary # NoSummary

\* The bytes that importing the largest file of the filesystem needs at once.
LargestImport(t) ==
  Max({0} \union {Total(SizesOf(TraversalOrder(it.content))) : it \in ToSet(t)})

-----------------------------------------------------------------------------
(* Correctness. *)

\* The types of the variables.
TypeOK ==
  /\ bs \in Stores
  /\ tree \in Trees \union {<< >>}
  /\ wrap \in BOOLEAN /\ cancelled \in BOOLEAN
  /\ pc \in {"idle", "walk", "import", "directories", "prune", "regenerate", "write", "reimport"}
  /\ outcome \in {"none", "built", "written", "missing", "io", "cancelled"}
  /\ dirs \subseteq DOMAIN work.entries
  /\ IsSuffix(walk, tree)
  /\ Built => IsPrefix(written, summary.order) \/ pc \notin {"write", "reimport"}
  /\ bytes \in Nat /\ builds \in 0..MaxBuilds

\* BlockOrder and BlockSizes stay aligned through the walk, the removals of
\* the pruning and the replacements of the regeneration
\* (car_dir_builder.go:89-90, "These parallel arrays must be updated together
\* whenever blocks are added or modified").
SizesMatchBlocks ==
  /\ work.sizes = SizesOf(work.order)
  /\ Built => summary.sizes = SizesOf(summary.order)

\* Whatever order the directories were handled in, and whatever share of
\* them was pruned, the root is the Merkle root of the filesystem, unless it
\* uses the reserved name (car_dir_builder.go:807-825, 857-894).
RootIsMerkleRoot == Built /\ NotReserved(source.tree) => summary.root = ExpectedRoot(source)

\* The blocks listed are those of the DAG: none is left from before the
\* pruning, and none is missing, except the block of an empty directory
\* (car_dir_builder.go:876-890).  A directory with the root's name deeper down
\* has the root's links too, to directories whose CIDs change after its own.
ListsTheDAG ==
  Built /\ NotReserved(source.tree) =>
    LET listed == ToSet(summary.order)
    IN  listed \subseteq DAG /\ DAG \ listed \subseteq {EmptyDir}

\* Any block listed can be made again from the entry it is indexed under,
\* although entries with the same contents share their CIDs and the index is
\* rewritten while they are regenerated (car_dir_builder.go:144-154,
\* 869-874).
EntriesRebuildBlocks ==
  Built /\ NotReserved(source.tree) => \A c \in ToSet(summary.order) :
    /\ c \in DOMAIN summary.cidToEntry
    /\ LET p == summary.cidToEntry[c]
       IN  IF summary.entries[p].isDir
           THEN DirectoryBlock(summary.entries, summary.entries[p]) = c
           ELSE \E it \in ToSet(source.tree) : it.path = p /\ Contains(TraversalOrder(it.content), c)

\* A CAR that WriteCAR reports as written has the size predicted before the
\* first byte, and the blocks of the DAG (car.go:99, 154-183, "This is useful for
\* TUS uploads where the size must be known upfront").
SizeAsPredicted == outcome = "written" => bytes = CARSize(summary)

CompleteCAR ==
  /\ SizeAsPredicted
  /\ outcome = "written" /\ NotReserved(source.tree) => DAG \ {EmptyDir} \subseteq ToSet(written)

\* A block the store has dropped always comes back, if the filesystem is
\* still the one summarised, the store holds the largest file at once, and
\* adding a stored block counts as a use of it, or the store never drops any
\* (car_dir_builder.go:1089-1130).
NoBlockLost ==
  outcome = "missing" /\ (bs.touches \/ bs.limit = Unlimited) /\ NotReserved(tree) =>
    \/ bs.limit # Unlimited /\ bs.limit < LargestImport(tree)
    \/ Built /\ source.tree # tree

\* Every call of BuildSummary and of WriteCAR returns.
CallsReturn == Running ~> ~Running

\* The CAR is closed: a link leads to a block of the CAR
\* (car_dir_builder.go:513-515, "When a directory is removed (no file
\* descendants) ... The TreeEntry itself remains ... but is not included in
\* final CAR output").
NoDanglingLink == outcome = "written" => DAG \subseteq ToSet(written)

\* The virtual root's children (car_dir_builder.go:101-102, "ROOT.Children
\* array contains ONLY root-level files, not directories").
RootChildrenAreRootFiles ==
  Built => \A p \in ToSet(summary.entries[ROOT].children) :
             ~summary.entries[p].isDir /\ summary.entries[p].path = << >>
=============================================================================
