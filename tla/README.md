# ipfs-content in TLA+

Modules that specify `go.lumeweb.com/ipfs-content`, the configurations that
check them with TLC and proofs for TLAPS. A row of *what is checked* below is a
run in `PROJECT.json`, which also maps every definition to the lines it models
and lists the hazards of the code with the properties aimed at them.

    tlc -workers 2 -config MCLRUBlockstore.cfg MCLRUBlockstore
    tlapm LRUBlockstore_proofs.tla
    tlapm CARBuilder_proofs.tla
    tlapm Summary_proofs.tla
    tlapm RoundTrip_proofs.tla
    tlapm LevelBlockStore_proofs.tla
    tlapm IndexedBlockstore_proofs.tla
    tlapm Upload_proofs.tla
    tlapm SetLemmas.tla

## The system

The library turns filesystems into CAR files and CAR files into filesystem
trees.

| component | state | operations | interacts with | hard part |
|---|---|---|---|---|
| LRU blockstore (`blockstore/car_blockstore.go`) | map, doubly-linked list, byte counter, limit; one mutex | Put, Get, DeleteBlock, readers | written and read by the DAG service and CARBuilder from any goroutine | pointers, map and counter must agree under every sequence of calls; the eviction loop runs under the mutex |
| Level blockstore (`blockstore/level_blockstore.go`) | blocks, levels, parents and children, cohorts, counters | Put, rotate, GetAncestors, DeleteBlock | the default store of the convenience API | levels depend on the order of Puts, rotation drops cohorts and metadata |
| Indexed blockstore (`blockstore/indexed_blockstore.go`) | a shared reader, an index of offsets, a cache | IndexAll, Get, Has, AllKeysChan, Close | used by the CAR reader | one reader position for all goroutines, Close during use |
| UnixFS generator (`unixfs/`) | none | CreateUnixFSNode, CreateDirectoryWithLinks | adds blocks through the DAG service | retry of an import on a reader already read |
| CAR builder (`car/car_dir_builder.go`, `car/car.go`) | filesystem, summary | BuildSummary, WriteCAR, CalculateCARSize | walks a filesystem, adds to and reads from a blockstore, writes a CAR | two passes over data that may be evicted in between; Merkle order; pruning and its regeneration; shared CIDs; cancellation |
| CAR reader and reconstructor (`car/car_reader.go`, `car/car_reconstructor.go`) | a summary rebuilt from blocks | ReadCAR, reconstructTree, GetFileTree | reads an indexed blockstore through a DAG service | duplicate contents, missing blocks, depth |
| CAR framing (`internal/carv2`) | a reader | ReadHeader, Next, LoadCar, LdWrite, LdSize | under builder and reader | batches, lengths |
| Archive registry and extractors (`archive/`) | detectors in order of registration | DetectFormat, CreateExtractor | reads a few bytes of a shared reader | the position the reader is left at |
| Single-file filesystem (`fs/`) | one open file | Open, Stat | walked by CARBuilder | all handles share one position |
| Encoding, node analysis, paths, validation, formats, HTTP client, retry | none | pure functions, options | | boundary cases |

What makes them correct: a store never loses track of what it holds (list, map,
counter; cohorts and levels); a summary describes exactly the DAG of the
filesystem; a CAR holds what its summary lists and has the size predicted; a
CAR read again gives the tree it was made of; concurrent readers of a CAR each
get their own block; detection leaves a reader where it found it.

## Modules

* `LRUList` - the linked list of `lruNode`s as a value, and its operations
  (`addToFront`, `moveToFront`, the unlinking in `DeleteBlock`, the list part of
  `evictOne`). `Linked` and `ByRecency` say what a well-formed list is, without
  recursion: neighbours agree, and times of use decrease along `next`.
* `LRUBlockstore` - the store. Methods run under a mutex, so each is a step,
  except that a Put of a new block is one step to take the mutex (`PutNew`), one
  per round of its eviction loop (`EvictOne`) and one to link the node and
  release (`Insert`). `lastUse` and `now` are history variables.
* `LRUOrder`, `LRUCache` - what the store promises: a sequence in order of recency, a Put
  that keeps the longest prefix that leaves room, and nothing in between. `LRURefinement` has the
  refinement mapping: the order of the next pointers, and while a Put's loop runs
  already the outcome of that Put.
* `UnixFS` - blocks up to what the rest can tell apart. A CID is what its block
  says, so equal contents have equal CIDs and nothing else has. A file is a leaf
  or a root over leaves (one level of links, enough for 174 chunks).
* `CARBuilder` - `car.CARBuilder`. An action is a round of a loop of the code:
  an entry visited (`VisitSkipped`, `VisitDir`, `VisitFile`), a block added or
  collected (`ImportBlock`, `CollectBlock`), a file entered in the summary
  (`EnterFile`), a directory made (`MakeDirectory`), pruned (`PruneDirectory`)
  or made again (`RegenerateDirectory`), a block written (`WriteBlock`, or
  `ReimportFile` and `RemakeDirectory` when the store has dropped it). Cancel
  and IOFails may come between any two; a write may also fail after its block was fetched or made again. The loops over Go maps take directories
  in any order the sort allows. `work` is the summary BuildSummary is filling,
  `summary` the field it assigns at its end. The blockstore is `LRUOrder`'s
  sequence with a limit (`Unlimited` for one that never drops a block), and
  a flag for whether adding a block that is stored reaches the store: boxo's block
  service asks `Has` first unless it writes through. `TreesAssumption` and
  `WalkAssumption` say what `fs.WalkDir` guarantees of the filesystems in `Trees`.
  `MerkleRoot` is what the root should be, from the filesystem alone;
  `RootIsMerkleRoot` asks it of the filesystems that do not use the name ROOT
  (`NotReserved`), which the code gives to its virtual root: any directory of that name is
  also linked to all top-level directories (`car_dir_builder.go:1045`). So do the properties
  of the list and the index: such a directory deeper down is made before the directories it links to, which are then
  made again with other CIDs.
* `CARReader` - `car.ReadCAR`. The recursion of `walkDAG` is a stack of
  directories whose links are not all walked; an action is one call of it
  (`WalkLink`, `SkipLink`, `WalkFails`), or one of the steps of the loop over
  `collectBlockMetadata`'s queue between which the context may be cancelled
  (`TakeCid`, `TakeSize`, `TakeLinks`: the two reads of a block see different
  contexts). `got` is the summary being made.
* `CARLoader` - `carv2.LoadCar` with both its loops (`batched` or not), over a stream
  that ends or is damaged anywhere, into a store that may fail.
* `RoundTrip` - `StreamCAR` on a new `CARBuilder`, then either reader on what
  arrives of its output: everything, a prefix, a torn section, all but one block.
  A directory with the root's name links to blocks that are not in the CAR, so that ReadCAR
  refuses CARs that are whole, and puts entries where the builder has others: `ReadsIfEntriesPresent`
  (`NotReserved`) and the properties of the tree (`Ordinary`) are about filesystems that do not use it,
  as is the last clause of `BlocksSurvive`, about CARs that are whole. Nor do the properties of the tree
  speak of a filesystem that is a file, whose entry is "." to the builder and has a name of its own
  when read. `NameOrder` is the order by which a directory's links are sorted
  (`ByName`); `NamesAssumption` says only that it is a list.
  `EqualBlocks` is `TreeSummary.equalBlocks`, which must tell whether two lists of blocks with
  their sizes are permutations of each other (`Permuted`), for the pairs of `Summaries`.
* `IndexedBlockstore` - the store behind ReadCAR, used by several goroutines. What
  the code does under its lock is one step. The reader, the index and the cache
  are used without the lock in `Get`, so each of those uses is a step of its own:
  `CacheLookup`, `IndexLookup`, `Seek`, `ReadLength` (a byte of the length), `ReadBody`
  (one Read of `io.ReadFull`), `CachePut`. `File` is the bytes of the file: a goroutine whose
  position was moved reads a length wherever it is, also in the data of a block, and what
  follows may be the CID of a link in a directory block. `LayoutAssumption` says only where the sections are
  and how their lengths are encoded; headers, padding and the index of a CARv2 are any bytes.
  `DataOffset` is where the CARv1 begins, 0 if the file is one, and `Offset` what go-car's LoadIndex has
  for a section. `MaxRead` is Get's limit on a section (10 MiB). That a section of an identity CID is left out of the
  index by go-car is not modelled: no section has such a CID. `AllKeysChan` is its
  goroutine and the channel. `crashed` is the nil dereference of an index that `Close` has taken.
  `disturbed`, `tainted` and `early` are history variables. The cache is `LRUOrder`'s sequence.
* `LevelBlockStore` - `Put` with the level it infers, the rotation of cohorts and
  the adoption of children, and `DeleteBlock`; both hold the lock throughout.
  `GetChildren` and `NextAncestors` (one step of `GetAncestors`) are operators,
  over a Go map, so they name every result the map's order allows. `puts`, `everPut`, `orderly`
  (every block was put after its children, and none deleted), `informed` (every Put found the levels of
  all children in the map, and none was deleted) and `exact` (the blocks whose last Put found exact children)
  are history variables. `Height` is any function on the blocks that is 0 on the
  leaves and one more than the highest link elsewhere (`HeightAssumption`).
* `ArchiveRegistry` - `DetectFormat` and `CreateExtractor`, one Seek, Read or
  detector a step, each of which may fail, a Read after any number of bytes; others register
  detectors and extractors between any two, and the call uses the copies it has made. The numbers of bytes that the code
  reads are constants.
* `SingleFileFS` - the handles of a filesystem of one open file, whose Seek may fail in Open.
* `Upload` - both over one file: detection between the reads of handles.
* `*_proofs` - theorems about the module they are named after (`Summary_proofs`: about
  what `CARBuilder` publishes), and `SetLemmas`, which three of them use. See *Proved*.

How they compose: `RoundTrip` = `CARBuilder` (on `UnixFS` and `LRUOrder`) with
`CARReader` and `CARLoader` as instances; `Upload` = `ArchiveRegistry` with
`SingleFileFS` as an instance, the file and its position shared; `IndexedBlockstore`
uses `LRUOrder`, the sequence that `LRUBlockstore` is proved to implement.

`MC*` modules and `.cfg` files instantiate these. Operators described as faulty
stand before the definition they could replace; nothing uses them, they say
which bug a property would notice.

## What is checked

| run | bounds | shows |
|---|---|---|
| `lru` | 5 blocks of 1, 1, 1, 2, 6 bytes, limit 5, at most 7 uses | types, list = map = order of use, counter = bytes stored, limit, eviction order, Put ends, refinement of `LRUCache` |
| `car_builder` | 9 filesystems, 4 stores, wrapped or not, two BuildSummary calls, the second for another version of a file, any number of WriteCARs | a summary belongs to one filesystem and a CAR to one summary, also after failed and cancelled calls: alignment of the arrays, root = Merkle root, list = DAG, index rebuilds every block, CAR complete and of the size predicted, no block lost, calls return |
| `dangling_link` | a file and an empty directory at the top | *violated*: the root links to the pruned directory, whose block is not in the CAR |
| `reserved_name` | a directory named ROOT | *violated*: what is below it joins the virtual root's children |
| `round_trip` | 10 filesystems, 2 stores, wrapped or not; CARs whole, cut after any block, torn, or lacking one block; every kind of damage to a stream; batches of 2 | which CARs ReadCAR accepts, that blocks, sizes and structure survive, which files may be lost, what LoadCar has stored when it succeeds or fails, that `equalBlocks` compares multisets, that both return |
| `lossy_read` | one filesystem with repeated contents | *violated*: a second file with the contents of a first is not in the tree read back |
| `indexed` | 2 goroutines, 4 calls, the bytes of a CARv1 of 4 sections: one with the length and the CID of another in its data, two CIDs of one hash, one too long; a cache of 4 bytes, a channel of 1 | a read is wrong or fails, and the program crashes, only as the race allows |
| `indexed_calls` | the same with 3 calls | that calls return and the goroutine of AllKeysChan ends |
| `carv2_reload` | the same CAR as a CARv2, behind 3 bytes | *violated*: a dropped block cannot be read again, although nobody disturbed the reader |
| `unlocked_reads` | `indexed_calls`' CAR and calls | *violated*: of two Gets at the same time one returns the wrong bytes |
| `level` | 5 blocks of 4 levels, two with the same data, 2 cohorts, 6 Puts and any deletes | what levels, cohorts and counters still mean after rotations |
| `upload` | 11 files, 2 handles, 2 formats registered at any time, every Seek failing at will and every Read after any number of bytes | position kept by detection, format decided by contents, handles undisturbed, that calls return |

Why the bounds are enough. The first four blocks fit together, and only just: lists
have a head, a tail and two nodes between, which are used again, unlinked and evicted from any place,
one to three at a time; the limit is reached exactly and exceeded by the fifth block alone; seven
uses fill the store and bring most of it back. The filesystems of
`car_builder` are chosen for what the code treats differently: chunks repeated
within and across files, directories with the same contents, empty directories
at each depth including ones that become twins of others once pruned, a lone
file, a filesystem that is a file, an entry named ROOT, nothing at all. The
stores: one that drops nothing; one just above the largest import, that touches
blocks added again or does not; one below it. A builder that has been used gets one more filesystem
(`Later`), with a file of the same name and other contents,
so that an old summary meets a filesystem that it almost describes. A leaf of 100 bytes is below 128, where the
length prefix grows, only until its CID of 36 is added, and so is one of 16360 bytes, in `round_trip`, below 16384.

`round_trip`: its filesystems have equal files at the top, in one directory and in two, equal
directories nested and at the top, an empty directory that is pruned and one that the
root links to, a lone file, nothing, a filesystem that is a file, and three that use the name ROOT:
one cannot be read back, one can, and one has a root with two links of one name and a directory that is not linked. Any block may be the one missing, which covers what a
longer loss could change, since the walk stops at the first. A batch of two fills,
is left half full and is flushed within the up to nine blocks of these CARs. `indexed`:
two goroutines suffice to disturb each other between any two calls of the reader, and four
calls to read, delete or evict, and read again during it; the cache holds one of the larger
blocks, so that most reads reach the file; with a channel of one the sender waits. Bytes are
scaled: two of a length's bits in a byte, lengths of one or two bytes, sections of up to 7 bytes with a limit
of 6; a moved read begins at any byte of the file, in a length, in a CID, in data, or at a CID
embedded in data, and ends short of a section, at its end or beyond it. `carv2_reload` and
`unlocked_reads` need three calls at most. `level`: two cohorts and four levels
rotate twice in order and in any other order of Puts, and a sixth Put repeats a block.
`upload`: the numbers of bytes are scaled so that a read can stop at any of them: 8 bytes for the primary
detection (1024 in the code) of which it needs 4 (20), 6 for detectCAR's read (512) of which it needs 3 (12), 2
for the compressed formats (10), 4 for a read of a handle. Files are on both sides of each of these
lengths, and have compressed data where the second detector begins, and where it may begin after a failed read.

Not in `car_builder`'s properties: the root may link to the block of an empty
directory that is not listed (`ListsTheDAG` excepts it). This is the divergence
of `dangling_link`. `NoBlockLost` assumes that the store holds the largest file
at once and either touches what is added again or drops nothing; with an LRU store
behind a block service that asks `Has` first TLC finds BuildSummary failing on a file
that alone fits.

Fairness. `LRUBlockstore`: weak fairness of the loop of the goroutine that holds
the mutex; nothing in it waits. No fairness for callers. `CARBuilder`: weak
fairness of the running call's own steps, since it is sequential and not suspended
for ever; none for Cancel, I/O errors or new calls. `RoundTrip`: the same for each
of the three calls. `IndexedBlockstore`: weak fairness of every goroutine's own
steps, as Go schedules them. Nobody has to receive the keys of AllKeysChan or to cancel it: `CallsReturn`
excepts a goroutine that nobody does either for (`Abandoned`), which does wait for ever. `Upload`: weak fairness of the steps of the call that runs,
whichever way its Seeks and Reads end. `LevelBlockStore` has no call that waits, so
no liveness. All configurations allow the system to stop (nobody is obliged to call
anything, a program that crashed has ended, and `MaxUses`, `MaxBuilds`, `Later`, `MaxCalls` and
`MaxPuts` are bounds of the model), hence CHECK_DEADLOCK FALSE.

Assumptions of the models. One call of the reader of an indexed blockstore is atomic, as
with a file, and reads at least a byte before the end; Seeks and Reads of a file that is there do not fail. IndexAll is called once, before
anything else uses the store. A context cancelled inside Get is not modelled (Get
returns its error between the same steps). Detection and handles of one file are used by one
goroutine; only the registry is shared.

## What the code promises elsewhere and does not keep

Beside the five violated properties above, modelling showed these, which the
properties take as the code has them:

* `car_blockstore.go`: "The sizeLimit parameter determines the maximum total size of all blocks that can be
  stored" (37), but a block larger than the limit is stored, alone (`LimitOrOneBlock`).
* `car_dir_builder.go`: "TotalSize: Sum of all block sizes in bytes" (57), but pruning and regeneration do not
  adjust it: it counts the blocks they have taken from the list. CARSize is right (`CompleteCAR`).
* `indexed_blockstore.go`: comments say "Try next offset", but a failure at the first
  offset returns (`FailsOnlyIfDisturbed` says when it matters: two CIDs of one hash).
* `indexed_blockstore.go`: Gets of two goroutines move one position; a disturbed Get returns whatever follows
  the bytes of its CID somewhere in the file, of any length, and caches it, so that later Gets return it too
  (`WrongOnlyIfDisturbed`: only CIDs read so; `unlocked_reads` shows it). Close during a Get or a listing ends the
  program (`CrashOnlyIfOvertaken`).
* `level_blockstore.go`: counters only bound the blocks from above
  (`CountsAreNotTooLow`): a second Put counts again and a block whose level was
  forgotten is not counted off. Comments say "metadata never evicted" (151) and that rotations preserve it (`car.go`, 44-45), but
  a rotation deletes the levels of the blocks of the cohort that it drops, after which
  a new parent of a forgotten block gets a level that is guessed: with two cohorts, a chain of a, p and q forgets a, and
  another parent of a gets level 3 although its height is 1. A block put again,
  or before its children, gets another level and stays in the cohort it left.
* `archive_registry.go`: the second detector reads where the first stopped, so compressed
  data at offset 512 makes a plain file a `tar.gz`, and so does compressed data at any offset below at which
  detectCAR's read fails; compressed data shorter than 20 bytes is found only if that read fails at once. CreateExtractor leaves a file
  or a CAR, for which no extractor exists, at position 0.
* `car_reader.go`: a CAR whose root links to an empty directory that the builder pruned is refused
  by ReadCAR (`ReadsIfEntriesPresent`); one without its files' chunks is accepted.
* `car_dir_builder.go`: with a directory named ROOT at the top, another directory at the top that has the name
  of one of ROOT's entries is not linked (`alreadyInChildren`, 1060-1076), though its blocks are listed and
  in the CAR; ReadCAR does not find them (`BlocksSurvive`).
* `carv2/util`: a stream that ends right after a length prefix passes for complete.

## Proved

`LRUBlockstore_proofs` proves, for every set of CIDs, every block length and limit,
the invariant `IInv` (types, `Linked` and `ByRecency`, the byte count, the limit
and the times of use of stored blocks distinct and not zero) and from it
`TypeCorrect`, `ListCorrect`, `SizeCorrect`, `LimitCorrect` and `EvictionOrder`.
The assumptions are that CIDs are finitely many, NoNode is not one of them, and
lengths and limits are naturals; TLC evaluates them in the `lru` run.
The invariant needs the order of use: that the tail is the least recently used
block (`TailIsOldest`) follows from the decreasing times along `next`, and this
also excludes cycles, so no reachability or induction is needed. That a list with
one node left is empty after its removal (`OneNodeLeft`) follows the same way.
The counter is compared with the cardinality of a set of bytes (`ByteSet`), which the
library's theorems about finite sets can add to and take from.

It also proves `Refinement`: `LRUBlockstore` implements `LRUCache` (`RefinesLRUCache`). The mapping is
a recursion along the pointers, which proofs cannot follow; but the invariant gives each stored block
a time of use of its own, so there is a sequence of the stored blocks by decreasing time, and
that sequence is what the pointers spell (`Linked` determines it place by place). The counter is the
length of the blocks along it. A touch moves a block to the front of the sequence and a deletion
drops it; `PutNew` is the abstract Put, since the prefix that leaves room has the length
that the loop will leave; a round of the loop takes the last block off a sequence that is still
too long, which does not change that prefix, so the round is a stutter, and so is `Insert`.

`CARBuilder_proofs` proves `SizesAligned`: `BlockOrder` and `BlockSizes` are parallel
at every moment of every call, in the summary under construction and in the one
published, for every filesystem, blockstore and length. The invariant `AlignedInv`
says of both summaries that the order is a sequence and the sizes those of
its elements, and of the walk that what is left of it are entries of the
filesystem, since what `EnterFile` appends comes from there. One lemma per change the code
makes to the two arrays says that it commutes with taking lengths: `SizesOfConcat` (a
file), `SizesOfAppend` (a directory), `SizesOfRemove` (pruning) and `SizesOfReplace`
(regeneration); `PositionInRange` says that the searches that the last two rely on
find a position of the list or none.

On top of it the module proves `TypeCorrect` (`TypeOK`) and `SizeIsPredicted` (`SizeAsPredicted`,
the half of `CompleteCAR` about bytes), by the invariant `TypeInv`. A CAR being written is the
beginning of what the summary lists, with as many bytes as its header and the sections of its blocks
take (`Filled`), also over a reimport, which begins only before the last block; what is left of the walk is the
end of the filesystem (`WalkLeft`). `Proper` says that the entries are finitely many and that what is listed
has a length, which for a directory needs finitely many links (`DirectorySized`). The sum over a list is a fold in an
unspecified order; `TotalOfAppend` says that it grows by the length appended, from the lemmas about sums
in `SetLemmas`. The assumptions are that the filesystems and their files' contents are sequences
(`TreesAssumption`) and that lengths and bounds are naturals (`LengthsAssumption`, `BoundsAssumption`).

`LevelBlockStore_proofs` proves `TypeCorrect`, `HighestLevelsKept`, `IndexesAgree` and
`CountsBound`, for every
DAG whose blocks have finitely many links, every sharing of data between CIDs, every number of
levels and of Puts (`LevelAssumption`). The invariant `IInv` has four parts. `Types` leaves
the counters integers. `Low` strengthens `KeepsTheHighestLevels`: when some known level has no
cohort there are MaxLevels cohorts, all above it. So a level whose cohort is made anew and
stays belonged to no block before (`NewLevelWasUnused`), without which neither the
indexes nor a cohort's counter could agree with the levels; `WhatIsGone` says which cohort a
rotation takes. `Agree` is about each block in its cohort and each parent in any cohort.
`Counts` compares the block counter with the blocks whose level is known and the data whose level
was forgotten, so that a rotation, which moves blocks from one to the other, cannot raise
the sum: the image of a finite set is not larger than the set (`ImageIsFinite`). `PutFields`
and `DeleteFields` say what an operation leaves in each field of a cohort; then there is one lemma
per operation and part of the invariant. That a nonempty finite set of levels has a highest one
(`MaxExists`) comes from the well-foundedness of strict inclusion.

`LevelsRight` proves the fifth (`LevelsAreHeights`), in three parts. In any order of Puts and
deletes, the level of an `exact` block is its height, because it was computed from children that were known and
exact (`Exact`). While every Put has found its children (`informed`), `Ordered` holds: all blocks are exact, each cohort
is of one height, a recorded parent is above, and a block whose level was forgotten is MaxLevels below
one that was put, which `Low` and the pigeonhole principle give at a rotation. And if blocks are put children first, none
is deleted and no DAG is higher than the cohorts, nothing is forgotten (`NothingForgotten`), so every Put does find
its children. Of a DAG that is higher nothing is claimed after the parent of a forgotten block is
put: its level is then a guess. `HeightAssumption` says that blocks have heights, as they do when a CID is a hash.

`Summary_proofs` proves `RootIsRight` (`RootIsMerkleRoot`): for every filesystem
that `fs.WalkDir` can walk, every store, and every order that the loops over Go maps take, the
root that BuildSummary publishes is the Merkle root of the filesystem. The assumptions are
`TreesAssumption` and `WalkAssumption`. The argument has three layers.
The invariant is `MerkleInv`. `MerkleRootIs`: CIDs that satisfy the recursion at each visible entry are those of `MerkleRoot`,
since of two such functions the deepest difference would have none below it. `Listing`: at
each moment of the call the map of entries is what the walk has visited so far, each under its name and
parent, and a directory's children are those of the filesystem except the directories pruned so far.
`Phase`, the invariant of each loop over the directories: the first pass gives all of them a CID
(`Making`), the pruning takes from their parents those without a file below (`Pruning`;
`EmptyDirsAreBarren` says that `isDirectoryEmpty` finds exactly these), and in the last
(`Remaking`) the directories made again carry the Merkle CID of what is below (`Sealed`), for which the loop's
order is needed: they are at least as deep as the rest (`Deeper`), so a directory comes after what it
links to. The root links to the top-level directories by their parent's path and to the rest as
its children; `RootBlockIs` says that these are together what is at the top.

On top of `MerkleInv` and `TypeInv` the module proves `ListIsTheDAG` (`ListsTheDAG`), `IndexRebuildsBlocks`
(`EntriesRebuildBlocks`) and `WrittenCARIsComplete` (`CompleteCAR`), under the same assumptions and those of
the lengths, by the invariant `ListInv`. Directories of the same contents share a CID, and the
code finds what to remove or replace in the list by CID, so it may take another directory's
place. `Holds` says what survives this: the list has the blocks of the files, and places for the
directories, one for each (`Paired`), whatever else is equal; two directories with one CID
may change places. For the index, `FilesIndexed` and `DirsIndexed` say that each block leads to an entry of
its CID. The code deletes a directory's first CID from the index when it makes the directory again; if a
directory made again before has that CID, nothing below the two was pruned, and the CID stays as it was
(`MadeTheSame`, about the first CIDs `h` of `FirstCids` and those made again). The list published is the DAG
because CIDs are those of `Hashed` entries: all that an entry with files links to is listed, and the levels
of `Under`, as deep as the longest path, reach every one of them. The proof showed that a
directory named ROOT below the top breaks both properties, hence the precondition
`NotReserved`; `reserved_name` shows the divergence.

`NothingLost` proves `NoBlockLost`, under the same assumptions and `StoresAssumption` (a limit is a natural
or there is none), by the invariant `StoreInv` on top of these. While a file is imported, what has
been added of it is in front of the store, with nothing else in between (`Present`). Two lemmas say that
this survives: a use moves a block to the front and leaves the rest in order (`UsedBlock`), and an
eviction takes none of the blocks in front while they, all different and all of the file, fit with the
block added (`AddedBlock`, from `TotalOfPart`: some blocks of a file are not longer than the file). Without a
touch on adding a stored block the invariant would be false: the blocks stored before would lie behind. That the file imported is the right
one comes from the index: an entry published has the name and path of its file
(`NamesInv`), by which one file opens and no other (`OpensItsFile`), and by `EntriesRebuildBlocks` the block
is one of that file's (`Reopens`). The proof needs `NotReserved` here too: a directory
may have another block than the one listed if its name is the root's.

`RoundTrip_proofs` proves of `LoadCar`, for every stream, place of damage and size of a batch
(`BatchAssumption`), `LoadsInOrder` (`LoadsAllOrWholeBatches`): what it has stored is what it read, in order and
without gaps, all of it if it succeeds and whole batches if it fails. The invariant `LoadInv`
says that what was read is what is stored followed by the batch, that only the last section
of a stream can be flawed, and that the number stored is a multiple of the size of a batch.

Of ReadCAR the module proves all the safety properties, for every filesystem (with the two exceptions of
`Ordinary` where they apply), every store and order of the builder's loops, every CAR that may arrive,
and a context cancelled anywhere. A round trip is a behaviour of the builder, which rests from
the first ReadCAR on: so the invariants of `CARBuilder_proofs` and `Summary_proofs` hold
of the CAR that is read (`CarInvs`). From these `Summary_proofs` has what the reader needs of a published
summary: the blocks listed and the empty directory's are closed under links (`PublishedIsClosed`), and the
links of a directory, sorted, are all its links (`PublishedOrdered`): `ByName` ranks them, and different links, even
of one name, have different ranks (`RanksDiffer`).

* `ReaderTypesCorrect` (`RTTypeOK`): `ReaderTypes` says for each step of the reader which of
  its variables are in use, and that each directory under walk has an entry, since entries are never removed.
* `ReadsAllEntries` (`ReadsIfEntriesPresent`): the walk skips a link only if its CID has an entry, so
  at each moment the links of every directory with an entry lead to CIDs that have an entry or will be
  walked (`Explored`). When the stack is empty, this is so of all that is below the root, at any depth, and each was
  in the CAR (`EntriesSeen`). A block that the walk misses is an `EntryBlock`, and if the CAR is whole it
  is the empty directory's (`EntryMissing`).
* `BlocksAreRead` (`BlocksSurvive`): what a listed block links to is listed or queued (`QueueInv`), so
  when the queue is empty the list is closed and has the DAG; nothing is listed twice, and the sizes are those of
  the blocks (`ReadSizesInv`). The size of the CAR is that of its sections, each of which is in the list
  (`SectionsOfPart`).
* `StructureIsRead` (`StructureSurvives`): `Placed` says of each entry read that it is one of the
  filesystem with its Merkle CID under its own directory, and `FramesIn` that the links on the stack are those of
  what the directory holds; a name and a directory determine a place, and CIDs tell files from
  directories. Entries of equal CIDs may be met in any order, and the index forgets all but the last.
* `LostFilesHaveTwins` (`LostOnlyToTwins`): what a directory with an entry holds has an entry too, or was
  skipped for another of its CID, or its link is still to be walked (`AllMet`). A file that is missing has a first
  missing directory on its way (or is it itself), which is not at the top, as the root's links are never skipped.

`ComparesPermutations` proves that `equalBlocks` tells whether two lists of blocks with their
sizes are permutations of each other, for all summaries whose lists are parallel and give a block one size
(`SummariesAssumption`). Equal counts give a bijection of places, block by block, and
a bijection gives equal counts.

`IndexedBlockstore_proofs` proves `TypeCorrect`, `WrongOnly`, `FailsOnly` and `CrashOnly`: for any
goroutines, calls, blocks, sharing of hashes, size of the cache, limits and bytes of the file
(`IndexedAssumption`, `CidAssumption`: no CID is the beginning of another, `LayoutAssumption`). A moved reader may
take any bytes for a length, a CID and data, so nothing is said of what it reads. `IInv` says of each goroutine
where it is in its reload (`Reload`): it holds the sections of its digest, and unless another has used the
reader since its Seek, what it has of the length and of the body are the bytes of the first of
them (`InLength`, `InBody`). `LengthBytes` says that these are read to the end and no further, since all but
the last byte of a length say that another follows; `BodyBytes` and `DataIsRight` that the CID and the data
are then the section's. `Stored` says that the cache has the data of its CIDs except those in `tainted`. In a CARv2
only the clause of `FailsOnly` about "not found" is left: reloads seek to the wrong place (`carv2_reload`).

`Upload_proofs` proves all of `upload`'s invariants: `TypeCorrect`, `KeepsPosition`
(`DetectionKeepsPosition`), `ByContents` (`DetectsByContents`) and `KeepTheirPlace`
(`HandlesKeepTheirPlace`), for all files whatever their length and contents, all formats
registered, and every length of a read (`UploadAssumption`). `DetectFormat` and `CreateExtractor` each save a
position, and which of the two leads back changes from step to step, while Seeks and Reads
fail: `Places` says for each step where the reader is and which saved position is the caller's.
`Contents` says which formats the contents may still be taken for (`Plausible`), and where the second detector
may begin: where the first has stopped after all the bytes it asks for, or before, if its read has
failed (`SecondAt`).

`SetLemmas` has what these modules need of finite sets: a highest and a lowest member, the n-th
member, the size of an image, and sums: the recursion that defines a fold has exactly one solution, and the sum
does not depend on the order in which it takes the members.

Only model-checked, and why:

* liveness: `PutFinishes`, the three `CallsReturn`, `ReadsEnd`. Fairness speaks of ENABLED.
* the five violated properties: a counterexample needs no proof.

## Plan

Done: the core (`LRU*`, `UnixFS`, `CARBuilder`), the reader and the loader and their composition
with the builder, the indexed and the level blockstore, detection and the single-file
filesystem, and proofs of the 31 invariants, the action property and the refinement that runs check: all but the 5
liveness properties. Left: an abstract read-only map that a single-goroutine `IndexedBlockstore` implements.

## Not modelled

* Unixfs' second import attempt: it follows only an error about the length of digests,
  which the generator's SHA-256 cannot meet.
* The memory blockstore: a constructor around boxo's map datastore.
* The readers of `internal/io`: adapters that pass each call on; what they do to a position
  is in the steps that use them. The extractors of `archive/`: adapters over archive libraries.
* `TreeSummary.Equal` beyond its comparison of blocks, `CarHeader.Matches`,
  and the guesses of `dagnode` about partial files: comparisons and heuristics on single values.
* Paths and validation, format tables, HTTP and retry options: pure string functions, tables and
  options handed to a library, without state or loop of their own.
* Mocks, fixtures, tests and examples.

Hashing and protobuf are abstracted to structure; one codec and CID version is assumed, except
where two CIDs share a hash. A filesystem that changes during a pass is not modelled (one that
is replaced between the passes is).
