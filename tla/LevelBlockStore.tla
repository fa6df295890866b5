---------------------------- MODULE LevelBlockStore ----------------------------
(***************************************************************************)
(* blockstore.LevelBlockStore (src/blockstore/level_blockstore.go): a      *)
(* store in memory that infers the level of each block in the DAG from the *)
(* order in which blocks are put.  The blocks of a level are a cohort; of  *)
(* more than MaxLevels cohorts the lowest is forgotten.  Every operation   *)
(* holds the lock from its beginning to its end, so each is one action.    *)
(***************************************************************************)
EXTENDS Integers, FiniteSets, FiniteSetsExt, Functions

CONSTANTS Cids,       \* the CIDs of the blocks
          Links,      \* the CIDs that a block links to
          Digest,     \* the multihash of a CID, by which the data is stored
          MaxLevels,  \* the number of cohorts kept
          NoParent,   \* the undefined CID
          Height,     \* the length of the longest path from a block to a leaf
          MaxPuts     \* bound on the number of Puts

ASSUME LevelAssumption ==
  /\ Links \in [Cids -> SUBSET Cids]
  /\ \A c \in Cids : IsFiniteSet(Links[c])
  /\ DOMAIN Digest = Cids
  /\ MaxLevels \in Nat \ {0} /\ MaxPuts \in Nat
  /\ NoParent \notin Cids

\* The blocks have heights: a CID is a hash of what its block links to, so no
\* block is below itself.
ASSUME HeightAssumption ==
  /\ Height \in [Cids -> Nat]
  /\ \A c \in Cids : Height[c] = IF Links[c] = {} THEN 0 ELSE Max({Height[d] : d \in Links[c]}) + 1

VARIABLES
  inner,         \* the digests of the blocks stored
  cohorts,       \* level -> cohort
  levelMap,      \* CID -> level
  currentLevel,  \* the level of the block put last
  levelsSeen,
  blockCount,
  \* history
  puts,          \* the number of Puts
  everPut,       \* the blocks that have been put
  orderly,       \* every block was put after its children, and none deleted
  informed,      \* at every Put the levels of all children were known, and no block was deleted
  exact          \* the blocks put when all their children were exact, and their levels known

history == <<puts, everPut, orderly, informed, exact>>
vars == <<inner, cohorts, levelMap, currentLevel, levelsSeen, blockCount, history>>

\* A cohort: the parent last seen of each of its blocks, the blocks whose
\* children it knows, and a counter.
NewCohort == [parentOf |-> << >>, childrenOf |-> {}, count |-> 0]

Init == /\ inner = {} /\ cohorts = << >> /\ levelMap = << >>
        /\ currentLevel = 0 /\ levelsSeen = {} /\ blockCount = 0
        /\ puts = 0 /\ everPut = {} /\ orderly = TRUE /\ informed = TRUE /\ exact = {}

-----------------------------------------------------------------------------
With(f, x, v) == [y \in DOMAIN f \union {x} |-> IF y = x THEN v ELSE f[y]]
Without(f, S) == Restrict(f, DOMAIN f \ S)

ChildLevels(c) == {levelMap[d] : d \in Links[c] \intersect DOMAIN levelMap}

\* A faulty level, one above the lowest child.
LevelAboveLowest(c) ==
  IF Links[c] = {} THEN 0
  ELSE IF ChildLevels(c) = {} THEN currentLevel + 1 ELSE Min(ChildLevels(c)) + 1

\* The level of a block: 0 for a leaf, one above the highest child seen, or
\* one above the block put last when no child was seen.
LevelOf(c) ==
  IF Links[c] = {} THEN 0
  ELSE IF ChildLevels(c) = {} THEN currentLevel + 1 ELSE Max(ChildLevels(c)) + 1

\* A faulty lookup, that makes the cohort anew.
OpenedAnew(level) == With(cohorts, level, NewCohort)

\* The cohorts with that of the level, that is made if there is none.
Opened(level) == IF level \in DOMAIN cohorts THEN cohorts ELSE With(cohorts, level, NewCohort)

\* A faulty comparison, that lets one cohort too many be.
RotatedLate(ms) == IF Cardinality(DOMAIN ms) <= MaxLevels + 1 THEN {} ELSE {Min(DOMAIN ms)}

\* rotateCohortsIfNecessary: the levels given up.
Rotated(ms) == IF Cardinality(DOMAIN ms) <= MaxLevels THEN {} ELSE {Min(DOMAIN ms)}

\* The levels without those of the blocks of the cohorts given up, whatever
\* level the map has for them by then.
ForgetLevels(levels, ms, gone) == Without(levels, UNION {DOMAIN ms[l].parentOf : l \in gone})

\* A block joins its cohort; one that was there before loses its parent.
Join(cohort, c) == [parentOf   |-> With(cohort.parentOf, c, NoParent),
                    childrenOf |-> cohort.childrenOf \union {c},
                    count      |-> cohort.count + 1]

\* The children in their cohorts get c as their parent, wherever the map
\* of the levels says that they are.
Adopt(ms, levels, c) ==
  [l \in DOMAIN ms |->
     LET here == {d \in Links[c] \intersect DOMAIN levels : levels[d] = l}
     IN  [ms[l] EXCEPT !.parentOf =
            [d \in DOMAIN ms[l].parentOf \union here |-> IF d \in here THEN c ELSE ms[l].parentOf[d]]]]

Put(c) ==
  /\ puts < MaxPuts
  /\ puts' = puts + 1
  /\ LET level  == LevelOf(c)
         opened == Opened(level)
         gone   == IF level \in DOMAIN cohorts THEN {} ELSE Rotated(opened)
         kept   == Without(opened, gone)
         joined == IF level \in gone THEN kept ELSE [kept EXCEPT ![level] = Join(@, c)]
     IN  /\ currentLevel' = level
         /\ levelMap' = ForgetLevels(With(levelMap, c, level), opened, gone)
         /\ levelsSeen' = (levelsSeen \union {level}) \ gone
         /\ cohorts' = Adopt(joined, levelMap', c)
  /\ inner' = inner \union {Digest[c]}
  /\ blockCount' = blockCount + 1
  /\ everPut' = everPut \union {c}
  /\ orderly' = (orderly /\ Links[c] \subseteq everPut)
  /\ informed' = (informed /\ Links[c] \subseteq DOMAIN levelMap)
  /\ exact' = IF Links[c] \subseteq exact \intersect DOMAIN levelMap THEN exact \union {c} ELSE exact \ {c}

\* A faulty count, of every block deleted.
UncountedAll(c) == 1

\* A faulty count, of every CID whose data is gone.
UncountedTwins(c) == Cardinality({d \in DOMAIN levelMap : Digest[d] = Digest[c]})

\* A block is counted off if its level is known.
Uncounted(c) == IF c \in DOMAIN levelMap THEN 1 ELSE 0

\* A block leaves the cohort of its level.
Leave(cohort, c) == [parentOf   |-> Without(cohort.parentOf, {c}),
                     childrenOf |-> cohort.childrenOf \ {c},
                     count      |-> cohort.count - 1]

DeleteBlock(c) ==
  /\ inner' = inner \ {Digest[c]}
  /\ levelMap' = Without(levelMap, {c})
  /\ cohorts' = [l \in DOMAIN cohorts |->
                   IF c \in DOMAIN levelMap /\ levelMap[c] = l THEN Leave(cohorts[l], c) ELSE cohorts[l]]
  /\ blockCount' = blockCount - Uncounted(c)
  /\ orderly' = FALSE /\ informed' = FALSE
  /\ UNCHANGED <<currentLevel, levelsSeen, puts, everPut, exact>>

Next == \E c \in Cids : Put(c) \/ DeleteBlock(c)

\* What GetChildren may return: that of any cohort that knows the children.
GetChildren(c) == IF \E l \in DOMAIN cohorts : c \in cohorts[l].childrenOf THEN Links[c] ELSE {}

\* The next ancestors that GetAncestors may find, in any cohort that has the
\* block; at an undefined one it ends.
NextAncestors(c) ==
  {cohorts[l].parentOf[c] : l \in {k \in DOMAIN cohorts : c \in DOMAIN cohorts[k].parentOf}} \ {NoParent}

Spec == Init /\ [][Next]_vars

-----------------------------------------------------------------------------
(* Correctness. *)

\* The types of the variables.  No counter is ever negative.
TypeOK ==
  /\ inner \subseteq Range(Digest)
  /\ DOMAIN levelMap \subseteq Cids /\ \A c \in DOMAIN levelMap : levelMap[c] \in Nat
  /\ DOMAIN cohorts \subseteq Nat
  /\ \A l \in DOMAIN cohorts :
       /\ DOMAIN cohorts[l].parentOf \subseteq Cids
       /\ \A c \in DOMAIN cohorts[l].parentOf : cohorts[l].parentOf[c] \in Cids \union {NoParent}
       /\ cohorts[l].childrenOf \subseteq Cids
       /\ cohorts[l].count \in Nat
  /\ currentLevel \in Nat /\ levelsSeen \subseteq Nat /\ blockCount \in Nat
  /\ puts \in 0..MaxPuts /\ everPut \subseteq Cids
  /\ orderly \in BOOLEAN /\ informed \in BOOLEAN /\ exact \subseteq Cids

\* Whatever is put, deleted and rotated away, the metadata is of MaxLevels
\* levels at most, and a level with no cohort is below all that have one
\* (rotateCohortsIfNecessary, level_blockstore.go:200-227).
KeepsTheHighestLevels ==
  /\ Cardinality(DOMAIN cohorts) <= MaxLevels
  /\ levelsSeen = DOMAIN cohorts
  /\ \A c \in DOMAIN levelMap : \A l \in DOMAIN cohorts :
       levelMap[c] \notin DOMAIN cohorts => levelMap[c] < l

\* The two indexes agree: a block whose level is known and has a cohort is in
\* it, with its children, so that GetChildren finds them all; and whichever
\* cohort GetAncestors looks at, perhaps one that the block has left, what it
\* finds is a block that links to it, so that its walk ends
\* (level_blockstore.go:151-194, 257-302, 323-331).
LevelsAgreeWithCohorts ==
  \A c \in Cids :
    /\ c \in DOMAIN levelMap /\ levelMap[c] \in DOMAIN cohorts =>
         /\ c \in DOMAIN cohorts[levelMap[c]].parentOf
         /\ GetChildren(c) = Links[c]
    /\ \A p \in NextAncestors(c) : c \in Links[p]

\* The counters may be too high, for blocks put twice or forgotten before they
\* are deleted, but never lower than the number of blocks that are there
\* (level_blockstore.go:174-179, 323-332).
CountsAreNotTooLow ==
  /\ blockCount >= Cardinality(inner)
  /\ \A l \in DOMAIN cohorts :
       cohorts[l].count >= Cardinality({c \in DOMAIN levelMap : levelMap[c] = l})

\* A known level is the height in the DAG of every block that was put when all
\* its children were exact and their levels known, whatever was put in another
\* order, put again, deleted or rotated away before and since.  As long as
\* every Put finds the levels of the children, all levels are heights, rotation
\* forgets only blocks that are MaxLevels or more below the highest, and the
\* parent recorded for a block links to it from above.  Every Put does find
\* them, and no level is forgotten, if each block is put after its children, as
\* BuildSummary does, none is deleted, and no DAG is higher than the cohorts;
\* in a higher one the parent of a block that was forgotten gets a level that
\* is guessed (level_blockstore.go:119-149, 165-194, 200-228).
LevelsAreHeights ==
  /\ \A c \in exact \intersect DOMAIN levelMap : levelMap[c] = Height[c]
  /\ informed =>
       /\ everPut \subseteq exact
       /\ \A c \in everPut \ DOMAIN levelMap : \E d \in everPut : Height[d] >= Height[c] + MaxLevels
       /\ \A l \in DOMAIN cohorts : \A c \in DOMAIN cohorts[l].parentOf :
            LET p == cohorts[l].parentOf[c] IN p # NoParent => c \in Links[p] /\ Height[p] > l
  /\ orderly /\ (\A c \in everPut : Height[c] < MaxLevels) => informed /\ everPut \subseteq DOMAIN levelMap
=============================================================================
