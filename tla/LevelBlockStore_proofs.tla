------------------------ MODULE LevelBlockStore_proofs -------------------------
(***************************************************************************)
(* Proofs about LevelBlockStore, for every DAG whose blocks have finitely  *)
(* many links, every number of levels kept and every number of Puts.       *)
(***************************************************************************)
EXTENDS LevelBlockStore, SetLemmas, TLAPS, FiniteSetTheorems, WellFoundedInduction

-----------------------------------------------------------------------------
(* Maps that grow and shrink. *)

LEMMA WithMap ==
  ASSUME NEW S, NEW T, NEW f \in [S -> T], NEW x, NEW v \in T
  PROVE  /\ With(f, x, v) \in [S \union {x} -> T]
         /\ With(f, x, v)[x] = v
         /\ \A y \in S : y # x => With(f, x, v)[y] = f[y]
BY DEF With

LEMMA WithoutMap ==
  ASSUME NEW S, NEW T, NEW f \in [S -> T], NEW D
  PROVE  /\ Without(f, D) \in [S \ D -> T]
         /\ \A y \in S \ D : Without(f, D)[y] = f[y]
BY DEF Without, Restrict

LEMMA EmptyMap ==
  ASSUME NEW T
  PROVE  << >> \in [{} -> T] /\ DOMAIN << >> = {}
OBVIOUS

\* A set covered by two finite ones has no more members than both.
LEMMA UnionBound ==
  ASSUME NEW S, IsFiniteSet(S), NEW T, IsFiniteSet(T), NEW U, U \subseteq S \union T
  PROVE  /\ IsFiniteSet(U) /\ Cardinality(U) \in Nat
         /\ Cardinality(U) <= Cardinality(S) + Cardinality(T)
<1>1. /\ IsFiniteSet(S \union T)
      /\ Cardinality(S \union T) = Cardinality(S) + Cardinality(T) - Cardinality(S \intersect T)
  BY FS_Union
<1>2. U \in SUBSET (S \union T) /\ S \intersect T \in SUBSET S
  OBVIOUS
<1>3. IsFiniteSet(U) /\ Cardinality(U) <= Cardinality(S \union T)
  BY <1>1, <1>2, FS_Subset
<1>4. IsFiniteSet(S \intersect T)
  BY <1>2, FS_Subset
<1>5. /\ Cardinality(U) \in Nat /\ Cardinality(S \intersect T) \in Nat
      /\ Cardinality(S) \in Nat /\ Cardinality(T) \in Nat /\ Cardinality(S \union T) \in Nat
  BY <1>1, <1>3, <1>4, FS_CardinalityType
<1>6. QED
  BY <1>1, <1>3, <1>5

-----------------------------------------------------------------------------
(* The invariant. *)

IsParents(f) == /\ DOMAIN f \subseteq Cids
                /\ f \in [DOMAIN f -> Cids \union {NoParent}]

IsCohort(k) == /\ k = [parentOf |-> k.parentOf, childrenOf |-> k.childrenOf, count |-> k.count]
               /\ IsParents(k.parentOf)
               /\ k.childrenOf \subseteq Cids
               /\ k.count \in Int

\* Types; that counters are not negative follows from the counts below.
Types == /\ inner \subseteq {Digest[c] : c \in Cids} /\ IsFiniteSet(inner)
         /\ DOMAIN levelMap \subseteq Cids /\ IsFiniteSet(DOMAIN levelMap)
         /\ levelMap \in [DOMAIN levelMap -> Nat]
         /\ DOMAIN cohorts \subseteq Nat /\ IsFiniteSet(DOMAIN cohorts)
         /\ cohorts = [l \in DOMAIN cohorts |-> cohorts[l]]
         /\ \A l \in DOMAIN cohorts : IsCohort(cohorts[l])
         /\ currentLevel \in Nat /\ levelsSeen \subseteq Nat /\ blockCount \in Int
         /\ puts \in 0..MaxPuts /\ everPut \subseteq Cids
         /\ orderly \in BOOLEAN /\ informed \in BOOLEAN /\ exact \subseteq Cids

\* A level with no cohort is below all others, and there are MaxLevels others.
Low == /\ Cardinality(DOMAIN cohorts) <= MaxLevels
       /\ levelsSeen = DOMAIN cohorts
       /\ \A c \in DOMAIN levelMap :
            levelMap[c] \notin DOMAIN cohorts =>
              /\ Cardinality(DOMAIN cohorts) = MaxLevels
              /\ \A l \in DOMAIN cohorts : levelMap[c] < l

\* A block with a cohort is in it, and a parent links to its child.
Agree == /\ \A c \in DOMAIN levelMap :
              levelMap[c] \in DOMAIN cohorts =>
                /\ c \in DOMAIN cohorts[levelMap[c]].parentOf
                /\ c \in cohorts[levelMap[c]].childrenOf
         /\ \A l \in DOMAIN cohorts : \A c \in DOMAIN cohorts[l].parentOf :
              cohorts[l].parentOf[c] # NoParent => c \in Links[cohorts[l].parentOf[c]]

\* The digests of the blocks whose level is known, and the blocks stored whose
\* level has been forgotten.
Digests(S) == {Digest[c] : c \in S}
Orphans    == inner \ Digests(DOMAIN levelMap)

OfLevel(l) == {c \in DOMAIN levelMap : levelMap[c] = l}

\* The counters, each at least the number of what it counts.
Counts == /\ blockCount >= Cardinality(DOMAIN levelMap) + Cardinality(Orphans)
          /\ \A l \in DOMAIN cohorts : cohorts[l].count >= Cardinality(OfLevel(l))

IInv == Types /\ Low /\ Agree /\ Counts

-----------------------------------------------------------------------------
(* The operators of Put. *)

\* The level of a block is a natural number.
LEMMA LevelIsNat ==
  ASSUME LevelAssumption, Types, NEW c \in Cids
  PROVE  LevelOf(c) \in Nat
<1>1. Links[c] \subseteq Cids /\ IsFiniteSet(Links[c])
  BY DEF LevelAssumption
<1>2. IsFiniteSet(Links[c] \intersect DOMAIN levelMap)
  BY <1>1, FS_Subset
<1>3. IsFiniteSet(ChildLevels(c))
  BY <1>2, ImageIsFinite DEF ChildLevels
<1>4. ChildLevels(c) \in SUBSET Nat
  BY DEF ChildLevels, Types
<1>5. ChildLevels(c) # {} => Max(ChildLevels(c)) \in Nat
  BY <1>3, <1>4, MaxExists
<1>6. QED
  BY <1>5 DEF LevelOf, Types

\* The levels given up when the cohort of a level is opened.
Gone(level) == IF level \in DOMAIN cohorts THEN {} ELSE Rotated(Opened(level))

\* The cohorts after a level is opened: those before, and an empty one.
LEMMA OpenedCohorts ==
  ASSUME Types, NEW level \in Nat
  PROVE  /\ DOMAIN Opened(level) = DOMAIN cohorts \union {level}
         /\ \A l \in DOMAIN cohorts : Opened(level)[l] = cohorts[l]
         /\ level \notin DOMAIN cohorts => Opened(level)[level] = NewCohort
         /\ \A l \in DOMAIN Opened(level) : IsCohort(Opened(level)[l])
<1>1. /\ DOMAIN Opened(level) = DOMAIN cohorts \union {level}
      /\ \A l \in DOMAIN cohorts : Opened(level)[l] = cohorts[l]
      /\ level \notin DOMAIN cohorts => Opened(level)[level] = NewCohort
  BY DEF Opened, With
<1>2. IsCohort(NewCohort)
  <2>1. DOMAIN NewCohort.parentOf = {} /\ NewCohort.parentOf \in [{} -> Cids \union {NoParent}]
    BY EmptyMap DEF NewCohort
  <2>2. IsParents(NewCohort.parentOf)
    BY <2>1 DEF IsParents
  <2>3. QED
    BY <2>2 DEF IsCohort, NewCohort
<1>3. QED
  BY <1>1, <1>2 DEF Types

\* Either there is room for the level, and then no level lacks a cohort, or
\* the lowest of all is given up.
LEMMA WhatIsGone ==
  ASSUME LevelAssumption, Types, Low, NEW level \in Nat, level \notin DOMAIN cohorts
  PROVE  \/ /\ Cardinality(DOMAIN cohorts) < MaxLevels
            /\ Gone(level) = {}
         \/ /\ Cardinality(DOMAIN cohorts) = MaxLevels
            /\ \E m \in DOMAIN cohorts \union {level} :
                 /\ Gone(level) = {m}
                 /\ \A l \in DOMAIN cohorts \union {level} : m <= l
<1> DEFINE D == DOMAIN cohorts \union {level}
<1>1. DOMAIN Opened(level) = D
  BY OpenedCohorts
<1>2. Cardinality(D) = Cardinality(DOMAIN cohorts) + 1 /\ Cardinality(DOMAIN cohorts) \in Nat
  BY FS_AddElement, FS_CardinalityType DEF Types
<1>3. Gone(level) = IF Cardinality(D) <= MaxLevels THEN {} ELSE {Min(D)}
  BY <1>1 DEF Gone, Rotated
<1>4. Min(D) \in D /\ \A l \in D : Min(D) <= l
  <2>1. D \in SUBSET Nat /\ D # {}
    BY DEF Types
  <2> HIDE DEF D
  <2>2. QED
    BY <2>1, MinExists
<1>5. Cardinality(DOMAIN cohorts) <= MaxLevels /\ MaxLevels \in Nat
  BY DEF Low, LevelAssumption
<1>6. CASE Cardinality(DOMAIN cohorts) < MaxLevels
  <2>1. Cardinality(D) <= MaxLevels
    BY <1>2, <1>5, <1>6
  <2>2. QED
    BY <1>3, <1>6, <2>1
<1>7. CASE Cardinality(DOMAIN cohorts) = MaxLevels
  <2>1. ~(Cardinality(D) <= MaxLevels)
    BY <1>2, <1>5, <1>7
  <2>2. Gone(level) = {Min(D)}
    BY <1>3, <2>1
  <2>3. QED
    BY <1>4, <1>7, <2>2
<1>8. QED
  BY <1>2, <1>5, <1>6, <1>7

\* If the cohort of a level is new and stays, no block had that level.
LEMMA NewLevelWasUnused ==
  ASSUME LevelAssumption, Types, Low, NEW level \in Nat, level \notin DOMAIN cohorts,
         level \notin Gone(level)
  PROVE  \A d \in DOMAIN levelMap : levelMap[d] # level
<1> SUFFICES ASSUME NEW d \in DOMAIN levelMap, levelMap[d] = level PROVE FALSE
  OBVIOUS
<1>1. /\ Cardinality(DOMAIN cohorts) = MaxLevels
      /\ \A l \in DOMAIN cohorts : level < l
  BY DEF Low
<1>2. PICK m \in DOMAIN cohorts \union {level} :
        /\ Gone(level) = {m}
        /\ \A l \in DOMAIN cohorts \union {level} : m <= l
  BY <1>1, WhatIsGone DEF LevelAssumption
<1>3. m \in DOMAIN cohorts /\ m \in Nat /\ m <= level
  BY <1>2 DEF Types
<1>4. QED
  BY <1>1, <1>3

-----------------------------------------------------------------------------
(* What a Put does. *)

\* The blocks whose levels are forgotten with the cohorts given up.
Forgotten(level) == UNION {DOMAIN Opened(level)[l].parentOf : l \in Gone(level)}

\* The levels after a Put.
LEMMA PutLevels ==
  ASSUME LevelAssumption, Types, NEW c \in Cids, Put(c)
  PROVE  /\ DOMAIN levelMap' = (DOMAIN levelMap \union {c}) \ Forgotten(LevelOf(c))
         /\ levelMap' \in [DOMAIN levelMap' -> Nat]
         /\ \A d \in DOMAIN levelMap' : levelMap'[d] = IF d = c THEN LevelOf(c) ELSE levelMap[d]
<1> DEFINE W == With(levelMap, c, LevelOf(c))
<1>1. LevelOf(c) \in Nat
  BY LevelIsNat
<1>2. levelMap' = Without(W, Forgotten(LevelOf(c)))
  BY DEF Put, ForgetLevels, Forgotten, Gone
<1>3. /\ W \in [DOMAIN levelMap \union {c} -> Nat]
      /\ \A d \in DOMAIN levelMap \union {c} : W[d] = IF d = c THEN LevelOf(c) ELSE levelMap[d]
  BY <1>1 DEF With, Types
<1> DEFINE D == DOMAIN levelMap \union {c}
           F == Forgotten(LevelOf(c))
<1>4. W \in [D -> Nat]
  BY <1>3
<1> HIDE DEF W, D, F
<1>5. /\ Without(W, F) \in [D \ F -> Nat]
      /\ \A d \in D \ F : Without(W, F)[d] = W[d]
  BY <1>4, WithoutMap
<1>6. levelMap' = Without(W, F)
  BY <1>2 DEF F
<1>7. /\ DOMAIN levelMap' = D \ F
      /\ levelMap' \in [DOMAIN levelMap' -> Nat]
      /\ \A d \in DOMAIN levelMap' : levelMap'[d] = W[d]
  BY <1>5, <1>6
<1>8. QED
  BY <1>3, <1>7 DEF D, F

\* The cohorts after a Put: those opened and not given up.  The block joins
\* that of its level, and its children are given it as their parent.
LEMMA PutCohorts ==
  ASSUME LevelAssumption, Types, NEW c \in Cids, Put(c)
  PROVE  LET level  == LevelOf(c)
             opened == Opened(level)
         IN  /\ DOMAIN cohorts' = DOMAIN opened \ Gone(level)
             /\ cohorts' = [l \in DOMAIN cohorts' |-> cohorts'[l]]
             /\ \A l \in DOMAIN cohorts' :
                  LET before == IF l = level THEN Join(opened[l], c) ELSE opened[l]
                      here   == {d \in Links[c] \intersect DOMAIN levelMap' : levelMap'[d] = l}
                  IN  cohorts'[l] = [before EXCEPT !.parentOf =
                        [d \in DOMAIN before.parentOf \union here |->
                           IF d \in here THEN c ELSE before.parentOf[d]]]
<1> DEFINE level  == LevelOf(c)
           opened == Opened(level)
           gone   == Gone(level)
           kept   == Without(opened, gone)
           joined == IF level \in gone THEN kept ELSE [kept EXCEPT ![level] = Join(@, c)]
           before(l) == IF l = level THEN Join(opened[l], c) ELSE opened[l]
<1>1. cohorts' = Adopt(joined, levelMap', c)
  BY DEF Put, Gone
<1>2. DOMAIN kept = DOMAIN opened \ gone /\ \A l \in DOMAIN kept : kept[l] = opened[l]
  <2> HIDE DEF opened, gone
  <2>1. QED
    BY DEF Without, Restrict
<1>3. DOMAIN joined = DOMAIN opened \ gone /\ \A l \in DOMAIN joined : joined[l] = before(l)
  <2> HIDE DEF opened, gone, kept, level
  <2>1. QED
    BY <1>2
<1> HIDE DEF joined, opened, gone, kept, level
<1>4. DOMAIN cohorts' = DOMAIN joined
  BY <1>1 DEF Adopt
<1>5. QED
  BY <1>1, <1>3, <1>4 DEF Adopt, opened, gone, level

\* The fields of a cohort after a Put.
LEMMA PutFields ==
  ASSUME LevelAssumption, Types, NEW c \in Cids, Put(c), NEW l \in DOMAIN cohorts'
  PROVE  LET o    == Opened(LevelOf(c))[l]
             k    == cohorts'[l]
             own  == IF l = LevelOf(c) THEN {c} ELSE {}
             here == {d \in Links[c] \intersect DOMAIN levelMap' : levelMap'[d] = l}
         IN  /\ IsCohort(o) /\ IsCohort(k)
             /\ DOMAIN k.parentOf = DOMAIN o.parentOf \union own \union here
             /\ \A d \in DOMAIN k.parentOf :
                  k.parentOf[d] = IF d \in here THEN c ELSE IF d \in own THEN NoParent ELSE o.parentOf[d]
             /\ k.childrenOf = o.childrenOf \union own
             /\ k.count = o.count + (IF l = LevelOf(c) THEN 1 ELSE 0)
<1> DEFINE o      == Opened(LevelOf(c))[l]
           k      == cohorts'[l]
           own    == IF l = LevelOf(c) THEN {c} ELSE {}
           here   == {d \in Links[c] \intersect DOMAIN levelMap' : levelMap'[d] = l}
           before == IF l = LevelOf(c) THEN Join(o, c) ELSE o
           ps     == [d \in DOMAIN before.parentOf \union here |->
                        IF d \in here THEN c ELSE before.parentOf[d]]
<1>1. k = [before EXCEPT !.parentOf = ps]
  BY PutCohorts
<1>2. IsCohort(o)
  <2>1. LevelOf(c) \in Nat
    BY LevelIsNat
  <2>2. l \in DOMAIN Opened(LevelOf(c))
    BY PutCohorts
  <2>3. QED
    BY <2>1, <2>2, OpenedCohorts
<1>3. here \subseteq Cids
  BY DEF LevelAssumption
<1> HIDE DEF o, k, here
<1>4. /\ before = [parentOf |-> before.parentOf, childrenOf |-> before.childrenOf, count |-> before.count]
      /\ IsParents(before.parentOf)
      /\ DOMAIN before.parentOf = DOMAIN o.parentOf \union own
      /\ \A d \in DOMAIN before.parentOf :
           before.parentOf[d] = IF d \in own THEN NoParent ELSE o.parentOf[d]
      /\ before.childrenOf = o.childrenOf \union own /\ before.childrenOf \subseteq Cids
      /\ before.count = o.count + (IF l = LevelOf(c) THEN 1 ELSE 0) /\ before.count \in Int
  <2>1. CASE l = LevelOf(c)
    <3> DEFINE w == With(o.parentOf, c, NoParent)
    <3>1. before = [parentOf |-> w, childrenOf |-> o.childrenOf \union {c}, count |-> o.count + 1]
      BY <2>1 DEF Join
    <3>2. /\ DOMAIN w = DOMAIN o.parentOf \union {c}
          /\ w \in [DOMAIN w -> Cids \union {NoParent}]
          /\ \A d \in DOMAIN w : w[d] = IF d \in {c} THEN NoParent ELSE o.parentOf[d]
      BY <1>2 DEF With, IsCohort, IsParents
    <3> HIDE DEF w, before
    <3>3. before.parentOf = w /\ before.childrenOf = o.childrenOf \union {c} /\ before.count = o.count + 1
      BY <3>1
    <3>4. own = {c} /\ DOMAIN o.parentOf \subseteq Cids /\ o.childrenOf \subseteq Cids /\ o.count \in Int
      BY <1>2, <2>1 DEF IsCohort, IsParents
    <3> HIDE DEF own
    <3>5. QED
      BY <2>1, <3>1, <3>2, <3>3, <3>4 DEF IsParents
  <2>2. CASE l # LevelOf(c)
    <3>1. before = o /\ own = {}
      BY <2>2
    <3> HIDE DEF before, own
    <3>2. QED
      BY <1>2, <2>2, <3>1 DEF IsCohort, IsParents
  <2>3. QED
    BY <2>1, <2>2
<1> HIDE DEF before, own
<1>5. /\ ps \in [DOMAIN before.parentOf \union here -> Cids \union {NoParent}]
      /\ DOMAIN ps = DOMAIN before.parentOf \union here
      /\ \A d \in DOMAIN ps : ps[d] = IF d \in here THEN c ELSE before.parentOf[d]
  BY <1>4 DEF IsParents
<1> HIDE DEF ps
<1>6. k = [parentOf |-> ps, childrenOf |-> before.childrenOf, count |-> before.count]
  BY <1>1, <1>4
<1>7. k.parentOf = ps /\ k.childrenOf = before.childrenOf /\ k.count = before.count
  BY <1>6
<1>8. IsCohort(k)
  <2>1. IsParents(ps)
    BY <1>3, <1>4, <1>5 DEF IsParents
  <2>2. QED
    BY <1>4, <1>6, <1>7, <2>1 DEF IsCohort
<1>9. /\ DOMAIN k.parentOf = DOMAIN o.parentOf \union own \union here
      /\ \A d \in DOMAIN k.parentOf :
           k.parentOf[d] = IF d \in here THEN c ELSE IF d \in own THEN NoParent ELSE o.parentOf[d]
  BY <1>4, <1>5, <1>7
<1>10. /\ k.childrenOf = o.childrenOf \union own
       /\ k.count = o.count + (IF l = LevelOf(c) THEN 1 ELSE 0)
  BY <1>4, <1>7
<1>11. QED
  BY <1>2, <1>8, <1>9, <1>10 DEF o, k, here, own

\* The levels and cohorts after a DeleteBlock.
LEMMA DeleteLevels ==
  ASSUME Types, NEW c \in Cids, DeleteBlock(c)
  PROVE  /\ DOMAIN cohorts' = DOMAIN cohorts
         /\ cohorts' = [l \in DOMAIN cohorts' |-> cohorts'[l]]
         /\ DOMAIN levelMap' = DOMAIN levelMap \ {c}
         /\ levelMap' \in [DOMAIN levelMap' -> Nat]
         /\ \A d \in DOMAIN levelMap' : levelMap'[d] = levelMap[d]
<1>1. levelMap' = Without(levelMap, {c})
  BY DEF DeleteBlock
<1>2. /\ DOMAIN levelMap' = DOMAIN levelMap \ {c}
      /\ levelMap' \in [DOMAIN levelMap' -> Nat]
      /\ \A d \in DOMAIN levelMap' : levelMap'[d] = levelMap[d]
  BY <1>1 DEF Types, Without, Restrict
<1>3. /\ DOMAIN cohorts' = DOMAIN cohorts
      /\ cohorts' = [l \in DOMAIN cohorts' |-> cohorts'[l]]
  BY DEF DeleteBlock
<1>4. QED
  BY <1>2, <1>3

\* The fields of a cohort after a DeleteBlock.
LEMMA DeleteFields ==
  ASSUME Types, NEW c \in Cids, DeleteBlock(c)
  PROVE  \A l \in DOMAIN cohorts' :
           LET o   == cohorts[l]
               k   == cohorts'[l]
               own == IF c \in DOMAIN levelMap /\ levelMap[c] = l THEN {c} ELSE {}
           IN  /\ IsCohort(k)
               /\ DOMAIN k.parentOf = DOMAIN o.parentOf \ own
               /\ \A d \in DOMAIN k.parentOf : k.parentOf[d] = o.parentOf[d]
               /\ k.childrenOf = o.childrenOf \ own
               /\ k.count = o.count - (IF own = {} THEN 0 ELSE 1)
<1>1. ASSUME NEW l \in DOMAIN cohorts'
      PROVE  LET o   == cohorts[l]
                 k   == cohorts'[l]
                 own == IF c \in DOMAIN levelMap /\ levelMap[c] = l THEN {c} ELSE {}
             IN  /\ IsCohort(k)
                 /\ DOMAIN k.parentOf = DOMAIN o.parentOf \ own
                 /\ \A d \in DOMAIN k.parentOf : k.parentOf[d] = o.parentOf[d]
                 /\ k.childrenOf = o.childrenOf \ own
                 /\ k.count = o.count - (IF own = {} THEN 0 ELSE 1)
  <2> DEFINE o   == cohorts[l]
             k   == cohorts'[l]
             own == IF c \in DOMAIN levelMap /\ levelMap[c] = l THEN {c} ELSE {}
  <2>1. k = IF own = {} THEN o ELSE Leave(o, c)
    BY DEF DeleteBlock
  <2>2. IsCohort(o)
    BY DeleteLevels DEF Types
  <2>3. own = {} \/ own = {c}
    OBVIOUS
  <2> HIDE DEF o, k, own
  <2>4. CASE own = {}
    BY <2>1, <2>2, <2>4 DEF IsCohort, IsParents, o, k, own
  <2>5. CASE own = {c}
    <3> DEFINE w == Without(o.parentOf, {c})
    <3>1. k = [parentOf |-> w, childrenOf |-> o.childrenOf \ {c}, count |-> o.count - 1]
      BY <2>1, <2>5 DEF Leave
    <3>2. /\ DOMAIN w = DOMAIN o.parentOf \ {c}
          /\ w \in [DOMAIN w -> Cids \union {NoParent}]
          /\ \A d \in DOMAIN w : w[d] = o.parentOf[d]
      BY <2>2 DEF Without, Restrict, IsCohort, IsParents
    <3> HIDE DEF w
    <3>3. k.parentOf = w /\ k.childrenOf = o.childrenOf \ {c} /\ k.count = o.count - 1
      BY <3>1
    <3>4. IsCohort(k)
      BY <2>2, <3>1, <3>2, <3>3 DEF IsCohort, IsParents
    <3>5. QED
      BY <2>5, <3>2, <3>3, <3>4 DEF o, k, own
  <2>6. QED
    BY <2>3, <2>4, <2>5
<1>2. QED
  BY <1>1

-----------------------------------------------------------------------------
(* The invariant is preserved. *)

LEMMA PutKeepsTypes ==
  ASSUME LevelAssumption, Types, NEW c \in Cids, Put(c)
  PROVE  Types'
<1>1. LevelOf(c) \in Nat
  BY LevelIsNat
<1>2. inner' \subseteq {Digest[d] : d \in Cids} /\ IsFiniteSet(inner')
  BY FS_AddElement DEF Put, Types
<1>3. /\ DOMAIN levelMap' \subseteq Cids /\ IsFiniteSet(DOMAIN levelMap')
      /\ levelMap' \in [DOMAIN levelMap' -> Nat]
  <2>1. IsFiniteSet(DOMAIN levelMap \union {c})
    BY FS_AddElement DEF Types
  <2>2. DOMAIN levelMap' \in SUBSET (DOMAIN levelMap \union {c})
    BY PutLevels
  <2>3. QED
    <3>1. IsFiniteSet(DOMAIN levelMap')
      BY <2>1, <2>2, FS_Subset
    <3>2. QED
      BY <2>2, <3>1, PutLevels DEF Types
<1>4. /\ DOMAIN cohorts' \subseteq Nat /\ IsFiniteSet(DOMAIN cohorts')
      /\ cohorts' = [l \in DOMAIN cohorts' |-> cohorts'[l]]
      /\ \A l \in DOMAIN cohorts' : IsCohort(cohorts'[l])
  <2>1. IsFiniteSet(DOMAIN cohorts \union {LevelOf(c)})
    BY FS_AddElement DEF Types
  <2>2. DOMAIN Opened(LevelOf(c)) = DOMAIN cohorts \union {LevelOf(c)}
    BY <1>1, OpenedCohorts
  <2>3. DOMAIN cohorts' \in SUBSET (DOMAIN cohorts \union {LevelOf(c)})
    BY <2>2, PutCohorts
  <2>4. \A l \in DOMAIN cohorts' : IsCohort(cohorts'[l])
    BY PutFields
  <2>5. QED
    BY <1>1, <2>1, <2>3, <2>4, PutCohorts, FS_Subset DEF Types
<1>5. currentLevel' \in Nat /\ levelsSeen' \subseteq Nat /\ blockCount' \in Int
  <2>1. currentLevel' = LevelOf(c) /\ blockCount' = blockCount + 1
    BY DEF Put
  <2>2. levelsSeen' \subseteq levelsSeen \union {LevelOf(c)}
    BY DEF Put
  <2>3. QED
    BY <1>1, <2>1, <2>2 DEF Types
<1>6. /\ puts' \in 0..MaxPuts /\ everPut' \subseteq Cids
      /\ orderly' \in BOOLEAN /\ informed' \in BOOLEAN /\ exact' \subseteq Cids
  <2>1. puts < MaxPuts /\ puts' = puts + 1 /\ everPut' = everPut \union {c}
    BY DEF Put
  <2>2. puts' \in 0..MaxPuts /\ everPut' \subseteq Cids
    BY <2>1 DEF Types, LevelAssumption
  <2>3. orderly' \in BOOLEAN /\ informed' \in BOOLEAN /\ exact' \in {exact \union {c}, exact \ {c}}
    BY DEF Put
  <2>4. QED
    BY <2>2, <2>3 DEF Types
<1>7. QED
  BY <1>2, <1>3, <1>4, <1>5, <1>6 DEF Types

LEMMA DeleteKeepsTypes ==
  ASSUME LevelAssumption, Types, NEW c \in Cids, DeleteBlock(c)
  PROVE  Types'
<1>1. inner' \subseteq {Digest[d] : d \in Cids} /\ IsFiniteSet(inner')
  BY FS_RemoveElement DEF DeleteBlock, Types
<1>2. /\ DOMAIN levelMap' \subseteq Cids /\ IsFiniteSet(DOMAIN levelMap')
      /\ levelMap' \in [DOMAIN levelMap' -> Nat]
  <2>1. IsFiniteSet(DOMAIN levelMap \ {c})
    BY FS_RemoveElement DEF Types
  <2>2. QED
    BY <2>1, DeleteLevels DEF Types
<1>3. /\ DOMAIN cohorts' \subseteq Nat /\ IsFiniteSet(DOMAIN cohorts')
      /\ cohorts' = [l \in DOMAIN cohorts' |-> cohorts'[l]]
      /\ \A l \in DOMAIN cohorts' : IsCohort(cohorts'[l])
  BY DeleteLevels, DeleteFields DEF Types
<1>4. blockCount' \in Int
  <2>1. Uncounted(c) \in Int /\ blockCount' = blockCount - Uncounted(c)
    BY DEF Uncounted, DeleteBlock
  <2>2. QED
    BY <2>1 DEF Types
<1>5. /\ currentLevel' \in Nat /\ levelsSeen' \subseteq Nat
      /\ puts' \in 0..MaxPuts /\ everPut' \subseteq Cids
      /\ orderly' \in BOOLEAN /\ informed' \in BOOLEAN /\ exact' \subseteq Cids
  BY DEF DeleteBlock, Types
<1>6. QED
  BY <1>1, <1>2, <1>3, <1>4, <1>5 DEF Types

\* The level of a Put is one of the levels kept, or is new and there was room,
\* or it or an old one is the lowest of all and given up.
LEMMA PutKeepsLow ==
  ASSUME LevelAssumption, Types, Low, NEW c \in Cids, Put(c)
  PROVE  Low'
<1> DEFINE level == LevelOf(c)
           D     == DOMAIN cohorts \union {level}
<1>1. level \in Nat /\ D \subseteq Nat
  BY LevelIsNat DEF Types
<1>2. DOMAIN cohorts' = D \ Gone(level)
  <2>1. DOMAIN Opened(level) = D
    BY <1>1, OpenedCohorts
  <2>2. QED
    BY <2>1, PutCohorts
<1>3. levelsSeen' = DOMAIN cohorts'
  <2>1. levelsSeen' = (levelsSeen \union {level}) \ Gone(level)
    BY DEF Put, Gone
  <2>2. QED
    BY <1>2, <2>1 DEF Low
<1>4. /\ DOMAIN levelMap' \subseteq DOMAIN levelMap \union {c}
      /\ \A d \in DOMAIN levelMap' : levelMap'[d] = IF d = c THEN level ELSE levelMap[d]
  BY PutLevels
<1>5. \A d \in DOMAIN levelMap : levelMap[d] \in Nat
  BY DEF Types
<1>6. Cardinality(DOMAIN cohorts) \in Nat /\ IsFiniteSet(DOMAIN cohorts) /\ MaxLevels \in Nat
  BY FS_CardinalityType DEF Types, LevelAssumption
<1> SUFFICES /\ Cardinality(DOMAIN cohorts') <= MaxLevels
             /\ \A d \in DOMAIN levelMap' :
                  levelMap'[d] \notin DOMAIN cohorts' =>
                    /\ Cardinality(DOMAIN cohorts') = MaxLevels
                    /\ \A l \in DOMAIN cohorts' : levelMap'[d] < l
  BY <1>3 DEF Low
<1> HIDE DEF level
<1>7. CASE level \in DOMAIN cohorts
  <2>1. DOMAIN cohorts' = DOMAIN cohorts
    BY <1>2, <1>7 DEF Gone
  <2>2. QED
    BY <1>4, <1>7, <2>1 DEF Low
<1>8. CASE level \notin DOMAIN cohorts /\ Cardinality(DOMAIN cohorts) < MaxLevels
  <2>1. Gone(level) = {}
    BY <1>1, <1>6, <1>8, WhatIsGone
  <2>2. DOMAIN cohorts' = D
    BY <1>2, <2>1
  <2>3. Cardinality(D) <= MaxLevels
    <3>1. Cardinality(D) = Cardinality(DOMAIN cohorts) + 1
      BY <1>6, <1>8, FS_AddElement
    <3>2. QED
      BY <1>6, <1>8, <3>1
  <2>4. \A d \in DOMAIN levelMap : levelMap[d] \in DOMAIN cohorts
    BY <1>6, <1>8 DEF Low
  <2>5. QED
    BY <1>4, <2>2, <2>3, <2>4
<1>9. CASE level \notin DOMAIN cohorts /\ Cardinality(DOMAIN cohorts) = MaxLevels
  <2>1. PICK m \in D : Gone(level) = {m} /\ \A l \in D : m <= l
    BY <1>1, <1>6, <1>9, WhatIsGone
  <2>2. DOMAIN cohorts' = D \ {m}
    BY <1>2, <2>1
  <2>3. Cardinality(DOMAIN cohorts') = MaxLevels
    <3>1. IsFiniteSet(D) /\ Cardinality(D) = MaxLevels + 1
      BY <1>6, <1>9, FS_AddElement
    <3> HIDE DEF D
    <3>2. Cardinality(D \ {m}) = Cardinality(D) - 1
      BY <2>1, <3>1, FS_RemoveElement
    <3>3. QED
      BY <1>6, <2>2, <3>1, <3>2
  <2>4. ASSUME NEW d \in DOMAIN levelMap', levelMap'[d] \notin DOMAIN cohorts',
               NEW l \in DOMAIN cohorts'
        PROVE  levelMap'[d] < l
    <3>1. l \in D /\ l # m /\ m <= l /\ m \in Nat /\ l \in Nat
      BY <1>1, <2>1, <2>2
    <3>2. CASE levelMap'[d] \in D
      BY <2>2, <2>4, <3>1, <3>2
    <3>3. CASE levelMap'[d] \notin D
      <4>1. d # c /\ d \in DOMAIN levelMap /\ levelMap'[d] = levelMap[d]
        BY <1>4, <3>3
      <4>2. levelMap[d] \in Nat /\ \A k \in DOMAIN cohorts : levelMap[d] < k
        BY <1>5, <3>3, <4>1 DEF Low
      <4>3. CASE l \in DOMAIN cohorts
        BY <4>1, <4>2, <4>3
      <4>4. CASE l = level
        <5>1. m \in DOMAIN cohorts
          BY <2>1, <3>1, <4>4
        <5>2. QED
          BY <3>1, <4>1, <4>2, <5>1
      <4>5. QED
        BY <3>1, <4>3, <4>4
    <3>4. QED
      BY <3>2, <3>3
  <2>5. QED
    BY <1>6, <2>3, <2>4
<1>10. QED
  BY <1>6, <1>7, <1>8, <1>9 DEF Low

LEMMA DeleteKeepsLow ==
  ASSUME Types, Low, NEW c \in Cids, DeleteBlock(c)
  PROVE  Low'
<1>1. levelsSeen' = levelsSeen
  BY DEF DeleteBlock
<1>2. QED
  BY <1>1, DeleteLevels DEF Low

\* Only the cohort of a level that no block had is new when it stays.
LEMMA PutKeepsAgree ==
  ASSUME LevelAssumption, Types, Low, Agree, NEW c \in Cids, Put(c)
  PROVE  Agree'
<1> DEFINE level == LevelOf(c)
<1>1. level \in Nat
  BY LevelIsNat
<1>2. DOMAIN cohorts' = (DOMAIN cohorts \union {level}) \ Gone(level)
  BY <1>1, OpenedCohorts, PutCohorts
<1>3. /\ DOMAIN levelMap' \subseteq DOMAIN levelMap \union {c}
      /\ \A d \in DOMAIN levelMap' : levelMap'[d] = IF d = c THEN level ELSE levelMap[d]
  BY PutLevels
<1> HIDE DEF level
<1>4. ASSUME NEW d \in DOMAIN levelMap', levelMap'[d] \in DOMAIN cohorts'
      PROVE  /\ d \in DOMAIN cohorts'[levelMap'[d]].parentOf
             /\ d \in cohorts'[levelMap'[d]].childrenOf
  <2> DEFINE l == levelMap'[d]
  <2>1. /\ DOMAIN Opened(level)[l].parentOf \subseteq DOMAIN cohorts'[l].parentOf
        /\ Opened(level)[l].childrenOf \subseteq cohorts'[l].childrenOf
        /\ l = level => c \in DOMAIN cohorts'[l].parentOf /\ c \in cohorts'[l].childrenOf
    BY <1>4, PutFields DEF level
  <2>2. CASE d = c
    BY <1>3, <2>1, <2>2
  <2>3. CASE d # c
    <3>1. d \in DOMAIN levelMap /\ l = levelMap[d]
      BY <1>3, <2>3
    <3>2. l \in DOMAIN cohorts
      <4>1. SUFFICES ASSUME l \notin DOMAIN cohorts PROVE FALSE
        OBVIOUS
      <4>2. l = level /\ level \notin Gone(level)
        BY <1>2, <1>4, <4>1
      <4>3. QED
        BY <1>1, <3>1, <4>1, <4>2, NewLevelWasUnused
    <3>3. Opened(level)[l] = cohorts[l]
      BY <1>1, <3>2, OpenedCohorts
    <3>4. d \in DOMAIN cohorts[l].parentOf /\ d \in cohorts[l].childrenOf
      BY <3>1, <3>2 DEF Agree
    <3>5. QED
      BY <2>1, <3>3, <3>4
  <2>4. QED
    BY <2>2, <2>3
<1>5. ASSUME NEW l \in DOMAIN cohorts', NEW d \in DOMAIN cohorts'[l].parentOf,
             cohorts'[l].parentOf[d] # NoParent
      PROVE  d \in Links[cohorts'[l].parentOf[d]]
  <2> DEFINE o    == Opened(level)[l]
             own  == IF l = level THEN {c} ELSE {}
             here == {e \in Links[c] \intersect DOMAIN levelMap' : levelMap'[e] = l}
  <2>1. /\ DOMAIN cohorts'[l].parentOf = DOMAIN o.parentOf \union own \union here
        /\ cohorts'[l].parentOf[d] =
             IF d \in here THEN c ELSE IF d \in own THEN NoParent ELSE o.parentOf[d]
    BY <1>5, PutFields DEF level
  <2>2. CASE d \in here
    BY <2>1, <2>2
  <2>3. CASE d \notin here
    <3>1. d \in DOMAIN o.parentOf /\ cohorts'[l].parentOf[d] = o.parentOf[d]
      BY <1>5, <2>1, <2>3
    <3>2. CASE l \in DOMAIN cohorts
      <4>1. o = cohorts[l]
        BY <1>1, <3>2, OpenedCohorts
      <4>2. QED
        BY <1>5, <3>1, <3>2, <4>1 DEF Agree
    <3>3. CASE l \notin DOMAIN cohorts
      <4>1. l = level
        BY <1>2, <3>3
      <4>2. o = NewCohort
        BY <1>1, <3>3, <4>1, OpenedCohorts
      <4>3. DOMAIN o.parentOf = {}
        BY <4>2, EmptyMap DEF NewCohort
      <4>4. QED
        BY <3>1, <4>3
    <3>4. QED
      BY <3>2, <3>3
  <2>4. QED
    BY <2>2, <2>3
<1>6. QED
  BY <1>4, <1>5 DEF Agree

\* A block that leaves is out of both indexes.
LEMMA DeleteKeepsAgree ==
  ASSUME Types, Agree, NEW c \in Cids, DeleteBlock(c)
  PROVE  Agree'
<1>1. ASSUME NEW d \in DOMAIN levelMap', levelMap'[d] \in DOMAIN cohorts'
      PROVE  /\ d \in DOMAIN cohorts'[levelMap'[d]].parentOf
             /\ d \in cohorts'[levelMap'[d]].childrenOf
  <2> DEFINE l == levelMap'[d]
             own == IF c \in DOMAIN levelMap /\ levelMap[c] = l THEN {c} ELSE {}
  <2>1. d \in DOMAIN levelMap /\ d # c /\ l = levelMap[d] /\ l \in DOMAIN cohorts
    BY <1>1, DeleteLevels
  <2>2. d \in DOMAIN cohorts[l].parentOf /\ d \in cohorts[l].childrenOf
    BY <2>1 DEF Agree
  <2>3. /\ DOMAIN cohorts'[l].parentOf = DOMAIN cohorts[l].parentOf \ own
        /\ cohorts'[l].childrenOf = cohorts[l].childrenOf \ own
    BY <1>1, DeleteFields
  <2>4. QED
    BY <2>1, <2>2, <2>3
<1>2. ASSUME NEW l \in DOMAIN cohorts', NEW d \in DOMAIN cohorts'[l].parentOf,
             cohorts'[l].parentOf[d] # NoParent
      PROVE  d \in Links[cohorts'[l].parentOf[d]]
  <2>1. l \in DOMAIN cohorts /\ d \in DOMAIN cohorts[l].parentOf
        /\ cohorts'[l].parentOf[d] = cohorts[l].parentOf[d]
    <3>1. DOMAIN cohorts' = DOMAIN cohorts
      BY DeleteLevels
    <3>2. /\ DOMAIN cohorts'[l].parentOf \subseteq DOMAIN cohorts[l].parentOf
          /\ \A e \in DOMAIN cohorts'[l].parentOf : cohorts'[l].parentOf[e] = cohorts[l].parentOf[e]
      BY DeleteFields
    <3>3. QED
      BY <1>2, <3>1, <3>2
  <2>2. QED
    BY <1>2, <2>1 DEF Agree
<1>3. QED
  BY <1>1, <1>2 DEF Agree

\* What a Put forgets is known no more, and the data of those blocks may be
\* left: the sum grows by the block put at most.
LEMMA PutKeepsBlockCount ==
  ASSUME LevelAssumption, Types, NEW c \in Cids, Put(c),
         blockCount >= Cardinality(DOMAIN levelMap) + Cardinality(Orphans)
  PROVE  blockCount' >= Cardinality(DOMAIN levelMap') + Cardinality(Orphans')
<1> DEFINE D == DOMAIN levelMap \union {c}
           H == D \intersect Forgotten(LevelOf(c))
<1>1. DOMAIN levelMap' = D \ H
  BY PutLevels
<1>2. IsFiniteSet(DOMAIN levelMap) /\ IsFiniteSet(inner) /\ blockCount \in Int
  BY DEF Types
<1>3. inner' = inner \union {Digest[c]} /\ blockCount' = blockCount + 1
  BY DEF Put
<1>4. /\ IsFiniteSet(D) /\ Cardinality(D) <= Cardinality(DOMAIN levelMap) + 1
      /\ Cardinality(DOMAIN levelMap) \in Nat
  <2>1. Cardinality(DOMAIN levelMap) \in Nat
    BY <1>2, FS_CardinalityType
  <2>2. IsFiniteSet(D) /\ Cardinality(D) = IF c \in DOMAIN levelMap THEN Cardinality(DOMAIN levelMap)
                                          ELSE Cardinality(DOMAIN levelMap) + 1
    BY <1>2, FS_AddElement
  <2>3. QED
    BY <2>1, <2>2
<1>5. H \in SUBSET D
  OBVIOUS
<1>6. Orphans' \subseteq Orphans \union Digests(H)
  <2>1. Digests(D) = Digests(D \ H) \union Digests(H)
    BY <1>5 DEF Digests
  <2>2. Digests(D) = Digests(DOMAIN levelMap) \union {Digest[c]}
    BY DEF Digests
  <2>3. Orphans' = inner' \ Digests(D \ H)
    BY <1>1 DEF Orphans, Digests
  <2> HIDE DEF D, H
  <2>4. QED
    BY <1>3, <2>1, <2>2, <2>3 DEF Orphans
<1> HIDE DEF D, H
<1>7. /\ IsFiniteSet(H) /\ Cardinality(H) \in Nat /\ Cardinality(D \ H) = Cardinality(D) - Cardinality(H)
      /\ Cardinality(D) \in Nat
  <2>1. IsFiniteSet(H)
    BY <1>4, <1>5, FS_Subset
  <2>2. D \intersect H = H
    BY <1>5
  <2>3. QED
    BY <1>4, <2>1, <2>2, FS_Difference, FS_CardinalityType
<1>8. /\ IsFiniteSet(Digests(H)) /\ Cardinality(Digests(H)) <= Cardinality(H)
      /\ Cardinality(Digests(H)) \in Nat
  <2>1. IsFiniteSet(Digests(H)) /\ Cardinality(Digests(H)) <= Cardinality(H)
    BY <1>7, ImageIsFinite DEF Digests
  <2>2. QED
    BY <2>1, FS_CardinalityType
<1>9. IsFiniteSet(Orphans) /\ Cardinality(Orphans) \in Nat
  <2>1. Orphans \in SUBSET inner
    BY DEF Orphans
  <2>2. IsFiniteSet(Orphans)
    BY <1>2, <2>1, FS_Subset
  <2>3. QED
    BY <2>2, FS_CardinalityType
<1>10. /\ Cardinality(Orphans') <= Cardinality(Orphans) + Cardinality(Digests(H))
       /\ Cardinality(Orphans') \in Nat
  BY <1>6, <1>8, <1>9, UnionBound
<1>11. QED
  BY <1>1, <1>2, <1>3, <1>4, <1>7, <1>8, <1>9, <1>10

\* A block deleted is known no more and its data is gone.
LEMMA DeleteKeepsBlockCount ==
  ASSUME Types, NEW c \in Cids, DeleteBlock(c),
         blockCount >= Cardinality(DOMAIN levelMap) + Cardinality(Orphans)
  PROVE  blockCount' >= Cardinality(DOMAIN levelMap') + Cardinality(Orphans')
<1>1. DOMAIN levelMap' = DOMAIN levelMap \ {c}
  BY DeleteLevels
<1>2. inner' = inner \ {Digest[c]}
  BY DEF DeleteBlock
<1>3. IsFiniteSet(DOMAIN levelMap) /\ IsFiniteSet(inner) /\ blockCount \in Int
  BY DEF Types
<1>4. Orphans' \in SUBSET Orphans
  <2>1. Digests(DOMAIN levelMap) \subseteq Digests(DOMAIN levelMap \ {c}) \union {Digest[c]}
    BY DEF Digests
  <2>2. Orphans' = inner' \ Digests(DOMAIN levelMap \ {c})
    BY <1>1 DEF Orphans, Digests
  <2>3. QED
    BY <1>2, <2>1, <2>2 DEF Orphans
<1>5. IsFiniteSet(Orphans)
  BY <1>3, FS_Subset DEF Orphans
<1>6. /\ Cardinality(Orphans') <= Cardinality(Orphans)
      /\ Cardinality(Orphans') \in Nat /\ Cardinality(Orphans) \in Nat
  BY <1>4, <1>5, FS_Subset, FS_CardinalityType
<1>7. Cardinality(DOMAIN levelMap') = Cardinality(DOMAIN levelMap) - Uncounted(c)
  BY <1>1, <1>3, FS_RemoveElement, FS_CardinalityType DEF Uncounted
<1>8. Cardinality(DOMAIN levelMap) \in Nat /\ Uncounted(c) \in Int /\ blockCount' = blockCount - Uncounted(c)
  BY <1>3, FS_CardinalityType DEF Uncounted, DeleteBlock
<1>9. QED
  BY <1>3, <1>6, <1>7, <1>8

\* A cohort counts a block that joins, and only the block put joins.
LEMMA PutKeepsCohortCounts ==
  ASSUME LevelAssumption, Types, Low, NEW c \in Cids, Put(c), NEW l \in DOMAIN cohorts',
         \A k \in DOMAIN cohorts : cohorts[k].count >= Cardinality(OfLevel(k))
  PROVE  cohorts'[l].count >= Cardinality(OfLevel(l)')
<1> DEFINE level == LevelOf(c)
           own   == IF l = level THEN {c} ELSE {}
           o     == Opened(level)[l]
<1>1. level \in Nat /\ DOMAIN Opened(level) = DOMAIN cohorts \union {level}
  BY LevelIsNat, OpenedCohorts
<1>2. l \in DOMAIN cohorts \union {level} /\ l \notin Gone(level)
  BY <1>1, PutCohorts
<1>3. cohorts'[l].count = o.count + (IF l = level THEN 1 ELSE 0) /\ o.count \in Int
  <2>1. cohorts'[l].count = o.count + (IF l = level THEN 1 ELSE 0) /\ IsCohort(o)
    BY PutFields
  <2>2. QED
    BY <2>1 DEF IsCohort
<1>4. OfLevel(l)' \in SUBSET (OfLevel(l) \union own)
  <2>1. /\ DOMAIN levelMap' \subseteq DOMAIN levelMap \union {c}
        /\ \A d \in DOMAIN levelMap' : levelMap'[d] = IF d = c THEN level ELSE levelMap[d]
    BY PutLevels
  <2> HIDE DEF level
  <2>2. ASSUME NEW d \in OfLevel(l)' PROVE d \in OfLevel(l) \union own
    <3>1. d \in DOMAIN levelMap' /\ levelMap'[d] = l
      BY <2>2 DEF OfLevel
    <3>2. QED
      BY <2>1, <3>1 DEF OfLevel
  <2>3. QED
    BY <2>2
<1>5. IsFiniteSet(OfLevel(l))
  BY FS_Subset DEF OfLevel, Types
<1>6. o.count >= Cardinality(OfLevel(l))
  <2>1. CASE l \in DOMAIN cohorts
    BY <1>1, <2>1, OpenedCohorts
  <2>2. CASE l \notin DOMAIN cohorts
    <3>1. l = level
      BY <1>2, <2>2
    <3>2. OfLevel(l) = {}
      BY <1>1, <1>2, <2>2, <3>1, NewLevelWasUnused DEF OfLevel
    <3>3. o = NewCohort
      BY <1>1, <2>2, <3>1, OpenedCohorts
    <3>4. QED
      BY <3>2, <3>3, FS_EmptySet DEF NewCohort
  <2>3. QED
    BY <2>1, <2>2
<1> HIDE DEF level, o
<1>7. /\ IsFiniteSet(own) /\ Cardinality(own) = IF l = level THEN 1 ELSE 0
  BY FS_EmptySet, FS_Singleton
<1> HIDE DEF own
<1>8. /\ Cardinality(OfLevel(l)') <= Cardinality(OfLevel(l)) + Cardinality(own)
      /\ Cardinality(OfLevel(l)') \in Nat
  BY <1>4, <1>5, <1>7, UnionBound
<1>9. Cardinality(OfLevel(l)) \in Nat
  BY <1>5, FS_CardinalityType
<1>10. QED
  BY <1>3, <1>6, <1>7, <1>8, <1>9

\* A cohort counts off a block whose level it is.
LEMMA DeleteKeepsCohortCounts ==
  ASSUME Types, NEW c \in Cids, DeleteBlock(c), NEW l \in DOMAIN cohorts',
         \A k \in DOMAIN cohorts : cohorts[k].count >= Cardinality(OfLevel(k))
  PROVE  cohorts'[l].count >= Cardinality(OfLevel(l)')
<1> DEFINE own == IF c \in DOMAIN levelMap /\ levelMap[c] = l THEN {c} ELSE {}
<1>1. l \in DOMAIN cohorts
  BY DeleteLevels
<1>2. cohorts[l].count >= Cardinality(OfLevel(l)) /\ cohorts[l].count \in Int
  BY <1>1 DEF Types, IsCohort
<1>3. cohorts'[l].count = cohorts[l].count - (IF own = {} THEN 0 ELSE 1)
  BY DeleteFields
<1>4. OfLevel(l)' = OfLevel(l) \ {c}
  BY DeleteLevels DEF OfLevel
<1>5. c \in OfLevel(l) <=> own # {}
  BY DEF OfLevel
<1>6. IsFiniteSet(OfLevel(l))
  BY FS_Subset DEF OfLevel, Types
<1> HIDE DEF own
<1>7. Cardinality(OfLevel(l)) \in Nat
  BY <1>6, FS_CardinalityType
<1>8. Cardinality(OfLevel(l) \ {c}) =
        IF c \in OfLevel(l) THEN Cardinality(OfLevel(l)) - 1 ELSE Cardinality(OfLevel(l))
  BY <1>6, FS_RemoveElement
<1>9. QED
  BY <1>2, <1>3, <1>4, <1>5, <1>7, <1>8

-----------------------------------------------------------------------------
(* Puts in order. *)

\* Of k different naturals above m, one is at least m + k.
LEMMA Pigeonhole ==
  ASSUME NEW S \in SUBSET Nat, IsFiniteSet(S), NEW m \in Nat, S # {}, \A x \in S : x > m
  PROVE  \E x \in S : x >= m + Cardinality(S)
<1> DEFINE k == Cardinality(S)
<1> SUFFICES ASSUME \A x \in S : ~(x >= m + k) PROVE FALSE
  OBVIOUS
<1>1. k \in Nat /\ k > 0
  BY FS_CardinalityType, FS_EmptySet
<1> DEFINE I == m + 1..m + k - 1
<1>2. S \in SUBSET I
  BY <1>1
<1>3. IsFiniteSet(I) /\ Cardinality(I) = k - 1
  <2> DEFINE a == m + 1
             b == m + k - 1
  <2>1. a \in Int /\ b \in Int /\ b - a + 1 = k - 1 /\ (a > b => k - 1 = 0)
    BY <1>1
  <2> HIDE DEF a, b, k
  <2>2. IsFiniteSet(a..b) /\ Cardinality(a..b) = IF a > b THEN 0 ELSE b - a + 1
    BY <2>1, FS_Interval
  <2>3. QED
    BY <2>1, <2>2 DEF a, b
<1> HIDE DEF I
<1>4. Cardinality(S) <= Cardinality(I)
  BY <1>2, <1>3, FS_Subset
<1>5. QED
  BY <1>1, <1>3, <1>4

\* A block is above what it links to.
LEMMA AboveItsLinks ==
  ASSUME LevelAssumption, HeightAssumption, NEW c \in Cids, NEW d \in Links[c]
  PROVE  Height[d] < Height[c]
<1> DEFINE S == {Height[e] : e \in Links[c]}
<1>1. Links[c] \subseteq Cids /\ IsFiniteSet(Links[c])
  BY DEF LevelAssumption
<1>2. S \in SUBSET Nat /\ Height[d] \in S /\ Height[c] = Max(S) + 1
  BY <1>1 DEF HeightAssumption
<1>3. IsFiniteSet(S)
  BY <1>1, ImageIsFinite
<1> HIDE DEF S
<1>4. Max(S) \in S /\ Max(S) >= Height[d]
  BY <1>2, <1>3, MaxExists
<1>5. Max(S) \in Nat /\ Height[d] \in Nat
  BY <1>2, <1>4
<1> DEFINE m == Max(S)
<1>6. m \in Nat /\ m >= Height[d] /\ Height[c] = m + 1
  BY <1>2, <1>4, <1>5
<1> HIDE DEF m
<1>7. QED
  BY <1>5, <1>6

\* The level known of an exact block is its height.
Exact == \A c \in exact \intersect DOMAIN levelMap : levelMap[c] = Height[c]

\* After Puts that found the levels of all children, and no deletion: all
\* blocks are exact, one whose level is forgotten is MaxLevels below another,
\* and a cohort is of blocks of one height, of which one has been put.
Ordered ==
  /\ everPut \subseteq exact /\ DOMAIN levelMap \subseteq everPut
  /\ \A c \in everPut \ DOMAIN levelMap : \E d \in everPut : Height[d] >= Height[c] + MaxLevels
  /\ \A l \in DOMAIN cohorts : \E d \in everPut : Height[d] = l
  /\ \A l \in DOMAIN cohorts : \A c \in DOMAIN cohorts[l].parentOf : Height[c] = l

\* A block whose children are exact, and their levels known, gets its height as
\* its level.
LEMMA LevelIsHeight ==
  ASSUME LevelAssumption, HeightAssumption, Exact, NEW c \in Cids, Links[c] \subseteq exact \intersect DOMAIN levelMap
  PROVE  LevelOf(c) = Height[c]
<1>1. Links[c] \intersect DOMAIN levelMap = Links[c]
  OBVIOUS
<1>2. ChildLevels(c) = {Height[d] : d \in Links[c]}
  BY <1>1 DEF ChildLevels, Exact
<1>3. Height[c] = IF Links[c] = {} THEN 0 ELSE Max(ChildLevels(c)) + 1
  BY <1>2 DEF HeightAssumption
<1>4. Links[c] # {} => ChildLevels(c) # {}
  BY <1>2
<1>5. QED
  BY <1>3, <1>4 DEF LevelOf

\* What a Put in order forgets is MaxLevels below a block that has been put.
LEMMA ForgottenIsLow ==
  ASSUME LevelAssumption, HeightAssumption, Types, Low, Ordered, NEW c \in Cids, Put(c),
         LevelOf(c) = Height[c], NEW d \in Forgotten(LevelOf(c))
  PROVE  \E e \in everPut' : Height[e] >= Height[d] + MaxLevels
<1> DEFINE level == LevelOf(c)
           D     == DOMAIN cohorts \union {level}
<1>1. PICK m \in Gone(level) : d \in DOMAIN Opened(level)[m].parentOf
  BY DEF Forgotten
<1>2. level \in Nat /\ level \notin DOMAIN cohorts /\ MaxLevels \in Nat \ {0}
  BY <1>1, LevelIsNat DEF Gone, LevelAssumption
<1>3. /\ Cardinality(DOMAIN cohorts) = MaxLevels
      /\ m \in D /\ \A l \in D : m <= l
  BY <1>1, <1>2, WhatIsGone
<1>4. m # level
  <2>1. Opened(level)[level] = NewCohort
    BY <1>2, OpenedCohorts
  <2>2. DOMAIN NewCohort.parentOf = {}
    BY EmptyMap DEF NewCohort
  <2>3. QED
    BY <1>1, <2>1, <2>2
<1>5. m \in DOMAIN cohorts /\ Height[d] = m
  <2>1. m \in DOMAIN cohorts
    BY <1>3, <1>4
  <2>2. d \in DOMAIN cohorts[m].parentOf
    BY <1>1, <1>2, <2>1, OpenedCohorts
  <2>3. QED
    BY <2>1, <2>2 DEF Ordered
<1> DEFINE S == (DOMAIN cohorts \ {m}) \union {level}
<1>6. S \in SUBSET Nat /\ S # {} /\ m \in Nat /\ \A l \in S : l > m
  <2>1. DOMAIN cohorts \subseteq Nat
    BY DEF Types
  <2>2. S \in SUBSET Nat /\ S # {} /\ m \in Nat
    BY <1>2, <1>5, <2>1
  <2>3. \A l \in S : m <= l /\ l # m
    BY <1>3, <1>4
  <2> HIDE DEF S
  <2>4. \A l \in S : l > m
    BY <2>2, <2>3
  <2>5. QED
    BY <2>2, <2>4
<1>7. IsFiniteSet(S) /\ Cardinality(S) = MaxLevels
  <2>1. IsFiniteSet(DOMAIN cohorts)
    BY DEF Types
  <2>2. IsFiniteSet(DOMAIN cohorts \ {m}) /\ Cardinality(DOMAIN cohorts \ {m}) = MaxLevels - 1
    BY <1>3, <1>5, <2>1, FS_RemoveElement
  <2>3. level \notin DOMAIN cohorts \ {m}
    BY <1>2
  <2>4. IsFiniteSet(S) /\ Cardinality(S) = MaxLevels - 1 + 1
    BY <2>2, <2>3, FS_AddElement
  <2>5. QED
    BY <1>2, <2>4
<1> HIDE DEF S
<1>8. PICK x \in S : x >= m + MaxLevels
  BY <1>6, <1>7, Pigeonhole
<1>9. \E e \in everPut' : Height[e] = x
  <2>1. everPut' = everPut \union {c}
    BY DEF Put
  <2>2. CASE x = level
    BY <2>1, <2>2
  <2>3. CASE x \in DOMAIN cohorts
    BY <2>1, <2>3 DEF Ordered
  <2>4. QED
    BY <2>2, <2>3 DEF S
<1>10. QED
  BY <1>5, <1>8, <1>9

\* A Put keeps the levels of exact blocks, and gives its own block an exact one
\* only if its children have.
LEMMA PutKeepsExact ==
  ASSUME LevelAssumption, HeightAssumption, Types, Exact, NEW c \in Cids, Put(c)
  PROVE  Exact'
<1> DEFINE F == Forgotten(LevelOf(c))
<1>1. /\ DOMAIN levelMap' = (DOMAIN levelMap \union {c}) \ F
      /\ \A d \in DOMAIN levelMap' : levelMap'[d] = IF d = c THEN LevelOf(c) ELSE levelMap[d]
  BY PutLevels
<1> HIDE DEF F
<1>2. exact' = IF Links[c] \subseteq exact \intersect DOMAIN levelMap THEN exact \union {c} ELSE exact \ {c}
  BY DEF Put
<1>3. ASSUME NEW d \in exact' \intersect DOMAIN levelMap'
      PROVE  levelMap'[d] = Height[d]
  <2>1. CASE d = c
    <3>1. Links[c] \subseteq exact \intersect DOMAIN levelMap
      BY <1>2, <1>3, <2>1
    <3>2. QED
      BY <1>1, <1>3, <2>1, <3>1, LevelIsHeight
  <2>2. CASE d # c
    <3>1. d \in exact \intersect DOMAIN levelMap
      BY <1>1, <1>2, <1>3, <2>2
    <3>2. QED
      BY <1>1, <1>3, <2>2, <3>1 DEF Exact
  <2>3. QED
    BY <2>1, <2>2
<1>4. QED
  BY <1>3 DEF Exact

LEMMA PutKeepsOrder ==
  ASSUME LevelAssumption, HeightAssumption, Types, Low, Exact, Ordered, NEW c \in Cids, Put(c), informed'
  PROVE  Ordered'
<1> DEFINE level == LevelOf(c)
<1>1. /\ Links[c] \subseteq exact \intersect DOMAIN levelMap
      /\ everPut' = everPut \union {c} /\ exact' = exact \union {c}
  BY DEF Put, Ordered
<1>2. level = Height[c] /\ level \in Nat
  BY <1>1, LevelIsHeight, LevelIsNat
<1> DEFINE F == Forgotten(LevelOf(c))
<1>3. /\ DOMAIN levelMap' = (DOMAIN levelMap \union {c}) \ F
      /\ \A d \in DOMAIN levelMap' : levelMap'[d] = IF d = c THEN LevelOf(c) ELSE levelMap[d]
  BY PutLevels
<1> HIDE DEF F
<1>4. /\ everPut' \subseteq exact' /\ DOMAIN levelMap' \subseteq everPut'
      /\ \A d \in DOMAIN levelMap' : levelMap'[d] = Height[d]
  <2>1. everPut' \subseteq exact' /\ DOMAIN levelMap' \subseteq everPut'
    BY <1>1, <1>3 DEF Ordered
  <2>2. Exact'
    BY PutKeepsExact
  <2>3. QED
    BY <2>1, <2>2 DEF Exact
<1>5. DOMAIN cohorts' \subseteq DOMAIN cohorts \union {level}
  <2>1. LevelOf(c) \in Nat
    BY LevelIsNat
  <2>2. DOMAIN Opened(LevelOf(c)) = DOMAIN cohorts \union {LevelOf(c)}
    BY <2>1, OpenedCohorts
  <2>3. DOMAIN cohorts' \subseteq DOMAIN Opened(LevelOf(c))
    BY PutCohorts
  <2>4. QED
    BY <2>2, <2>3
<1>6. ASSUME NEW d \in everPut' \ DOMAIN levelMap'
      PROVE  \E e \in everPut' : Height[e] >= Height[d] + MaxLevels
  <2>1. CASE d \in everPut \ DOMAIN levelMap
    BY <1>1, <2>1 DEF Ordered
  <2>2. CASE d \in DOMAIN levelMap \union {c}
    <3>1. d \in Forgotten(LevelOf(c))
      BY <1>3, <2>2 DEF F
    <3>2. QED
      BY <1>1, <1>2, <3>1, ForgottenIsLow
  <2>3. QED
    BY <1>1, <2>1, <2>2
<1>7. ASSUME NEW l \in DOMAIN cohorts'
      PROVE  \E d \in everPut' : Height[d] = l
  <2>1. l \in DOMAIN cohorts \union {level}
    BY <1>5
  <2>2. QED
    BY <1>1, <1>2, <2>1 DEF Ordered
<1>8. ASSUME NEW l \in DOMAIN cohorts', NEW d \in DOMAIN cohorts'[l].parentOf
      PROVE  Height[d] = l
  <2> DEFINE o    == Opened(level)[l]
             own  == IF l = level THEN {c} ELSE {}
             here == {e \in Links[c] \intersect DOMAIN levelMap' : levelMap'[e] = l}
  <2>1. DOMAIN cohorts'[l].parentOf = DOMAIN o.parentOf \union own \union here
    BY PutFields
  <2>2. \A e \in here : Height[e] = l
    BY <1>4
  <2>3. \A e \in own : Height[e] = l
    BY <1>2
  <2>4. \A e \in DOMAIN o.parentOf : Height[e] = l
    <3>1. CASE l \in DOMAIN cohorts
      <4>1. o = cohorts[l]
        BY <1>2, <3>1, OpenedCohorts
      <4>2. QED
        BY <1>1, <3>1, <4>1 DEF Ordered
    <3>2. CASE l \notin DOMAIN cohorts
      <4>1. l = level
        BY <1>5, <3>2
      <4>2. o = NewCohort
        BY <1>2, <3>2, <4>1, OpenedCohorts
      <4>3. DOMAIN o.parentOf = {}
        BY <4>2, EmptyMap DEF NewCohort
      <4>4. QED
        BY <4>3
    <3>3. QED
      BY <3>1, <3>2
  <2> HIDE DEF o, own, here
  <2>5. QED
    BY <2>1, <2>2, <2>3, <2>4
<1>9. QED
  BY <1>4, <1>6, <1>7, <1>8 DEF Ordered

-----------------------------------------------------------------------------
(* The theorems. *)

LEMMA InitIInv == ASSUME LevelAssumption, Init PROVE IInv
<1>1. DOMAIN levelMap = {} /\ DOMAIN cohorts = {} /\ inner = {} /\ levelsSeen = {}
  BY EmptyMap DEF Init
<1>2. IsFiniteSet({}) /\ Cardinality({}) = 0
  BY FS_EmptySet
<1>3. Types
  <2>1. levelMap \in [DOMAIN levelMap -> Nat] /\ cohorts = [l \in DOMAIN cohorts |-> cohorts[l]]
    BY DEF Init
  <2>2. QED
    BY <1>1, <1>2, <2>1 DEF Types, Init, LevelAssumption
<1>4. Low
  BY <1>1, <1>2 DEF Low, LevelAssumption
<1>5. Agree
  BY <1>1 DEF Agree
<1>6. Counts
  <2>1. Orphans = {} /\ blockCount = 0
    BY <1>1 DEF Orphans, Init
  <2>2. QED
    BY <1>1, <1>2, <2>1 DEF Counts
<1>7. QED
  BY <1>3, <1>4, <1>5, <1>6 DEF IInv

LEMMA NextIInv == ASSUME LevelAssumption, IInv, [Next]_vars PROVE IInv'
<1>1. ASSUME NEW c \in Cids, Put(c) PROVE IInv'
  <2>1. Types /\ Low /\ Agree /\ Counts
    BY DEF IInv
  <2>2. Types'
    BY <1>1, <2>1, PutKeepsTypes
  <2>3. Low'
    BY <1>1, <2>1, PutKeepsLow
  <2>4. Agree'
    BY <1>1, <2>1, PutKeepsAgree
  <2>5. Counts'
    <3>1. blockCount' >= Cardinality(DOMAIN levelMap') + Cardinality(Orphans')
      BY <1>1, <2>1, PutKeepsBlockCount DEF Counts
    <3>2. \A l \in DOMAIN cohorts' : cohorts'[l].count >= Cardinality(OfLevel(l)')
      BY <1>1, <2>1, PutKeepsCohortCounts DEF Counts
    <3>3. QED
      BY <3>1, <3>2 DEF Counts, OfLevel
  <2>6. QED
    BY <2>2, <2>3, <2>4, <2>5 DEF IInv
<1>2. ASSUME NEW c \in Cids, DeleteBlock(c) PROVE IInv'
  <2>1. Types /\ Low /\ Agree /\ Counts
    BY DEF IInv
  <2>2. Types'
    BY <1>2, <2>1, DeleteKeepsTypes
  <2>3. Low'
    BY <1>2, <2>1, DeleteKeepsLow
  <2>4. Agree'
    BY <1>2, <2>1, DeleteKeepsAgree
  <2>5. Counts'
    <3>1. blockCount' >= Cardinality(DOMAIN levelMap') + Cardinality(Orphans')
      BY <1>2, <2>1, DeleteKeepsBlockCount DEF Counts
    <3>2. \A l \in DOMAIN cohorts' : cohorts'[l].count >= Cardinality(OfLevel(l)')
      BY <1>2, <2>1, DeleteKeepsCohortCounts DEF Counts
    <3>3. QED
      BY <3>1, <3>2 DEF Counts, OfLevel
  <2>6. QED
    BY <2>2, <2>3, <2>4, <2>5 DEF IInv
<1>3. CASE UNCHANGED vars
  BY <1>3 DEF vars, history, IInv, Types, Low, Agree, Counts, Orphans, OfLevel
<1>4. QED
  BY <1>1, <1>2, <1>3 DEF Next

\* The invariant holds.
THEOREM Invariance == Spec => []IInv
<1>1. Init => IInv
  BY InitIInv, LevelAssumption
<1>2. IInv /\ [Next]_vars => IInv'
  BY NextIInv, LevelAssumption
<1>3. QED
  BY <1>1, <1>2, PTL DEF Spec

\* Put, rotation and DeleteBlock keep the types, and no counter that they
\* raise and lower is ever negative (level_blockstore.go:106-227, 315-335).
THEOREM TypeCorrect == Spec => []TypeOK
<1>1. IInv => TypeOK
  <2> SUFFICES ASSUME IInv PROVE TypeOK
    OBVIOUS
  <2>1. Types /\ Counts
    BY DEF IInv
  <2>2. inner \subseteq Range(Digest)
    BY <2>1, LevelAssumption DEF Types, Range, LevelAssumption
  <2>3. \A c \in DOMAIN levelMap : levelMap[c] \in Nat
    BY <2>1 DEF Types
  <2>4. IsFiniteSet(DOMAIN levelMap) /\ IsFiniteSet(Orphans)
    BY <2>1, FS_Subset DEF Types, Orphans
  <2>5. blockCount \in Nat
    <3>1. Cardinality(DOMAIN levelMap) \in Nat /\ Cardinality(Orphans) \in Nat
      BY <2>4, FS_CardinalityType
    <3>2. blockCount \in Int /\ blockCount >= Cardinality(DOMAIN levelMap) + Cardinality(Orphans)
      BY <2>1 DEF Types, Counts
    <3>3. QED
      BY <3>1, <3>2
  <2>6. ASSUME NEW l \in DOMAIN cohorts
        PROVE  /\ DOMAIN cohorts[l].parentOf \subseteq Cids
               /\ \A c \in DOMAIN cohorts[l].parentOf : cohorts[l].parentOf[c] \in Cids \union {NoParent}
               /\ cohorts[l].childrenOf \subseteq Cids
               /\ cohorts[l].count \in Nat
    <3>1. IsCohort(cohorts[l])
      BY <2>1 DEF Types
    <3>2. IsFiniteSet(OfLevel(l))
      BY <2>4, FS_Subset DEF OfLevel
    <3>3. Cardinality(OfLevel(l)) \in Nat /\ cohorts[l].count >= Cardinality(OfLevel(l))
      BY <2>1, <3>2, FS_CardinalityType DEF Counts
    <3>4. cohorts[l].count \in Nat
      BY <3>1, <3>3 DEF IsCohort
    <3>5. QED
      BY <3>1, <3>4 DEF IsCohort, IsParents
  <2>7. QED
    BY <2>1, <2>2, <2>3, <2>5, <2>6 DEF TypeOK, Types
<1>2. QED
  BY <1>1, Invariance, PTL

\* After any Puts and DeleteBlocks at most MaxLevels levels have a cohort, and
\* every level without one is below them (level_blockstore.go:200-227).
THEOREM HighestLevelsKept == Spec => []KeepsTheHighestLevels
<1>1. IInv => KeepsTheHighestLevels
  BY DEF IInv, Low, KeepsTheHighestLevels
<1>2. QED
  BY <1>1, Invariance, PTL

\* What GetChildren finds are all the children of a block that is in the two
\* indexes, and each step of GetAncestors is along a link
\* (level_blockstore.go:151-194, 257-302, 323-331).
THEOREM IndexesAgree == Spec => []LevelsAgreeWithCohorts
<1>1. IInv => LevelsAgreeWithCohorts
  <2> SUFFICES ASSUME IInv, NEW c \in Cids
               PROVE  /\ c \in DOMAIN levelMap /\ levelMap[c] \in DOMAIN cohorts =>
                           /\ c \in DOMAIN cohorts[levelMap[c]].parentOf
                           /\ GetChildren(c) = Links[c]
                      /\ \A p \in NextAncestors(c) : c \in Links[p]
    BY DEF LevelsAgreeWithCohorts
  <2>1. Agree
    BY DEF IInv
  <2>2. c \in DOMAIN levelMap /\ levelMap[c] \in DOMAIN cohorts =>
          /\ c \in DOMAIN cohorts[levelMap[c]].parentOf
          /\ GetChildren(c) = Links[c]
    BY <2>1 DEF Agree, GetChildren
  <2>3. \A p \in NextAncestors(c) : c \in Links[p]
    BY <2>1 DEF Agree, NextAncestors
  <2>4. QED
    BY <2>2, <2>3
<1>2. QED
  BY <1>1, Invariance, PTL

\* The counters are never below the number of blocks stored and of blocks of a
\* level (level_blockstore.go:174-179, 323-332).
THEOREM CountsBound == Spec => []CountsAreNotTooLow
<1>1. IInv => CountsAreNotTooLow
  <2> SUFFICES ASSUME IInv PROVE CountsAreNotTooLow
    OBVIOUS
  <2>1. Types /\ Counts
    BY DEF IInv
  <2>2. IsFiniteSet(DOMAIN levelMap) /\ IsFiniteSet(Orphans) /\ blockCount \in Int
    BY <2>1, FS_Subset DEF Types, Orphans
  <2>3. IsFiniteSet(Digests(DOMAIN levelMap))
        /\ Cardinality(Digests(DOMAIN levelMap)) <= Cardinality(DOMAIN levelMap)
    BY <2>2, ImageIsFinite DEF Digests
  <2>4. inner \subseteq Digests(DOMAIN levelMap) \union Orphans
    BY DEF Orphans
  <2>5. /\ Cardinality(inner) <= Cardinality(Digests(DOMAIN levelMap)) + Cardinality(Orphans)
        /\ Cardinality(inner) \in Nat
    BY <2>2, <2>3, <2>4, UnionBound
  <2>6. /\ Cardinality(Digests(DOMAIN levelMap)) \in Nat /\ Cardinality(DOMAIN levelMap) \in Nat
        /\ Cardinality(Orphans) \in Nat
    BY <2>2, <2>3, FS_CardinalityType
  <2>7. blockCount >= Cardinality(inner)
    <3>1. blockCount >= Cardinality(DOMAIN levelMap) + Cardinality(Orphans)
      BY <2>1 DEF Counts
    <3>2. QED
      BY <2>2, <2>3, <2>5, <2>6, <3>1
  <2>8. QED
    BY <2>1, <2>7 DEF Counts, OfLevel, CountsAreNotTooLow
<1>2. QED
  BY <1>1, Invariance, PTL

\* All DAGs put are lower than the number of cohorts.
Shallow == \A c \in everPut : Height[c] < MaxLevels

\* No level of a DAG that low is forgotten.
LEMMA NothingForgotten ==
  ASSUME HeightAssumption, LevelAssumption, Types, Ordered, Shallow
  PROVE  everPut \subseteq DOMAIN levelMap
<1> SUFFICES ASSUME NEW c \in everPut, c \notin DOMAIN levelMap PROVE FALSE
  OBVIOUS
<1>1. PICK d \in everPut : Height[d] >= Height[c] + MaxLevels
  BY DEF Ordered
<1>2. Height[c] \in Nat /\ Height[d] \in Nat /\ MaxLevels \in Nat /\ Height[d] < MaxLevels
  BY DEF HeightAssumption, LevelAssumption, Types, Shallow
<1>3. QED
  BY <1>1, <1>2

\* Known levels of blocks whose children were exact are heights; while every
\* Put finds the levels of the children, all are, only what is MaxLevels below
\* another block is forgotten, and recorded parents are above; and every Put
\* finds them if the blocks are put after their children, none is deleted, and
\* all are lower than MaxLevels (level_blockstore.go:119-149, 165-194, 200-228).
THEOREM LevelsRight == Spec => []LevelsAreHeights
<1> DEFINE OInv == IInv /\ Exact /\ (informed => Ordered) /\ (orderly /\ Shallow => informed)
<1>1. Init => OInv
  <2> SUFFICES ASSUME Init PROVE OInv
    OBVIOUS
  <2>1. DOMAIN levelMap = {} /\ DOMAIN cohorts = {} /\ everPut = {} /\ exact = {} /\ informed
    BY EmptyMap DEF Init
  <2>2. QED
    BY <2>1, InitIInv, LevelAssumption DEF Ordered, Exact
<1>2. OInv /\ [Next]_vars => OInv'
  <2> SUFFICES ASSUME OInv, [Next]_vars PROVE OInv'
    OBVIOUS
  <2>1. IInv' /\ Types /\ Low
    BY NextIInv, LevelAssumption DEF IInv
  <2>2. ASSUME NEW c \in Cids, Put(c)
        PROVE  Exact' /\ (informed' => Ordered') /\ (orderly' /\ Shallow' => informed')
    <3>1. /\ everPut' = everPut \union {c} /\ orderly' = (orderly /\ Links[c] \subseteq everPut)
          /\ informed' = (informed /\ Links[c] \subseteq DOMAIN levelMap)
      BY <2>2 DEF Put
    <3>2. Exact'
      BY <2>1, <2>2, PutKeepsExact, LevelAssumption, HeightAssumption
    <3>3. ASSUME informed' PROVE Ordered'
      BY <2>1, <2>2, <3>1, <3>3, PutKeepsOrder, LevelAssumption, HeightAssumption
    <3>4. ASSUME orderly', Shallow' PROVE informed'
      <4>1. Shallow /\ orderly
        BY <3>1, <3>4 DEF Shallow
      <4>2. informed /\ Ordered
        BY <4>1
      <4>3. everPut \subseteq DOMAIN levelMap
        BY <2>1, <4>1, <4>2, NothingForgotten, LevelAssumption, HeightAssumption
      <4>4. QED
        BY <3>1, <3>4, <4>2, <4>3
    <3>5. QED
      BY <3>2, <3>3, <3>4
  <2>3. ASSUME NEW c \in Cids, DeleteBlock(c)
        PROVE  Exact' /\ ~informed' /\ ~orderly'
    <3>1. ~informed' /\ ~orderly' /\ exact' = exact
      BY <2>3 DEF DeleteBlock
    <3>2. \A d \in DOMAIN levelMap' : d \in DOMAIN levelMap /\ levelMap'[d] = levelMap[d]
      BY <2>1, <2>3, DeleteLevels
    <3>3. QED
      BY <3>1, <3>2 DEF Exact
  <2>4. CASE UNCHANGED vars
    BY <2>1, <2>4 DEF vars, history, Ordered, Exact, Shallow
  <2>5. QED
    BY <2>1, <2>2, <2>3, <2>4 DEF Next
<1>3. OInv => LevelsAreHeights
  <2> SUFFICES ASSUME OInv PROVE LevelsAreHeights
    OBVIOUS
  <2>1. Types /\ Agree
    BY DEF IInv
  <2>2. ASSUME informed, NEW l \in DOMAIN cohorts, NEW c \in DOMAIN cohorts[l].parentOf,
               cohorts[l].parentOf[c] # NoParent
        PROVE  c \in Links[cohorts[l].parentOf[c]] /\ Height[cohorts[l].parentOf[c]] > l
    <3> DEFINE p == cohorts[l].parentOf[c]
    <3>1. p \in Cids
      BY <2>1, <2>2 DEF Types, IsCohort, IsParents
    <3>2. c \in Links[p] /\ Height[c] = l
      BY <2>1, <2>2 DEF Agree, Ordered
    <3> HIDE DEF p
    <3>3. Height[c] < Height[p] /\ Height[p] \in Nat /\ l \in Nat
      BY <2>1, <3>1, <3>2, AboveItsLinks, LevelAssumption, HeightAssumption
        DEF HeightAssumption, Types
    <3>4. Height[p] > l
      BY <3>2, <3>3
    <3>5. QED
      BY <3>2, <3>4 DEF p
  <2>3. ASSUME informed
        PROVE  /\ everPut \subseteq exact
               /\ \A c \in everPut \ DOMAIN levelMap : \E d \in everPut : Height[d] >= Height[c] + MaxLevels
    BY <2>3 DEF Ordered
  <2>4. ASSUME orderly, \A c \in everPut : Height[c] < MaxLevels
        PROVE  informed /\ everPut \subseteq DOMAIN levelMap
    <3>1. Shallow
      BY <2>4 DEF Shallow
    <3>2. informed /\ Ordered
      BY <2>4, <3>1
    <3>3. QED
      BY <2>1, <3>1, <3>2, NothingForgotten, LevelAssumption, HeightAssumption
  <2>5. QED
    BY <2>2, <2>3, <2>4 DEF LevelsAreHeights, Exact
<1>4. QED
  BY <1>1, <1>2, <1>3, PTL DEF Spec
=============================================================================
