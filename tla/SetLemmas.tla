------------------------------- MODULE SetLemmas -------------------------------
(***************************************************************************)
(* Finite sets: the least, the greatest and the n-th of a set of naturals, *)
(* the image of a set, and sums.                                           *)
(***************************************************************************)
EXTENDS Naturals, FiniteSets, FiniteSetsExt, Functions, TLAPS, FiniteSetTheorems, WellFoundedInduction

\* A nonempty set of naturals has a lowest one.
LEMMA MinExists ==
  ASSUME NEW S \in SUBSET Nat, S # {}
  PROVE  Min(S) \in S /\ \A y \in S : Min(S) <= y
<1> DEFINE R == OpToRel(<, Nat)
<1>1. R = {ss \in Nat \X Nat : ss[1] < ss[2]}
  BY DEF OpToRel
<1>2. \E k \in S : \A j \in S : <<j, k>> \notin R
  BY NatLessThanWellFounded, WFMin
<1> HIDE DEF R
<1>3. PICK k \in S : \A j \in S : <<j, k>> \notin R
  BY <1>2
<1>4. ASSUME NEW j \in S PROVE k <= j
  <2>1. j \in Nat /\ k \in Nat /\ <<j, k>> \notin R
    BY <1>3
  <2>2. ~(j < k)
    BY <1>1, <2>1
  <2>3. QED
    BY <2>1, <2>2
<1>5. \E x \in S : \A y \in S : x <= y
  BY <1>4
<1>6. QED
  BY <1>5 DEF Min

\* Of the subsets of a finite set that some set of sets has, one has no
\* strict subset there.
LEMMA SmallestMember ==
  ASSUME NEW S, IsFiniteSet(S), NEW Bad \in SUBSET (SUBSET S), Bad # {}
  PROVE  \E T \in Bad : IsFiniteSet(T) /\ \A U \in SUBSET T : U # T => U \notin Bad
<1>1. FiniteSubsetsOf(S) = SUBSET S
  BY FS_FiniteSubsetsOfFinite
<1>2. \E T \in Bad : \A U \in Bad : <<U, T>> \notin StrictSubsetOrdering(S)
  BY <1>1, FS_StrictSubsetOrderingWellFounded, WFMin
<1>3. PICK T \in Bad : \A U \in Bad : <<U, T>> \notin StrictSubsetOrdering(S)
  BY <1>2
<1>4. \A U \in SUBSET T : U # T => U \notin Bad
  BY <1>3 DEF StrictSubsetOrdering
<1>5. IsFiniteSet(T)
  BY FS_Subset
<1>6. QED
  BY <1>4, <1>5

\* A nonempty finite set of naturals has a highest one: of the smallest set
\* without one, the rest without any member has one.
LEMMA MaxExists ==
  ASSUME NEW S \in SUBSET Nat, IsFiniteSet(S), S # {}
  PROVE  Max(S) \in S /\ \A y \in S : Max(S) >= y
<1> DEFINE HasMax(T) == \E x \in T : \A y \in T : x >= y
           Bad == {T \in SUBSET S : T # {} /\ ~HasMax(T)}
<1>1. ASSUME Bad # {} PROVE FALSE
  <2>1. PICK T \in Bad : \A U \in SUBSET T : U # T => U \notin Bad
    <3>1. Bad \in SUBSET (SUBSET S)
      OBVIOUS
    <3> HIDE DEF Bad
    <3>2. QED
      BY <1>1, <3>1, SmallestMember
  <2>2. T \in SUBSET S /\ T # {} /\ ~HasMax(T)
    OBVIOUS
  <2>3. PICK x \in T : TRUE
    BY <2>2
  <2>4. T \ {x} \in SUBSET T /\ T \ {x} # T
    BY <2>3
  <2>5. T \ {x} = {} \/ HasMax(T \ {x})
    BY <2>1, <2>2, <2>4
  <2>6. CASE T \ {x} = {}
    <3>1. \A y \in T : y = x
      BY <2>6
    <3>2. x \in Nat
      BY <2>2, <2>3
    <3>3. HasMax(T)
      BY <2>3, <3>1, <3>2
    <3>4. QED
      BY <2>2, <3>3
  <2>7. CASE HasMax(T \ {x})
    <3>1. PICK m \in T \ {x} : \A y \in T \ {x} : m >= y
      BY <2>7
    <3>2. m \in Nat /\ x \in Nat /\ T \subseteq Nat
      BY <2>2, <2>3, <3>1
    <3>3. CASE m >= x
      BY <2>2, <3>1, <3>2, <3>3
    <3>4. CASE m < x
      <4>1. \A y \in T : x >= y
        BY <3>1, <3>2, <3>4
      <4>2. QED
        BY <2>2, <2>3, <4>1
    <3>5. QED
      BY <3>2, <3>3, <3>4
  <2>8. QED
    BY <2>5, <2>6, <2>7
<1>2. HasMax(S)
  BY <1>1
<1>3. QED
  BY <1>2 DEF Max

\* The image of a finite set is finite and has no more members.
LEMMA ImageIsFinite ==
  ASSUME NEW f, NEW S, IsFiniteSet(S)
  PROVE  LET T == {f[x] : x \in S}
         IN  IsFiniteSet(T) /\ Cardinality(T) <= Cardinality(S)
<1> DEFINE T == {f[x] : x \in S}
           g == [x \in S |-> f[x]]
<1>1. g \in Surjection(S, T)
  BY DEF Surjection
<1> HIDE DEF T, g
<1>2. QED
  BY <1>1, FS_Surjection DEF T

\* A finite set of naturals has an n-th member in ascending order, for every
\* n up to its size.
LEMMA NthExists ==
  ASSUME NEW S \in SUBSET Nat, IsFiniteSet(S), NEW n \in 1..Cardinality(S)
  PROVE  \E i \in S : Cardinality({j \in S : j <= i}) = n
<1> DEFINE Good(T) == \A m \in 1..Cardinality(T) : \E i \in T : Cardinality({j \in T : j <= i}) = m
           Bad == {T \in SUBSET S : ~Good(T)}
<1>1. ASSUME Bad # {} PROVE FALSE
  <2>1. PICK T \in Bad : IsFiniteSet(T) /\ \A U \in SUBSET T : U # T => U \notin Bad
    <3>1. Bad \in SUBSET (SUBSET S)
      OBVIOUS
    <3> HIDE DEF Bad
    <3>2. QED
      BY <1>1, <3>1, SmallestMember
  <2>2. PICK m \in 1..Cardinality(T) : ~(\E i \in T : Cardinality({j \in T : j <= i}) = m)
    OBVIOUS
  <2>3. T \in SUBSET Nat /\ T \in SUBSET S
    OBVIOUS
  <2>4. T # {} /\ Cardinality(T) \in Nat
    <3>1. Cardinality(T) \in Nat
      BY <2>1, FS_CardinalityType
    <3>2. T # {}
      BY <2>2, FS_EmptySet
    <3>3. QED
      BY <3>1, <3>2
  <2> DEFINE top == Max(T)
             rest == T \ {top}
  <2>5. top \in T /\ \A y \in T : top >= y
    BY <2>1, <2>3, <2>4, MaxExists
  <2>6. rest \notin Bad /\ rest \in SUBSET S
    <3>1. rest \in SUBSET T /\ rest # T
      BY <2>5
    <3>2. QED
      BY <2>1, <2>3, <3>1
  <2>7. Good(rest)
    BY <2>6
  <2>8. Cardinality(rest) = Cardinality(T) - 1 /\ IsFiniteSet(rest)
    BY <2>1, <2>5, FS_RemoveElement
  <2>9. CASE m = Cardinality(T)
    <3>1. {j \in T : j <= top} = T
      BY <2>3, <2>5
    <3>2. QED
      BY <2>2, <2>5, <2>9, <3>1
  <2>10. CASE m # Cardinality(T)
    <3>1. m \in 1..Cardinality(rest)
      BY <2>2, <2>4, <2>8, <2>10
    <3>2. PICK i \in rest : Cardinality({j \in rest : j <= i}) = m
      BY <2>7, <3>1
    <3>3. {j \in T : j <= i} = {j \in rest : j <= i}
      <4>1. i \in Nat /\ top \in Nat /\ top >= i /\ top # i
        BY <2>3, <2>5, <3>2
      <4>2. ~(top <= i)
        BY <4>1
      <4> HIDE DEF top
      <4>3. QED
        BY <4>2
    <3>4. QED
      BY <2>2, <3>2, <3>3
  <2>11. QED
    BY <2>9, <2>10
<1>2. S \notin Bad
  BY <1>1
<1>3. QED
  BY <1>2

\* It has only one, and each member is one of these.
LEMMA NthIsUnique ==
  ASSUME NEW S \in SUBSET Nat, IsFiniteSet(S), NEW i \in S
  PROVE  /\ Cardinality({j \in S : j <= i}) \in 1..Cardinality(S)
         /\ \A k \in S : Cardinality({j \in S : j <= k}) = Cardinality({j \in S : j <= i}) => k = i
<1> DEFINE upTo(k) == {j \in S : j <= k}
<1>1. ASSUME NEW k \in S PROVE upTo(k) \subseteq S /\ IsFiniteSet(upTo(k)) /\ Cardinality(upTo(k)) <= Cardinality(S)
  <2>1. upTo(k) \subseteq S
    OBVIOUS
  <2> HIDE DEF upTo
  <2>2. QED
    BY <2>1, FS_Subset
<1>2. ASSUME NEW k \in S, NEW l \in S, k < l PROVE Cardinality(upTo(k)) # Cardinality(upTo(l))
  <2>1. k \in Nat /\ l \in Nat /\ S \subseteq Nat
    OBVIOUS
  <2>2. upTo(k) \subseteq upTo(l)
    <3>1. ASSUME NEW j \in S, j <= k PROVE j <= l
      BY <1>2, <2>1, <3>1
    <3>2. QED
      BY <3>1
  <2>3. l \in upTo(l) /\ l \notin upTo(k)
    BY <1>2, <2>1
  <2>4. IsFiniteSet(upTo(l))
    BY <1>1
  <2> HIDE DEF upTo
  <2>5. Cardinality(upTo(k)) < Cardinality(upTo(l))
    BY <2>2, <2>3, <2>4, FS_Subset, FS_CardinalityType
  <2>6. QED
    BY <1>1, <2>5, FS_CardinalityType
<1>3. i \in upTo(i)
  OBVIOUS
<1>4. Cardinality(upTo(i)) \in 1..Cardinality(S)
  <2>1. Cardinality(upTo(i)) \in Nat /\ Cardinality(upTo(i)) # 0 /\ Cardinality(S) \in Nat
    <3> HIDE DEF upTo
    <3>1. QED
      BY <1>1, <1>3, FS_EmptySet, FS_CardinalityType
  <2>2. QED
    BY <1>1, <2>1
<1>5. ASSUME NEW k \in S, Cardinality(upTo(k)) = Cardinality(upTo(i)) PROVE k = i
  <2>1. ~(k < i) /\ ~(i < k)
    BY <1>2, <1>5
  <2>2. k \in Nat /\ i \in Nat
    OBVIOUS
  <2>3. QED
    BY <2>1, <2>2
<1>6. QED
  BY <1>4, <1>5

-----------------------------------------------------------------------------
(* Sums. *)

\* The sum of f's values on S, as the folds of a sequence or a function have
\* it: a recursion over the subsets of S, that takes any member first.
SumOver(f, S) == FoldFunctionOnSet(+, 0, f, S)

\* The member that the recursion takes first.
AnyOf(s) == CHOOSE x \in s : TRUE

\* The recursion, as it holds of a function on the subsets of S.
IsSum(g, f, S) ==
  g = [s \in SUBSET S |-> IF s = {} THEN 0 ELSE f[AnyOf(s)] + g[s \ {AnyOf(s)}]]

\* Only one function satisfies the recursion.
LEMMA OneSum ==
  ASSUME NEW f, NEW S, IsFiniteSet(S), NEW T \in SUBSET S, NEW g, NEW h, IsSum(g, f, T), IsSum(h, f, S),
         NEW s \in SUBSET T
  PROVE  g[s] = h[s]
<1> DEFINE Bad == {u \in SUBSET T : g[u] # h[u]}
<1>1. ASSUME Bad # {} PROVE FALSE
  <2>1. PICK u \in Bad : \A v \in SUBSET u : v # u => v \notin Bad
    <3>1. Bad \in SUBSET (SUBSET S)
      OBVIOUS
    <3> HIDE DEF Bad
    <3>2. QED
      BY <1>1, <3>1, SmallestMember
  <2>2. u \in SUBSET T /\ g[u] # h[u]
    OBVIOUS
  <2>3. g[u] = IF u = {} THEN 0 ELSE f[AnyOf(u)] + g[u \ {AnyOf(u)}]
    BY <2>2 DEF IsSum
  <2>4. h[u] = IF u = {} THEN 0 ELSE f[AnyOf(u)] + h[u \ {AnyOf(u)}]
    BY <2>2 DEF IsSum
  <2>5. CASE u = {}
    BY <2>2, <2>3, <2>4, <2>5
  <2>6. CASE u # {}
    <3>1. AnyOf(u) \in u
      BY <2>6 DEF AnyOf
    <3>2. u \ {AnyOf(u)} \in SUBSET u /\ u \ {AnyOf(u)} # u
      BY <3>1
    <3>3. g[u \ {AnyOf(u)}] = h[u \ {AnyOf(u)}]
      BY <2>1, <2>2, <3>2
    <3>4. QED
      BY <2>2, <2>3, <2>4, <3>3
  <2>7. QED
    BY <2>5, <2>6
<1>2. QED
  BY <1>1

\* One does, on every finite set: on the smallest set without one, those of
\* its subsets would make one.
LEMMA SumExists ==
  ASSUME NEW f, NEW S, IsFiniteSet(S)
  PROVE  \E g : IsSum(g, f, S)
<1> DEFINE Bad == {T \in SUBSET S : ~(\E g : IsSum(g, f, T))}
<1>1. ASSUME Bad # {} PROVE FALSE
  <2>1. PICK T \in Bad : IsFiniteSet(T) /\ \A U \in SUBSET T : U # T => U \notin Bad
    <3>1. Bad \in SUBSET (SUBSET S)
      OBVIOUS
    <3> HIDE DEF Bad
    <3>2. QED
      BY <1>1, <3>1, SmallestMember
  <2>2. T \in SUBSET S /\ ~(\E g : IsSum(g, f, T))
    OBVIOUS
  <2> DEFINE of(u) == CHOOSE g : IsSum(g, f, u)
             rest(u) == u \ {AnyOf(u)}
             val == [u \in SUBSET T |-> IF u = {} THEN 0 ELSE f[AnyOf(u)] + of(rest(u))[rest(u)]]
  <2>3. ASSUME NEW u \in SUBSET T, u # T PROVE IsSum(of(u), f, u)
    <3>1. u \notin Bad
      BY <2>1, <2>3
    <3>2. \E g : IsSum(g, f, u)
      BY <2>2, <3>1
    <3>3. QED
      BY <3>2
  <2>4. ASSUME NEW u \in SUBSET T, u # {} PROVE rest(u) \in SUBSET T /\ rest(u) # T /\ rest(u) \in SUBSET u
    BY <2>4 DEF AnyOf
  <2> HIDE DEF of
  <2>5. ASSUME NEW u \in SUBSET T, u # T PROVE of(u)[u] = val[u]
    <3>1. of(u)[u] = IF u = {} THEN 0 ELSE f[AnyOf(u)] + of(u)[rest(u)]
      BY <2>3, <2>5 DEF IsSum
    <3>2. CASE u = {}
      BY <3>1, <3>2
    <3>3. CASE u # {}
      <4>1. rest(u) \in SUBSET T /\ rest(u) # T /\ rest(u) \in SUBSET u /\ IsFiniteSet(u)
        BY <2>1, <2>4, <3>3, FS_Subset
      <4>2. IsSum(of(rest(u)), f, rest(u)) /\ IsSum(of(u), f, u)
        BY <2>3, <2>5, <4>1
      <4> HIDE DEF rest
      <4>3. of(rest(u))[rest(u)] = of(u)[rest(u)]
        BY <4>1, <4>2, OneSum
      <4>4. QED
        BY <3>1, <3>3, <4>3
    <3>4. QED
      BY <3>2, <3>3
  <2>6. ASSUME NEW u \in SUBSET T
        PROVE  val[u] = IF u = {} THEN 0 ELSE f[AnyOf(u)] + val[rest(u)]
    <3>1. val[u] = IF u = {} THEN 0 ELSE f[AnyOf(u)] + of(rest(u))[rest(u)]
      OBVIOUS
    <3> HIDE DEF val, rest
    <3>2. QED
      BY <2>4, <2>5, <3>1
  <2>7. val = [u \in SUBSET T |-> val[u]]
    OBVIOUS
  <2> HIDE DEF val
  <2>8. IsSum(val, f, T)
    BY <2>6, <2>7 DEF IsSum
  <2>9. QED
    BY <2>2, <2>8
<1>2. QED
  BY <1>1

\* The sum of nothing, and of something.
LEMMA SumSteps ==
  ASSUME NEW f, NEW S, IsFiniteSet(S)
  PROVE  /\ SumOver(f, {}) = 0
         /\ S # {} => AnyOf(S) \in S /\ SumOver(f, S) = f[AnyOf(S)] + SumOver(f, S \ {AnyOf(S)})
<1> DEFINE of(T) == CHOOSE g : IsSum(g, f, T)
<1>1. \A T : SumOver(f, T) = of(T)[T]
  BY DEF SumOver, FoldFunctionOnSet, MapThenFoldSet, IsSum, AnyOf
<1>2. ASSUME NEW T, IsFiniteSet(T) PROVE IsSum(of(T), f, T)
  BY <1>2, SumExists
<1> HIDE DEF of
<1>3. SumOver(f, {}) = 0
  <2>1. IsSum(of({}), f, {})
    BY <1>2, FS_EmptySet
  <2>2. QED
    BY <1>1, <2>1 DEF IsSum
<1>4. ASSUME S # {} PROVE AnyOf(S) \in S /\ SumOver(f, S) = f[AnyOf(S)] + SumOver(f, S \ {AnyOf(S)})
  <2> DEFINE rest == S \ {AnyOf(S)}
  <2>1. AnyOf(S) \in S
    BY <1>4 DEF AnyOf
  <2>2. rest \in SUBSET S /\ IsFiniteSet(rest)
    BY FS_Subset
  <2>3. of(S)[S] = f[AnyOf(S)] + of(S)[rest]
    BY <1>2, <1>4 DEF IsSum
  <2> HIDE DEF rest
  <2>4. of(rest)[rest] = of(S)[rest]
    BY <1>2, <2>2, OneSum
  <2>5. SumOver(f, S) = f[AnyOf(S)] + SumOver(f, rest)
    BY <1>1, <2>3, <2>4
  <2>6. QED
    BY <2>1, <2>5 DEF rest
<1>5. QED
  BY <1>3, <1>4

\* A sum of naturals is a natural, and depends on the values summed only.
LEMMA SumIsNat ==
  ASSUME NEW f, NEW S, IsFiniteSet(S), \A x \in S : f[x] \in Nat
  PROVE  SumOver(f, S) \in Nat /\ \A h : (\A x \in S : h[x] = f[x]) => SumOver(h, S) = SumOver(f, S)
<1> DEFINE Good(T) == SumOver(f, T) \in Nat /\ \A h : (\A x \in T : h[x] = f[x]) => SumOver(h, T) = SumOver(f, T)
           Bad == {T \in SUBSET S : ~Good(T)}
<1>1. ASSUME Bad # {} PROVE FALSE
  <2>1. PICK T \in Bad : IsFiniteSet(T) /\ \A U \in SUBSET T : U # T => U \notin Bad
    <3>1. Bad \in SUBSET (SUBSET S)
      OBVIOUS
    <3> HIDE DEF Bad
    <3>2. QED
      BY <1>1, <3>1, SmallestMember
  <2>2. T \in SUBSET S /\ ~Good(T)
    OBVIOUS
  <2>3. CASE T = {}
    <3>1. \A h : SumOver(h, {}) = 0
      BY SumSteps, FS_EmptySet
    <3>2. Good(T)
      BY <2>3, <3>1
    <3>3. QED
      BY <2>2, <3>2
  <2>4. CASE T # {}
    <3> DEFINE rest == T \ {AnyOf(T)}
    <3>1. AnyOf(T) \in T /\ \A h : SumOver(h, T) = h[AnyOf(T)] + SumOver(h, rest)
      BY <2>1, <2>4, SumSteps
    <3>2. rest \in SUBSET T /\ rest # T
      BY <3>1
    <3>3. rest \notin Bad /\ rest \in SUBSET S
      BY <2>1, <2>2, <3>2
    <3>4. Good(rest)
      BY <3>3
    <3> HIDE DEF rest
    <3>5. f[AnyOf(T)] \in Nat
      BY <2>2, <3>1
    <3>6. SumOver(f, T) \in Nat
      BY <3>1, <3>4, <3>5
    <3>7. ASSUME NEW h, \A x \in T : h[x] = f[x] PROVE SumOver(h, T) = SumOver(f, T)
      <4>1. h[AnyOf(T)] = f[AnyOf(T)] /\ \A x \in rest : h[x] = f[x]
        BY <3>1, <3>2, <3>7
      <4>2. SumOver(h, rest) = SumOver(f, rest)
        BY <3>4, <4>1
      <4>3. QED
        BY <3>1, <4>1, <4>2
    <3>8. QED
      BY <2>2, <3>6, <3>7
  <2>5. QED
    BY <2>3, <2>4
<1>2. S \notin Bad
  BY <1>1
<1>3. QED
  BY <1>2

\* The sum of one more, in whatever order the members are taken.
LEMMA SumOfOneMore ==
  ASSUME NEW f, NEW U, IsFiniteSet(U), \A x \in U : f[x] \in Nat, NEW S \in SUBSET U, NEW x \in U \ S
  PROVE  SumOver(f, S \union {x}) = f[x] + SumOver(f, S)
<1> DEFINE Good(T) == \A y \in U \ T : SumOver(f, T \union {y}) = f[y] + SumOver(f, T)
           Bad == {T \in SUBSET U : ~Good(T)}
<1>1. ASSUME Bad # {} PROVE FALSE
  <2>1. PICK T \in Bad : IsFiniteSet(T) /\ \A V \in SUBSET T : V # T => V \notin Bad
    <3>1. Bad \in SUBSET (SUBSET U)
      OBVIOUS
    <3> HIDE DEF Bad
    <3>2. QED
      BY <1>1, <3>1, SmallestMember
  <2>2. PICK y \in U \ T : SumOver(f, T \union {y}) # f[y] + SumOver(f, T)
    OBVIOUS
  <2>3. T \in SUBSET U
    OBVIOUS
  <2> DEFINE all == T \union {y}
             c == AnyOf(all)
  <2>4. IsFiniteSet(all) /\ all # {}
    BY <2>1, FS_AddElement
  <2>5. c \in all /\ SumOver(f, all) = f[c] + SumOver(f, all \ {c})
    <3> HIDE DEF all
    <3>1. QED
      BY <2>4, SumSteps
  <2>6. CASE c = y
    <3>1. all \ {c} = T
      BY <2>2, <2>6
    <3> HIDE DEF c
    <3>2. QED
      BY <2>2, <2>5, <2>6, <3>1
  <2>7. CASE c # y
    <3> DEFINE rest == T \ {c}
    <3>1. c \in T /\ all \ {c} = rest \union {y} /\ T = rest \union {c} /\ c \notin rest /\ y \notin rest
      BY <2>2, <2>5, <2>7
    <3>2. rest \in SUBSET T /\ rest # T /\ rest \in SUBSET U /\ IsFiniteSet(rest)
      BY <2>1, <2>3, <3>1, FS_Subset
    <3>3. Good(rest)
      BY <2>1, <3>2
    <3>4. c \in U \ rest /\ y \in U \ rest
      BY <2>2, <2>3, <3>1
    <3>5. SumOver(f, T) = f[c] + SumOver(f, rest) /\ SumOver(f, rest \union {y}) = f[y] + SumOver(f, rest)
      <4> HIDE DEF rest, c
      <4>1. QED
        BY <3>1, <3>3, <3>4
    <3>6. f[c] \in Nat /\ f[y] \in Nat /\ SumOver(f, rest) \in Nat
      <4>1. \A z \in rest : f[z] \in Nat
        BY <3>2
      <4> HIDE DEF rest, c
      <4>2. QED
        BY <3>2, <3>4, <4>1, SumIsNat
    <3> HIDE DEF rest, c, all
    <3>7. SumOver(f, all) = f[c] + (f[y] + SumOver(f, rest))
      BY <2>5, <3>1, <3>5
    <3>8. SumOver(f, all) = f[y] + SumOver(f, T)
      BY <3>5, <3>6, <3>7
    <3>9. QED
      BY <2>2, <3>8 DEF all
  <2>8. QED
    BY <2>6, <2>7
<1>2. S \notin Bad
  BY <1>1
<1>3. QED
  BY <1>2

\* The sum of some values is not larger than a sum that they are part of.
LEMMA SumOfPart ==
  ASSUME NEW f, NEW S, IsFiniteSet(S), NEW g, NEW T, IsFiniteSet(T), NEW m,
         \A x \in S : f[x] \in Nat /\ m[x] \in T /\ g[m[x]] = f[x],
         \A x, y \in S : m[x] = m[y] => x = y,
         \A y \in T : g[y] \in Nat
  PROVE  SumOver(f, S) <= SumOver(g, T)
<1> DEFINE image(R) == {m[x] : x \in R}
           Good(R) == \A U \in SUBSET T : image(R) \subseteq U => SumOver(f, R) <= SumOver(g, U)
           Bad == {R \in SUBSET S : ~Good(R)}
<1>1. ASSUME Bad # {} PROVE FALSE
  <2>1. PICK R \in Bad : IsFiniteSet(R) /\ \A V \in SUBSET R : V # R => V \notin Bad
    <3>1. Bad \in SUBSET (SUBSET S)
      OBVIOUS
    <3> HIDE DEF Bad
    <3>2. QED
      BY <1>1, <3>1, SmallestMember
  <2>2. PICK U \in SUBSET T : image(R) \subseteq U /\ ~(SumOver(f, R) <= SumOver(g, U))
    OBVIOUS
  <2>3. R \in SUBSET S /\ IsFiniteSet(U) /\ \A y \in U : g[y] \in Nat
    BY FS_Subset
  <2>4. SumOver(g, U) \in Nat
    BY <2>3, SumIsNat
  <2>5. CASE R = {}
    <3>1. SumOver(f, {}) = 0
      BY SumSteps
    <3> HIDE DEF image
    <3>2. QED
      BY <2>2, <2>4, <2>5, <3>1
  <2>6. CASE R # {}
    <3>1. PICK x \in R : TRUE
      BY <2>6
    <3> DEFINE rest == R \ {x}
               y == m[x]
               less == U \ {y}
    <3>2. Good(rest)
      BY <2>1, <2>3
    <3>3. image(rest) \subseteq less /\ less \in SUBSET T /\ y \in U
      BY <2>2, <2>3
    <3>4. SumOver(f, rest) <= SumOver(g, less)
      BY <3>2, <3>3
    <3>5. SumOver(f, R) = f[x] + SumOver(f, rest) /\ SumOver(f, rest) \in Nat
      <4>1. (\A z \in R : f[z] \in Nat) /\ rest \in SUBSET R /\ x \in R \ rest /\ R = rest \union {x}
        BY <2>3
      <4>2. IsFiniteSet(rest) /\ \A z \in rest : f[z] \in Nat
        BY <2>1, <4>1, FS_Subset
      <4> HIDE DEF rest
      <4>3. QED
        BY <2>1, <4>1, <4>2, SumOfOneMore, SumIsNat
    <3>6. SumOver(g, U) = g[y] + SumOver(g, less) /\ SumOver(g, less) \in Nat
      <4>1. less \in SUBSET U /\ y \in U \ less /\ U = less \union {y}
        BY <3>3
      <4>2. IsFiniteSet(less) /\ \A z \in less : g[z] \in Nat
        BY <2>3, <4>1, FS_Subset
      <4> HIDE DEF less, y
      <4>3. QED
        BY <2>3, <4>1, <4>2, SumOfOneMore, SumIsNat
    <3>7. g[y] = f[x] /\ f[x] \in Nat
      BY <2>3
    <3> HIDE DEF rest, less, y
    <3>8. QED
      BY <2>2, <3>4, <3>5, <3>6, <3>7
  <2>7. QED
    BY <2>5, <2>6
<1>2. Good(S)
  BY <1>1
<1>3. QED
  BY <1>2
=============================================================================
