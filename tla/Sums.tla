------------------------------- MODULE Sums -------------------------------
(***************************************************************************)
(* Lemmas about the sums of the library (SumFunctionOnSet of Functions):   *)
(* what a sum over a finite set is, and how it changes with its values.    *)
(* They are proved without induction: a set for which one fails would have *)
(* a smallest subset for which it fails.  And a few facts about sequences  *)
(* and sets that several proofs need.                                      *)
(***************************************************************************)
EXTENDS Integers, Sequences, FiniteSetTheorems, WellFoundedInduction, Functions, TLAPS

(* A nonempty family of subsets of a finite set has a smallest member; it  *)
(* stands in for an induction over the finite set.                         *)
LEMMA SmallestSubset ==
  ASSUME NEW S, IsFiniteSet(S), NEW T \in SUBSET SUBSET S, T # {}
  PROVE  \E U \in T : \A V \in T : V \subseteq U => V = U
<1>1. IsWellFoundedOn(StrictSubsetOrdering(S), FiniteSubsetsOf(S))
  BY FS_StrictSubsetOrderingWellFounded
<1>2. FiniteSubsetsOf(S) = SUBSET S BY FS_FiniteSubsetsOfFinite
<1>3. PICK U \in T : \A V \in T : ~(<<V, U>> \in StrictSubsetOrdering(S))
  BY <1>1, <1>2, WFMin
<1> QED BY <1>3, <1>2 DEF StrictSubsetOrdering

(* Sums of three, regrouped.                                               *)
LEMMA Associative ==
  \A i, j, k \in Int : i + (j + k) = (i + j) + k /\ i + (j + k) = j + (i + k)
  OBVIOUS

(* The value that the library takes next, and what is left after it.       *)
AnyOf(S) == CHOOSE x \in S : TRUE
Rest(S) == S \ {AnyOf(S)}

(* It is one of the set.                                                   *)
LEMMA AnyOfIn == \A S : S # {} => AnyOf(S) \in S BY DEF AnyOf

(* g folds the values of f over the subsets of S.                          *)
Adds(g, f, S) ==
  g = [U \in SUBSET S |-> IF U = {} THEN 0 ELSE f[AnyOf(U)] + g[Rest(U)]]

Accumulated(f, S) == CHOOSE g : Adds(g, f, S)

(* SumFunctionOnSet folds over the subsets of S from the empty set up.     *)
LEMMA SumIsAccumulated == \A f, S : SumFunctionOnSet(f, S) = Accumulated(f, S)[S]
  BY Zenon DEF SumFunctionOnSet, FoldFunctionOnSet, MapThenFoldSet, Adds, Accumulated, AnyOf, Rest

(* One step of such a fold.                                                *)
LEMMA AddsStep ==
  ASSUME NEW f, NEW g, NEW S, Adds(g, f, S), NEW U \in SUBSET S
  PROVE  g[U] = IF U = {} THEN 0 ELSE f[AnyOf(U)] + g[Rest(U)]
<1> DEFINE h == [V \in SUBSET S |-> IF V = {} THEN 0 ELSE f[AnyOf(V)] + g[Rest(V)]]
<1>1. g = h BY Zenon DEF Adds
<1>2. h[U] = IF U = {} THEN 0 ELSE f[AnyOf(U)] + g[Rest(U)] OBVIOUS
<1> QED BY <1>1, <1>2, Zenon

(* Two folds agree on the subsets both are defined for.                    *)
LEMMA AddsAgree ==
  ASSUME NEW f, NEW A, IsFiniteSet(A), NEW B, NEW g, NEW h, Adds(g, f, A), Adds(h, f, B)
  PROVE  \A U \in SUBSET (A \cap B) : g[U] = h[U]
<1> DEFINE Bad == {U \in SUBSET (A \cap B) : g[U] # h[U]}
<1> SUFFICES ASSUME Bad # {} PROVE FALSE OBVIOUS
<1>1. PICK U \in Bad : \A V \in Bad : V \subseteq U => V = U
  <2>1. Bad \in SUBSET SUBSET A OBVIOUS
  <2> HIDE DEF Bad
  <2> QED BY <2>1, SmallestSubset
<1>2. /\ g[U] = IF U = {} THEN 0 ELSE f[AnyOf(U)] + g[Rest(U)]
      /\ h[U] = IF U = {} THEN 0 ELSE f[AnyOf(U)] + h[Rest(U)]
  BY <1>1, AddsStep
<1>3. U # {} BY <1>1, <1>2
<1>4. Rest(U) \subseteq U /\ Rest(U) # U BY <1>3, AnyOfIn DEF Rest
<1>5. Rest(U) \notin Bad BY <1>1, <1>4, Zenon
<1>6. g[Rest(U)] = h[Rest(U)] BY <1>1, <1>4, <1>5
<1> QED BY <1>1, <1>2, <1>3, <1>6

(* A finite set has a fold.                                                *)
LEMMA AddsExists ==
  ASSUME NEW f, NEW S, IsFiniteSet(S)
  PROVE  \E g : Adds(g, f, S)
<1> DEFINE Bad == {U \in SUBSET S : ~\E g : Adds(g, f, U)}
<1> SUFFICES ASSUME Bad # {} PROVE FALSE BY Zenon
<1>1. PICK U \in Bad : \A V \in Bad : V \subseteq U => V = U
  <2>1. Bad \in SUBSET SUBSET S OBVIOUS
  <2> HIDE DEF Bad
  <2> QED BY <2>1, SmallestSubset
<1> DEFINE acc(V) == Accumulated(f, V)
           G(V) == IF V = {} THEN 0 ELSE f[AnyOf(V)] + acc(Rest(V))[Rest(V)]
           g == [V \in SUBSET U |-> G(V)]
<1>2. \A V \in SUBSET U : V # U => Adds(acc(V), f, V)
  <2> SUFFICES ASSUME NEW V \in SUBSET U, V # U PROVE Adds(acc(V), f, V) OBVIOUS
  <2>1. V \notin Bad /\ V \in SUBSET S BY <1>1
  <2>2. \E k : Adds(k, f, V) BY <2>1, Zenon
  <2> QED BY <2>2, Zenon DEF Accumulated
<1>3. \A V \in SUBSET U : V # {} => Rest(V) \in SUBSET U /\ Rest(V) # U /\ Rest(V) # V
  BY AnyOfIn DEF Rest
<1>4. \A V \in SUBSET U : V # U => G(V) = acc(V)[V]
  <2> SUFFICES ASSUME NEW V \in SUBSET U, V # U PROVE G(V) = acc(V)[V] OBVIOUS
  <2>1. acc(V)[V] = IF V = {} THEN 0 ELSE f[AnyOf(V)] + acc(V)[Rest(V)]
    BY <1>2, AddsStep
  <2>2. CASE V = {} BY <2>1, <2>2
  <2>3. CASE V # {}
    <3>1. Adds(acc(Rest(V)), f, Rest(V)) /\ Adds(acc(V), f, V) BY <1>2, <1>3, <2>3
    <3>2. IsFiniteSet(V) BY <1>1, FS_Subset
    <3>3. Rest(V) \in SUBSET (V \cap Rest(V)) BY DEF Rest
    <3>4. acc(V)[Rest(V)] = acc(Rest(V))[Rest(V)] BY <3>1, <3>2, <3>3, AddsAgree
    <3> QED BY <2>1, <2>3, <3>4
  <2> QED BY <2>2, <2>3
<1>5. \A V \in SUBSET U : g[V] = IF V = {} THEN 0 ELSE f[AnyOf(V)] + g[Rest(V)]
  <2> SUFFICES ASSUME NEW V \in SUBSET U
               PROVE  g[V] = IF V = {} THEN 0 ELSE f[AnyOf(V)] + g[Rest(V)]
    OBVIOUS
  <2>1. CASE V = {} BY <2>1
  <2>2. CASE V # {}
    <3>1. Rest(V) \in SUBSET U /\ Rest(V) # U BY <1>3, <2>2
    <3>2. g[Rest(V)] = acc(Rest(V))[Rest(V)] BY <3>1, <1>4
    <3> QED BY <2>2, <3>2
  <2> QED BY <2>1, <2>2
<1>6. g = [V \in SUBSET U |-> IF V = {} THEN 0 ELSE f[AnyOf(V)] + g[Rest(V)]]
  <2> DEFINE h == [V \in SUBSET U |-> IF V = {} THEN 0 ELSE f[AnyOf(V)] + g[Rest(V)]]
  <2>1. g \in [SUBSET U -> {g[V] : V \in SUBSET U}] /\ h \in [SUBSET U -> {h[V] : V \in SUBSET U}]
    OBVIOUS
  <2>2. \A V \in SUBSET U : g[V] = h[V] BY <1>5
  <2> HIDE DEF g, h
  <2>3. g = h BY <2>1, <2>2
  <2> QED BY <2>3 DEF h
<1>7. Adds(g, f, U) BY <1>6, Zenon DEF Adds
<1> HIDE DEF g
<1> QED BY <1>1, <1>7, Zenon

(* So the sum over a finite set is one value and the sum over the rest.    *)
LEMMA SumUnfolds ==
  ASSUME NEW f, NEW S, IsFiniteSet(S)
  PROVE  SumFunctionOnSet(f, S) = IF S = {} THEN 0 ELSE f[AnyOf(S)] + SumFunctionOnSet(f, Rest(S))
<1> DEFINE acc(V) == Accumulated(f, V)
<1>1. \A V : SumFunctionOnSet(f, V) = acc(V)[V] BY SumIsAccumulated, Zenon
<1>2. \A V \in SUBSET S : Adds(acc(V), f, V)
  <2> SUFFICES ASSUME NEW V \in SUBSET S PROVE Adds(acc(V), f, V) OBVIOUS
  <2>1. IsFiniteSet(V) BY FS_Subset
  <2>2. \E k : Adds(k, f, V) BY <2>1, AddsExists, Zenon
  <2> QED BY <2>2, Zenon DEF Accumulated
<1>3. acc(S)[S] = IF S = {} THEN 0 ELSE f[AnyOf(S)] + acc(S)[Rest(S)] BY <1>2, AddsStep
<1>4. ASSUME S # {} PROVE acc(S)[Rest(S)] = acc(Rest(S))[Rest(S)]
  <2>1. Rest(S) \in SUBSET S BY DEF Rest
  <2>2. Adds(acc(S), f, S) /\ Adds(acc(Rest(S)), f, Rest(S)) BY <1>2, <2>1
  <2>3. Rest(S) \in SUBSET (S \cap Rest(S)) BY <2>1
  <2> QED BY <2>2, <2>3, AddsAgree
<1> QED BY <1>1, <1>3, <1>4

(* The sum over no values.                                                 *)
LEMMA SumEmpty == \A f : SumFunctionOnSet(f, {}) = 0
  BY SumUnfolds, FS_EmptySet

(* Sums of integers are integers.                                          *)
LEMMA SumType ==
  ASSUME NEW S, IsFiniteSet(S), NEW f, \A x \in S : f[x] \in Int
  PROVE  SumFunctionOnSet(f, S) \in Int
<1> DEFINE Bad == {U \in SUBSET S : SumFunctionOnSet(f, U) \notin Int}
<1> SUFFICES ASSUME Bad # {} PROVE FALSE OBVIOUS
<1>1. PICK U \in Bad : \A V \in Bad : V \subseteq U => V = U
  <2>1. Bad \in SUBSET SUBSET S OBVIOUS
  <2> HIDE DEF Bad
  <2> QED BY <2>1, SmallestSubset
<1>2. IsFiniteSet(U) BY <1>1, FS_Subset
<1>3. SumFunctionOnSet(f, U) = IF U = {} THEN 0 ELSE f[AnyOf(U)] + SumFunctionOnSet(f, Rest(U))
  BY <1>2, SumUnfolds
<1>4. U # {} BY <1>1, <1>3
<1>5. AnyOf(U) \in U /\ Rest(U) \subseteq U /\ Rest(U) # U BY <1>4, AnyOfIn DEF Rest
<1>6. Rest(U) \notin Bad BY <1>1, <1>5, Zenon
<1>7. SumFunctionOnSet(f, Rest(U)) \in Int BY <1>1, <1>5, <1>6
<1> QED BY <1>1, <1>3, <1>4, <1>5, <1>7

(* Any value may be taken out of a sum.                                    *)
LEMMA SumAt ==
  ASSUME NEW S, IsFiniteSet(S), NEW f, \A x \in S : f[x] \in Int, NEW y \in S
  PROVE  SumFunctionOnSet(f, S) = f[y] + SumFunctionOnSet(f, S \ {y})
<1> DEFINE Bad == {U \in SUBSET S : \E x \in U : SumFunctionOnSet(f, U) # f[x] + SumFunctionOnSet(f, U \ {x})}
<1> SUFFICES ASSUME Bad # {} PROVE FALSE OBVIOUS
<1>1. PICK U \in Bad : \A V \in Bad : V \subseteq U => V = U
  <2>1. Bad \in SUBSET SUBSET S OBVIOUS
  <2> HIDE DEF Bad
  <2> QED BY <2>1, SmallestSubset
<1>2. U \in SUBSET S BY <1>1
<1>3. PICK x \in U : SumFunctionOnSet(f, U) # f[x] + SumFunctionOnSet(f, U \ {x}) BY <1>1
<1> DEFINE c == AnyOf(U)
<1>4. \A V \in SUBSET U : IsFiniteSet(V) /\ SumFunctionOnSet(f, V) \in Int
  <2> SUFFICES ASSUME NEW V \in SUBSET U PROVE IsFiniteSet(V) /\ SumFunctionOnSet(f, V) \in Int
    OBVIOUS
  <2>1. IsFiniteSet(V) BY <1>2, FS_Subset
  <2> QED BY <1>2, <2>1, SumType
<1>5. c \in U BY AnyOfIn
<1>6. SumFunctionOnSet(f, U) = f[c] + SumFunctionOnSet(f, U \ {c})
  BY <1>4, <1>5, SumUnfolds DEF Rest
<1>7. c # x BY <1>3, <1>6
<1>8. U \ {c} \notin Bad /\ U \ {x} \notin Bad
  <2>1. U \ {c} \subseteq U /\ U \ {x} \subseteq U /\ U \ {c} # U /\ U \ {x} # U BY <1>5
  <2> HIDE DEF Bad, c
  <2> QED BY <1>1, <2>1, Zenon
<1>9. SumFunctionOnSet(f, U \ {c}) = f[x] + SumFunctionOnSet(f, (U \ {c}) \ {x}) BY <1>2, <1>7, <1>8
<1>10. SumFunctionOnSet(f, U \ {x}) = f[c] + SumFunctionOnSet(f, (U \ {x}) \ {c})
  BY <1>2, <1>5, <1>7, <1>8
<1>11. (U \ {c}) \ {x} = (U \ {x}) \ {c} OBVIOUS
<1>12. f[c] \in Int /\ f[x] \in Int /\ SumFunctionOnSet(f, (U \ {c}) \ {x}) \in Int
  BY <1>2, <1>4, <1>5
<1> HIDE DEF c, Bad
<1>14. f[c] + (f[x] + SumFunctionOnSet(f, (U \ {c}) \ {x})) = f[x] + (f[c] + SumFunctionOnSet(f, (U \ {c}) \ {x}))
  BY <1>12, Associative
<1>15. SumFunctionOnSet(f, U) = f[x] + SumFunctionOnSet(f, U \ {x})
  BY <1>6, <1>9, <1>10, <1>11, <1>14, Zenon
<1> QED BY <1>3, <1>15

(* The sum depends on the values in the set only.                          *)
LEMMA SumEqual ==
  ASSUME NEW S, IsFiniteSet(S), NEW f, NEW g, \A x \in S : f[x] = g[x]
  PROVE  SumFunctionOnSet(f, S) = SumFunctionOnSet(g, S)
<1> DEFINE Bad == {U \in SUBSET S : SumFunctionOnSet(f, U) # SumFunctionOnSet(g, U)}
<1> SUFFICES ASSUME Bad # {} PROVE FALSE OBVIOUS
<1>1. PICK U \in Bad : \A V \in Bad : V \subseteq U => V = U
  <2>1. Bad \in SUBSET SUBSET S OBVIOUS
  <2> HIDE DEF Bad
  <2> QED BY <2>1, SmallestSubset
<1>2. IsFiniteSet(U) BY <1>1, FS_Subset
<1>3. /\ SumFunctionOnSet(f, U) = IF U = {} THEN 0 ELSE f[AnyOf(U)] + SumFunctionOnSet(f, Rest(U))
      /\ SumFunctionOnSet(g, U) = IF U = {} THEN 0 ELSE g[AnyOf(U)] + SumFunctionOnSet(g, Rest(U))
  BY <1>2, SumUnfolds
<1>4. U # {} BY <1>1, <1>3
<1>5. AnyOf(U) \in U /\ Rest(U) \subseteq U /\ Rest(U) # U BY <1>4, AnyOfIn DEF Rest
<1>6. Rest(U) \notin Bad BY <1>1, <1>5, Zenon
<1>7. SumFunctionOnSet(f, Rest(U)) = SumFunctionOnSet(g, Rest(U)) BY <1>1, <1>5, <1>6
<1> QED BY <1>1, <1>3, <1>4, <1>5, <1>7

(* Sums add up.                                                            *)
LEMMA SumPlus ==
  ASSUME NEW S, IsFiniteSet(S), NEW f, NEW g, NEW h,
         \A x \in S : f[x] \in Int /\ g[x] \in Int /\ h[x] = f[x] + g[x]
  PROVE  SumFunctionOnSet(h, S) = SumFunctionOnSet(f, S) + SumFunctionOnSet(g, S)
<1> DEFINE Bad == {U \in SUBSET S : SumFunctionOnSet(h, U) # SumFunctionOnSet(f, U) + SumFunctionOnSet(g, U)}
<1> SUFFICES ASSUME Bad # {} PROVE FALSE OBVIOUS
<1>1. PICK U \in Bad : \A V \in Bad : V \subseteq U => V = U
  <2>1. Bad \in SUBSET SUBSET S OBVIOUS
  <2> HIDE DEF Bad
  <2> QED BY <2>1, SmallestSubset
<1>2. U \in SUBSET S /\ IsFiniteSet(U) BY <1>1, FS_Subset
<1>3. /\ SumFunctionOnSet(f, U) = IF U = {} THEN 0 ELSE f[AnyOf(U)] + SumFunctionOnSet(f, Rest(U))
      /\ SumFunctionOnSet(g, U) = IF U = {} THEN 0 ELSE g[AnyOf(U)] + SumFunctionOnSet(g, Rest(U))
      /\ SumFunctionOnSet(h, U) = IF U = {} THEN 0 ELSE h[AnyOf(U)] + SumFunctionOnSet(h, Rest(U))
  BY <1>2, SumUnfolds
<1>4. U # {} BY <1>1, <1>3
<1>5. AnyOf(U) \in U /\ Rest(U) \subseteq U /\ Rest(U) # U BY <1>4, AnyOfIn DEF Rest
<1>6. Rest(U) \notin Bad BY <1>1, <1>5, Zenon
<1>7. SumFunctionOnSet(h, Rest(U)) = SumFunctionOnSet(f, Rest(U)) + SumFunctionOnSet(g, Rest(U))
  BY <1>1, <1>5, <1>6
<1>8. Rest(U) \in SUBSET S /\ IsFiniteSet(Rest(U)) BY <1>2, <1>5, FS_Subset
<1>9. SumFunctionOnSet(f, Rest(U)) \in Int /\ SumFunctionOnSet(g, Rest(U)) \in Int BY <1>8, SumType
<1>10. /\ f[AnyOf(U)] \in Int /\ g[AnyOf(U)] \in Int
       /\ h[AnyOf(U)] = f[AnyOf(U)] + g[AnyOf(U)]
  BY <1>2, <1>5
<1>11. SumFunctionOnSet(h, U) = SumFunctionOnSet(f, U) + SumFunctionOnSet(g, U)
  BY <1>3, <1>4, <1>7, <1>9, <1>10
<1> QED BY <1>1, <1>11

(* Sums grow with their values.                                            *)
LEMMA SumAtMost ==
  ASSUME NEW S, IsFiniteSet(S), NEW f, NEW g,
         \A x \in S : f[x] \in Int /\ g[x] \in Int /\ f[x] <= g[x]
  PROVE  SumFunctionOnSet(f, S) <= SumFunctionOnSet(g, S)
<1> DEFINE Bad == {U \in SUBSET S : ~(SumFunctionOnSet(f, U) <= SumFunctionOnSet(g, U))}
<1> SUFFICES ASSUME Bad # {} PROVE FALSE OBVIOUS
<1>1. PICK U \in Bad : \A V \in Bad : V \subseteq U => V = U
  <2>1. Bad \in SUBSET SUBSET S OBVIOUS
  <2> HIDE DEF Bad
  <2> QED BY <2>1, SmallestSubset
<1>2. U \in SUBSET S /\ IsFiniteSet(U) BY <1>1, FS_Subset
<1>3. /\ SumFunctionOnSet(f, U) = IF U = {} THEN 0 ELSE f[AnyOf(U)] + SumFunctionOnSet(f, Rest(U))
      /\ SumFunctionOnSet(g, U) = IF U = {} THEN 0 ELSE g[AnyOf(U)] + SumFunctionOnSet(g, Rest(U))
  BY <1>2, SumUnfolds
<1>4. U # {} BY <1>1, <1>3
<1>5. AnyOf(U) \in U /\ Rest(U) \subseteq U /\ Rest(U) # U BY <1>4, AnyOfIn DEF Rest
<1>6. Rest(U) \notin Bad BY <1>1, <1>5, Zenon
<1>7. SumFunctionOnSet(f, Rest(U)) <= SumFunctionOnSet(g, Rest(U)) BY <1>1, <1>5, <1>6
<1>8. Rest(U) \in SUBSET S /\ IsFiniteSet(Rest(U)) BY <1>2, <1>5, FS_Subset
<1>9. SumFunctionOnSet(f, Rest(U)) \in Int /\ SumFunctionOnSet(g, Rest(U)) \in Int BY <1>8, SumType
<1>10. f[AnyOf(U)] \in Int /\ g[AnyOf(U)] \in Int /\ f[AnyOf(U)] <= g[AnyOf(U)]
  BY <1>2, <1>5
<1>11. SumFunctionOnSet(f, U) <= SumFunctionOnSet(g, U) BY <1>3, <1>4, <1>7, <1>9, <1>10
<1> QED BY <1>1, <1>11

(* The sum of zeros.                                                       *)
LEMMA SumZero ==
  ASSUME NEW S, IsFiniteSet(S), NEW f, \A x \in S : f[x] = 0
  PROVE  SumFunctionOnSet(f, S) = 0
<1> DEFINE Bad == {U \in SUBSET S : SumFunctionOnSet(f, U) # 0}
<1> SUFFICES ASSUME Bad # {} PROVE FALSE OBVIOUS
<1>1. PICK U \in Bad : \A V \in Bad : V \subseteq U => V = U
  <2>1. Bad \in SUBSET SUBSET S OBVIOUS
  <2> HIDE DEF Bad
  <2> QED BY <2>1, SmallestSubset
<1>2. U \in SUBSET S /\ IsFiniteSet(U) BY <1>1, FS_Subset
<1>3. SumFunctionOnSet(f, U) = IF U = {} THEN 0 ELSE f[AnyOf(U)] + SumFunctionOnSet(f, Rest(U))
  BY <1>2, SumUnfolds
<1>4. U # {} BY <1>1, <1>3
<1>5. AnyOf(U) \in U /\ Rest(U) \subseteq U /\ Rest(U) # U BY <1>4, AnyOfIn DEF Rest
<1>6. Rest(U) \notin Bad BY <1>1, <1>5, Zenon
<1>7. SumFunctionOnSet(f, Rest(U)) = 0 /\ f[AnyOf(U)] = 0 BY <1>2, <1>5, <1>6
<1> QED BY <1>1, <1>3, <1>4, <1>7

(* A sum of ones counts the set.                                           *)
LEMMA SumOfOnes ==
  ASSUME NEW S, IsFiniteSet(S), NEW f, \A x \in S : f[x] = 1
  PROVE  SumFunctionOnSet(f, S) = Cardinality(S)
<1> DEFINE Bad == {U \in SUBSET S : SumFunctionOnSet(f, U) # Cardinality(U)}
<1> SUFFICES ASSUME Bad # {} PROVE FALSE OBVIOUS
<1>1. PICK U \in Bad : \A V \in Bad : V \subseteq U => V = U
  <2>1. Bad \in SUBSET SUBSET S OBVIOUS
  <2> HIDE DEF Bad
  <2> QED BY <2>1, SmallestSubset
<1>2. U \in SUBSET S /\ IsFiniteSet(U) BY <1>1, FS_Subset
<1>3. SumFunctionOnSet(f, U) = IF U = {} THEN 0 ELSE f[AnyOf(U)] + SumFunctionOnSet(f, Rest(U))
  BY <1>2, SumUnfolds
<1>4. U # {} BY <1>1, <1>3, FS_EmptySet
<1>5. AnyOf(U) \in U /\ Rest(U) = U \ {AnyOf(U)} /\ Rest(U) # U BY <1>4, AnyOfIn DEF Rest
<1>6. Rest(U) \notin Bad BY <1>1, <1>5, Zenon
<1>7. SumFunctionOnSet(f, Rest(U)) = Cardinality(Rest(U)) BY <1>1, <1>5, <1>6
<1>8. Cardinality(Rest(U)) = Cardinality(U) - 1 /\ Cardinality(U) \in Nat
  BY <1>2, <1>5, FS_RemoveElement, FS_CardinalityType
<1>9. f[AnyOf(U)] = 1 BY <1>2, <1>5
<1> QED BY <1>1, <1>3, <1>4, <1>7, <1>8, <1>9

(* A sum of multiples is the multiple of the sum.                          *)
LEMMA Distributive ==
  \A c, i, j \in Int : c * i \in Int /\ c * (i + j) = c * i + c * j
  OBVIOUS

LEMMA SumScaled ==
  ASSUME NEW S, IsFiniteSet(S), NEW c \in Int, NEW f, NEW g,
         \A x \in S : f[x] \in Int /\ g[x] = c * f[x]
  PROVE  SumFunctionOnSet(g, S) = c * SumFunctionOnSet(f, S)
<1> DEFINE Bad == {U \in SUBSET S : SumFunctionOnSet(g, U) # c * SumFunctionOnSet(f, U)}
<1> SUFFICES ASSUME Bad # {} PROVE FALSE OBVIOUS
<1>1. PICK U \in Bad : \A V \in Bad : V \subseteq U => V = U
  <2>1. Bad \in SUBSET SUBSET S OBVIOUS
  <2> HIDE DEF Bad
  <2> QED BY <2>1, SmallestSubset
<1>2. U \in SUBSET S /\ IsFiniteSet(U) BY <1>1, FS_Subset
<1>3. /\ SumFunctionOnSet(f, U) = IF U = {} THEN 0 ELSE f[AnyOf(U)] + SumFunctionOnSet(f, Rest(U))
      /\ SumFunctionOnSet(g, U) = IF U = {} THEN 0 ELSE g[AnyOf(U)] + SumFunctionOnSet(g, Rest(U))
  BY <1>2, SumUnfolds
<1>4. U # {}
  <2>1. c * 0 = 0 OBVIOUS
  <2> QED BY <1>1, <1>3, <2>1
<1>5. AnyOf(U) \in U /\ Rest(U) \subseteq U /\ Rest(U) # U BY <1>4, AnyOfIn DEF Rest
<1>6. Rest(U) \notin Bad BY <1>1, <1>5, Zenon
<1>7. SumFunctionOnSet(g, Rest(U)) = c * SumFunctionOnSet(f, Rest(U)) BY <1>1, <1>5, <1>6
<1>8. Rest(U) \in SUBSET S /\ IsFiniteSet(Rest(U)) BY <1>2, <1>5, FS_Subset
<1>9. SumFunctionOnSet(f, Rest(U)) \in Int BY <1>8, SumType
<1>10. f[AnyOf(U)] \in Int /\ g[AnyOf(U)] = c * f[AnyOf(U)] BY <1>2, <1>5
<1>11. c * (f[AnyOf(U)] + SumFunctionOnSet(f, Rest(U))) = c * f[AnyOf(U)] + c * SumFunctionOnSet(f, Rest(U))
  BY <1>9, <1>10, Distributive
<1> QED BY <1>1, <1>3, <1>4, <1>7, <1>10, <1>11

(* Sums of values that differ by c at most differ by c for each of them.   *)
LEMMA SumClose ==
  ASSUME NEW S, IsFiniteSet(S), NEW c \in Nat, NEW f, NEW g,
         \A x \in S : f[x] \in Int /\ g[x] \in Int /\ f[x] <= g[x] + c
  PROVE  SumFunctionOnSet(f, S) <= SumFunctionOnSet(g, S) + c * Cardinality(S)
<1> DEFINE one == [x \in S |-> 1]
           most == [x \in S |-> c]
           h == [x \in S |-> g[x] + c]
<1>1. SumFunctionOnSet(most, S) = c * SumFunctionOnSet(one, S) BY SumScaled
<1>2. SumFunctionOnSet(one, S) = Cardinality(S) BY SumOfOnes
<1>3. SumFunctionOnSet(h, S) = SumFunctionOnSet(g, S) + SumFunctionOnSet(most, S) BY SumPlus
<1>4. SumFunctionOnSet(f, S) <= SumFunctionOnSet(h, S) BY SumAtMost
<1> QED BY <1>1, <1>2, <1>3, <1>4

(* Sums of natural numbers are natural numbers.                            *)
LEMMA SumNat ==
  ASSUME NEW S, IsFiniteSet(S), NEW f, \A x \in S : f[x] \in Nat
  PROVE  SumFunctionOnSet(f, S) \in Nat
<1> DEFINE zero == [x \in S |-> 0]
<1>1. SumFunctionOnSet(zero, S) = 0 BY SumZero
<1>2. SumFunctionOnSet(zero, S) <= SumFunctionOnSet(f, S) BY SumAtMost
<1>3. SumFunctionOnSet(f, S) \in Int BY SumType
<1> QED BY <1>1, <1>2, <1>3

(* The sum over a set is the sum over a part and over what is left.        *)
LEMMA SumSplit ==
  ASSUME NEW S, IsFiniteSet(S), NEW f, \A x \in S : f[x] \in Int, NEW T \in SUBSET S
  PROVE  SumFunctionOnSet(f, S) = SumFunctionOnSet(f, T) + SumFunctionOnSet(f, S \ T)
<1> DEFINE Bad ==
      {U \in SUBSET S : SumFunctionOnSet(f, U) #
                          SumFunctionOnSet(f, U \cap T) + SumFunctionOnSet(f, U \ T)}
<1>0. ASSUME Bad # {} PROVE FALSE
  <2>1. PICK U \in Bad : \A V \in Bad : V \subseteq U => V = U
    <3>1. Bad \in SUBSET SUBSET S OBVIOUS
    <3> HIDE DEF Bad
    <3> QED BY <1>0, <3>1, SmallestSubset
  <2>2. U \in SUBSET S /\ IsFiniteSet(U) BY <2>1, FS_Subset
  <2>3. ASSUME U = {} PROVE FALSE
    <3>1. U \cap T = {} /\ U \ T = {} BY <2>3
    <3>2. 0 # 0 + 0 BY <2>1, <2>3, <3>1, SumEmpty
    <3> QED BY <3>2
  <2> DEFINE c == AnyOf(U)
  <2>4. c \in U BY <2>3, AnyOfIn, Zenon
  <2>5. U \ {c} \in SUBSET S /\ U \ {c} \subseteq U /\ U \ {c} # U BY <2>2, <2>4
  <2>6. U \ {c} \notin Bad
    <3> HIDE DEF Bad, c
    <3> QED BY <2>1, <2>5, Zenon
  <2>7. SumFunctionOnSet(f, U \ {c}) =
          SumFunctionOnSet(f, (U \ {c}) \cap T) + SumFunctionOnSet(f, (U \ {c}) \ T)
    BY <2>5, <2>6
  <2>8. \A V \in SUBSET U : /\ SumFunctionOnSet(f, V) \in Int
                            /\ \A x \in V : SumFunctionOnSet(f, V) = f[x] + SumFunctionOnSet(f, V \ {x})
    <3> SUFFICES ASSUME NEW V \in SUBSET U
                 PROVE  /\ SumFunctionOnSet(f, V) \in Int
                        /\ \A x \in V : SumFunctionOnSet(f, V) = f[x] + SumFunctionOnSet(f, V \ {x})
      OBVIOUS
    <3>1. IsFiniteSet(V) /\ \A x \in V : f[x] \in Int BY <2>2, FS_Subset
    <3> QED BY <3>1, SumType, SumAt
  <2>9. f[c] \in Int BY <2>2, <2>4
  <2>10. SumFunctionOnSet(f, U) = f[c] + SumFunctionOnSet(f, U \ {c}) BY <2>4, <2>8
  <2>11. CASE c \in T
    <3>1. SumFunctionOnSet(f, U \cap T) = f[c] + SumFunctionOnSet(f, (U \cap T) \ {c})
      BY <2>4, <2>8, <2>11
    <3>2. (U \cap T) \ {c} = (U \ {c}) \cap T /\ U \ T = (U \ {c}) \ T BY <2>11
    <3>3. SumFunctionOnSet(f, (U \ {c}) \cap T) \in Int /\ SumFunctionOnSet(f, (U \ {c}) \ T) \in Int
      BY <2>8
    <3> HIDE DEF c
    <3>4. SumFunctionOnSet(f, U) = SumFunctionOnSet(f, U \cap T) + SumFunctionOnSet(f, U \ T)
      <4> DEFINE P == SumFunctionOnSet(f, (U \ {c}) \cap T)
                 Q == SumFunctionOnSet(f, (U \ {c}) \ T)
      <4>1. f[c] + (P + Q) = (f[c] + P) + Q BY <2>9, <3>3, Associative
      <4>2. SumFunctionOnSet(f, U) = f[c] + (P + Q) BY <2>7, <2>10
      <4>3. f[c] + P = SumFunctionOnSet(f, U \cap T) /\ Q = SumFunctionOnSet(f, U \ T) BY <3>1, <3>2
      <4> QED BY <4>1, <4>2, <4>3, Zenon
    <3> QED BY <2>1, <3>4
  <2>12. CASE c \notin T
    <3>1. SumFunctionOnSet(f, U \ T) = f[c] + SumFunctionOnSet(f, (U \ T) \ {c})
      BY <2>4, <2>8, <2>12
    <3>2. (U \ T) \ {c} = (U \ {c}) \ T /\ U \cap T = (U \ {c}) \cap T BY <2>12
    <3>3. SumFunctionOnSet(f, (U \ {c}) \cap T) \in Int /\ SumFunctionOnSet(f, (U \ {c}) \ T) \in Int
      BY <2>8
    <3> HIDE DEF c
    <3>4. SumFunctionOnSet(f, U) = SumFunctionOnSet(f, U \cap T) + SumFunctionOnSet(f, U \ T)
      <4> DEFINE P == SumFunctionOnSet(f, (U \ {c}) \cap T)
                 Q == SumFunctionOnSet(f, (U \ {c}) \ T)
      <4>1. f[c] + (P + Q) = P + (f[c] + Q) BY <2>9, <3>3, Associative
      <4>2. SumFunctionOnSet(f, U) = f[c] + (P + Q) BY <2>7, <2>10
      <4>3. P = SumFunctionOnSet(f, U \cap T) /\ f[c] + Q = SumFunctionOnSet(f, U \ T) BY <3>1, <3>2
      <4> QED BY <4>1, <4>2, <4>3, Zenon
    <3> QED BY <2>1, <3>4
  <2> QED BY <2>11, <2>12
<1>1. S \notin Bad BY <1>0
<1>2. S \cap T = T OBVIOUS
<1> QED BY <1>1, <1>2

(* A part sums up to no more than the whole.                               *)
LEMMA SumSubset ==
  ASSUME NEW S, IsFiniteSet(S), NEW f, \A x \in S : f[x] \in Nat, NEW T \in SUBSET S
  PROVE  SumFunctionOnSet(f, T) <= SumFunctionOnSet(f, S)
<1>1. IsFiniteSet(T) /\ IsFiniteSet(S \ T) BY FS_Subset
<1>2. SumFunctionOnSet(f, T) \in Nat /\ SumFunctionOnSet(f, S \ T) \in Nat BY <1>1, SumNat
<1>3. SumFunctionOnSet(f, S) = SumFunctionOnSet(f, T) + SumFunctionOnSet(f, S \ T) BY SumSplit
<1> QED BY <1>2, <1>3

(* The sum over a part, as a sum of the whole with zeros.                  *)
LEMMA SumWithin ==
  ASSUME NEW S, IsFiniteSet(S), NEW f, \A x \in S : f[x] \in Int, NEW T \in SUBSET S
  PROVE  SumFunctionOnSet([x \in S |-> IF x \in T THEN f[x] ELSE 0], S) = SumFunctionOnSet(f, T)
<1> DEFINE g == [x \in S |-> IF x \in T THEN f[x] ELSE 0]
<1>1. IsFiniteSet(T) /\ IsFiniteSet(S \ T) BY FS_Subset
<1>2. SumFunctionOnSet(g, T) = SumFunctionOnSet(f, T) BY <1>1, SumEqual
<1>3. SumFunctionOnSet(g, S \ T) = 0 BY <1>1, SumZero
<1>4. SumFunctionOnSet(f, T) \in Int BY <1>1, SumType
<1>5. \A x \in S : g[x] \in Int OBVIOUS
<1> HIDE DEF g
<1>6. SumFunctionOnSet(g, S) = SumFunctionOnSet(g, T) + SumFunctionOnSet(g, S \ T) BY <1>5, SumSplit
<1>7. SumFunctionOnSet(g, S) = SumFunctionOnSet(f, T) BY <1>2, <1>3, <1>4, <1>6
<1> QED BY <1>7 DEF g

(* The sum after one value has changed.                                    *)
LEMMA SumChanges ==
  ASSUME NEW S, IsFiniteSet(S), NEW f, NEW g, NEW y \in S,
         \A x \in S : f[x] \in Int /\ g[x] \in Int, \A x \in S \ {y} : g[x] = f[x]
  PROVE  SumFunctionOnSet(g, S) = SumFunctionOnSet(f, S) + g[y] - f[y]
<1>1. IsFiniteSet(S \ {y}) BY FS_Subset
<1>2. SumFunctionOnSet(f, S \ {y}) = SumFunctionOnSet(g, S \ {y}) BY <1>1, SumEqual
<1>3. /\ SumFunctionOnSet(f, S) = f[y] + SumFunctionOnSet(f, S \ {y})
      /\ SumFunctionOnSet(g, S) = g[y] + SumFunctionOnSet(g, S \ {y})
  BY SumAt
<1>4. SumFunctionOnSet(f, S \ {y}) \in Int BY <1>1, SumType
<1> QED BY <1>2, <1>3, <1>4

(* A sum whose values are moved to other places, one value to a place.     *)
LEMMA SumMoved ==
  ASSUME NEW S, IsFiniteSet(S), NEW T, IsFiniteSet(T), NEW f, \A x \in S : f[x] \in Int,
         NEW h \in [S -> T], \A x, y \in S : h[x] = h[y] => x = y,
         NEW g, \A x \in S : g[h[x]] = f[x],
         \A t \in T : (\A x \in S : h[x] # t) => g[t] = 0
  PROVE  SumFunctionOnSet(g, T) = SumFunctionOnSet(f, S)
<1> DEFINE Image(U) == {h[x] : x \in U}
           Bad == {U \in SUBSET S : SumFunctionOnSet(f, U) # SumFunctionOnSet(g, Image(U))}
<1>1. \A t \in T : g[t] \in Int
  <2> SUFFICES ASSUME NEW t \in T PROVE g[t] \in Int OBVIOUS
  <2>1. CASE \E x \in S : h[x] = t BY <2>1
  <2>2. CASE \A x \in S : h[x] # t BY <2>2
  <2> QED BY <2>1, <2>2
<1>2. Bad = {}
  <2> SUFFICES ASSUME Bad # {} PROVE FALSE OBVIOUS
  <2>1. PICK U \in Bad : \A V \in Bad : V \subseteq U => V = U
    <3>1. Bad \in SUBSET SUBSET S OBVIOUS
    <3> HIDE DEF Bad
    <3> QED BY <3>1, SmallestSubset
  <2>2. U \in SUBSET S /\ IsFiniteSet(U) /\ \A x \in U : f[x] \in Int BY <2>1, FS_Subset
  <2>3. SumFunctionOnSet(f, U) # SumFunctionOnSet(g, Image(U)) BY <2>1
  <2>4. U # {}
    <3>1. Image({}) = {} OBVIOUS
    <3> HIDE DEF Image
    <3> QED BY <2>3, <3>1, SumEmpty
  <2>5. PICK x \in U : TRUE BY <2>4
  <2>6. U \ {x} \in SUBSET S /\ U \ {x} \subseteq U /\ U \ {x} # U BY <2>2, <2>5
  <2>7. U \ {x} \notin Bad
    <3> HIDE DEF Bad
    <3> QED BY <2>1, <2>6, Zenon
  <2>8. SumFunctionOnSet(f, U \ {x}) = SumFunctionOnSet(g, Image(U \ {x})) BY <2>6, <2>7
  <2>9. SumFunctionOnSet(f, U) = f[x] + SumFunctionOnSet(f, U \ {x}) BY <2>2, <2>5, SumAt
  <2>10. Image(U) \in SUBSET T /\ h[x] \in Image(U) BY <2>2, <2>5
  <2>11. Image(U) \ {h[x]} = Image(U \ {x}) BY <2>2, <2>5
  <2>12. g[h[x]] = f[x] BY <2>2, <2>5
  <2> HIDE DEF Image, Bad
  <2>13. IsFiniteSet(Image(U)) /\ \A t \in Image(U) : g[t] \in Int BY <1>1, <2>10, FS_Subset
  <2>14. SumFunctionOnSet(g, Image(U)) = g[h[x]] + SumFunctionOnSet(g, Image(U) \ {h[x]})
    BY <2>10, <2>13, SumAt
  <2> QED BY <2>3, <2>8, <2>9, <2>11, <2>12, <2>14
<1>3. SumFunctionOnSet(f, S) = SumFunctionOnSet(g, Image(S)) BY <1>2
<1>4. Image(S) \in SUBSET T /\ \A t \in T \ Image(S) : g[t] = 0 OBVIOUS
<1> HIDE DEF Image
<1>5. SumFunctionOnSet(g, T) = SumFunctionOnSet(g, Image(S)) + SumFunctionOnSet(g, T \ Image(S))
  BY <1>1, <1>4, SumSplit
<1>6. SumFunctionOnSet(g, T \ Image(S)) = 0
  <2>1. IsFiniteSet(T \ Image(S)) BY FS_Subset
  <2> QED BY <1>4, <2>1, SumZero
<1>7. SumFunctionOnSet(f, S) \in Int BY SumType
<1> QED BY <1>3, <1>5, <1>6, <1>7

(* The sum after values have been put in places that were empty.           *)
LEMMA SumSpread ==
  ASSUME NEW S, IsFiniteSet(S), NEW T, IsFiniteSet(T), NEW f, \A x \in S : f[x] \in Int,
         NEW h \in [S -> T], \A x, y \in S : h[x] = h[y] => x = y,
         NEW k, NEW g, \A t \in T : k[t] \in Int /\ g[t] \in Int,
         \A x \in S : k[h[x]] = 0 /\ g[h[x]] = f[x],
         \A t \in T : (\A x \in S : h[x] # t) => g[t] = k[t]
  PROVE  SumFunctionOnSet(g, T) = SumFunctionOnSet(k, T) + SumFunctionOnSet(f, S)
<1> DEFINE d == [t \in T |-> g[t] - k[t]]
<1>1. \A t \in T : k[t] \in Int /\ d[t] \in Int /\ g[t] = k[t] + d[t] OBVIOUS
<1>2. \A x \in S : d[h[x]] = f[x] OBVIOUS
<1>3. \A t \in T : (\A x \in S : h[x] # t) => d[t] = 0 OBVIOUS
<1> HIDE DEF d
<1>4. SumFunctionOnSet(d, T) = SumFunctionOnSet(f, S) BY <1>2, <1>3, SumMoved
<1> QED BY <1>1, <1>4, SumPlus

(* A finite set of integers has a least one.                               *)
LEMMA LeastOf ==
  ASSUME NEW S, IsFiniteSet(S), S # {}, \A x \in S : x \in Int
  PROVE  \E x \in S : \A y \in S : x <= y
<1> DEFINE Below(x) == {y \in S : y <= x}
           T == {Below(x) : x \in S}
<1>1. T \in SUBSET SUBSET S /\ T # {} OBVIOUS
<1>2. PICK U \in T : \A V \in T : V \subseteq U => V = U
  <2> HIDE DEF T
  <2>1. T \in SUBSET SUBSET S /\ T # {} BY <1>1
  <2> QED BY <2>1, SmallestSubset
<1>3. PICK x \in S : U = Below(x) OBVIOUS
<1>4. ASSUME NEW y \in S, y < x PROVE FALSE
  <2>1. \A z \in Int : z <= y => z <= x BY <1>4
  <2>2. Below(y) \subseteq Below(x) BY <2>1
  <2>3. x \notin Below(y) /\ x \in Below(x) BY <1>4
  <2>4. Below(y) \in T OBVIOUS
  <2> HIDE DEF T, Below
  <2> QED BY <1>2, <1>3, <2>2, <2>3, <2>4
<1> QED BY <1>4

(* A finite set of integers has a greatest one.                            *)
LEMMA GreatestOf ==
  ASSUME NEW S, IsFiniteSet(S), S # {}, \A x \in S : x \in Int
  PROVE  \E x \in S : \A y \in S : x >= y
<1> DEFINE Above(x) == {y \in S : y >= x}
           T == {Above(x) : x \in S}
<1>1. T \in SUBSET SUBSET S /\ T # {} OBVIOUS
<1>2. PICK U \in T : \A V \in T : V \subseteq U => V = U
  <2> HIDE DEF T
  <2>1. T \in SUBSET SUBSET S /\ T # {} BY <1>1
  <2> QED BY <2>1, SmallestSubset
<1>3. PICK x \in S : U = Above(x) OBVIOUS
<1>4. ASSUME NEW y \in S, y > x PROVE FALSE
  <2>1. \A z \in Int : z >= y => z >= x BY <1>4
  <2>2. Above(y) \subseteq Above(x) BY <2>1
  <2>3. x \notin Above(y) /\ x \in Above(x) BY <1>4
  <2>4. Above(y) \in T OBVIOUS
  <2> HIDE DEF T, Above
  <2> QED BY <1>2, <1>3, <2>2, <2>3, <2>4
<1> QED BY <1>4

----------------------------------------------------------------------------
(* Sequences and sets of one                                               *)

(* A sequence with one element more.                                       *)
LEMMA AppendTo ==
  ASSUME NEW S, NEW s \in Seq(S), NEW e \in S
  PROVE  /\ Append(s, e) \in Seq(S) /\ Len(Append(s, e)) = Len(s) + 1
         /\ Len(s) \in Nat /\ DOMAIN s = 1..Len(s)
         /\ DOMAIN Append(s, e) = DOMAIN s \cup {Len(s) + 1} /\ Len(s) + 1 \notin DOMAIN s
         /\ Append(s, e)[Len(s) + 1] = e
         /\ \A i \in DOMAIN s : Append(s, e)[i] = s[i]
  OBVIOUS

(* A sequence over a set is one over a larger set.                         *)
LEMMA Widen ==
  ASSUME NEW S, NEW T, S \subseteq T, NEW s \in Seq(S)
  PROVE  s \in Seq(T)
  OBVIOUS

(* A sequence with one element replaced, or with all of them.              *)
LEMMA Replace ==
  ASSUME NEW S, NEW s \in Seq(S)
  PROVE  /\ \A i \in DOMAIN s, e \in S :
              /\ [s EXCEPT ![i] = e] \in Seq(S) /\ Len([s EXCEPT ![i] = e]) = Len(s)
              /\ DOMAIN [s EXCEPT ![i] = e] = DOMAIN s
              /\ [s EXCEPT ![i] = e][i] = e
              /\ \A j \in DOMAIN s \ {i} : [s EXCEPT ![i] = e][j] = s[j]
         /\ \A f \in [DOMAIN s -> S] : f \in Seq(S) /\ Len(f) = Len(s) /\ DOMAIN f = DOMAIN s
  OBVIOUS

(* A finite set has one element at most when any two are the same.         *)
LEMMA OneAtMost ==
  ASSUME NEW S
  PROVE  /\ (\A x, y \in S : x = y) => Cardinality(S) <= 1
         /\ IsFiniteSet(S) /\ Cardinality(S) <= 1 => \A x, y \in S : x = y
<1>1. ASSUME \A x, y \in S : x = y PROVE Cardinality(S) <= 1
  <2>1. CASE S = {} BY <2>1, FS_EmptySet
  <2>2. CASE S # {}
    <3>1. PICK x : S = {x} BY <1>1, <2>2
    <3> QED BY <3>1, FS_Singleton
  <2> QED BY <2>1, <2>2
<1>2. ASSUME IsFiniteSet(S), Cardinality(S) <= 1, NEW x \in S, NEW y \in S PROVE x = y
  <2>1. IsFiniteSet(S \ {x}) /\ Cardinality(S \ {x}) = Cardinality(S) - 1
    BY <1>2, FS_RemoveElement
  <2>2. Cardinality(S) \in Nat /\ Cardinality(S \ {x}) \in Nat BY <1>2, <2>1, FS_CardinalityType
  <2>3. Cardinality(S \ {x}) = 0 BY <1>2, <2>1, <2>2
  <2>4. S \ {x} = {} BY <2>1, <2>3, FS_EmptySet
  <2> QED BY <2>4
<1> QED BY <1>1, <1>2
=============================================================================
