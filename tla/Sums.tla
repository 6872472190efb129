-------------------------------- MODULE Sums --------------------------------
(***************************************************************************)
(* Facts about the sums of the specifications, and about the largest and   *)
(* the smallest of finitely many numbers.  A sum over a set of rows        *)
(* is the community modules' MapThenSumSet, whose value is defined by      *)
(* recursion over finite sets.  Induction over a set is stated here with   *)
(* the set of the subsets for which a fact holds, instead of a predicate.  *)
(***************************************************************************)
EXTENDS Integers, FiniteSets, FiniteSetsExt, FiniteSetTheorems, WellFoundedInduction, TLAPS

(* The sum of the values of f over S. *)
Total(f, S) == MapThenSumSet(LAMBDA x : f[x], S)

-----------------------------------------------------------------------------
LEMMA NumberInduction ==
  ASSUME NEW Good \in SUBSET Nat, 0 \in Good, \A n \in Good : n + 1 \in Good
  PROVE  Good = Nat
<1> DEFINE Bad == Nat \ Good
<1> SUFFICES ASSUME Bad # {} PROVE FALSE OBVIOUS
<1>1. PICK n \in Bad : \A m \in Bad : <<m, n>> \notin OpToRel(<, Nat)
  <2>1. Bad \subseteq Nat OBVIOUS
  <2> HIDE DEF Bad
  <2> QED BY <2>1, NatLessThanWellFounded, WFMin
<1>2. n # 0 /\ n \in Nat OBVIOUS
<1>3. n - 1 \in Nat /\ n - 1 < n BY <1>2
<1>4. <<n - 1, n>> \in OpToRel(<, Nat) BY <1>2, <1>3 DEF OpToRel
<1>5. n - 1 \in Good BY <1>1, <1>3, <1>4
<1> QED BY <1>2, <1>5

\* From the smaller sets to a set, and from a set to one more element.
LEMMA SetDescent ==
  ASSUME NEW S, IsFiniteSet(S), NEW Good \in SUBSET (SUBSET S),
         \A T \in SUBSET S : (\A U \in SUBSET T : U # T => U \in Good) => T \in Good
  PROVE  Good = SUBSET S
<1> DEFINE Bad == (SUBSET S) \ Good
<1> SUFFICES ASSUME Bad # {} PROVE FALSE OBVIOUS
<1>1. IsWellFoundedOn(StrictSubsetOrdering(S), SUBSET S)
  <2>1. FiniteSubsetsOf(S) = SUBSET S BY FS_FiniteSubsetsOfFinite
  <2>2. IsWellFoundedOn(StrictSubsetOrdering(S), FiniteSubsetsOf(S))
    BY FS_StrictSubsetOrderingWellFounded
  <2> QED BY <2>1, <2>2
<1>2. PICK T \in Bad : \A U \in Bad : <<U, T>> \notin StrictSubsetOrdering(S)
  <2>1. Bad \subseteq SUBSET S OBVIOUS
  <2> HIDE DEF Bad
  <2> QED BY <1>1, <2>1, WFMin
<1>3. \A U \in SUBSET T : U # T => U \in Good BY <1>2 DEF StrictSubsetOrdering
<1> QED BY <1>3

LEMMA SetInduction ==
  ASSUME NEW S, IsFiniteSet(S), NEW Good \in SUBSET (SUBSET S),
         {} \in Good,
         \A T \in Good : \A x \in S \ T : T \cup {x} \in Good
  PROVE  Good = SUBSET S
<1>1. ASSUME NEW T \in SUBSET S, \A U \in SUBSET T : U # T => U \in Good
      PROVE  T \in Good
  <2>1. SUFFICES ASSUME T # {} PROVE T \in Good OBVIOUS
  <2>2. PICK x \in T : TRUE BY <2>1
  <2>3. T \ {x} \in Good /\ x \in S \ (T \ {x}) BY <1>1
  <2>4. (T \ {x}) \cup {x} = T OBVIOUS
  <2> QED BY <2>3, <2>4
<1> QED BY <1>1, SetDescent

-----------------------------------------------------------------------------
(* The recursion behind a sum, and that some function satisfies it.        *)
Pick(s) == CHOOSE x \in s : TRUE
Recurs(sum, f, D) == sum = [s \in D |-> IF s = {} THEN 0 ELSE f[Pick(s)] + sum[s \ {Pick(s)}]]

LEMMA TotalIsRecursive ==
  ASSUME NEW f, NEW S
  PROVE  Total(f, S) = (CHOOSE sum : Recurs(sum, f, SUBSET S))[S]
BY DEF Total, MapThenSumSet, MapThenFoldSet, Recurs, Pick

\* The subsets of S with at most n elements.
UpTo(S, n) == {T \in SUBSET S : Cardinality(T) <= n}

LEMMA RecursionExists ==
  ASSUME NEW f, NEW S, IsFiniteSet(S)
  PROVE  \E sum : Recurs(sum, f, SUBSET S)
<1> DEFINE Good == {n \in Nat : \E sum : Recurs(sum, f, UpTo(S, n))}
<1>0. \A T \in SUBSET S : IsFiniteSet(T) /\ Cardinality(T) \in Nat
  BY FS_Subset, FS_CardinalityType
<1>1. 0 \in Good
  <2> DEFINE sum == [s \in UpTo(S, 0) |-> 0]
  <2>1. \A s \in UpTo(S, 0) : s = {} BY <1>0, FS_EmptySet DEF UpTo
  <2>2. Recurs(sum, f, UpTo(S, 0)) BY <2>1 DEF Recurs
  <2> QED BY <2>2
<1>2. ASSUME NEW n \in Good PROVE n + 1 \in Good
  <2> DEFINE step(sum) == [s \in UpTo(S, n + 1) |->
                             IF s = {} THEN 0 ELSE f[Pick(s)] + sum[s \ {Pick(s)}]]
  <2>1. PICK sum : Recurs(sum, f, UpTo(S, n)) OBVIOUS
  <2>2. \A s \in UpTo(S, n) : step(sum)[s] = sum[s]
    <3>1. UpTo(S, n) \subseteq UpTo(S, n + 1) BY <1>0 DEF UpTo
    <3> QED BY <2>1, <3>1 DEF Recurs
  <2>3. \A s \in UpTo(S, n + 1) : s # {} => s \ {Pick(s)} \in UpTo(S, n)
    <3> SUFFICES ASSUME NEW s \in UpTo(S, n + 1), s # {} PROVE s \ {Pick(s)} \in UpTo(S, n)
      OBVIOUS
    <3>1. Pick(s) \in s BY DEF Pick
    <3>2. IsFiniteSet(s) /\ Cardinality(s) \in Nat BY <1>0 DEF UpTo
    <3>3. Cardinality(s \ {Pick(s)}) = Cardinality(s) - 1 BY <3>1, <3>2, FS_RemoveElement
    <3> QED BY <3>2, <3>3 DEF UpTo
  <2>4. Recurs(step(sum), f, UpTo(S, n + 1)) BY <2>2, <2>3 DEF Recurs
  <2> QED BY <2>4
<1>3. Good = Nat
  <2>1. Good \in SUBSET Nat OBVIOUS
  <2> HIDE DEF Good
  <2> QED BY <1>1, <1>2, <2>1, NumberInduction
<1>4. UpTo(S, Cardinality(S)) = SUBSET S BY <1>0, FS_Subset DEF UpTo
<1>5. Cardinality(S) \in Good BY <1>3, <1>0
<1> QED BY <1>4, <1>5

\* Functions that satisfy the recursion agree.
LEMMA RecursionUnique ==
  ASSUME NEW S, IsFiniteSet(S), NEW D \in SUBSET S, NEW f, NEW g, \A x \in D : f[x] = g[x],
         NEW sum1, NEW sum2, Recurs(sum1, f, SUBSET S), Recurs(sum2, g, SUBSET D)
  PROVE  sum1[D] = sum2[D]
<1> DEFINE Good == {T \in SUBSET D : sum1[T] = sum2[T]}
<1>0. IsFiniteSet(D) BY FS_Subset
<1>1. ASSUME NEW T \in SUBSET D, \A U \in SUBSET T : U # T => U \in Good
      PROVE  T \in Good
  <2>1. T \in SUBSET S OBVIOUS
  <2>2. CASE T = {} BY <2>1, <2>2 DEF Recurs
  <2>3. CASE T # {}
    <3>1. Pick(T) \in T BY <2>3 DEF Pick
    <3>2. sum1[T \ {Pick(T)}] = sum2[T \ {Pick(T)}] BY <1>1, <3>1
    <3>3. f[Pick(T)] = g[Pick(T)] BY <3>1
    <3>4. /\ sum1[T] = f[Pick(T)] + sum1[T \ {Pick(T)}]
          /\ sum2[T] = g[Pick(T)] + sum2[T \ {Pick(T)}]
      BY <2>1, <2>3 DEF Recurs
    <3> QED BY <3>2, <3>3, <3>4
  <2> QED BY <2>2, <2>3
<1>2. Good = SUBSET D
  <2>1. Good \in SUBSET (SUBSET D) OBVIOUS
  <2> HIDE DEF Good
  <2> QED BY <1>0, <1>1, <2>1, SetDescent
<1>3. D \in Good BY <1>2
<1> QED BY <1>3

-----------------------------------------------------------------------------
(* A sum depends on the values over its set only.                          *)
LEMMA TotalSame ==
  ASSUME NEW S, IsFiniteSet(S), NEW f, NEW g, \A x \in S : f[x] = g[x]
  PROVE  Total(f, S) = Total(g, S)
<1> DEFINE chosen(h) == CHOOSE sum : Recurs(sum, h, SUBSET S)
<1>1. Recurs(chosen(f), f, SUBSET S) /\ Recurs(chosen(g), g, SUBSET S) BY RecursionExists
<1>2. Total(f, S) = chosen(f)[S] /\ Total(g, S) = chosen(g)[S] BY TotalIsRecursive
<1> HIDE DEF chosen
<1> QED BY <1>1, <1>2, RecursionUnique

LEMMA TotalEmpty == \A f : Total(f, {}) = 0
<1> SUFFICES ASSUME NEW f PROVE Total(f, {}) = 0 OBVIOUS
<1> DEFINE chosen == CHOOSE sum : Recurs(sum, f, SUBSET {})
<1>1. Recurs(chosen, f, SUBSET {}) BY RecursionExists, FS_EmptySet
<1>2. Total(f, {}) = chosen[{}] BY TotalIsRecursive
<1> HIDE DEF chosen
<1> QED BY <1>1, <1>2 DEF Recurs

LEMMA TotalPick ==
  ASSUME NEW S, IsFiniteSet(S), S # {}, NEW f
  PROVE  Total(f, S) = f[Pick(S)] + Total(f, S \ {Pick(S)})
<1> DEFINE rest == S \ {Pick(S)}
           chosen(T) == CHOOSE sum : Recurs(sum, f, SUBSET T)
<1>1. IsFiniteSet(rest) BY FS_RemoveElement
<1>2. Recurs(chosen(S), f, SUBSET S) /\ Recurs(chosen(rest), f, SUBSET rest)
  BY <1>1, RecursionExists
<1>3. Total(f, S) = chosen(S)[S] /\ Total(f, rest) = chosen(rest)[rest] BY TotalIsRecursive
<1>4. chosen(S)[rest] = chosen(rest)[rest]
  <2>1. rest \in SUBSET S OBVIOUS
  <2> HIDE DEF chosen, rest
  <2> QED BY <1>2, <2>1, RecursionUnique
<1>5. chosen(S)[S] = f[Pick(S)] + chosen(S)[rest]
  <2> HIDE DEF chosen
  <2> QED BY <1>2 DEF Recurs
<1> QED BY <1>3, <1>4, <1>5

(* A sum of integers is an integer, and of naturals a natural.             *)
LEMMA TotalType ==
  ASSUME NEW S, IsFiniteSet(S), NEW f, NEW Numbers \in {Nat, Int}, \A x \in S : f[x] \in Numbers
  PROVE  Total(f, S) \in Numbers
<1> DEFINE Good == {T \in SUBSET S : Total(f, T) \in Numbers}
<1>1. ASSUME NEW T \in SUBSET S, \A U \in SUBSET T : U # T => U \in Good
      PROVE  T \in Good
  <2>1. CASE T = {} BY <2>1, TotalEmpty
  <2>2. CASE T # {}
    <3>1. Pick(T) \in T BY <2>2 DEF Pick
    <3>2. Total(f, T \ {Pick(T)}) \in Numbers BY <1>1, <3>1
    <3>3. Total(f, T) = f[Pick(T)] + Total(f, T \ {Pick(T)}) BY <2>2, FS_Subset, TotalPick
    <3>4. f[Pick(T)] \in Numbers BY <3>1
    <3> QED BY <3>2, <3>3, <3>4
  <2> QED BY <2>1, <2>2
<1>2. Good = SUBSET S
  <2>1. Good \in SUBSET (SUBSET S) OBVIOUS
  <2> HIDE DEF Good
  <2> QED BY <1>1, <2>1, SetDescent
<1>3. S \in Good BY <1>2
<1> QED BY <1>3

(* The order in which the elements are taken does not matter.              *)
LEMMA TotalRemove ==
  ASSUME NEW S, IsFiniteSet(S), NEW f, \A x \in S : f[x] \in Int, NEW x \in S
  PROVE  Total(f, S) = f[x] + Total(f, S \ {x})
<1> DEFINE Good == {T \in SUBSET S : \A y \in T : Total(f, T) = f[y] + Total(f, T \ {y})}
<1>0. \A T \in SUBSET S : IsFiniteSet(T) /\ Total(f, T) \in Int BY FS_Subset, TotalType
<1>1. ASSUME NEW T \in SUBSET S, \A U \in SUBSET T : U # T => U \in Good
      PROVE  T \in Good
  <2>1. SUFFICES ASSUME NEW y \in T, y # Pick(T) PROVE Total(f, T) = f[y] + Total(f, T \ {y})
    BY <1>0, TotalPick
  <2> DEFINE z == Pick(T)
  <2>2. z \in T BY <2>1 DEF Pick
  <2>3. Total(f, T) = f[z] + Total(f, T \ {z}) BY <1>0, <2>1, TotalPick
  <2>4. Total(f, T \ {z}) = f[y] + Total(f, (T \ {z}) \ {y}) BY <1>1, <2>1, <2>2
  <2>5. Total(f, T \ {y}) = f[z] + Total(f, (T \ {y}) \ {z}) BY <1>1, <2>1, <2>2
  <2> DEFINE rest == (T \ {y}) \ {z}
  <2>6. (T \ {z}) \ {y} = rest OBVIOUS
  <2>7. /\ f[y] \in Int /\ f[z] \in Int
        /\ Total(f, rest) \in Int
    BY <1>0, <2>2
  <2>8. Total(f, T) = f[z] + (f[y] + Total(f, rest)) BY <2>3, <2>4, <2>6
  <2>9. Total(f, T \ {y}) = f[z] + Total(f, rest) BY <2>5
  <2> HIDE DEF rest, z
  <2> QED BY <2>7, <2>8, <2>9
<1>2. Good = SUBSET S
  <2>1. Good \in SUBSET (SUBSET S) OBVIOUS
  <2> HIDE DEF Good
  <2> QED BY <1>1, <2>1, SetDescent
<1>3. S \in Good BY <1>2
<1> QED BY <1>3

LEMMA TotalAdd ==
  ASSUME NEW S, IsFiniteSet(S), NEW x, x \notin S, NEW f, \A y \in S \cup {x} : f[y] \in Int
  PROVE  Total(f, S \cup {x}) = f[x] + Total(f, S)
<1>1. IsFiniteSet(S \cup {x}) BY FS_AddElement
<1>2. (S \cup {x}) \ {x} = S OBVIOUS
<1> QED BY <1>1, <1>2, TotalRemove

(* One row changes.                                                        *)
LEMMA TotalUpdate ==
  ASSUME NEW S, IsFiniteSet(S), NEW f, NEW g, NEW x \in S,
         \A y \in S : f[y] \in Int /\ g[y] \in Int,
         \A y \in S : y # x => f[y] = g[y]
  PROVE  Total(g, S) = Total(f, S) - f[x] + g[x]
<1>1. IsFiniteSet(S \ {x}) BY FS_RemoveElement
<1>2. Total(f, S) = f[x] + Total(f, S \ {x}) BY TotalRemove
<1>3. Total(g, S) = g[x] + Total(g, S \ {x}) BY TotalRemove
<1>4. Total(f, S \ {x}) = Total(g, S \ {x}) BY <1>1, TotalSame
<1>5. Total(f, S \ {x}) \in Int BY <1>1, TotalType
<1> QED BY <1>2, <1>3, <1>4, <1>5

(* A sum grows with its rows, and with more rows.                          *)
LEMMA TotalMonotone ==
  ASSUME NEW S, IsFiniteSet(S), NEW f, NEW g,
         \A x \in S : f[x] \in Int /\ g[x] \in Int /\ f[x] <= g[x]
  PROVE  Total(f, S) <= Total(g, S)
<1> DEFINE Good == {T \in SUBSET S : Total(f, T) <= Total(g, T)}
<1>0. \A T \in SUBSET S : IsFiniteSet(T) /\ Total(f, T) \in Int /\ Total(g, T) \in Int
  BY FS_Subset, TotalType
<1>1. {} \in Good BY TotalEmpty
<1>2. ASSUME NEW T \in Good, NEW x \in S \ T PROVE T \cup {x} \in Good
  <2>1. Total(f, T \cup {x}) = f[x] + Total(f, T) BY <1>0, TotalAdd
  <2>2. Total(g, T \cup {x}) = g[x] + Total(g, T) BY <1>0, TotalAdd
  <2> QED BY <1>0, <2>1, <2>2
<1>3. Good = SUBSET S
  <2>1. Good \in SUBSET (SUBSET S) OBVIOUS
  <2> HIDE DEF Good
  <2> QED BY <1>1, <1>2, <2>1, SetInduction
<1>4. S \in Good BY <1>3
<1> QED BY <1>4

LEMMA TotalUnion ==
  ASSUME NEW S, IsFiniteSet(S), NEW T, IsFiniteSet(T), S \cap T = {}, NEW f,
         \A x \in S \cup T : f[x] \in Int
  PROVE  Total(f, S \cup T) = Total(f, S) + Total(f, T)
<1> DEFINE Good == {U \in SUBSET T : Total(f, S \cup U) = Total(f, S) + Total(f, U)}
<1>0. \A U \in SUBSET T : /\ IsFiniteSet(U) /\ IsFiniteSet(S \cup U)
                          /\ Total(f, U) \in Int
  BY FS_Subset, FS_Union, TotalType
<1>1. Total(f, S) \in Int BY TotalType
<1>2. {} \in Good
  <2>1. S \cup {} = S OBVIOUS
  <2> QED BY <1>1, <2>1, TotalEmpty
<1>3. ASSUME NEW U \in Good, NEW x \in T \ U PROVE U \cup {x} \in Good
  <2>1. Total(f, U \cup {x}) = f[x] + Total(f, U) BY <1>0, TotalAdd
  <2>2. Total(f, (S \cup U) \cup {x}) = f[x] + Total(f, S \cup U) BY <1>0, TotalAdd
  <2>3. Total(f, S \cup (U \cup {x})) = Total(f, (S \cup U) \cup {x})
    <3>1. S \cup (U \cup {x}) = (S \cup U) \cup {x} OBVIOUS
    <3> QED BY <3>1
  <2>4. f[x] \in Int /\ Total(f, U) \in Int /\ Total(f, S \cup U) = Total(f, S) + Total(f, U)
    BY <1>0
  <2>5. Total(f, S \cup (U \cup {x})) = Total(f, S) + Total(f, U \cup {x})
    BY <1>1, <2>1, <2>2, <2>3, <2>4
  <2> QED BY <2>5
<1>4. Good = SUBSET T
  <2>1. Good \in SUBSET (SUBSET T) OBVIOUS
  <2> HIDE DEF Good
  <2> QED BY <1>2, <1>3, <2>1, SetInduction
<1>5. T \in Good BY <1>4
<1> QED BY <1>5

LEMMA TotalSubset ==
  ASSUME NEW S, IsFiniteSet(S), NEW T \in SUBSET S, NEW f, \A x \in S : f[x] \in Nat
  PROVE  Total(f, T) <= Total(f, S)
<1>1. IsFiniteSet(T) /\ IsFiniteSet(S \ T) BY FS_Subset, FS_Difference
<1>2. Total(f, T) \in Nat /\ Total(f, S \ T) \in Nat BY <1>1, TotalType
<1>3. T \cup (S \ T) = S /\ T \cap (S \ T) = {} OBVIOUS
<1>4. Total(f, S) = Total(f, T) + Total(f, S \ T) BY <1>1, <1>3, TotalUnion
<1> QED BY <1>2, <1>4

LEMMA TotalMember ==
  ASSUME NEW S, IsFiniteSet(S), NEW x \in S, NEW f, \A y \in S : f[y] \in Nat
  PROVE  f[x] <= Total(f, S)
<1>1. IsFiniteSet(S \ {x}) BY FS_RemoveElement
<1>2. Total(f, S) = f[x] + Total(f, S \ {x}) BY TotalRemove
<1>3. Total(f, S \ {x}) \in Nat BY <1>1, TotalType
<1> QED BY <1>2, <1>3

LEMMA TotalZero ==
  ASSUME NEW S, IsFiniteSet(S), NEW f, \A x \in S : f[x] = 0
  PROVE  Total(f, S) = 0
<1> DEFINE Good == {T \in SUBSET S : Total(f, T) = 0}
<1>1. {} \in Good BY TotalEmpty
<1>2. ASSUME NEW T \in Good, NEW x \in S \ T PROVE T \cup {x} \in Good
  <2>1. IsFiniteSet(T) BY FS_Subset
  <2>2. \A y \in T \cup {x} : f[y] \in Int OBVIOUS
  <2>3. Total(f, T \cup {x}) = f[x] + Total(f, T) BY <2>1, <2>2, TotalAdd
  <2> QED BY <2>3
<1>3. Good = SUBSET S
  <2>1. Good \in SUBSET (SUBSET S) OBVIOUS
  <2> HIDE DEF Good
  <2> QED BY <1>1, <1>2, <2>1, SetInduction
<1>4. S \in Good BY <1>3
<1> QED BY <1>4

(* Sums of sums and of differences.                                        *)
LEMMA TotalPlus ==
  ASSUME NEW S, IsFiniteSet(S), NEW f, NEW g, NEW h,
         \A x \in S : f[x] \in Int /\ g[x] \in Int /\ h[x] = f[x] + g[x]
  PROVE  Total(h, S) = Total(f, S) + Total(g, S)
<1> DEFINE Good == {T \in SUBSET S : Total(h, T) = Total(f, T) + Total(g, T)}
<1>0. \A T \in SUBSET S : IsFiniteSet(T) /\ Total(f, T) \in Int /\ Total(g, T) \in Int
  BY FS_Subset, TotalType
<1>1. {} \in Good BY TotalEmpty
<1>2. ASSUME NEW T \in Good, NEW x \in S \ T PROVE T \cup {x} \in Good
  <2>0. \A y \in T \cup {x} : h[y] \in Int OBVIOUS
  <2>1. Total(f, T \cup {x}) = f[x] + Total(f, T) BY <1>0, TotalAdd
  <2>2. Total(g, T \cup {x}) = g[x] + Total(g, T) BY <1>0, TotalAdd
  <2>3. Total(h, T \cup {x}) = h[x] + Total(h, T) BY <1>0, <2>0, TotalAdd
  <2> QED BY <1>0, <2>1, <2>2, <2>3
<1>3. Good = SUBSET S
  <2>1. Good \in SUBSET (SUBSET S) OBVIOUS
  <2> HIDE DEF Good
  <2> QED BY <1>1, <1>2, <2>1, SetInduction
<1>4. S \in Good BY <1>3
<1> QED BY <1>4

(* And of multiples.                                                       *)
LEMMA TotalScale ==
  ASSUME NEW S, IsFiniteSet(S), NEW f, NEW g, NEW k \in Int,
         \A x \in S : f[x] \in Int /\ g[x] = k * f[x]
  PROVE  Total(g, S) = k * Total(f, S)
<1> DEFINE Good == {T \in SUBSET S : Total(g, T) = k * Total(f, T)}
<1>0. \A T \in SUBSET S : IsFiniteSet(T) /\ Total(f, T) \in Int /\ Total(g, T) \in Int
  <2>1. \A T \in SUBSET S : IsFiniteSet(T) BY FS_Subset
  <2>2. \A x \in S : g[x] \in Int OBVIOUS
  <2> QED BY <2>1, <2>2, TotalType
<1>1. {} \in Good BY TotalEmpty
<1>2. ASSUME NEW T \in Good, NEW x \in S \ T PROVE T \cup {x} \in Good
  <2>0. \A y \in T \cup {x} : f[y] \in Int /\ g[y] \in Int OBVIOUS
  <2>1. Total(f, T \cup {x}) = f[x] + Total(f, T) BY <1>0, <2>0, TotalAdd
  <2>2. Total(g, T \cup {x}) = g[x] + Total(g, T) BY <1>0, <2>0, TotalAdd
  <2>3. \A m, n \in Int : k * (m + n) = k * m + k * n OBVIOUS
  <2>4. Total(g, T) = k * Total(f, T) /\ g[x] = k * f[x] OBVIOUS
  <2>5. k * (f[x] + Total(f, T)) = k * f[x] + k * Total(f, T) BY <1>0, <2>3
  <2>6. Total(g, T \cup {x}) = k * Total(f, T \cup {x}) BY <2>1, <2>2, <2>4, <2>5
  <2> QED BY <2>6
<1>3. Good = SUBSET S
  <2>1. Good \in SUBSET (SUBSET S) OBVIOUS
  <2> HIDE DEF Good
  <2> QED BY <1>1, <1>2, <2>1, SetInduction
<1>4. S \in Good BY <1>3
<1> QED BY <1>4

-----------------------------------------------------------------------------
(* The largest and the smallest of finitely many numbers. *)
LEMMA MaxOf ==
  ASSUME NEW S \in SUBSET Int, IsFiniteSet(S), S # {}
  PROVE  Max(S) \in S /\ \A y \in S : y <= Max(S)
<1> DEFINE Good == {T \in SUBSET S : T # {} => \E x \in T : \A y \in T : x >= y}
<1>1. {} \in Good OBVIOUS
<1>2. ASSUME NEW T \in Good, NEW x \in S \ T PROVE T \cup {x} \in Good
  <2>1. CASE T = {} BY <2>1
  <2>2. CASE T # {}
    <3>1. PICK m \in T : \A y \in T : m >= y BY <2>2
    <3>2. CASE x >= m BY <3>1, <3>2
    <3>3. CASE ~(x >= m) BY <3>1, <3>3
    <3> QED BY <3>2, <3>3
  <2> QED BY <2>1, <2>2
<1>3. Good = SUBSET S
  <2>1. Good \in SUBSET (SUBSET S) OBVIOUS
  <2> HIDE DEF Good
  <2> QED BY <1>1, <1>2, <2>1, SetInduction
<1>4. \E x \in S : \A y \in S : x >= y BY <1>3
<1> QED BY <1>4 DEF Max

LEMMA MinOf ==
  ASSUME NEW S \in SUBSET Int, IsFiniteSet(S), S # {}
  PROVE  Min(S) \in S /\ \A y \in S : Min(S) <= y
<1> DEFINE Good == {T \in SUBSET S : T # {} => \E x \in T : \A y \in T : x <= y}
<1>1. {} \in Good OBVIOUS
<1>2. ASSUME NEW T \in Good, NEW x \in S \ T PROVE T \cup {x} \in Good
  <2>1. CASE T = {} BY <2>1
  <2>2. CASE T # {}
    <3>1. PICK m \in T : \A y \in T : m <= y BY <2>2
    <3>2. CASE x <= m BY <3>1, <3>2
    <3>3. CASE ~(x <= m) BY <3>1, <3>3
    <3> QED BY <3>2, <3>3
  <2> QED BY <2>1, <2>2
<1>3. Good = SUBSET S
  <2>1. Good \in SUBSET (SUBSET S) OBVIOUS
  <2> HIDE DEF Good
  <2> QED BY <1>1, <1>2, <2>1, SetInduction
<1>4. \E x \in S : \A y \in S : x <= y BY <1>3
<1> QED BY <1>4 DEF Min

LEMMA MaxOfTwo ==
  ASSUME NEW m \in Int, NEW n \in Int
  PROVE  Max({m, n}) = (IF m >= n THEN m ELSE n)
<1>0. IsFiniteSet({m}) BY FS_Singleton
<1>1. {m, n} \in SUBSET Int /\ IsFiniteSet({m, n}) /\ {m, n} # {}
  <2>1. {m} \cup {n} = {m, n} OBVIOUS
  <2> QED BY <1>0, <2>1, FS_AddElement
<1>2. Max({m, n}) \in {m, n} /\ \A y \in {m, n} : y <= Max({m, n}) BY <1>1, MaxOf
<1> QED BY <1>2

LEMMA MinOfTwo ==
  ASSUME NEW m \in Int, NEW n \in Int
  PROVE  Min({m, n}) = (IF m <= n THEN m ELSE n)
<1>0. IsFiniteSet({m}) BY FS_Singleton
<1>1. {m, n} \in SUBSET Int /\ IsFiniteSet({m, n}) /\ {m, n} # {}
  <2>1. {m} \cup {n} = {m, n} OBVIOUS
  <2> QED BY <1>0, <2>1, FS_AddElement
<1>2. Min({m, n}) \in {m, n} /\ \A y \in {m, n} : Min({m, n}) <= y BY <1>1, MinOf
<1> QED BY <1>2
=============================================================================
