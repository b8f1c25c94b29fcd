---------------------------- MODULE FunctionSums ----------------------------
(***************************************************************************)
(* Facts about SumFunctionOnSet(f, S), the sum of f[x] over x in a finite  *)
(* set S, on which the ledger's balances are defined.  They are stated     *)
(* without operator parameters: induction over a finite set takes the set  *)
(* of good subsets instead of a predicate, and rests on the fact that      *)
(* finite sets are well founded under inclusion.  The same fact gives the  *)
(* least number of a set, which stands in for induction over numbers.      *)
(***************************************************************************)
EXTENDS FiniteSetsExt, FiniteSetTheorems, TLAPS

\* Every nonempty collection of subsets of a finite set has a smallest one.
LEMMA SmallestSubset ==
  ASSUME NEW S, IsFiniteSet(S), NEW C \in SUBSET SUBSET S, C # {}
  PROVE  \E U \in C : \A V \in C : V \subseteq U => V = U
<1>1. FiniteSubsetsOf(S) = SUBSET S
  BY FS_FiniteSubsetsOfFinite
<1>2. IsWellFoundedOn(StrictSubsetOrdering(S), SUBSET S)
  BY <1>1, FS_StrictSubsetOrderingWellFounded
<1>3. PICK U \in C : \A V \in C : <<V, U>> \notin StrictSubsetOrdering(S)
  BY <1>2, WFMin
<1>4. ASSUME NEW V \in C, V \subseteq U PROVE V = U
  BY <1>3, <1>4 DEF StrictSubsetOrdering
<1> QED BY <1>4

\* A collection that contains a set as soon as it contains all sets with one
\* element less contains every finite set.
LEMMA SetInduction ==
  ASSUME NEW S, IsFiniteSet(S), NEW Good \in SUBSET SUBSET S,
         \A U \in SUBSET S : (\A x \in U : U \ {x} \in Good) => U \in Good
  PROVE  Good = SUBSET S
<1> SUFFICES ASSUME (SUBSET S) \ Good # {} PROVE FALSE
  OBVIOUS
<1> DEFINE Bad == (SUBSET S) \ Good
<1>1. Bad \in SUBSET SUBSET S /\ Bad # {}
  OBVIOUS
<1> HIDE DEF Bad
<1>2. PICK U \in Bad : \A V \in Bad : V \subseteq U => V = U
  BY <1>1, SmallestSubset
<1>3. U \in SUBSET S /\ U \notin Good
  BY <1>2 DEF Bad
<1>4. ASSUME NEW x \in U PROVE U \ {x} \in Good
  <2>1. U \ {x} \subseteq U /\ U \ {x} # U /\ U \ {x} \in SUBSET S
    BY <1>3
  <2> QED BY <1>2, <2>1 DEF Bad
<1> QED BY <1>3, <1>4

\* Induction over numbers takes a set in the same way: one that has members
\* up to N has a least one.
LEMMA LeastNumber ==
  ASSUME NEW N \in Nat, NEW T \in SUBSET (0..N), T # {}
  PROVE  \E t \in T : \A u \in T : t <= u
<1> DEFINE S == 1..N
           C == {1..t : t \in T}
<1>1. IsFiniteSet(S) /\ C \in SUBSET SUBSET S /\ C # {}
  <2>1. IsFiniteSet(S)
    BY FS_Interval
  <2>2. \A t \in T : t \in Nat /\ t <= N
    OBVIOUS
  <2>3. \A t \in T : 1..t \subseteq S
    BY <2>2
  <2> QED BY <2>1, <2>3
<1>2. PICK U \in C : \A V \in C : V \subseteq U => V = U
  <2> HIDE DEF C, S
  <2> QED BY <1>1, SmallestSubset
<1>3. PICK t \in T : U = 1..t
  OBVIOUS
<1>4. ASSUME NEW u \in T, u < t PROVE FALSE
  <2>1. 1..u \in C /\ 1..u \subseteq 1..t
    BY <1>4
  <2>2. 1..u = 1..t
    BY <1>2, <1>3, <2>1
  <2>3. t \in 1..t /\ t \notin 1..u
    BY <1>4
  <2> QED BY <2>2, <2>3
<1>5. \A u \in T : t <= u
  BY <1>4
<1> QED BY <1>5

-----------------------------------------------------------------------------
(* The recursive function inside the definition of the sum.                *)
Pick(s) == CHOOSE x \in s : TRUE
SumStep(f, g, s) == IF s = {} THEN 0 ELSE f[Pick(s)] + g[s \ {Pick(s)}]
Sums(f, S, g) == g = [s \in SUBSET S |-> SumStep(f, g, s)]

LEMMA SumByChoice ==
  ASSUME NEW f, NEW S
  PROVE  SumFunctionOnSet(f, S) = (CHOOSE g : Sums(f, S, g))[S]
BY DEF SumFunctionOnSet, FoldFunctionOnSet, MapThenFoldSet, Sums, SumStep, Pick

LEMMA SumsAgree ==
  ASSUME NEW f, NEW S, IsFiniteSet(S), NEW T, NEW g, NEW h,
         Sums(f, S, g), Sums(f, T, h), NEW V \in SUBSET S, V \in SUBSET T
  PROVE  g[V] = h[V]
<1> DEFINE Good == {U \in SUBSET (S \cap T) : g[U] = h[U]}
<1>1. IsFiniteSet(S \cap T)
  BY FS_Subset
<1>2. ASSUME NEW U \in SUBSET (S \cap T), \A x \in U : U \ {x} \in Good PROVE U \in Good
  <2>1. g[U] = SumStep(f, g, U) /\ h[U] = SumStep(f, h, U)
    BY DEF Sums
  <2>2. U # {} => Pick(U) \in U
    BY DEF Pick
  <2>3. SumStep(f, g, U) = SumStep(f, h, U)
    BY <1>2, <2>2 DEF SumStep
  <2> QED BY <2>1, <2>3
<1> HIDE DEF Good
<1>3. Good \in SUBSET SUBSET (S \cap T)
  BY DEF Good
<1>4. Good = SUBSET (S \cap T)
  BY <1>1, <1>2, <1>3, SetInduction
<1> QED BY <1>4 DEF Good

\* The recursion has a solution on the subsets of every finite set.
LEMMA SumsExist ==
  ASSUME NEW f, NEW S, IsFiniteSet(S)
  PROVE  \E g : Sums(f, S, g)
<1> DEFINE Good == {U \in SUBSET S : \E g : Sums(f, U, g)}
<1>1. ASSUME NEW U \in SUBSET S, \A x \in U : U \ {x} \in Good PROVE U \in Good
  <2> DEFINE G(V) == CHOOSE g : Sums(f, V, g)
             sum  == [V \in SUBSET U |-> IF V = {} THEN 0
                                        ELSE f[Pick(V)] + G(V \ {Pick(V)})[V \ {Pick(V)}]]
  <2>1. ASSUME NEW V \in SUBSET U, V # U PROVE Sums(f, V, G(V)) /\ IsFiniteSet(V)
    <3>1. PICK x \in U : V \subseteq U \ {x}
      BY <2>1
    <3>2. PICK g : Sums(f, U \ {x}, g)
      BY <1>1
    <3> DEFINE h == [W \in SUBSET V |-> g[W]]
    <3>3. ASSUME NEW W \in SUBSET V PROVE h[W] = SumStep(f, h, W)
      <4>1. g[W] = SumStep(f, g, W)
        BY <3>1, <3>2 DEF Sums
      <4>2. W \ {Pick(W)} \in SUBSET V
        OBVIOUS
      <4> QED BY <4>1, <4>2 DEF SumStep
    <3>4. h = [W \in SUBSET V |-> SumStep(f, h, W)]
      BY <3>3
    <3> HIDE DEF h
    <3>5. Sums(f, V, h)
      BY <3>4 DEF Sums
    <3>6. IsFiniteSet(V)
      BY FS_Subset
    <3> QED BY <3>5, <3>6
  <2>2. ASSUME NEW V \in SUBSET U, V # U PROVE sum[V] = G(V)[V]
    <3> DEFINE W == V \ {Pick(V)}
    <3>1. Sums(f, V, G(V)) /\ IsFiniteSet(V)
      BY <2>1, <2>2
    <3> HIDE DEF G
    <3>2. G(V)[V] = SumStep(f, G(V), V)
      BY <3>1 DEF Sums
    <3>3. CASE V = {}
      BY <3>2, <3>3 DEF SumStep
    <3>4. CASE V # {}
      <4>1. Pick(V) \in V
        BY <3>4 DEF Pick
      <4>2. W \in SUBSET U /\ W # U /\ W \in SUBSET V
        BY <2>2, <4>1
      <4>3. Sums(f, W, G(W)) /\ IsFiniteSet(W)
        BY <2>1, <4>2
      <4>4. G(V)[W] = G(W)[W]
        BY <3>1, <4>2, <4>3, SumsAgree
      <4> QED BY <3>2, <3>4, <4>4 DEF SumStep
    <3> QED BY <3>3, <3>4
  <2>3. ASSUME NEW V \in SUBSET U PROVE sum[V] = SumStep(f, sum, V)
    <3>1. CASE V = {}
      BY <3>1 DEF SumStep
    <3>2. CASE V # {}
      <4>1. V \ {Pick(V)} \in SUBSET U /\ V \ {Pick(V)} # U
        BY <3>2 DEF Pick
      <4>2. sum[V \ {Pick(V)}] = G(V \ {Pick(V)})[V \ {Pick(V)}]
        BY <2>2, <4>1
      <4> QED BY <3>2, <4>2 DEF SumStep
    <3> QED BY <3>1, <3>2
  <2>4. sum = [V \in SUBSET U |-> SumStep(f, sum, V)]
    BY <2>3
  <2> HIDE DEF sum
  <2>5. Sums(f, U, sum)
    BY <2>4 DEF Sums
  <2> QED BY <2>5
<1> HIDE DEF Good
<1>2. Good \in SUBSET SUBSET S
  BY DEF Good
<1>3. Good = SUBSET S
  BY <1>1, <1>2, SetInduction
<1> QED BY <1>3 DEF Good

LEMMA SumUnfold ==
  ASSUME NEW f, NEW S, IsFiniteSet(S)
  PROVE  SumFunctionOnSet(f, S) =
           IF S = {} THEN 0 ELSE f[Pick(S)] + SumFunctionOnSet(f, S \ {Pick(S)})
<1> DEFINE G(V) == CHOOSE g : Sums(f, V, g)
           W    == S \ {Pick(S)}
<1>1. IsFiniteSet(W)
  BY FS_Subset
<1>2. Sums(f, S, G(S)) /\ Sums(f, W, G(W))
  BY <1>1, SumsExist
<1>3. SumFunctionOnSet(f, S) = G(S)[S] /\ SumFunctionOnSet(f, W) = G(W)[W]
  BY SumByChoice
<1> HIDE DEF G
<1>4. G(S)[S] = SumStep(f, G(S), S)
  BY <1>2 DEF Sums
<1>5. G(S)[W] = G(W)[W]
  BY <1>1, <1>2, SumsAgree
<1> QED BY <1>3, <1>4, <1>5 DEF SumStep

-----------------------------------------------------------------------------
(* What the sum of integers is, for every finite set.                      *)
LEMMA SumEmpty ==
  ASSUME NEW f
  PROVE  SumFunctionOnSet(f, {}) = 0
BY FS_EmptySet, SumUnfold

LEMMA SumInt ==
  ASSUME NEW f, NEW S, IsFiniteSet(S), \A x \in S : f[x] \in Int
  PROVE  SumFunctionOnSet(f, S) \in Int
<1> DEFINE Good == {U \in SUBSET S : SumFunctionOnSet(f, U) \in Int}
<1>1. ASSUME NEW U \in SUBSET S, \A x \in U : U \ {x} \in Good PROVE U \in Good
  <2>1. IsFiniteSet(U)
    BY FS_Subset
  <2>2. CASE U = {}
    BY <2>2, SumEmpty
  <2>3. CASE U # {}
    <3>1. Pick(U) \in U
      BY <2>3 DEF Pick
    <3>2. SumFunctionOnSet(f, U) = f[Pick(U)] + SumFunctionOnSet(f, U \ {Pick(U)})
      BY <2>1, <2>3, SumUnfold
    <3>3. SumFunctionOnSet(f, U \ {Pick(U)}) \in Int /\ f[Pick(U)] \in Int
      BY <1>1, <3>1
    <3> QED BY <3>2, <3>3
  <2> QED BY <2>2, <2>3
<1> HIDE DEF Good
<1>2. Good \in SUBSET SUBSET S
  BY DEF Good
<1>3. Good = SUBSET S
  BY <1>1, <1>2, SetInduction
<1> QED BY <1>3 DEF Good

\* The sum does not depend on the element that is taken out first.
LEMMA SumTakeOut ==
  ASSUME NEW f, NEW S, IsFiniteSet(S), \A x \in S : f[x] \in Int, NEW e \in S
  PROVE  SumFunctionOnSet(f, S) = f[e] + SumFunctionOnSet(f, S \ {e})
<1> DEFINE Sum(U) == SumFunctionOnSet(f, U)
           Good == {U \in SUBSET S : \A x \in U : Sum(U) = f[x] + Sum(U \ {x})}
<1>0. ASSUME NEW U \in SUBSET S PROVE IsFiniteSet(U) /\ Sum(U) \in Int
  <2>1. IsFiniteSet(U)
    BY FS_Subset
  <2> QED BY <2>1, SumInt
<1>1. ASSUME NEW U \in SUBSET S, \A x \in U : U \ {x} \in Good PROVE U \in Good
  <2> SUFFICES ASSUME NEW x \in U PROVE Sum(U) = f[x] + Sum(U \ {x})
    OBVIOUS
  <2> DEFINE p == Pick(U)
  <2>1. p \in U
    BY DEF Pick
  <2>2. Sum(U) = f[p] + Sum(U \ {p})
    BY <1>0, SumUnfold
  <2> HIDE DEF p
  <2>3. CASE x = p
    BY <2>2, <2>3
  <2>4. CASE x # p
    <3>1. U \ {p} \in Good /\ U \ {x} \in Good
      BY <1>1, <2>1
    <3>2. Sum(U \ {p}) = f[x] + Sum((U \ {p}) \ {x})
      BY <3>1, <2>4
    <3>3. Sum(U \ {x}) = f[p] + Sum((U \ {x}) \ {p})
      BY <3>1, <2>1, <2>4
    <3>4. (U \ {p}) \ {x} = (U \ {x}) \ {p}
      OBVIOUS
    <3>5. Sum((U \ {x}) \ {p}) \in Int
      BY <1>0
    <3>6. f[p] \in Int /\ f[x] \in Int
      BY <2>1
    <3>7. Sum((U \ {p}) \ {x}) = Sum((U \ {x}) \ {p})
      BY <3>4
    <3> HIDE DEF Sum
    <3> QED BY <2>2, <3>2, <3>3, <3>5, <3>6, <3>7
  <2> QED BY <2>3, <2>4
<1> HIDE DEF Good
<1>2. Good \in SUBSET SUBSET S
  BY DEF Good
<1>3. Good = SUBSET S
  BY <1>1, <1>2, SetInduction
<1> QED BY <1>3 DEF Good

LEMMA SumAdd ==
  ASSUME NEW f, NEW S, IsFiniteSet(S), NEW e, e \notin S,
         \A x \in S \cup {e} : f[x] \in Int
  PROVE  SumFunctionOnSet(f, S \cup {e}) = SumFunctionOnSet(f, S) + f[e]
<1> DEFINE T == S \cup {e}
<1>1. IsFiniteSet(T)
  BY FS_AddElement
<1>2. T \ {e} = S
  OBVIOUS
<1>3. SumFunctionOnSet(f, S) \in Int
  BY SumInt
<1>4. SumFunctionOnSet(f, T) = f[e] + SumFunctionOnSet(f, T \ {e})
  BY <1>1, SumTakeOut
<1>5. f[e] \in Int
  OBVIOUS
<1>6. SumFunctionOnSet(f, T) = f[e] + SumFunctionOnSet(f, S)
  BY <1>2, <1>4
<1> QED BY <1>3, <1>5, <1>6

\* Only the values on the set count.
LEMMA SumSame ==
  ASSUME NEW f, NEW g, NEW S, IsFiniteSet(S), \A x \in S : f[x] = g[x]
  PROVE  SumFunctionOnSet(f, S) = SumFunctionOnSet(g, S)
<1> DEFINE Good == {U \in SUBSET S : SumFunctionOnSet(f, U) = SumFunctionOnSet(g, U)}
<1>1. ASSUME NEW U \in SUBSET S, \A x \in U : U \ {x} \in Good PROVE U \in Good
  <2>1. IsFiniteSet(U)
    BY FS_Subset
  <2>2. CASE U = {}
    BY <2>2, SumEmpty
  <2>3. CASE U # {}
    <3>1. Pick(U) \in U
      BY <2>3 DEF Pick
    <3>2. SumFunctionOnSet(f, U) = f[Pick(U)] + SumFunctionOnSet(f, U \ {Pick(U)})
      BY <2>1, <2>3, SumUnfold
    <3>3. SumFunctionOnSet(g, U) = g[Pick(U)] + SumFunctionOnSet(g, U \ {Pick(U)})
      BY <2>1, <2>3, SumUnfold
    <3>4. SumFunctionOnSet(f, U \ {Pick(U)}) = SumFunctionOnSet(g, U \ {Pick(U)})
      BY <1>1, <3>1
    <3>5. f[Pick(U)] = g[Pick(U)]
      BY <3>1
    <3> QED BY <3>2, <3>3, <3>4, <3>5
  <2> QED BY <2>2, <2>3
<1> HIDE DEF Good
<1>2. Good \in SUBSET SUBSET S
  BY DEF Good
<1>3. Good = SUBSET S
  BY <1>1, <1>2, SetInduction
<1> QED BY <1>3 DEF Good

\* Sums of natural numbers: a part is no more than the whole.
LEMMA SumPart ==
  ASSUME NEW f, NEW S, IsFiniteSet(S), \A x \in S : f[x] \in Nat, NEW T \in SUBSET S
  PROVE  SumFunctionOnSet(f, T) \in Nat /\ SumFunctionOnSet(f, T) <= SumFunctionOnSet(f, S)
<1> DEFINE Sum(U) == SumFunctionOnSet(f, U)
           Good == {U \in SUBSET S : Sum(U) \in Nat /\ Sum(U \cap T) \in Nat
                                       /\ Sum(U \cap T) <= Sum(U)}
<1>1. ASSUME NEW U \in SUBSET S, \A x \in U : U \ {x} \in Good PROVE U \in Good
  <2>1. CASE U = {}
    <3>1. Sum({}) = 0 /\ U \cap T = {}
      BY <2>1, SumEmpty
    <3> QED BY <2>1, <3>1
  <2>2. CASE U # {}
    <3>1. PICK x \in U : TRUE
      BY <2>2
    <3>2. IsFiniteSet(U) /\ IsFiniteSet(U \cap T)
      BY FS_Subset
    <3>3. Sum(U) = f[x] + Sum(U \ {x})
      BY <3>2, SumTakeOut
    <3>4. U \ {x} \in Good
      BY <1>1
    <3>5. x \in T => Sum(U \cap T) = f[x] + Sum((U \cap T) \ {x})
      BY <3>2, SumTakeOut
    <3>6. x \in T => (U \cap T) \ {x} = (U \ {x}) \cap T
      OBVIOUS
    <3>7. x \notin T => U \cap T = (U \ {x}) \cap T
      OBVIOUS
    <3>8. f[x] \in Nat
      OBVIOUS
    <3> HIDE DEF Sum
    <3>9. Sum(U \ {x}) \in Nat /\ Sum((U \ {x}) \cap T) \in Nat
          /\ Sum((U \ {x}) \cap T) <= Sum(U \ {x})
      BY <3>4
    <3>10. CASE x \in T
      <4>1. Sum(U \cap T) = f[x] + Sum((U \ {x}) \cap T)
        BY <3>5, <3>6, <3>10
      <4> QED BY <3>3, <3>8, <3>9, <4>1
    <3>11. CASE x \notin T
      <4>1. Sum(U \cap T) = Sum((U \ {x}) \cap T)
        BY <3>7, <3>11
      <4> QED BY <3>3, <3>8, <3>9, <4>1
    <3> QED BY <3>10, <3>11
  <2> QED BY <2>1, <2>2
<1> HIDE DEF Good
<1>2. Good \in SUBSET SUBSET S
  BY DEF Good
<1>3. Good = SUBSET S
  BY <1>1, <1>2, SetInduction
<1>4. S \cap T = T
  OBVIOUS
<1> QED BY <1>3, <1>4 DEF Good

\* A sum of smaller numbers is smaller.
LEMMA SumBelow ==
  ASSUME NEW f, NEW g, NEW S, IsFiniteSet(S),
         \A x \in S : f[x] \in Nat /\ g[x] \in Nat /\ f[x] <= g[x]
  PROVE  SumFunctionOnSet(f, S) <= SumFunctionOnSet(g, S)
<1> DEFINE F(U) == SumFunctionOnSet(f, U)
           G(U) == SumFunctionOnSet(g, U)
           Good == {U \in SUBSET S : F(U) \in Nat /\ G(U) \in Nat /\ F(U) <= G(U)}
<1>1. ASSUME NEW U \in SUBSET S, \A x \in U : U \ {x} \in Good PROVE U \in Good
  <2>1. IsFiniteSet(U)
    BY FS_Subset
  <2>2. CASE U = {}
    <3>1. F({}) = 0 /\ G({}) = 0
      BY SumEmpty
    <3> QED BY <2>2, <3>1
  <2>3. CASE U # {}
    <3>1. PICK x \in U : TRUE
      BY <2>3
    <3>2. F(U) = f[x] + F(U \ {x})
      BY <2>1, SumTakeOut
    <3>3. G(U) = g[x] + G(U \ {x})
      BY <2>1, SumTakeOut
    <3>4. U \ {x} \in Good
      BY <1>1
    <3>5. f[x] \in Nat /\ g[x] \in Nat /\ f[x] <= g[x]
      OBVIOUS
    <3> HIDE DEF F, G
    <3> QED BY <3>2, <3>3, <3>4, <3>5
  <2> QED BY <2>2, <2>3
<1> HIDE DEF Good
<1>2. Good \in SUBSET SUBSET S
  BY DEF Good
<1>3. Good = SUBSET S
  BY <1>1, <1>2, SetInduction
<1> QED BY <1>3 DEF Good

-----------------------------------------------------------------------------
(* The same for the sum of all values of a function.                       *)
LEMMA TotalOfNone ==
  ASSUME NEW f, DOMAIN f = {}
  PROVE  SumFunction(f) = 0
BY SumEmpty DEF SumFunction

LEMMA TotalNat ==
  ASSUME NEW f, IsFiniteSet(DOMAIN f), \A x \in DOMAIN f : f[x] \in Nat
  PROVE  SumFunction(f) \in Nat
BY SumPart DEF SumFunction

LEMMA TotalSame ==
  ASSUME NEW f, NEW g, IsFiniteSet(DOMAIN f), DOMAIN g = DOMAIN f,
         \A x \in DOMAIN f : f[x] = g[x]
  PROVE  SumFunction(g) = SumFunction(f)
BY SumSame DEF SumFunction

LEMMA TotalGrows ==
  ASSUME NEW f, NEW g, IsFiniteSet(DOMAIN f), NEW e, e \notin DOMAIN f,
         DOMAIN g = DOMAIN f \cup {e}, \A x \in DOMAIN f : g[x] = f[x],
         \A x \in DOMAIN g : g[x] \in Int
  PROVE  SumFunction(g) = SumFunction(f) + g[e]
<1>1. SumFunctionOnSet(g, DOMAIN f \cup {e}) = SumFunctionOnSet(g, DOMAIN f) + g[e]
  BY SumAdd
<1>2. SumFunctionOnSet(g, DOMAIN f) = SumFunctionOnSet(f, DOMAIN f)
  BY SumSame
<1> QED BY <1>1, <1>2 DEF SumFunction

LEMMA TotalOfOne ==
  ASSUME NEW f, NEW e, DOMAIN f = {e}, f[e] \in Int
  PROVE  SumFunction(f) = f[e]
<1>1. SumFunctionOnSet(f, {} \cup {e}) = SumFunctionOnSet(f, {}) + f[e]
  BY FS_EmptySet, SumAdd
<1>2. {} \cup {e} = DOMAIN f
  OBVIOUS
<1> QED BY <1>1, <1>2, SumEmpty DEF SumFunction

LEMMA TotalBelow ==
  ASSUME NEW f, NEW g, IsFiniteSet(DOMAIN g), DOMAIN f \subseteq DOMAIN g,
         \A x \in DOMAIN g : g[x] \in Nat, \A x \in DOMAIN f : f[x] \in Nat /\ f[x] <= g[x]
  PROVE  SumFunction(f) <= SumFunction(g)
<1>1. IsFiniteSet(DOMAIN f) /\ DOMAIN f \in SUBSET DOMAIN g
  BY FS_Subset
<1>2. SumFunctionOnSet(f, DOMAIN f) <= SumFunctionOnSet(g, DOMAIN f)
  BY <1>1, SumBelow
<1>3. SumFunctionOnSet(g, DOMAIN f) <= SumFunctionOnSet(g, DOMAIN g)
  BY <1>1, SumPart
<1>4. /\ SumFunctionOnSet(f, DOMAIN f) \in Nat /\ SumFunctionOnSet(g, DOMAIN f) \in Nat
      /\ SumFunctionOnSet(g, DOMAIN g) \in Nat
  BY <1>1, SumPart
<1> QED BY <1>2, <1>3, <1>4 DEF SumFunction
=============================================================================
