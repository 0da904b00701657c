-------------------------------- MODULE Sums --------------------------------
(***************************************************************************)
(* What the proofs need of finite sets: induction over one, the sum of a   *)
(* function over one, and powers of two.                                   *)
(*                                                                         *)
(* SubsetInduction and SetInduction say in terms of a set Good what the    *)
(* library's theorems say in terms of an operator.  The sums are those of  *)
(* the module Functions, which adds up the elements of a set in the order  *)
(* in which CHOOSE takes them: the recursion has a solution (PartialExists)*)
(* and but one (PartialsAgree), so an element may be taken out in any      *)
(* order (SumRemove), and what a transfer does to a sum follows.           *)
(***************************************************************************)
EXTENDS Integers, FiniteSets, Functions, FiniteSetTheorems, WellFoundedInduction, TLAPS

\* The sum of f over S.
Sum(f, S) == SumFunctionOnSet(f, S)

\* The element of s that the fold takes first.
Pick(s) == CHOOSE x \in s : TRUE

\* g tells the sums of f over the subsets of S.
Partial(g, f, S) ==
  g = [s \in SUBSET S |-> IF s = {} THEN 0 ELSE f[Pick(s)] + g[s \ {Pick(s)}]]

\* The fold of the module Functions, spelled out.
LEMMA SumUnfolds ==
  ASSUME NEW f, NEW S
  PROVE  Sum(f, S) = (CHOOSE g : Partial(g, f, S))[S]
BY Zenon DEF Sum, SumFunctionOnSet, FoldFunctionOnSet, MapThenFoldSet, Partial, Pick

\* Induction over the subsets of a finite set.
LEMMA SubsetInduction ==
  ASSUME NEW S, IsFiniteSet(S), NEW Good,
         \A U \in SUBSET S :
           (\A V \in SUBSET S : V \subseteq U /\ V # U => V \in Good) => U \in Good
  PROVE  SUBSET S \subseteq Good
<1> DEFINE bad == {U \in SUBSET S : U \notin Good}
<1> SUFFICES ASSUME bad # {} PROVE FALSE
  OBVIOUS
<1>1. IsWellFoundedOn(StrictSubsetOrdering(S), SUBSET S)
  <2>1. FiniteSubsetsOf(S) = SUBSET S
    BY FS_FiniteSubsetsOfFinite
  <2>2. IsWellFoundedOn(StrictSubsetOrdering(S), FiniteSubsetsOf(S))
    BY FS_StrictSubsetOrderingWellFounded
  <2>3. QED BY <2>1, <2>2
<1>2. bad \subseteq SUBSET S
  OBVIOUS
<1> HIDE DEF bad
<1>3. PICK U \in bad : \A V \in bad : <<V, U>> \notin StrictSubsetOrdering(S)
  BY <1>1, <1>2, WFMin
<1>4. \A V \in SUBSET S : V \subseteq U /\ V # U => V \in Good
  BY <1>2, <1>3 DEF StrictSubsetOrdering, bad
<1>5. QED BY <1>3, <1>4 DEF bad

LEMMA PickIn ==
  ASSUME NEW s, s # {}
  PROVE  Pick(s) \in s
BY DEF Pick

\* What a solution of the recursion is for one set.
LEMMA PartialAt ==
  ASSUME NEW S, NEW f, NEW g, Partial(g, f, S), NEW s \in SUBSET S
  PROVE  /\ s = {} => g[s] = 0
         /\ s # {} => g[s] = f[Pick(s)] + g[s \ {Pick(s)}]
BY DEF Partial

\* Two solutions agree where both are defined.
LEMMA PartialsAgree ==
  ASSUME NEW S, IsFiniteSet(S), NEW f, NEW A \in SUBSET S, NEW B \in SUBSET S,
         NEW g, Partial(g, f, A), NEW h, Partial(h, f, B),
         NEW s \in SUBSET (A \cap B)
  PROVE  g[s] = h[s]
<1> DEFINE Good == {t \in SUBSET S : t \subseteq A \cap B => g[t] = h[t]}
<1>1. ASSUME NEW U \in SUBSET S,
             \A V \in SUBSET S : V \subseteq U /\ V # U => V \in Good
      PROVE  U \in Good
  <2> SUFFICES ASSUME U \subseteq A \cap B PROVE g[U] = h[U]
    OBVIOUS
  <2>1. CASE U = {}
    BY <2>1, PartialAt
  <2>2. CASE U # {}
    <3> DEFINE V == U \ {Pick(U)}
    <3>1. V \subseteq U /\ V # U /\ V \in SUBSET S /\ V \subseteq A \cap B
      BY <2>2, PickIn
    <3>2. g[V] = h[V]
      BY <1>1, <3>1
    <3>3. g[U] = f[Pick(U)] + g[V] /\ h[U] = f[Pick(U)] + h[V]
      BY <2>2, PartialAt
    <3>4. QED BY <3>2, <3>3
  <2>3. QED BY <2>1, <2>2
<1> HIDE DEF Good
<1>2. SUBSET S \subseteq Good
  BY <1>1, SubsetInduction
<1>3. QED BY <1>2 DEF Good

\* There is a solution.
LEMMA PartialExists ==
  ASSUME NEW S, IsFiniteSet(S), NEW f
  PROVE  \E g : Partial(g, f, S)
<1> DEFINE Good == {U \in SUBSET S : \E g : Partial(g, f, U)}
<1>1. ASSUME NEW U \in SUBSET S,
             \A V \in SUBSET S : V \subseteq U /\ V # U => V \in Good
      PROVE  U \in Good
  <2> DEFINE P(V) == CHOOSE g : Partial(g, f, V)
             G(V) == P(V)[V]
             whole == [V \in SUBSET U |->
                         IF V = {} THEN 0 ELSE f[Pick(V)] + G(V \ {Pick(V)})]
  <2>1. ASSUME NEW V \in SUBSET U, V # U
        PROVE  Partial(P(V), f, V)
    <3>1. \E g : Partial(g, f, V)
      BY <1>1, <2>1
    <3>2. QED BY <3>1
  <2>2. ASSUME NEW V \in SUBSET U, V # U
        PROVE  whole[V] = G(V)
    <3>0. Partial(P(V), f, V)
      BY <2>1, <2>2
    <3> HIDE DEF P
    <3>1. CASE V = {}
      BY <3>0, <3>1, PartialAt
    <3>2. CASE V # {}
      <4> DEFINE W == V \ {Pick(V)}
      <4>1. W \in SUBSET U /\ W # U /\ W \in SUBSET (V \cap W) /\ V \in SUBSET S /\ W \in SUBSET S
        BY <2>2, <3>2, PickIn
      <4>4. P(V)[V] = f[Pick(V)] + P(V)[W]
        BY <3>0, <3>2, PartialAt
      <4>5. whole[V] = f[Pick(V)] + P(W)[W]
        BY <3>2
      <4>2. Partial(P(W), f, W)
        BY <2>1, <4>1
      <4> HIDE DEF W
      <4>3. P(V)[W] = P(W)[W]
        BY ONLY IsFiniteSet(S), <3>0, <4>1, <4>2, PartialsAgree
      <4>6. QED BY <4>3, <4>4, <4>5
    <3>3. QED BY <3>1, <3>2
  <2> HIDE DEF G
  <2>3. \A V \in SUBSET U : V # {} => V \ {Pick(V)} \in SUBSET U /\ V \ {Pick(V)} # U
    BY PickIn
  <2>4. \A V \in SUBSET U : V # {} => G(V \ {Pick(V)}) = whole[V \ {Pick(V)}]
    BY <2>2, <2>3
  <2>5. whole = [V \in SUBSET U |->
                  IF V = {} THEN 0 ELSE f[Pick(V)] + whole[V \ {Pick(V)}]]
    BY <2>4
  <2>6. Partial(whole, f, U)
    BY <2>5 DEF Partial
  <2>7. QED BY <2>6
<1> HIDE DEF Good
<1>2. SUBSET S \subseteq Good
  BY <1>1, SubsetInduction
<1>3. QED BY <1>2 DEF Good

\* So the sum obeys the recursion.
LEMMA SumFacts ==
  ASSUME NEW S, IsFiniteSet(S), NEW f
  PROVE  /\ S = {} => Sum(f, S) = 0
         /\ S # {} => Sum(f, S) = f[Pick(S)] + Sum(f, S \ {Pick(S)})
<1> DEFINE g == CHOOSE g : Partial(g, f, S)
           T == S \ {Pick(S)}
           h == CHOOSE h : Partial(h, f, T)
<1>1. IsFiniteSet(T)
  BY FS_Subset
<1>2. T \in SUBSET S /\ S \in SUBSET S /\ T \in SUBSET (S \cap T)
  OBVIOUS
<1> HIDE DEF T
<1>3. Partial(g, f, S)
  BY PartialExists
<1>4. Partial(h, f, T)
  BY <1>1, PartialExists
<1>5. Sum(f, S) = g[S] /\ Sum(f, T) = h[T]
  BY SumUnfolds
<1> HIDE DEF g, h
<1>6. g[T] = h[T]
  BY ONLY IsFiniteSet(S), <1>2, <1>3, <1>4, PartialsAgree
<1>7. /\ S = {} => g[S] = 0
      /\ S # {} => g[S] = f[Pick(S)] + g[S \ {Pick(S)}]
  BY <1>2, <1>3, PartialAt
<1>8. QED BY <1>5, <1>6, <1>7 DEF T

LEMMA SumEmpty ==
  ASSUME NEW f
  PROVE  Sum(f, {}) = 0
BY SumFacts, FS_EmptySet

\* Induction over a finite set, one element at a time.
LEMMA SetInduction ==
  ASSUME NEW S, IsFiniteSet(S), NEW Good, {} \in Good,
         \A U \in SUBSET S :
           IsFiniteSet(U) /\ U # {} /\ (\A x \in U : U \ {x} \in Good) => U \in Good
  PROVE  S \in Good
<1>1. ASSUME NEW U \in SUBSET S,
             \A V \in SUBSET S : V \subseteq U /\ V # U => V \in Good
      PROVE  U \in Good
  <2>1. IsFiniteSet(U)
    BY FS_Subset
  <2>2. \A x \in U : U \ {x} \in Good
    BY <1>1
  <2>3. QED BY <2>1, <2>2
<1>2. QED BY <1>1, SubsetInduction, SMTT(30)

\* A sum of integers is an integer.
LEMMA SumInt ==
  ASSUME NEW S, IsFiniteSet(S), NEW f, \A x \in S : f[x] \in Int
  PROVE  Sum(f, S) \in Int
<1> DEFINE Good == {U \in SUBSET S : Sum(f, U) \in Int}
<1>1. {} \in Good
  BY SumFacts, FS_EmptySet
<1>2. ASSUME NEW U \in SUBSET S, IsFiniteSet(U), U # {}, \A x \in U : U \ {x} \in Good
      PROVE  U \in Good
  <2>1. Pick(U) \in U
    BY <1>2, PickIn
  <2>2. Sum(f, U) = f[Pick(U)] + Sum(f, U \ {Pick(U)})
    BY <1>2, SumFacts
  <2>3. QED BY <1>2, <2>1, <2>2
<1> HIDE DEF Good
<1>3. S \in Good
  BY <1>1, <1>2, SetInduction
<1>4. QED BY <1>3 DEF Good

\* Any element may be taken out, not only that which CHOOSE takes.
LEMMA SumRemove ==
  ASSUME NEW S, IsFiniteSet(S), NEW f, \A x \in S : f[x] \in Int, NEW e \in S
  PROVE  Sum(f, S) = f[e] + Sum(f, S \ {e})
<1> DEFINE Good == {U \in SUBSET S : \A x \in U : Sum(f, U) = f[x] + Sum(f, U \ {x})}
<1>1. {} \in Good
  OBVIOUS
<1>2. ASSUME NEW U \in SUBSET S, IsFiniteSet(U), U # {}, \A x \in U : U \ {x} \in Good
      PROVE  U \in Good
  <2> SUFFICES ASSUME NEW x \in U PROVE Sum(f, U) = f[x] + Sum(f, U \ {x})
    OBVIOUS
  <2> DEFINE y == Pick(U)
             V == (U \ {x}) \ {y}
  <2>1. y \in U
    BY <1>2, PickIn
  <2>2. Sum(f, U) = f[y] + Sum(f, U \ {y})
    BY <1>2, SumFacts
  <2>3. CASE x = y
    BY <2>2, <2>3
  <2>4. CASE x # y
    <3>1. x \in U \ {y} /\ y \in U \ {x} /\ V = (U \ {y}) \ {x}
      BY <2>1, <2>4
    <3>2. Sum(f, U \ {y}) = f[x] + Sum(f, V)
      BY <1>2, <2>1, <3>1
    <3>3. Sum(f, U \ {x}) = f[y] + Sum(f, V)
      BY <1>2, <3>1
    <3>4. IsFiniteSet(V)
      BY <1>2, FS_Subset
    <3>5. Sum(f, V) \in Int
      BY <3>4, SumInt
    <3>6. f[x] \in Int /\ f[y] \in Int
      BY <2>1
    <3> HIDE DEF y, V
    <3>7. QED BY <2>2, <3>2, <3>3, <3>5, <3>6
  <2>5. QED BY <2>3, <2>4
<1> HIDE DEF Good
<1>3. S \in Good
  BY <1>1, <1>2, SetInduction
<1>4. QED BY <1>3 DEF Good

\* Functions that agree on the set have the same sum.
LEMMA SumSame ==
  ASSUME NEW S, IsFiniteSet(S), NEW f, NEW g, \A x \in S : f[x] = g[x]
  PROVE  Sum(f, S) = Sum(g, S)
<1> DEFINE Good == {U \in SUBSET S : Sum(f, U) = Sum(g, U)}
<1>1. {} \in Good
  BY SumFacts, FS_EmptySet
<1>2. ASSUME NEW U \in SUBSET S, IsFiniteSet(U), U # {}, \A x \in U : U \ {x} \in Good
      PROVE  U \in Good
  <2>1. Pick(U) \in U
    BY <1>2, PickIn
  <2>2. /\ Sum(f, U) = f[Pick(U)] + Sum(f, U \ {Pick(U)})
        /\ Sum(g, U) = g[Pick(U)] + Sum(g, U \ {Pick(U)})
    BY <1>2, SumFacts
  <2>3. Sum(f, U \ {Pick(U)}) = Sum(g, U \ {Pick(U)})
    BY <1>2, <2>1
  <2>4. QED BY <2>1, <2>2, <2>3
<1> HIDE DEF Good
<1>3. S \in Good
  BY <1>1, <1>2, SetInduction
<1>4. QED BY <1>3 DEF Good

\* A sum of the same number.
LEMMA SumConstant ==
  ASSUME NEW S, IsFiniteSet(S), NEW c \in Int, NEW f, \A x \in S : f[x] = c
  PROVE  Sum(f, S) = c * Cardinality(S)
<1> DEFINE Good == {U \in SUBSET S : Sum(f, U) = c * Cardinality(U)}
<1>1. {} \in Good
  BY SumFacts, FS_EmptySet
<1>2. ASSUME NEW U \in SUBSET S, IsFiniteSet(U), U # {}, \A x \in U : U \ {x} \in Good
      PROVE  U \in Good
  <2> DEFINE y == Pick(U)
             V == U \ {y}
  <2>1. y \in U
    BY <1>2, PickIn
  <2>2. Sum(f, U) = c + Sum(f, V)
    BY <1>2, <2>1, SumFacts
  <2>3. Sum(f, V) = c * Cardinality(V)
    BY <1>2, <2>1
  <2>4. IsFiniteSet(V) /\ Cardinality(V) = Cardinality(U) - 1
    BY <1>2, <2>1, FS_RemoveElement
  <2>5. Cardinality(U) \in Nat
    BY <1>2, FS_CardinalityType
  <2> HIDE DEF y, V
  <2>6. \A n \in Int : c + c * (n - 1) = c * n
    OBVIOUS
  <2>7. Sum(f, U) = c * Cardinality(U)
    BY <2>2, <2>3, <2>4, <2>5, <2>6
  <2>8. QED BY <2>7
<1> HIDE DEF Good
<1>3. S \in Good
  BY <1>1, <1>2, SetInduction
<1>4. QED BY <1>3 DEF Good

\* One element changes.
LEMMA SumChange ==
  ASSUME NEW S, IsFiniteSet(S), NEW e \in S, NEW f, NEW g,
         \A x \in S : f[x] \in Int /\ g[x] \in Int,
         \A x \in S : x # e => g[x] = f[x]
  PROVE  Sum(g, S) = Sum(f, S) + (g[e] - f[e])
<1> DEFINE T == S \ {e}
<1>1. IsFiniteSet(T)
  BY FS_Subset
<1>2. \A x \in T : f[x] = g[x] /\ f[x] \in Int
  OBVIOUS
<1>3. Sum(f, S) = f[e] + Sum(f, T)
  BY SumRemove
<1>4. Sum(g, S) = g[e] + Sum(g, T)
  BY SumRemove
<1> HIDE DEF T
<1>5. Sum(f, T) = Sum(g, T) /\ Sum(f, T) \in Int
  BY <1>1, <1>2, SumSame, SumInt
<1>6. f[e] \in Int /\ g[e] \in Int
  OBVIOUS
<1>7. QED BY <1>3, <1>4, <1>5, <1>6

\* The places of a queue move up by one.
LEMMA SumShift ==
  ASSUME NEW S \in SUBSET Nat, IsFiniteSet(S), NEW f, NEW g,
         \A k \in S : f[k + 1] \in Int /\ g[k] = f[k + 1]
  PROVE  /\ IsFiniteSet({k + 1 : k \in S})
         /\ Sum(f, {k + 1 : k \in S}) = Sum(g, S)
<1> DEFINE Next1(U) == {k + 1 : k \in U}
           Good == {U \in SUBSET S : IsFiniteSet(Next1(U)) /\ Sum(f, Next1(U)) = Sum(g, U)}
<1>1. {} \in Good
  <2>1. Next1({}) = {}
    OBVIOUS
  <2>2. QED BY <2>1, SumEmpty, FS_EmptySet
<1>2. ASSUME NEW U \in SUBSET S, IsFiniteSet(U), U # {}, \A x \in U : U \ {x} \in Good
      PROVE  U \in Good
  <2> DEFINE y == Pick(U)
             V == U \ {y}
  <2>1. y \in U /\ y \in Nat
    BY <1>2, PickIn
  <2>2. Sum(g, U) = g[y] + Sum(g, V)
    BY <1>2, SumFacts
  <2>3. IsFiniteSet(Next1(V)) /\ Sum(f, Next1(V)) = Sum(g, V)
    BY <1>2, <2>1
  <2>4. Next1(U) = Next1(V) \cup {y + 1} /\ Next1(U) \ {y + 1} = Next1(V) /\ y + 1 \in Next1(U)
    BY <2>1
  <2>5. \A x \in Next1(U) : f[x] \in Int
    OBVIOUS
  <2>6. g[y] = f[y + 1]
    BY <2>1
  <2> HIDE DEF y, V, Next1
  <2>7. IsFiniteSet(Next1(U))
    BY <2>3, <2>4, FS_AddElement
  <2>8. Sum(f, Next1(U)) = f[y + 1] + Sum(f, Next1(V))
    <3> DEFINE A == Next1(U)
               z == y + 1
    <3>1. IsFiniteSet(A) /\ z \in A /\ A \ {z} = Next1(V) /\ \A x \in A : f[x] \in Int
      BY <2>4, <2>5, <2>7
    <3> HIDE DEF A, z
    <3>2. Sum(f, A) = f[z] + Sum(f, A \ {z})
      BY ONLY <3>1, SumRemove
    <3>3. QED BY <3>1, <3>2 DEF A, z
  <2>9. QED BY <2>2, <2>3, <2>6, <2>7, <2>8
<1> HIDE DEF Good
<1>3. S \in Good
  BY <1>1, <1>2, SetInduction
<1>4. QED BY <1>3 DEF Good

\* One element more.
LEMMA SumGrows ==
  ASSUME NEW S, IsFiniteSet(S), NEW e, e \notin S, NEW f, NEW g,
         g[e] \in Int, \A x \in S : f[x] \in Int /\ g[x] = f[x]
  PROVE  Sum(g, S \cup {e}) = Sum(f, S) + g[e]
<1> DEFINE T == S \cup {e}
<1>1. IsFiniteSet(T) /\ e \in T /\ T \ {e} = S
  BY FS_AddElement
<1>2. \A x \in T : g[x] \in Int
  OBVIOUS
<1> HIDE DEF T
<1>3. Sum(g, T) = g[e] + Sum(g, T \ {e})
  BY ONLY <1>1, <1>2, SumRemove
<1>4. Sum(g, S) = Sum(f, S)
  BY SumSame
<1>5. Sum(f, S) \in Int
  BY SumInt
<1>6. Sum(g, T) = g[e] + Sum(f, S)
  BY <1>1, <1>3, <1>4, Zenon
<1>7. QED BY <1>5, <1>6 DEF T

\* A queue that is appended to.
LEMMA SumAppend ==
  ASSUME NEW n \in Nat, NEW f, NEW g, g[n + 1] \in Int,
         \A k \in 1..n : f[k] \in Int /\ g[k] = f[k]
  PROVE  Sum(g, 1..(n + 1)) = Sum(f, 1..n) + g[n + 1]
<1> DEFINE S == 1..n
           e == n + 1
<1>1. 1..(n + 1) = S \cup {e} /\ e \notin S
  OBVIOUS
<1>2. IsFiniteSet(S)
  BY FS_Interval
<1>3. Sum(g, S \cup {e}) = Sum(f, S) + g[e]
  <2> HIDE DEF e
  <2>1. \A x \in S : f[x] \in Int /\ g[x] = f[x]
    OBVIOUS
  <2>2. g[e] \in Int
    BY DEF e
  <2> HIDE DEF S
  <2>3. QED BY ONLY <1>1, <1>2, <2>1, <2>2, SumGrows, ZenonT(60)
<1>4. QED BY <1>1, <1>3

\* A queue whose head is taken.
LEMMA SumTail ==
  ASSUME NEW n \in Nat, NEW f, NEW g,
         \A k \in 1..(n + 1) : f[k] \in Int, \A k \in 1..n : g[k] = f[k + 1]
  PROVE  Sum(f, 1..(n + 1)) = f[1] + Sum(g, 1..n)
<1> DEFINE S == 1..n
           T == {k + 1 : k \in S}
           all == 1..(n + 1)
<1>1. S \in SUBSET Nat /\ IsFiniteSet(S) /\ IsFiniteSet(all)
  BY FS_Interval
<1>2. \A k \in S : f[k + 1] \in Int /\ g[k] = f[k + 1]
  OBVIOUS
<1>3. T = all \ {1} /\ 1 \in all /\ \A x \in all : f[x] \in Int
  <2>1. ASSUME NEW x \in all \ {1} PROVE x \in T
    <3>1. x - 1 \in S /\ x = (x - 1) + 1
      OBVIOUS
    <3>2. QED BY <3>1
  <2>2. QED BY <2>1
<1> HIDE DEF S
<1>4. Sum(f, T) = Sum(g, S)
  BY ONLY <1>1, <1>2, SumShift
<1> HIDE DEF T, all
<1>5. Sum(f, all) = f[1] + Sum(f, all \ {1})
  BY ONLY <1>1, <1>3, SumRemove
<1>6. Sum(f, all) = f[1] + Sum(g, S)
  BY <1>3, <1>4, <1>5, Zenon
<1>7. QED BY <1>6 DEF all, S

\* A sum over the whole domain.
LEMMA SumFunctionIs ==
  ASSUME NEW f, NEW S, DOMAIN f = S
  PROVE  SumFunction(f) = Sum(f, S)
BY DEF SumFunction, Sum

\* One value of a function changes.
LEMMA SumUpdate ==
  ASSUME NEW S, IsFiniteSet(S), NEW f \in [S -> Int], NEW e \in S, NEW v \in Int
  PROVE  /\ SumFunction([f EXCEPT ![e] = v]) = SumFunction(f) + (v - f[e])
         /\ SumFunction(f) \in Int
<1> DEFINE g == [f EXCEPT ![e] = v]
<1>1. /\ DOMAIN f = S /\ DOMAIN g = S /\ g[e] = v
      /\ \A x \in S : f[x] \in Int /\ g[x] \in Int
      /\ \A x \in S : x # e => g[x] = f[x]
  OBVIOUS
<1> HIDE DEF g
<1>2. Sum(g, S) = Sum(f, S) + (g[e] - f[e])
  BY ONLY IsFiniteSet(S), e \in S, <1>1, SumChange
<1>3. SumFunction(g) = Sum(g, S) /\ SumFunction(f) = Sum(f, S)
  BY <1>1, SumFunctionIs
<1>4. Sum(f, S) \in Int
  BY <1>1, SumInt
<1>5. QED BY <1>1, <1>2, <1>3, <1>4 DEF g

\* One value of a function moves by d.
LEMMA SumMoves ==
  ASSUME NEW S, IsFiniteSet(S), NEW f \in [S -> Int], NEW f2 \in [S -> Int], NEW e \in S,
         NEW d \in Int, f2[e] = f[e] + d, \A x \in S : x # e => f2[x] = f[x]
  PROVE  SumFunction(f2) = SumFunction(f) + d /\ SumFunction(f) \in Int
<1>1. /\ DOMAIN f = S /\ DOMAIN f2 = S
      /\ \A x \in S : f[x] \in Int /\ f2[x] \in Int
  OBVIOUS
<1>2. Sum(f2, S) = Sum(f, S) + (f2[e] - f[e])
  BY <1>1, SumChange
<1>3. Sum(f, S) \in Int
  BY <1>1, SumInt
<1>4. f[e] \in Int /\ f2[e] - f[e] = d
  OBVIOUS
<1>5. SumFunction(f) = Sum(f, S) /\ SumFunction(f2) = Sum(f2, S)
  BY <1>1, SumFunctionIs
<1>6. QED BY <1>2, <1>3, <1>4, <1>5

\* A power of two counts subsets.
LEMMA PowerIs ==
  ASSUME NEW n \in Nat
  PROVE  2^n \in Nat /\ 2^n >= 1 /\ 2^n = Cardinality(SUBSET (1..n))
<1>1. IsFiniteSet(1..n) /\ Cardinality(1..n) = n
  BY FS_Interval
<1> DEFINE S == 1..n
<1> HIDE DEF S
<1>2. IsFiniteSet(SUBSET S) /\ Cardinality(SUBSET S) = 2^n
  BY <1>1, FS_SUBSET DEF S
<1> DEFINE C == SUBSET S
           c == Cardinality(C)
<1>3. C # {}
  OBVIOUS
<1> HIDE DEF C
<1>4. c \in Nat /\ c # 0
  BY <1>2, <1>3, FS_CardinalityType, FS_EmptySet DEF C
<1>5. QED BY <1>2, <1>4 DEF S, C

\* And doubles with the exponent.
LEMMA PowerDoubles ==
  ASSUME NEW n \in Nat
  PROVE  2^(n + 1) = 2 * 2^n
<1> DEFINE A == SUBSET (1..n)
           x == n + 1
           B == {T \cup {x} : T \in A}
           f == [T \in A |-> T \cup {x}]
<1>1. SUBSET (1..(n + 1)) = A \cup B
  <2>0. 1..(n + 1) = (1..n) \cup {x}
    OBVIOUS
  <2>1. ASSUME NEW T \in SUBSET (1..(n + 1))
        PROVE  T \in A \cup B
    <3>1. CASE x \notin T
      BY <2>0, <3>1
    <3>2. CASE x \in T
      <4>1. T \ {x} \in A /\ T = (T \ {x}) \cup {x}
        BY <2>0, <3>2
      <4>2. QED BY <4>1
    <3>3. QED BY <3>1, <3>2
  <2>2. ASSUME NEW T \in A \cup B
        PROVE  T \in SUBSET (1..(n + 1))
    BY <2>0
  <2>3. QED BY <2>1, <2>2
<1>2. x \notin 1..n
  OBVIOUS
<1> HIDE DEF x
<1>3. A \cap B = {}
  BY <1>2
<1>4. f \in Bijection(A, B)
  <2>1. ASSUME NEW T \in A, NEW U \in A, f[T] = f[U] PROVE T = U
    BY <1>2, <2>1
  <2>2. QED BY <2>1 DEF Bijection, Injection, IsInjective, Surjection
<1>5. IsFiniteSet(A) /\ Cardinality(A) = 2^n
  <2>1. IsFiniteSet(1..n)
    BY FS_Interval
  <2>2. QED BY <2>1, FS_SUBSET, PowerIs
<1> HIDE DEF A, B, f
<1>6. IsFiniteSet(B) /\ Cardinality(B) = 2^n
  <2>1. ExistsBijection(A, B)
    BY <1>4 DEF ExistsBijection
  <2>2. QED BY <1>5, <2>1, FS_Bijection
<1>7. Cardinality(A \cup B) = Cardinality(A) + Cardinality(B) - Cardinality(A \cap B)
  BY <1>5, <1>6, FS_Union
<1>8. Cardinality(A \cap B) = 0
  BY <1>3, FS_EmptySet
<1>9. 2^(n + 1) = Cardinality(SUBSET (1..(n + 1)))
  BY PowerIs
<1> DEFINE p == 2^n
<1>10. p \in Nat
  BY PowerIs
<1> HIDE DEF p
<1>11. Cardinality(A \cup B) = 2 * p
  BY <1>5, <1>6, <1>7, <1>8, <1>10 DEF p
<1>12. QED BY <1>1, <1>9, <1>11 DEF p
=============================================================================
