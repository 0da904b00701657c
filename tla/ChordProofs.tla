---------------------------- MODULE ChordProofs ----------------------------
(***************************************************************************)
(* Proofs about Chord, for every number of bits, every set of nodes and    *)
(* every number of processes that end.                                     *)
(*                                                                         *)
(* The argument.  What a lookup decides by are two things that nodes are   *)
(* told: the first entry of the table and the predecessor.  Both are right *)
(* whenever they are there.  The binary search of the script, which never  *)
(* looks at the first node of its list, ends at a place whose neighbours   *)
(* enclose the key (Place); so the first entry of the table made for n is  *)
(* the node after n (TableFirst), and so is the node that n calls to be    *)
(* its predecessor.  From there it is a matter of intervals and distances  *)
(* on the ring.  Of the other entries no more is needed than that they are *)
(* nodes.                                                                  *)
(***************************************************************************)
EXTENDS Chord, Sums, TLAPS

-----------------------------------------------------------------------------
(* Finite sets of numbers                                                  *)

\* A finite set of numbers that is not empty has a greatest element.
LEMMA GreatestExists ==
  ASSUME NEW S, IsFiniteSet(S), S \subseteq Int, S # {}
  PROVE  \E h \in S : \A x \in S : x <= h
<1> DEFINE Good == {U \in SUBSET S : U = {} \/ \E h \in U : \A x \in U : x <= h}
<1>1. ASSUME NEW U \in SUBSET S, U # {}, \A x \in U : U \ {x} \in Good
      PROVE  U \in Good
  <2>1. PICK u \in U : TRUE
    BY <1>1
  <2>2. U \ {u} \in Good
    BY <1>1
  <2>3. CASE U \ {u} = {}
    <3>1. \A x \in U : x <= u
      BY <2>3
    <3> QED BY <3>1
  <2>4. CASE U \ {u} # {}
    <3>1. PICK h \in U \ {u} : \A x \in U \ {u} : x <= h
      BY <2>2, <2>4
    <3>2. CASE u <= h
      <4>1. \A x \in U : x <= h
        BY <3>1, <3>2
      <4> QED BY <4>1
    <3>3. CASE h < u
      <4>1. \A x \in U : x <= u
        BY <3>1, <3>3
      <4> QED BY <4>1
    <3> QED BY <3>2, <3>3
  <2> QED BY <2>3, <2>4
<1>2. {} \in Good
  OBVIOUS
<1> HIDE DEF Good
<1>3. S \in Good
  BY <1>1, <1>2, SetInduction
<1> QED BY <1>3 DEF Good

\* And a least one.
LEMMA LeastExists ==
  ASSUME NEW S, IsFiniteSet(S), S \subseteq Int, S # {}
  PROVE  \E h \in S : \A x \in S : h <= x
<1> DEFINE Good == {U \in SUBSET S : U = {} \/ \E h \in U : \A x \in U : h <= x}
<1>1. ASSUME NEW U \in SUBSET S, U # {}, \A x \in U : U \ {x} \in Good
      PROVE  U \in Good
  <2>1. PICK u \in U : TRUE
    BY <1>1
  <2>2. U \ {u} \in Good
    BY <1>1
  <2>3. CASE U \ {u} = {}
    <3>1. \A x \in U : u <= x
      BY <2>3
    <3> QED BY <3>1
  <2>4. CASE U \ {u} # {}
    <3>1. PICK h \in U \ {u} : \A x \in U \ {u} : h <= x
      BY <2>2, <2>4
    <3>2. CASE h <= u
      <4>1. \A x \in U : h <= x
        BY <3>1, <3>2
      <4> QED BY <4>1
    <3>3. CASE u < h
      <4>1. \A x \in U : u <= x
        BY <3>1, <3>3
      <4> QED BY <4>1
    <3> QED BY <3>2, <3>3
  <2> QED BY <2>3, <2>4
<1>2. {} \in Good
  OBVIOUS
<1> HIDE DEF Good
<1>3. S \in Good
  BY <1>1, <1>2, SetInduction
<1> QED BY <1>3 DEF Good

\* The sequence q has the elements of S, in ascending order.
Sorted(q, S) ==
  /\ q \in [1..Cardinality(S) -> S]
  /\ Range(q) = S
  /\ \A i, j \in DOMAIN q : i < j => q[i] < q[j]

\* A finite set of numbers can be sorted.
LEMMA SortedExists ==
  ASSUME NEW S, IsFiniteSet(S), S \subseteq Int
  PROVE  \E q : Sorted(q, S)
<1> DEFINE Good == {U \in SUBSET S : \E q : Sorted(q, U)}
<1>1. ASSUME NEW U \in SUBSET S, IsFiniteSet(U), U # {}, \A x \in U : U \ {x} \in Good
      PROVE  U \in Good
  <2>1. PICK h \in U : \A x \in U : x <= h
    BY <1>1, GreatestExists
  <2> DEFINE V == U \ {h}
             n == Cardinality(V)
  <2>2. PICK q : Sorted(q, V)
    BY <1>1
  <2>3. IsFiniteSet(V) /\ n \in Nat /\ Cardinality(U) = n + 1
    <3>1. IsFiniteSet(V) /\ Cardinality(V) = Cardinality(U) - 1
      BY <1>1, FS_RemoveElement
    <3>2. Cardinality(U) \in Nat /\ Cardinality(V) \in Nat
      BY <1>1, <3>1, FS_CardinalityType
    <3> QED BY <3>1, <3>2
  <2>4. /\ V \subseteq U /\ h \in U /\ h \notin V /\ U = V \cup {h}
        /\ \A x \in V : x \in Int /\ x < h
    BY <2>1
  <2> HIDE DEF V, n
  <2> DEFINE p == [i \in 1..(n + 1) |-> IF i = n + 1 THEN h ELSE q[i]]
  <2>5. /\ q \in [1..n -> V] /\ \A x \in V : \E i \in 1..n : q[i] = x
        /\ \A i, j \in 1..n : i < j => q[i] < q[j]
    BY <2>2 DEF Sorted, n, Range
  <2>6. p \in [1..(n + 1) -> U]
    BY <2>3, <2>4, <2>5
  <2>7. \A x \in U : \E i \in 1..(n + 1) : p[i] = x
    BY <2>3, <2>4, <2>5
  <2>8. Range(p) = U
    BY <2>6, <2>7 DEF Range
  <2>9. ASSUME NEW i \in 1..(n + 1), NEW j \in 1..(n + 1), i < j
        PROVE  p[i] < p[j]
    <3>1. i \in 1..n /\ p[i] = q[i] /\ q[i] \in V
      BY <2>3, <2>5, <2>9
    <3>2. CASE j = n + 1
      BY <2>3, <2>4, <3>1, <3>2
    <3>3. CASE j # n + 1
      BY <2>3, <2>5, <2>9, <3>1, <3>3
    <3> QED BY <3>2, <3>3
  <2>10. Sorted(p, U)
    BY <2>3, <2>6, <2>8, <2>9 DEF Sorted
  <2> QED BY <2>10
<1>2. {} \in Good
  <2> DEFINE e == [i \in 1..0 |-> 0]
  <2>1. Cardinality({}) = 0
    BY FS_EmptySet
  <2>2. 1..0 = {}
    OBVIOUS
  <2>3. e \in [1..0 -> {}] /\ Range(e) = {} /\ DOMAIN e = {}
    BY <2>2 DEF Range
  <2>4. Sorted(e, {})
    BY <2>1, <2>3 DEF Sorted
  <2> QED BY <2>4
<1> HIDE DEF Good
<1>3. S \in Good
  BY <1>1, <1>2, SetInduction
<1> QED BY <1>3 DEF Good

\* The list that the script makes is sorted.
LEMMA InOrderSorted ==
  ASSUME NEW S, IsFiniteSet(S), S \subseteq Int
  PROVE  Sorted(InOrder(S), S)
<1>1. PICK q : Sorted(q, S)
  BY SortedExists
<1>2. \E q2 \in [1..Cardinality(S) -> S] :
        Range(q2) = S /\ \A i, j \in DOMAIN q2 : i < j => q2[i] < q2[j]
  BY <1>1 DEF Sorted
<1> QED BY <1>2 DEF InOrder, Sorted
-----------------------------------------------------------------------------
(* The binary search                                                       *)

Ascending(lst, L) ==
  /\ L \in Nat
  /\ lst \in [1..L -> Int]
  /\ \A i, j \in 1..L : i < j => lst[i] < lst[j]

\* The place, after b and not after e, at which the search for k ends.
Place(i, b, e, k, lst) ==
  /\ i \in (b + 1)..e
  /\ i = b + 1 \/ lst[i] < k
  /\ i = e \/ k <= lst[i + 1]

\* There is such a place,
LEMMA PlaceExists ==
  ASSUME NEW L, NEW lst, Ascending(lst, L), NEW k \in Int,
         NEW b \in 0..L, NEW e \in 0..L, b < e
  PROVE  \E i : Place(i, b, e, k, lst)
<1> DEFINE S == {i \in (b + 1)..e : i = e \/ k <= lst[i + 1]}
<1>1. L \in Nat /\ b \in Int /\ e \in Int
  BY DEF Ascending
<1>2. IsFiniteSet((b + 1)..e)
  BY <1>1, FS_Interval
<1>3. S \subseteq (b + 1)..e /\ S \subseteq Int /\ e \in S
  BY <1>1
<1>4. IsFiniteSet(S)
  BY <1>2, <1>3, FS_Subset
<1> HIDE DEF S
<1>5. PICK i \in S : \A j \in S : i <= j
  BY <1>3, <1>4, LeastExists
<1>6. i \in (b + 1)..e /\ (i = e \/ k <= lst[i + 1])
  BY <1>5 DEF S
<1>7. ASSUME i # b + 1 PROVE lst[i] < k
  <2>1. i - 1 \in (b + 1)..e /\ i - 1 # e /\ i \in 1..L
    BY <1>1, <1>6, <1>7
  <2>2. i - 1 \notin S
    BY <1>1, <1>5, <1>6
  <2>3. ~(k <= lst[(i - 1) + 1]) /\ (i - 1) + 1 = i
    BY <1>1, <1>6, <2>1, <2>2 DEF S
  <2>4. lst[i] \in Int
    BY <2>1 DEF Ascending
  <2> QED BY <2>3, <2>4
<1> QED BY <1>6, <1>7 DEF Place

\* and, as the list is sorted, but one.
LEMMA PlaceUnique ==
  ASSUME NEW L, NEW lst, Ascending(lst, L), NEW k \in Int,
         NEW b \in 0..L, NEW e \in 0..L,
         NEW i, Place(i, b, e, k, lst), NEW j, Place(j, b, e, k, lst)
  PROVE  i = j
<1>1. L \in Nat /\ b \in Int /\ e \in Int /\ i \in (b + 1)..e /\ j \in (b + 1)..e
  BY DEF Ascending, Place
<1>2. ASSUME NEW x \in (b + 1)..e, NEW y \in (b + 1)..e, x < y,
             Place(x, b, e, k, lst), Place(y, b, e, k, lst)
      PROVE  FALSE
  <2>1. x + 1 \in 1..L /\ y \in 1..L /\ x # e /\ y # b + 1 /\ x + 1 <= y
    BY <1>1, <1>2
  <2>2. k <= lst[x + 1] /\ lst[y] < k
    BY <1>2, <2>1 DEF Place
  <2>3. lst[x + 1] \in Int /\ lst[y] \in Int
    BY <2>1 DEF Ascending
  <2>4. lst[x + 1] <= lst[y]
    <3>1. CASE x + 1 = y
      BY <2>3, <3>1
    <3>2. CASE x + 1 < y
      BY <2>1, <2>3, <3>2 DEF Ascending
    <3> QED BY <1>1, <2>1, <3>1, <3>2
  <2> QED BY <2>2, <2>3, <2>4
<1> QED BY <1>1, <1>2

\* The place in the half where the search goes on is the place in the whole.
LEMMA PlaceLeft ==
  ASSUME NEW L, NEW lst, Ascending(lst, L), NEW k \in Int,
         NEW b \in 0..L, NEW e \in 0..L, NEW m \in (b + 1)..(e - 1), k <= lst[m + 1],
         NEW i, Place(i, b, m, k, lst)
  PROVE  Place(i, b, e, k, lst)
BY DEF Place, Ascending

LEMMA PlaceRight ==
  ASSUME NEW L, NEW lst, Ascending(lst, L), NEW k \in Int,
         NEW b \in 0..L, NEW e \in 0..L, NEW m \in (b + 1)..(e - 1), ~(k <= lst[m + 1]),
         NEW i, Place(i, m, e, k, lst)
  PROVE  Place(i, b, e, k, lst)
<1>1. m + 1 \in 1..L /\ lst[m + 1] \in Int
  BY DEF Ascending
<1>2. lst[m + 1] < k
  BY <1>1
<1> QED BY <1>2 DEF Place, Ascending

\* The place, as a solution of the search's recursion.
First(b, e, k, lst) == IF b < e THEN CHOOSE i : Place(i, b, e, k, lst) ELSE 0

LEMMA FirstIs ==
  ASSUME NEW L, NEW lst, Ascending(lst, L), NEW k \in Int,
         NEW b \in 0..L, NEW e \in 0..L, b < e
  PROVE  Place(First(b, e, k, lst), b, e, k, lst)
BY PlaceExists DEF First

\* What the search does with the interval <<b, e>>, when g tells the result for a
\* smaller one.
Half(g, b, e, k, lst) ==
  IF b + 1 = e THEN e
  ELSE IF k <= lst[((b + e) \div 2) + 1] THEN g[<<b, (b + e) \div 2>>]
  ELSE g[<<(b + e) \div 2, e>>]

Intervals(L) == (0..L) \X (0..L)

Searches(g, k, lst) ==
  g = [r \in Intervals(Len(lst)) |-> Half(g, r[1], r[2], k, lst)]

\* The recursive function of Bs, spelled out.
LEMMA BsIs ==
  ASSUME NEW k, NEW lst
  PROVE  Bs(k, lst) = (CHOOSE g : Searches(g, k, lst))[<<0, Len(lst)>>]
BY Zenon DEF Bs, Searches, Half, Intervals

\* The halves are smaller than the whole.
LEMMA Middle ==
  ASSUME NEW L \in Nat, NEW b \in 0..L, NEW e \in 0..L
  PROVE  /\ (b + e) \div 2 \in 0..L
         /\ b < e /\ b + 1 # e => (b + e) \div 2 \in (b + 1)..(e - 1)
         /\ ~(b < e) => ~(b < (b + e) \div 2) /\ ~((b + e) \div 2 < e)
OBVIOUS

\* First solves the recursion.
LEMMA FirstStep ==
  ASSUME NEW L, NEW lst, Ascending(lst, L), NEW k \in Int,
         NEW b \in 0..L, NEW e \in 0..L, NEW g,
         \A c, d \in 0..L : g[<<c, d>>] = First(c, d, k, lst)
  PROVE  First(b, e, k, lst) = Half(g, b, e, k, lst)
<1> DEFINE m == (b + e) \div 2
<1>0. L \in Nat
  BY DEF Ascending
<1>1. m \in 0..L
  BY <1>0, Middle
<1>2. b < e /\ b + 1 # e => m \in (b + 1)..(e - 1)
  BY <1>0, Middle
<1>3. ~(b < e) => ~(b < m) /\ ~(m < e)
  BY <1>0, Middle
<1>4. Half(g, b, e, k, lst) =
        IF b + 1 = e THEN e
        ELSE IF k <= lst[m + 1] THEN First(b, m, k, lst) ELSE First(m, e, k, lst)
  BY <1>1 DEF Half
<1> HIDE DEF m
<1>5. CASE ~(b < e)
  <2>1. First(b, e, k, lst) = 0 /\ First(b, m, k, lst) = 0 /\ First(m, e, k, lst) = 0
    BY <1>3, <1>5 DEF First
  <2>2. b + 1 # e
    BY <1>0, <1>5
  <2> QED BY <1>4, <2>1, <2>2
<1>6. CASE b + 1 = e
  <2>1. Place(First(b, e, k, lst), b, e, k, lst)
    BY <1>0, <1>6, FirstIs
  <2>2. First(b, e, k, lst) \in (b + 1)..e
    BY <2>1 DEF Place
  <2>3. First(b, e, k, lst) = e
    BY <1>0, <1>6, <2>2
  <2> QED BY <1>4, <1>6, <2>3
<1>7. CASE b < e /\ b + 1 # e
  <2>1. m \in (b + 1)..(e - 1) /\ b < m /\ m < e
    BY <1>0, <1>1, <1>2, <1>7
  <2>2. Place(First(b, e, k, lst), b, e, k, lst)
    BY <1>7, FirstIs
  <2>3. CASE k <= lst[m + 1]
    <3>1. Place(First(b, m, k, lst), b, m, k, lst)
      BY <1>1, <2>1, FirstIs
    <3>2. Place(First(b, m, k, lst), b, e, k, lst)
      BY <2>1, <2>3, <3>1, PlaceLeft
    <3>3. First(b, e, k, lst) = First(b, m, k, lst)
      BY <2>2, <3>2, PlaceUnique
    <3> QED BY <1>4, <1>7, <2>3, <3>3
  <2>4. CASE ~(k <= lst[m + 1])
    <3>1. Place(First(m, e, k, lst), m, e, k, lst)
      BY <1>1, <2>1, FirstIs
    <3>2. Place(First(m, e, k, lst), b, e, k, lst)
      BY <2>1, <2>4, <3>1, PlaceRight
    <3>3. First(b, e, k, lst) = First(m, e, k, lst)
      BY <2>2, <3>2, PlaceUnique
    <3> QED BY <1>4, <1>7, <2>4, <3>3
  <2> QED BY <2>3, <2>4
<1> QED BY <1>5, <1>6, <1>7

LEMMA SearchExists ==
  ASSUME NEW lst, Ascending(lst, Len(lst)), NEW k \in Int
  PROVE  \E g : Searches(g, k, lst)
<1> DEFINE L == Len(lst)
           g == [r \in Intervals(L) |-> First(r[1], r[2], k, lst)]
<1>1. \A c, d \in 0..L : g[<<c, d>>] = First(c, d, k, lst)
  BY DEF Intervals
<1>2. Ascending(lst, L)
  OBVIOUS
<1>3. \A r \in Intervals(L) : r[1] \in 0..L /\ r[2] \in 0..L
  BY DEF Intervals
<1>6. g = [r \in Intervals(L) |-> g[r]]
  OBVIOUS
<1>7. \A r \in Intervals(L) : g[r] = First(r[1], r[2], k, lst)
  OBVIOUS
<1> HIDE DEF g, L
<1>4. \A r \in Intervals(L) : First(r[1], r[2], k, lst) = Half(g, r[1], r[2], k, lst)
  BY <1>1, <1>2, <1>3, FirstStep
<1>5. g = [r \in Intervals(L) |-> Half(g, r[1], r[2], k, lst)]
  BY <1>4, <1>6, <1>7
<1> QED BY <1>5 DEF Searches, L

LEMMA SearchUnfolds ==
  ASSUME NEW lst, NEW k, NEW g, Searches(g, k, lst),
         NEW b \in 0..Len(lst), NEW e \in 0..Len(lst)
  PROVE  g[<<b, e>>] = Half(g, b, e, k, lst)
<1> DEFINE L == Len(lst)
<1>1. g = [r \in Intervals(L) |-> Half(g, r[1], r[2], k, lst)]
  BY DEF Searches
<1>2. <<b, e>> \in Intervals(L)
  BY DEF Intervals
<1> HIDE DEF L
<1>3. g[<<b, e>>] = Half(g, <<b, e>>[1], <<b, e>>[2], k, lst)
  BY <1>1, <1>2, Zenon
<1> QED BY <1>3

\* Every solution finds the place: there is no smallest interval where it does not.
LEMMA SearchFinds ==
  ASSUME NEW lst, Ascending(lst, Len(lst)), NEW k \in Int, NEW g, Searches(g, k, lst),
         NEW b \in 0..Len(lst), NEW e \in 0..Len(lst), b < e
  PROVE  Place(g[<<b, e>>], b, e, k, lst)
<1> DEFINE L == Len(lst)
           Wrong(c, d) == c < d /\ ~Place(g[<<c, d>>], c, d, k, lst)
           bad == {n \in 0..L : \E c, d \in 0..L : d - c = n /\ Wrong(c, d)}
<1>0. L \in Nat
  BY DEF Ascending
<1>00. Ascending(lst, L)
  OBVIOUS
<1>1. \A c, d \in 0..L : g[<<c, d>>] = Half(g, c, d, k, lst)
  BY SearchUnfolds
<1> HIDE DEF L
<1>2. SUFFICES ASSUME bad # {} PROVE FALSE
  <2>1. CASE Place(g[<<b, e>>], b, e, k, lst)
    BY <2>1
  <2>2. CASE ~Place(g[<<b, e>>], b, e, k, lst)
    <3>1. e - b \in 0..L /\ b \in 0..L /\ e \in 0..L
      BY <1>0 DEF L
    <3>2. e - b \in bad
      BY <2>2, <3>1
    <3> QED BY <3>2
  <2> QED BY <2>1, <2>2
<1>3. IsFiniteSet(0..L)
  BY <1>0, FS_Interval
<1>4. bad \subseteq 0..L /\ bad \subseteq Int
  BY <1>0
<1>5. IsFiniteSet(bad)
  BY <1>3, <1>4, FS_Subset
<1>6. PICK n \in bad : \A o \in bad : n <= o
  <2> HIDE DEF bad
  <2> QED BY <1>2, <1>4, <1>5, LeastExists
<1>7. PICK c \in 0..L, d \in 0..L : d - c = n /\ Wrong(c, d)
  BY <1>6
<1>8. ASSUME NEW x \in 0..L, NEW y \in 0..L, x < y, y - x < d - c
      PROVE  Place(g[<<x, y>>], x, y, k, lst)
  <2>1. y - x \in 0..L
    BY <1>0, <1>8
  <2>2. y - x \notin bad
    <3> HIDE DEF bad
    <3>1. n \in Int /\ y - x \in Int /\ y - x < n
      BY <1>0, <1>4, <1>6, <1>7, <1>8
    <3>2. ~(n <= y - x)
      BY <3>1
    <3> QED BY <1>6, <3>2
  <2> QED BY <1>8, <2>1, <2>2
<1>9. c < d /\ ~Place(g[<<c, d>>], c, d, k, lst)
  BY <1>7
<1> HIDE DEF bad, Wrong
<1> DEFINE m == (c + d) \div 2
<1>10. m \in 0..L /\ (c + 1 # d => m \in (c + 1)..(d - 1))
  BY <1>0, <1>9, Middle
<1>11. g[<<c, d>>] = IF c + 1 = d THEN d
                     ELSE IF k <= lst[m + 1] THEN g[<<c, m>>] ELSE g[<<m, d>>]
  BY <1>1 DEF Half
<1> HIDE DEF m
<1>12. CASE c + 1 = d
  <2>1. Place(d, c, d, k, lst)
    BY <1>0, <1>12 DEF Place
  <2> QED BY <1>9, <1>11, <1>12, <2>1
<1>13. CASE c + 1 # d
  <2>1. c < m /\ m < d /\ m - c < d - c /\ d - m < d - c
    BY <1>0, <1>10, <1>13
  <2>2. CASE k <= lst[m + 1]
    <3>1. Place(g[<<c, m>>], c, m, k, lst)
      BY <1>8, <1>10, <2>1
    <3>2. Place(g[<<c, m>>], c, d, k, lst)
      BY <1>00, <1>10, <1>13, <2>2, <3>1, PlaceLeft
    <3> QED BY <1>9, <1>11, <1>13, <2>2, <3>2
  <2>3. CASE ~(k <= lst[m + 1])
    <3>1. Place(g[<<m, d>>], m, d, k, lst)
      BY <1>8, <1>10, <2>1
    <3>2. Place(g[<<m, d>>], c, d, k, lst)
      BY <1>00, <1>10, <1>13, <2>3, <3>1, PlaceRight
    <3> QED BY <1>9, <1>11, <1>13, <2>3, <3>2
  <2> QED BY <2>2, <2>3
<1> QED BY <1>12, <1>13

\* The search ends at a place that is not the first node of the list, whatever k is.
LEMMA BsFinds ==
  ASSUME NEW lst, Ascending(lst, Len(lst)), Len(lst) > 0, NEW k \in Int
  PROVE  Place(Bs(k, lst), 0, Len(lst), k, lst)
<1> DEFINE g == CHOOSE g : Searches(g, k, lst)
<1>1. Searches(g, k, lst)
  BY SearchExists
<1>2. Bs(k, lst) = g[<<0, Len(lst)>>]
  BY BsIs
<1> HIDE DEF g
<1>3. Len(lst) \in Nat
  BY DEF Ascending
<1>4. Place(g[<<0, Len(lst)>>], 0, Len(lst), k, lst)
  BY <1>1, <1>3, SearchFinds
<1> QED BY <1>2, <1>4
-----------------------------------------------------------------------------
(* The tables                                                              *)

\* The size of the ring.
LEMMA SizeType == 2^M \in Nat /\ 2^M >= 1
BY MAssumption, PowerIs

LEMMA PowerZero == 2^0 = 1
<1>1. 2^0 = Cardinality(SUBSET (1..0))
  BY PowerIs
<1>2. SUBSET (1..0) = {{}}
  OBVIOUS
<1>3. Cardinality({{}}) = 1
  BY FS_Singleton
<1> QED BY <1>1, <1>2, <1>3

\* A remainder once around the ring, in either direction.
LEMMA Remainder ==
  ASSUME NEW z \in Nat, z >= 1, NEW x \in Int, -z <= x, x < z
  PROVE  x % z = IF x < 0 THEN x + z ELSE x
<1>1. CASE x < 0
  BY <1>1
<1>2. CASE ~(x < 0)
  BY <1>2
<1> QED BY <1>1, <1>2

LEMMA RemainderType ==
  ASSUME NEW z \in Nat, z >= 1, NEW x \in Int
  PROVE  x % z \in Int
OBVIOUS

\* The first entry of a table is for the id after that of the node.
LEMMA FingerFirst ==
  ASSUME NEW n \in NodeIds
  PROVE  FingerId(n, 1) = n + 1
<1> DEFINE z == 2^M
<1>1. z \in Nat /\ z >= 1
  BY SizeType
<1>2. 2^(1 - 1) = 1
  BY PowerZero
<1>3. n \in 0..(z - 2)
  BY NodeIdsAssumption
<1>4. FingerId(n, 1) = (n + 1) % z
  BY <1>2 DEF FingerId
<1> HIDE DEF z
<1>5. n + 1 \in Int /\ -z <= n + 1 /\ n + 1 < z /\ ~(n + 1 < 0)
  BY <1>1, <1>3
<1>6. (n + 1) % z = n + 1
  BY <1>1, <1>5, Remainder
<1> QED BY <1>4, <1>6

LEMMA FingerType ==
  ASSUME NEW n \in NodeIds, NEW i \in 1..M
  PROVE  FingerId(n, i) \in Int
<1> DEFINE z == 2^M
           p == 2^(i - 1)
<1>1. z \in Nat /\ z >= 1
  BY SizeType
<1>2. i - 1 \in Nat
  BY MAssumption
<1>3. p \in Nat
  BY <1>2, PowerIs
<1>4. FingerId(n, i) = (n + p) % z
  BY DEF FingerId
<1>5. n \in Int
  BY <1>1, NodeIdsAssumption
<1> HIDE DEF z, p
<1>6. n + p \in Int
  BY <1>3, <1>5
<1> QED BY <1>1, <1>4, <1>6, RemainderType

\* A set of nodes that can form a ring.
Ring(S) == S \subseteq NodeIds /\ IsFiniteSet(S) /\ S # {}

\* The list of the nodes of a ring.
LEMMA RingOrder ==
  ASSUME NEW S, Ring(S)
  PROVE  /\ Len(InOrder(S)) = Cardinality(S)
         /\ Cardinality(S) \in Nat /\ Cardinality(S) > 0
         /\ Ascending(InOrder(S), Cardinality(S))
         /\ InOrder(S) \in [1..Cardinality(S) -> S]
         /\ \A x \in S : \E i \in 1..Cardinality(S) : InOrder(S)[i] = x
<1>1. S \subseteq Int
  BY SizeType, NodeIdsAssumption DEF Ring
<1>2. Sorted(InOrder(S), S)
  BY <1>1, InOrderSorted DEF Ring
<1> DEFINE L == Cardinality(S)
           q == InOrder(S)
<1>3. L \in Nat /\ L # 0
  BY FS_CardinalityType, FS_EmptySet DEF Ring
<1>4. /\ q \in [1..L -> S]
      /\ Range(q) = S
      /\ \A i, j \in 1..L : i < j => q[i] < q[j]
  BY <1>2 DEF Sorted
<1> HIDE DEF L, q
<1>5. Len(q) = L
  BY <1>3, <1>4
<1>6. Ascending(q, L)
  BY <1>1, <1>3, <1>4 DEF Ascending
<1>7. \A x \in S : \E i \in 1..L : q[i] = x
  BY <1>4 DEF Range
<1> QED BY <1>3, <1>4, <1>5, <1>6, <1>7 DEF L, q

\* The table that the script makes for node n of the ring S.
Table(n, S) == CreateFing(n, InOrder(S))

\* x is the node after n on the ring S.
Follows(x, n, S) ==
  /\ x \in S
  /\ \/ n < x /\ \A o \in S : n < o => x <= o
     \/ \A o \in S : o <= n /\ x <= o

\* Every entry is a node, whatever the search finds.
LEMMA TableEntry ==
  ASSUME NEW S, Ring(S), NEW n \in S, NEW i \in 1..M
  PROVE  Table(n, S)[i] \in S
<1> DEFINE q == InOrder(S)
           L == Cardinality(S)
           idx == Bs(FingerId(n, i), q)
<1>1. Len(q) = L /\ L \in Nat /\ L > 0 /\ Ascending(q, L) /\ q \in [1..L -> S]
  BY RingOrder
<1>2. FingerId(n, i) \in Int
  BY FingerType DEF Ring
<1>3. Table(n, S)[i] = IF idx >= L THEN q[1] ELSE q[idx + 1]
  BY <1>1 DEF Table, CreateFing
<1> HIDE DEF q, L
<1>4. Place(idx, 0, L, FingerId(n, i), q)
  BY <1>1, <1>2, BsFinds
<1>5. idx \in 1..L
  BY <1>4 DEF Place
<1> HIDE DEF idx
<1> QED BY <1>1, <1>3, <1>5

LEMMA TableType ==
  ASSUME NEW S, Ring(S), NEW n \in S
  PROVE  Table(n, S) \in [1..M -> S]
<1>1. DOMAIN Table(n, S) = 1..M /\ Table(n, S) = [i \in 1..M |-> Table(n, S)[i]]
  BY DEF Table, CreateFing
<1> QED BY <1>1, TableEntry

\* The first entry is the next node.
LEMMA TableFirst ==
  ASSUME NEW S, Ring(S), NEW n \in S
  PROVE  Follows(Table(n, S)[1], n, S)
<1> DEFINE q == InOrder(S)
           L == Cardinality(S)
           idx == Bs(FingerId(n, 1), q)
<1>1. Len(q) = L /\ L \in Nat /\ L > 0 /\ Ascending(q, L) /\ q \in [1..L -> S]
  BY RingOrder
<1>2. FingerId(n, 1) = n + 1 /\ n \in Int /\ S \subseteq Int
  BY SizeType, NodeIdsAssumption, FingerFirst DEF Ring
<1>3. 1 \in 1..M
  BY MAssumption
<1>4. Table(n, S)[1] = IF idx >= L THEN q[1] ELSE q[idx + 1]
  BY <1>1, <1>3 DEF Table, CreateFing
<1>5. PICK j \in 1..L : q[j] = n
  BY RingOrder
<1>55. \A o \in S : \E i \in 1..L : q[i] = o
  BY RingOrder
<1> HIDE DEF q, L
<1>6. Place(idx, 0, L, n + 1, q)
  BY <1>1, <1>2, BsFinds
<1>7. /\ idx \in 1..L
      /\ idx = 1 \/ q[idx] < n + 1
      /\ idx = L \/ n + 1 <= q[idx + 1]
  BY <1>6 DEF Place
<1> HIDE DEF idx
<1>8. \A x, y \in 1..L : q[x] \in Int /\ q[y] \in Int /\ (x < y => q[x] < q[y])
  BY <1>1, <1>2 DEF Ascending
<1>9. idx <= j
  <2>1. CASE idx = 1
    BY <1>1, <2>1
  <2>2. CASE idx # 1
    BY <1>1, <1>2, <1>5, <1>7, <1>8, <2>2
  <2> QED BY <2>1, <2>2
<1>10. CASE idx = L
  <2>1. Table(n, S)[1] = q[1] /\ j = L
    BY <1>1, <1>4, <1>9, <1>10
  <2>2. ASSUME NEW o \in S PROVE o <= n /\ q[1] <= o
    <3>1. PICK i \in 1..L : q[i] = o
      BY <1>55
    <3>2. o <= n
      BY <1>1, <1>2, <1>5, <1>8, <2>1, <3>1
    <3>3. q[1] <= o
      BY <1>1, <1>2, <1>5, <1>8, <2>1, <3>1
    <3> QED BY <3>2, <3>3
  <2> QED BY <1>1, <2>1, <2>2 DEF Follows
<1>11. CASE idx # L
  <2>1. Table(n, S)[1] = q[idx + 1] /\ idx + 1 \in 1..L
    BY <1>1, <1>4, <1>7, <1>11
  <2>2. n < q[idx + 1] /\ q[idx + 1] \in S
    BY <1>1, <1>2, <1>7, <1>8, <1>11, <2>1
  <2>3. ASSUME NEW o \in S, n < o PROVE q[idx + 1] <= o
    <3>1. PICK i \in 1..L : q[i] = o
      BY <1>55
    <3>2. j < i
      BY <1>1, <1>2, <1>5, <1>8, <2>3, <3>1
    <3>3. idx + 1 <= i
      BY <1>1, <1>7, <1>9, <3>2
    <3>4. CASE idx + 1 = i
      BY <1>2, <3>1, <3>4
    <3>5. CASE idx + 1 < i
      BY <1>1, <1>8, <2>1, <3>1, <3>5
    <3> QED BY <1>7, <3>3, <3>4, <3>5
  <2> QED BY <2>1, <2>2, <2>3 DEF Follows
<1> QED BY <1>10, <1>11
-----------------------------------------------------------------------------
(* Ways around the ring                                                    *)

\* Distance without a remainder.
LEMMA DistanceIs ==
  ASSUME NEW a \in 0..(2^M - 1), NEW b \in (-1)..(2^M - 1)
  PROVE  Distance(a, b) = IF a <= b THEN b - a ELSE (b - a) + 2^M
<1> DEFINE z == 2^M
<1>1. z \in Nat /\ z >= 1
  BY SizeType
<1>2. a \in 0..(z - 1) /\ b \in (-1)..(z - 1)
  OBVIOUS
<1>3. Distance(a, b) = (b - a) % z
  BY DEF Distance
<1> HIDE DEF z
<1>4. b - a \in Int /\ -z <= b - a /\ b - a < z
  BY <1>1, <1>2
<1>5. (b - a) % z = IF b - a < 0 THEN (b - a) + z ELSE b - a
  BY <1>1, <1>4, Remainder
<1>6. Distance(a, b) = IF a <= b THEN b - a ELSE (b - a) + z
  BY <1>1, <1>2, <1>3, <1>5
<1> QED BY <1>6 DEF z

\* x is the first node of the ring S at or after k.
Owns(x, k, S) ==
  /\ x \in S
  /\ \/ k <= x /\ \A o \in S : k <= o => x <= o
     \/ \A o \in S : o < k /\ x <= o

\* x is the last node of the ring S before k.
Precedes(x, k, S) ==
  /\ x \in S
  /\ \/ x < k /\ \A o \in S : o < k => o <= x
     \/ \A o \in S : k <= o /\ o <= x

LEMMA RingIds ==
  ASSUME NEW S, Ring(S), NEW x \in S
  PROVE  x \in 0..(2^M - 2) /\ x \in 0..(2^M - 1) /\ x \in Int /\ x + 1 \in 0..(2^M - 1)
BY SizeType, NodeIdsAssumption DEF Ring

\* The next node owns the next id.
LEMMA FollowerOwns ==
  ASSUME NEW S, Ring(S), NEW n \in S, NEW x \in S, Follows(x, n, S)
  PROVE  Owns(x, n + 1, S)
BY RingIds DEF Follows, Owns

\* A node owns the keys between its predecessor and itself,
LEMMA BetweenOwns ==
  ASSUME NEW S, Ring(S), NEW p \in S, NEW n \in S, Follows(n, p, S),
         NEW k \in Int, k \notin S, IdBetween(p, k, n)
  PROVE  Owns(n, k, S)
<1>1. \A o \in S : o \in Int /\ o # k
  BY RingIds
<1>2. CASE p < n
  BY <1>1, <1>2 DEF Follows, Owns, IdBetween
<1>3. CASE ~(p < n)
  <2>1. \A o \in S : o <= p /\ n <= o
    BY <1>1, <1>3 DEF Follows
  <2>2. k < n \/ p < k
    BY <1>1, <1>3 DEF IdBetween
  <2> QED BY <1>1, <2>1, <2>2 DEF Owns
<1> QED BY <1>2, <1>3

\* and comes before those between itself and its successor.
LEMMA BetweenPrecedes ==
  ASSUME NEW S, Ring(S), NEW n \in S, NEW s \in S, Follows(s, n, S),
         NEW k \in Int, k \notin S, IdBetween(n, k, s)
  PROVE  Precedes(n, k, S)
<1>1. \A o \in S : o \in Int /\ o # k
  BY RingIds
<1>2. CASE n < s
  BY <1>1, <1>2 DEF Follows, Precedes, IdBetween
<1>3. CASE ~(n < s)
  <2>1. \A o \in S : o <= n /\ s <= o
    BY <1>1, <1>3 DEF Follows
  <2>2. k < s \/ n < k
    BY <1>1, <1>3 DEF IdBetween
  <2> QED BY <1>1, <2>1, <2>2 DEF Precedes
<1> QED BY <1>2, <1>3

\* The owner is nearer to the key than all others, measured up from the key;
LEMMA OwnsNearest ==
  ASSUME NEW S, Ring(S), NEW x \in S, NEW k \in 0..(2^M - 1), Owns(x, k, S),
         NEW o \in S, o # x
  PROVE  Distance(k, x) < Distance(k, o)
<1> DEFINE z == 2^M
<1>1. z \in Nat
  BY SizeType
<1>2. x \in 0..(z - 1) /\ o \in 0..(z - 1) /\ k \in 0..(z - 1)
  BY RingIds
<1>3. x \in (-1)..(z - 1) /\ o \in (-1)..(z - 1)
  BY <1>1, <1>2
<1>4. Distance(k, x) = IF k <= x THEN x - k ELSE (x - k) + z
  BY <1>2, <1>3, DistanceIs
<1>5. Distance(k, o) = IF k <= o THEN o - k ELSE (o - k) + z
  BY <1>2, <1>3, DistanceIs
<1> HIDE DEF z
<1>6. CASE k <= x /\ \A y \in S : k <= y => x <= y
  BY <1>1, <1>2, <1>4, <1>5, <1>6
<1>7. CASE \A y \in S : y < k /\ x <= y
  BY <1>1, <1>2, <1>4, <1>5, <1>7
<1> QED BY <1>6, <1>7 DEF Owns

\* the last node before it is nearer, measured up to the key.
LEMMA PrecedesNearest ==
  ASSUME NEW S, Ring(S), NEW x \in S, NEW k \in 0..(2^M - 1), Precedes(x, k, S),
         NEW o \in S, o # x
  PROVE  Distance(x, k - 1) < Distance(o, k - 1)
<1> DEFINE z == 2^M
           l == k - 1
<1>1. z \in Nat
  BY SizeType
<1>2. x \in 0..(z - 1) /\ o \in 0..(z - 1) /\ k \in 0..(z - 1)
  BY RingIds
<1>3. l \in (-1)..(z - 1) /\ l \in Int /\ \A y \in Int : l < y <=> k <= y
  BY <1>1, <1>2
<1>4. Distance(x, l) = IF x <= l THEN l - x ELSE (l - x) + z
  BY <1>2, <1>3, DistanceIs
<1>5. Distance(o, l) = IF o <= l THEN l - o ELSE (l - o) + z
  BY <1>2, <1>3, DistanceIs
<1> HIDE DEF z, l
<1>6. ASSUME x < k, \A y \in S : y < k => y <= x
      PROVE  Distance(x, l) < Distance(o, l)
  BY <1>1, <1>2, <1>3, <1>4, <1>5, <1>6 DEF l
<1>7. ASSUME \A y \in S : k <= y /\ y <= x
      PROVE  Distance(x, l) < Distance(o, l)
  <2>1. o < x /\ l < o /\ l < x
    BY <1>2, <1>3, <1>7
  <2> QED BY <1>1, <1>2, <1>3, <1>4, <1>5, <2>1
<1>8. Distance(x, l) < Distance(o, l)
  BY <1>6, <1>7 DEF Precedes
<1> QED BY <1>8 DEF l

LEMMA DistanceType ==
  ASSUME NEW a \in 0..(2^M - 1), NEW b \in (-1)..(2^M - 1)
  PROVE  Distance(a, b) \in Int
<1>1. 2^M \in Nat
  BY SizeType
<1> QED BY <1>1, DistanceIs

\* So they are what Owner and Before choose.
LEMMA OwnerIs ==
  ASSUME Ring(nodes), NEW x \in nodes, NEW k \in 0..(2^M - 1), Owns(x, k, nodes)
  PROVE  Owner(k) = x
<1>1. \A o \in nodes : o # x => Distance(k, x) < Distance(k, o)
  BY OwnsNearest
<1>2. \A o \in nodes : Distance(k, o) \in Int
  <2> SUFFICES ASSUME NEW o \in nodes PROVE Distance(k, o) \in Int
    OBVIOUS
  <2>1. o \in (-1)..(2^M - 1)
    BY SizeType, RingIds
  <2> QED BY <2>1, DistanceType
<1>3. \A o \in nodes : Distance(k, x) <= Distance(k, o)
  BY <1>1, <1>2
<1>4. ASSUME NEW n \in nodes, \A o \in nodes : Distance(k, n) <= Distance(k, o)
      PROVE  n = x
  BY <1>1, <1>2, <1>4
<1>5. \E n \in nodes : \A o \in nodes : Distance(k, n) <= Distance(k, o)
  BY <1>3
<1> DEFINE n == Owner(k)
<1>6. n \in nodes /\ \A o \in nodes : Distance(k, n) <= Distance(k, o)
  BY <1>5, Zenon DEF Owner
<1> QED BY <1>4, <1>6

LEMMA BeforeIs ==
  ASSUME Ring(nodes), NEW x \in nodes, NEW k \in 0..(2^M - 1), Precedes(x, k, nodes)
  PROVE  Before(k) = x
<1>1. \A o \in nodes : o # x => Distance(x, k - 1) < Distance(o, k - 1)
  BY PrecedesNearest
<1>2. \A o \in nodes : Distance(o, k - 1) \in Int
  <2> SUFFICES ASSUME NEW o \in nodes PROVE Distance(o, k - 1) \in Int
    OBVIOUS
  <2>1. o \in 0..(2^M - 1)
    BY RingIds
  <2>2. k - 1 \in (-1)..(2^M - 1)
    BY SizeType
  <2> QED BY <2>1, <2>2, DistanceType
<1>3. \A o \in nodes : Distance(x, k - 1) <= Distance(o, k - 1)
  BY <1>1, <1>2
<1>4. ASSUME NEW n \in nodes, \A o \in nodes : Distance(n, k - 1) <= Distance(o, k - 1)
      PROVE  n = x
  BY <1>1, <1>2, <1>4
<1>5. \E n \in nodes : \A o \in nodes : Distance(n, k - 1) <= Distance(o, k - 1)
  BY <1>3
<1> DEFINE n == Before(k)
<1>6. n \in nodes /\ \A o \in nodes : Distance(n, k - 1) <= Distance(o, k - 1)
  BY <1>5, Zenon DEF Before
<1> QED BY <1>4, <1>6
-----------------------------------------------------------------------------
(* Passing on                                                              *)

\* ClosestPrecedingNode as a function of the table.
Closest(n, key, table) ==
  LET match == {i \in DOMAIN table : IdBetween(n, table[i], key)}
  IN IF match = {} THEN Head(table)
     ELSE table[CHOOSE i \in match : \A j \in match : j <= i]

\* The node that is taken is an entry between n and the key, or the first one.
LEMMA ClosestIs ==
  ASSUME NEW S, Ring(S), NEW n \in S, NEW key \in Int
  PROVE  \/ \E i \in 1..M : /\ Closest(n, key, Table(n, S)) = Table(n, S)[i]
                            /\ IdBetween(n, Table(n, S)[i], key)
         \/ Closest(n, key, Table(n, S)) = Table(n, S)[1]
<1> DEFINE t == Table(n, S)
           match == {i \in 1..M : IdBetween(n, t[i], key)}
           i == CHOOSE i \in match : \A j \in match : j <= i
<1>1. DOMAIN t = 1..M
  BY TableType
<1> HIDE DEF t
<1>2. Closest(n, key, t) = IF match = {} THEN t[1] ELSE t[i]
  BY <1>1 DEF Closest
<1>3. match \subseteq 1..M /\ match \subseteq Int
  BY MAssumption
<1>4. IsFiniteSet(match)
  <2>1. IsFiniteSet(1..M)
    BY MAssumption, FS_Interval
  <2> QED BY <1>3, <2>1, FS_Subset
<1>5. CASE match = {}
  BY <1>2, <1>5 DEF t
<1>6. CASE match # {}
  <2>1. \E h \in match : \A x \in match : x <= h
    <3> HIDE DEF match
    <3> QED BY <1>3, <1>4, <1>6, GreatestExists
  <2>2. i \in match
    BY <2>1
  <2> HIDE DEF i
  <2>3. i \in 1..M /\ IdBetween(n, t[i], key)
    BY <2>2
  <2> QED BY <1>2, <1>6, <2>3 DEF t
<1> QED BY <1>5, <1>6

LEMMA ClosestIn ==
  ASSUME NEW S, Ring(S), NEW n \in S, NEW key \in Int
  PROVE  Closest(n, key, Table(n, S)) \in S
<1>1. 1 \in 1..M
  BY MAssumption
<1> QED BY <1>1, ClosestIs, TableEntry

\* Getting nearer to the key.
LEMMA Nearer ==
  ASSUME NEW S, Ring(S), NEW n \in S, NEW f \in S, f # n,
         NEW key \in 0..(2^M - 1), key \notin S, IdBetween(n, f, key)
  PROVE  Distance(f, key) < Distance(n, key)
<1> DEFINE z == 2^M
<1>1. z \in Nat
  BY SizeType
<1>2. n \in 0..(z - 1) /\ f \in 0..(z - 1) /\ key \in 0..(z - 1)
  BY RingIds
<1>3. key \in (-1)..(z - 1) /\ f # key /\ n # key
  BY <1>1, <1>2
<1>4. Distance(n, key) = IF n <= key THEN key - n ELSE (key - n) + z
  BY <1>2, <1>3, DistanceIs
<1>5. Distance(f, key) = IF f <= key THEN key - f ELSE (key - f) + z
  BY <1>2, <1>3, DistanceIs
<1> HIDE DEF z
<1>6. CASE n < key
  <2>1. n < f /\ f < key
    BY <1>6 DEF IdBetween
  <2> QED BY <1>1, <1>2, <1>4, <1>5, <1>6, <2>1
<1>7. CASE ~(n < key)
  <2>1. ~(key < f /\ f < n)
    BY <1>7 DEF IdBetween
  <2>2. key < n /\ (f < key \/ n < f)
    BY <1>2, <1>3, <1>7, <2>1
  <2> QED BY <1>1, <1>2, <1>4, <1>5, <2>2
<1> QED BY <1>6, <1>7

\* The next node is nearer to the key, unless it owns the key.
LEMMA FollowerNearer ==
  ASSUME NEW S, Ring(S), NEW n \in S, NEW f \in S, f # n, Follows(f, n, S),
         NEW key \in 0..(2^M - 1), key \notin S
  PROVE  Owns(f, key, S) \/ Distance(f, key) < Distance(n, key)
<1>1. key \in Int /\ n \in Int /\ f \in Int /\ f # key /\ n # key
  BY SizeType, RingIds
<1>2. CASE IdBetween(n, key, f)
  BY <1>1, <1>2, BetweenOwns
<1>3. CASE ~IdBetween(n, key, f)
  <2>1. IdBetween(n, f, key)
    <3>1. CASE n < f
      BY <1>1, <1>3, <3>1 DEF IdBetween
    <3>2. CASE ~(n < f)
      BY <1>1, <1>3, <3>2 DEF IdBetween
    <3> QED BY <3>1, <3>2
  <2> QED BY <2>1, Nearer
<1> QED BY <1>2, <1>3

\* Where a node that is not in its own table passes a lookup on to.
LEMMA HopIs ==
  ASSUME NEW S, Ring(S), NEW n \in S, n \notin Range(Table(n, S)),
         NEW key \in 0..(2^M - 1), key \notin S
  PROVE  \/ Owns(Closest(n, key, Table(n, S)), key, S)
         \/ Distance(Closest(n, key, Table(n, S)), key) < Distance(n, key)
<1> DEFINE t == Table(n, S)
           f == Closest(n, key, t)
<1>1. key \in Int /\ 1 \in 1..M
  BY SizeType, MAssumption
<1>2. \A i \in 1..M : t[i] \in S /\ t[i] # n
  <2>1. t \in [1..M -> S]
    BY TableType
  <2> QED BY <2>1 DEF Range
<1>3. Follows(t[1], n, S)
  BY TableFirst
<1>4. \/ \E i \in 1..M : f = t[i] /\ IdBetween(n, t[i], key)
      \/ f = t[1]
  BY <1>1, ClosestIs
<1> HIDE DEF t, f
<1>5. ASSUME NEW i \in 1..M, f = t[i], IdBetween(n, t[i], key)
      PROVE  Distance(f, key) < Distance(n, key)
  BY <1>2, <1>5, Nearer
<1>6. ASSUME f = t[1]
      PROVE  Owns(f, key, S) \/ Distance(f, key) < Distance(n, key)
  BY <1>1, <1>2, <1>3, <1>6, FollowerNearer
<1>7. Owns(f, key, S) \/ Distance(f, key) < Distance(n, key)
  BY <1>4, <1>5, <1>6
<1> QED BY <1>7 DEF f, t
-----------------------------------------------------------------------------
(***************************************************************************)
(* The invariant.  A table is not there or is the one that the script made *)
(* for the node; a predecessor is unknown or is the node before; while the *)
(* node calls its successor, its table is in place.                        *)
(***************************************************************************)
Lookups(S) ==
  [op : {"none", "findSucc", "findPred", "getNodeSucc"}, key : Id \cup {NoId},
   at : S \cup {NoId}, status : {"none", "asking", "found", "failed"},
   result : S \cup {NoId}, asked : SUBSET S, settled : BOOLEAN, raced : BOOLEAN]

ScriptInv ==
  /\ todo \in Seq(nodes)
  /\ phase \in {"idle", "assigning", "calling", "dead"}
  /\ phase \in {"assigning", "calling"} => todo # <<>>
  /\ phase = "calling" => d_fingertable[Head(todo)] = Table(Head(todo), nodes)

TablesInv ==
  /\ Ring(nodes)
  /\ up \subseteq nodes
  /\ d_fingertable = [n \in nodes |-> d_fingertable[n]]
  /\ \A n \in nodes : d_fingertable[n] = <<>> \/ d_fingertable[n] = Table(n, nodes)
  /\ d_predecessor \in [nodes -> nodes \cup {NoId}]
  /\ \A n \in nodes :
       d_predecessor[n] # NoId => Follows(n, d_predecessor[n], nodes)

\* What the lookup l has been answered on the ring S.
Answer(l, S) ==
  l.status = "found" =>
    /\ l.op = "findSucc" /\ l.key \in Id \ S => Owns(l.result, l.key, S)
    /\ l.op = "findPred" /\ l.key \in Id \ S /\ ~l.raced => Precedes(l.result, l.key, S)
    /\ l.op = "getNodeSucc" => l.at \in S /\ Follows(l.result, l.at, S)

LookupInv(l, S) ==
  /\ l \in Lookups(S)
  /\ l.status = "none" => l.asked = {}
  /\ l.status = "asking" => l.at \in S /\ l.key \in Id
  /\ Answer(l, S)

ChordInv == ScriptInv /\ TablesInv /\ LookupInv(lookup, nodes)

LEMMA ChordInit == Init => ChordInv
<1> SUFFICES ASSUME Init PROVE ChordInv
  OBVIOUS
<1>1. Ring(nodes)
  <2>1. nodes \subseteq NodeIds /\ nodes # {}
    BY DEF Init
  <2>2. IsFiniteSet(0..(2^M - 2))
    BY SizeType, FS_Interval
  <2>3. nodes \subseteq 0..(2^M - 2)
    BY <2>1, NodeIdsAssumption
  <2>4. IsFiniteSet(nodes)
    BY <2>2, <2>3, FS_Subset
  <2> QED BY <2>1, <2>4 DEF Ring
<1>2. todo \in Seq(nodes)
  <2> DEFINE q == InOrder(nodes)
             L == Cardinality(nodes)
  <2>1. q \in [1..L -> nodes] /\ L \in Nat
    BY <1>1, RingOrder
  <2>2. todo = q
    BY DEF Init, SortedNodes
  <2> HIDE DEF q, L
  <2>3. q \in Seq(nodes)
    BY <2>1
  <2> QED BY <2>2, <2>3
<1>3. ScriptInv
  BY <1>2 DEF Init, ScriptInv
<1>4. TablesInv
  BY <1>1 DEF Init, TablesInv
<1>5. LookupInv(lookup, nodes)
  BY DEF Init, LookupInv, Lookups, Answer, NoLookup
<1> QED BY <1>3, <1>4, <1>5 DEF ChordInv

\* A table is not empty, and its head is the next node.
LEMMA TableIs ==
  ASSUME NEW S, Ring(S), NEW n \in S
  PROVE  /\ Table(n, S) # <<>>
         /\ Head(Table(n, S)) = Table(n, S)[1]
         /\ Head(Table(n, S)) \in S
         /\ Follows(Head(Table(n, S)), n, S)
<1> DEFINE t == Table(n, S)
<1>1. t \in [1..M -> S] /\ 1 \in 1..M
  BY TableType, MAssumption
<1>2. Follows(t[1], n, S)
  BY TableFirst
<1> HIDE DEF t
<1>3. t # <<>>
  <2>1. 1 \in DOMAIN t
    BY <1>1
  <2>2. DOMAIN <<>> = 1..0 /\ 1 \notin 1..0
    OBVIOUS
  <2> QED BY <2>1, <2>2
<1>4. Head(t) = t[1] /\ t[1] \in S
  BY <1>1
<1> QED BY <1>2, <1>3, <1>4 DEF t

\* A node with a table: its successor is the next node.
LEMMA SuccessorIs ==
  ASSUME TablesInv, NEW n \in nodes, d_fingertable[n] # <<>>
  PROVE  Successor(n) \in nodes /\ Follows(Successor(n), n, nodes)
<1>1. d_fingertable[n] = Table(n, nodes) /\ Ring(nodes)
  BY DEF TablesInv
<1> QED BY <1>1, TableIs DEF Successor

\* A node that has a table uses the one that was made for it.
LEMMA ClosestNode ==
  ASSUME TablesInv, NEW n \in nodes, d_fingertable[n] # <<>>, NEW key
  PROVE  ClosestPrecedingNode(n, key) = Closest(n, key, Table(n, nodes))
<1>1. d_fingertable[n] = Table(n, nodes)
  BY DEF TablesInv
<1> QED BY <1>1 DEF ClosestPrecedingNode, Closest, Successor
-----------------------------------------------------------------------------
(* The script's steps                                                      *)

LEMMA ScriptStep == ChordInv /\ Script => ChordInv'
<1> SUFFICES ASSUME ChordInv, Script PROVE ChordInv'
  OBVIOUS
<1> USE DEF ChordInv
<1>0. nodes' = nodes /\ up' = up /\ lookup' = lookup
  BY DEF Script, CallSetFingertable, AssignFingertable, SetPredecessor, ScriptDies
<1>1. LookupInv(lookup, nodes)'
  BY <1>0
<1>2. CASE CallSetFingertable
  <2>1. ScriptInv'
    BY <1>2 DEF CallSetFingertable, ScriptInv
  <2>2. TablesInv'
    BY <1>2 DEF CallSetFingertable, TablesInv
  <2> QED BY <1>1, <2>1, <2>2
<1>3. CASE AssignFingertable
  <2> DEFINE h == Head(todo)
  <2>1. h \in nodes
    BY <1>3 DEF AssignFingertable, ScriptInv
  <2>2. d_fingertable' = [d_fingertable EXCEPT ![h] = Table(h, nodes)]
    BY <1>3 DEF AssignFingertable, Table, SortedNodes
  <2> HIDE DEF h
  <2>3. d_fingertable' = [n \in nodes |-> IF n = h THEN Table(h, nodes) ELSE d_fingertable[n]]
    BY <2>1, <2>2 DEF TablesInv
  <2>4. TablesInv'
    BY <1>3, <2>3 DEF AssignFingertable, TablesInv
  <2>5. ScriptInv'
    BY <1>3, <2>1, <2>3 DEF AssignFingertable, ScriptInv, h
  <2> QED BY <1>1, <2>4, <2>5
<1>4. CASE SetPredecessor
  <2> DEFINE h == Head(todo)
             s == Successor(h)
  <2>1. h \in nodes /\ d_fingertable[h] = Table(h, nodes) /\ Ring(nodes) /\ todo # <<>>
    BY <1>4 DEF SetPredecessor, ScriptInv, TablesInv
  <2>2. s \in nodes /\ Follows(s, h, nodes)
    BY <2>1, TableIs DEF Successor
  <2>3. d_predecessor' = [d_predecessor EXCEPT ![s] = h]
    BY <1>4 DEF SetPredecessor
  <2> HIDE DEF h, s
  <2>4. TablesInv'
    BY <1>4, <2>1, <2>2, <2>3 DEF SetPredecessor, TablesInv
  <2>5. ScriptInv'
    BY <1>4, <2>1 DEF SetPredecessor, ScriptInv
  <2> QED BY <1>1, <2>4, <2>5
<1>5. CASE ScriptDies
  <2>1. ScriptInv'
    BY <1>5 DEF ScriptDies, ScriptInv
  <2>2. TablesInv'
    BY <1>5 DEF ScriptDies, TablesInv
  <2> QED BY <1>1, <2>1, <2>2
<1> QED BY <1>2, <1>3, <1>4, <1>5 DEF Script
-----------------------------------------------------------------------------
(* The lookup's steps                                                      *)

\* Steps that change the lookup only,
LEMMA RingStep ==
  ASSUME ScriptInv, TablesInv, UNCHANGED ring
  PROVE  ScriptInv' /\ TablesInv' /\ nodes' = nodes
<1>1. /\ nodes' = nodes /\ up' = up /\ todo' = todo /\ phase' = phase
      /\ d_fingertable' = d_fingertable /\ d_predecessor' = d_predecessor
  BY DEF ring
<1>2. ScriptInv'
  BY <1>1 DEF ScriptInv
<1>3. TablesInv'
  BY <1>1 DEF TablesInv
<1> QED BY <1>1, <1>2, <1>3

\* and what they can do to it: it fails,
LEMMA LookupFails ==
  ASSUME NEW S, NEW l, LookupInv(l, S), NEW r \in BOOLEAN
  PROVE  /\ LookupInv([l EXCEPT !.status = "failed"], S)
         /\ LookupInv([[l EXCEPT !.status = "failed"] EXCEPT !.raced = r], S)
BY DEF LookupInv, Lookups, Answer

\* is passed on,
LEMMA LookupGoes ==
  ASSUME NEW S, NEW l, LookupInv(l, S), l.status = "asking", NEW n \in S, NEW a \in SUBSET S
  PROVE  /\ LookupInv([l EXCEPT !.at = n, !.asked = a], S)
         /\ LookupInv([[l EXCEPT !.at = n, !.asked = a] EXCEPT !.raced = TRUE], S)
BY DEF LookupInv, Lookups, Answer

\* is answered,
LEMMA LookupFound ==
  ASSUME NEW S, NEW l, LookupInv(l, S), l.status = "asking", NEW n \in S,
         l.op = "findSucc" /\ l.key \notin S => Owns(n, l.key, S),
         l.op = "findPred" /\ l.key \notin S => Precedes(n, l.key, S),
         l.op = "getNodeSucc" => Follows(n, l.at, S)
  PROVE  LookupInv([l EXCEPT !.status = "found", !.result = n], S)
<1> DEFINE m == [l EXCEPT !.status = "found", !.result = n]
<1>1. l \in Lookups(S) /\ l.at \in S
  BY DEF LookupInv
<1>2. /\ m \in Lookups(S) /\ m.status = "found" /\ m.result = n
      /\ m.op = l.op /\ m.key = l.key /\ m.at = l.at
  BY <1>1 DEF Lookups
<1> HIDE DEF m
<1>3. Answer(m, S)
  BY <1>1, <1>2 DEF Answer
<1> QED BY <1>2, <1>3 DEF LookupInv, m

\* or is answered from a torn table.
LEMMA LookupTorn ==
  ASSUME NEW S, NEW l, LookupInv(l, S), l.status = "asking", NEW n \in S,
         l.op # "findSucc",
         l.op = "getNodeSucc" => Follows(n, l.at, S)
  PROVE  LookupInv([[l EXCEPT !.status = "found", !.result = n] EXCEPT !.raced = TRUE], S)
<1> DEFINE m == [[l EXCEPT !.status = "found", !.result = n] EXCEPT !.raced = TRUE]
<1>1. l \in Lookups(S) /\ l.at \in S
  BY DEF LookupInv
<1>2. /\ m \in Lookups(S) /\ m.status = "found" /\ m.result = n /\ m.raced = TRUE
      /\ m.op = l.op /\ m.key = l.key /\ m.at = l.at
  BY <1>1 DEF Lookups
<1> HIDE DEF m
<1>3. Answer(m, S)
  BY <1>1, <1>2 DEF Answer
<1> QED BY <1>2, <1>3 DEF LookupInv, m

LEMMA IdType == Id = 0..(2^M - 1) /\ Id \subseteq Int
BY SizeType DEF Id

LEMMA FindSuccessorStep == ChordInv /\ FindSuccessor => ChordInv'
<1> SUFFICES ASSUME ChordInv, FindSuccessor PROVE ChordInv'
  OBVIOUS
<1> DEFINE n == lookup.at
           key == lookup.key
<1>1. LookupInv(lookup, nodes) /\ TablesInv /\ ScriptInv /\ Ring(nodes)
  BY DEF ChordInv, TablesInv
<1>2. UNCHANGED ring /\ Asking("findSucc")
  BY DEF FindSuccessor
<1>3. lookup.status = "asking" /\ lookup.op = "findSucc" /\ n \in nodes /\ key \in Id
  BY <1>1, <1>2 DEF Asking, LookupInv
<1>4. key \in Int /\ d_predecessor[n] \in nodes \cup {NoId}
  BY <1>1, <1>3, IdType DEF TablesInv
<1>5. ScriptInv' /\ TablesInv' /\ nodes' = nodes
  BY <1>1, <1>2, RingStep
<1>6. CASE d_predecessor[n] # NoId /\ IsSuccessor(n, key) /\ Found(n)
  <2>1. Follows(n, d_predecessor[n], nodes) /\ d_predecessor[n] \in nodes
    BY <1>1, <1>3, <1>4, <1>6 DEF TablesInv
  <2>2. key \notin nodes => Owns(n, key, nodes)
    BY <1>1, <1>3, <1>4, <1>6, <2>1, BetweenOwns DEF IsSuccessor
  <2>3. LookupInv([lookup EXCEPT !.status = "found", !.result = n], nodes)
    BY <1>1, <1>3, <2>2, LookupFound
  <2> QED BY <1>5, <1>6, <2>3 DEF Found, ChordInv
<1>7. CASE Failed
  <2>1. LookupInv([lookup EXCEPT !.status = "failed"], nodes)
    BY <1>1, LookupFails
  <2> QED BY <1>5, <1>7, <2>1 DEF Failed, ChordInv
<1>8. CASE d_fingertable[n] # <<>> /\ PassOn(ClosestPrecedingNode(n, key))
  <2> DEFINE c == ClosestPrecedingNode(n, key)
  <2>1. c \in nodes
    BY <1>1, <1>3, <1>4, <1>8, ClosestNode, ClosestIn
  <2>2. lookup' = [lookup EXCEPT !.at = c, !.asked = lookup.asked \cup {lookup.at}]
    BY <1>8 DEF PassOn
  <2>3. lookup.asked \cup {lookup.at} \in SUBSET nodes
    BY <1>1, <1>3 DEF LookupInv, Lookups
  <2> HIDE DEF c
  <2>4. LookupInv(lookup', nodes)
    BY <1>1, <1>3, <2>1, <2>2, <2>3, LookupGoes
  <2> QED BY <1>5, <2>4 DEF ChordInv
<1> QED BY <1>6, <1>7, <1>8 DEF FindSuccessor

LEMMA FindPredecessorStep == ChordInv /\ FindPredecessor => ChordInv'
<1> SUFFICES ASSUME ChordInv, FindPredecessor PROVE ChordInv'
  OBVIOUS
<1> DEFINE n == lookup.at
           key == lookup.key
<1>1. LookupInv(lookup, nodes) /\ TablesInv /\ ScriptInv /\ Ring(nodes)
  BY DEF ChordInv, TablesInv
<1>2. UNCHANGED ring /\ Asking("findPred")
  BY DEF FindPredecessor
<1>3. lookup.status = "asking" /\ lookup.op = "findPred" /\ n \in nodes /\ key \in Id
  BY <1>1, <1>2 DEF Asking, LookupInv
<1>4. key \in Int
  BY <1>3, IdType
<1>5. ScriptInv' /\ TablesInv' /\ nodes' = nodes
  BY <1>1, <1>2, RingStep
<1>6. CASE d_fingertable[n] # <<>> /\ IsPredecessor(n, key) /\ Found(n)
  <2>1. Successor(n) \in nodes /\ Follows(Successor(n), n, nodes)
    BY <1>1, <1>3, <1>6, SuccessorIs
  <2>2. key \notin nodes => Precedes(n, key, nodes)
    BY <1>1, <1>3, <1>4, <1>6, <2>1, BetweenPrecedes DEF IsPredecessor
  <2>3. LookupInv([lookup EXCEPT !.status = "found", !.result = n], nodes)
    BY <1>1, <1>3, <2>2, LookupFound
  <2> QED BY <1>5, <1>6, <2>3 DEF Found, ChordInv
<1>7. CASE Failed
  <2>1. LookupInv([lookup EXCEPT !.status = "failed"], nodes)
    BY <1>1, LookupFails
  <2> QED BY <1>5, <1>7, <2>1 DEF Failed, ChordInv
<1>8. CASE d_fingertable[n] # <<>> /\ PassOn(ClosestPrecedingNode(n, key))
  <2> DEFINE c == ClosestPrecedingNode(n, key)
  <2>1. c \in nodes
    BY <1>1, <1>3, <1>4, <1>8, ClosestNode, ClosestIn
  <2>2. lookup' = [lookup EXCEPT !.at = c, !.asked = lookup.asked \cup {lookup.at}]
    BY <1>8 DEF PassOn
  <2>3. lookup.asked \cup {lookup.at} \in SUBSET nodes
    BY <1>1, <1>3 DEF LookupInv, Lookups
  <2> HIDE DEF c
  <2>4. LookupInv(lookup', nodes)
    BY <1>1, <1>3, <2>1, <2>2, <2>3, LookupGoes
  <2> QED BY <1>5, <2>4 DEF ChordInv
<1> QED BY <1>6, <1>7, <1>8 DEF FindPredecessor

LEMMA GetSuccessorStep == ChordInv /\ GetSuccessor => ChordInv'
<1> SUFFICES ASSUME ChordInv, GetSuccessor PROVE ChordInv'
  OBVIOUS
<1> DEFINE n == lookup.at
<1>1. LookupInv(lookup, nodes) /\ TablesInv /\ ScriptInv /\ Ring(nodes)
  BY DEF ChordInv, TablesInv
<1>2. UNCHANGED ring /\ Asking("getNodeSucc")
  BY DEF GetSuccessor
<1>3. lookup.status = "asking" /\ lookup.op = "getNodeSucc" /\ n \in nodes
  BY <1>1, <1>2 DEF Asking, LookupInv
<1>4. ScriptInv' /\ TablesInv' /\ nodes' = nodes
  BY <1>1, <1>2, RingStep
<1>5. CASE d_fingertable[n] # <<>> /\ Found(Successor(n))
  <2>1. Successor(n) \in nodes /\ Follows(Successor(n), n, nodes)
    BY <1>1, <1>3, <1>5, SuccessorIs
  <2>2. LookupInv([lookup EXCEPT !.status = "found", !.result = Successor(n)], nodes)
    BY <1>1, <1>3, <2>1, LookupFound
  <2> QED BY <1>4, <1>5, <2>2 DEF Found, ChordInv
<1>6. CASE Failed
  <2>1. LookupInv([lookup EXCEPT !.status = "failed"], nodes)
    BY <1>1, LookupFails
  <2> QED BY <1>4, <1>6, <2>1 DEF Failed, ChordInv
<1> QED BY <1>5, <1>6 DEF GetSuccessor

LEMMA UnreachableStep == ChordInv /\ Unreachable => ChordInv'
<1> SUFFICES ASSUME ChordInv, Unreachable PROVE ChordInv'
  OBVIOUS
<1>1. ScriptInv' /\ TablesInv' /\ nodes' = nodes
  BY RingStep DEF ChordInv, Unreachable
<1>2. LookupInv([lookup EXCEPT !.status = "failed"], nodes)
  BY LookupFails DEF ChordInv
<1> QED BY <1>1, <1>2 DEF Unreachable, Failed, ChordInv

LEMMA AskStep ==
  ASSUME ChordInv, NEW op \in {"findSucc", "findPred", "getNodeSucc"}, NEW key \in Id,
         NEW n \in nodes, Ask(op, key, n)
  PROVE  ChordInv'
<1>1. ScriptInv' /\ TablesInv' /\ nodes' = nodes
  BY RingStep DEF ChordInv, Ask
<1> DEFINE s == (todo = <<>> /\ crashes = 0)
           l == [NoLookup EXCEPT !.op = op, !.key = key, !.at = n, !.status = "asking",
                                 !.settled = s]
<1>2. lookup' = l
  BY DEF Ask
<1>3. s \in BOOLEAN
  OBVIOUS
<1> HIDE DEF s
<1>4. /\ l \in Lookups(nodes) /\ l.status = "asking"
      /\ l.at = n /\ l.key = key
  BY <1>3 DEF NoLookup, Lookups
<1> HIDE DEF l
<1>5. LookupInv(l, nodes)
  BY <1>4 DEF LookupInv, Answer
<1> QED BY <1>1, <1>2, <1>5 DEF ChordInv

\* What is left when a process ends.
LEMMA EndStep ==
  ASSUME ScriptInv, TablesInv, NEW n \in nodes, ProcessEnds(n)
  PROVE  ScriptInv' /\ TablesInv' /\ nodes' = nodes
<1>1. /\ nodes' = nodes /\ todo' = todo /\ up' \subseteq nodes
      /\ d_fingertable' = [x \in nodes |-> IF x = n THEN <<>> ELSE d_fingertable[x]]
      /\ d_predecessor' = [d_predecessor EXCEPT ![n] = NoId]
  BY DEF ProcessEnds, TablesInv
<1>2. TablesInv'
  BY <1>1 DEF TablesInv
<1>3. phase' \in {"idle", "assigning", "calling", "dead"}
  BY DEF ProcessEnds, ScriptInv
<1>4. phase' \in {"assigning", "calling"} => phase' = phase /\ n # Head(todo)
  BY DEF ProcessEnds, ScriptInv
<1>5. todo # <<>> => Head(todo) \in nodes
  BY DEF ScriptInv
<1>6. ScriptInv'
  BY <1>1, <1>3, <1>4, <1>5 DEF ScriptInv
<1> QED BY <1>1, <1>2, <1>6

LEMMA TornStep == ChordInv /\ TornRead => ChordInv'
<1> SUFFICES ASSUME ChordInv, TornRead PROVE ChordInv'
  OBVIOUS
<1> DEFINE n == lookup.at
           new == CreateFing(n, SortedNodes)
           torn(l) == [l EXCEPT !.raced = TRUE]
<1>1. LookupInv(lookup, nodes) /\ TablesInv /\ ScriptInv /\ Ring(nodes)
  BY DEF ChordInv, TablesInv
<1>2. lookup.status = "asking" /\ n \in nodes
  BY <1>1 DEF TornRead, LookupInv
<1>3. new = Table(n, nodes)
  BY DEF Table, SortedNodes
<1>4. CASE lookup' = torn([lookup EXCEPT !.status = "failed"]) /\ ProcessEnds(n)
  <2>1. ScriptInv' /\ TablesInv' /\ nodes' = nodes
    BY <1>1, <1>2, <1>4, EndStep
  <2>2. LookupInv(torn([lookup EXCEPT !.status = "failed"]), nodes)
    BY <1>1, LookupFails
  <2> QED BY <1>4, <2>1, <2>2 DEF ChordInv
<1>5. ASSUME NEW f \in Range(new),
             lookup' = torn([lookup EXCEPT !.at = f, !.asked = @ \cup {n}]), UNCHANGED ring
      PROVE  ChordInv'
  <2>1. f \in nodes
    <3>1. Table(n, nodes) \in [1..M -> nodes]
      BY <1>1, <1>2, TableType
    <3>2. PICK i \in DOMAIN new : f = new[i]
      BY <1>5, Zenon DEF Range
    <3> HIDE DEF new
    <3> QED BY <1>3, <3>1, <3>2
  <2>2. lookup.asked \cup {n} \in SUBSET nodes
    BY <1>1, <1>2 DEF LookupInv, Lookups
  <2>3. LookupInv(torn([lookup EXCEPT !.at = f, !.asked = lookup.asked \cup {n}]), nodes)
    BY <1>1, <1>2, <2>1, <2>2, LookupGoes
  <2>4. ScriptInv' /\ TablesInv' /\ nodes' = nodes
    BY <1>1, <1>5, RingStep
  <2> QED BY <1>5, <2>3, <2>4 DEF ChordInv
<1>6. CASE /\ lookup.op = "findPred"
           /\ lookup' = torn([lookup EXCEPT !.status = "found", !.result = n])
           /\ UNCHANGED ring
  <2>1. LookupInv(torn([lookup EXCEPT !.status = "found", !.result = n]), nodes)
    BY <1>1, <1>2, <1>6, LookupTorn
  <2>2. ScriptInv' /\ TablesInv' /\ nodes' = nodes
    BY <1>1, <1>6, RingStep
  <2> QED BY <1>6, <2>1, <2>2 DEF ChordInv
<1>7. CASE /\ lookup.op = "getNodeSucc"
           /\ lookup' = torn([lookup EXCEPT !.status = "found", !.result = Head(new)])
           /\ UNCHANGED ring
  <2>1. Head(new) \in nodes /\ Follows(Head(new), n, nodes)
    BY <1>1, <1>2, <1>3, TableIs
  <2> HIDE DEF new
  <2>2. LookupInv(torn([lookup EXCEPT !.status = "found", !.result = Head(new)]), nodes)
    BY <1>1, <1>2, <1>7, <2>1, LookupTorn
  <2>3. ScriptInv' /\ TablesInv' /\ nodes' = nodes
    BY <1>1, <1>7, RingStep
  <2> QED BY <1>7, <2>2, <2>3 DEF ChordInv
<1> QED BY <1>4, <1>5, <1>6, <1>7 DEF TornRead

LEMMA CrashStep ==
  ASSUME ChordInv, NEW n \in nodes, Crash(n)
  PROVE  ChordInv'
<1>1. ScriptInv' /\ TablesInv' /\ nodes' = nodes
  BY EndStep DEF ChordInv, Crash
<1>2. LookupInv([lookup EXCEPT !.status = "failed"], nodes) /\ LookupInv(lookup, nodes)
  BY LookupFails DEF ChordInv
<1>3. LookupInv(lookup', nodes)
  BY <1>2 DEF Crash, Failed
<1> QED BY <1>1, <1>3 DEF ChordInv

LEMMA RestartStep ==
  ASSUME ChordInv, NEW n \in nodes, Restart(n)
  PROVE  ChordInv'
<1>1. /\ nodes' = nodes /\ up' = up \cup {n} /\ todo' = todo /\ phase' = phase
      /\ d_fingertable' = d_fingertable /\ d_predecessor' = d_predecessor
      /\ lookup' = lookup
  BY DEF Restart
<1>2. ScriptInv'
  BY <1>1 DEF ScriptInv, ChordInv
<1>3. TablesInv'
  BY <1>1 DEF TablesInv, ChordInv
<1> QED BY <1>1, <1>2, <1>3 DEF ChordInv

LEMMA ChordNext == ChordInv /\ [Next]_vars => ChordInv'
<1> SUFFICES ASSUME ChordInv, [Next]_vars PROVE ChordInv'
  OBVIOUS
<1>1. CASE Script
  BY <1>1, ScriptStep
<1>2. ASSUME NEW op \in {"findSucc", "findPred", "getNodeSucc"}, NEW key \in Id,
             NEW n \in nodes, Ask(op, key, n)
      PROVE  ChordInv'
  BY <1>2, AskStep
<1>3. CASE Handle
  BY <1>3, FindSuccessorStep, FindPredecessorStep, GetSuccessorStep, UnreachableStep
     DEF Handle
<1>4. CASE TornRead
  BY <1>4, TornStep
<1>5. ASSUME NEW n \in nodes, Crash(n) \/ Restart(n)
      PROVE  ChordInv'
  BY <1>5, CrashStep, RestartStep
<1>6. CASE UNCHANGED vars
  <2>1. UNCHANGED ring /\ lookup' = lookup
    BY <1>6 DEF vars, ring
  <2>2. ScriptInv' /\ TablesInv' /\ nodes' = nodes
    BY <2>1, RingStep DEF ChordInv
  <2> QED BY <2>1, <2>2 DEF ChordInv
<1> QED BY <1>1, <1>2, <1>3, <1>4, <1>5, <1>6 DEF Next

LEMMA ChordHolds == Spec => []ChordInv
<1>1. Init => ChordInv
  BY ChordInit
<1>2. ChordInv /\ [Next]_vars => ChordInv'
  BY ChordNext
<1> QED BY <1>1, <1>2, PTL DEF Spec

\* The invariant says of an answer what AnswerCorrect asks for.
LEMMA AnswersRight == ChordInv => AnswerCorrect
<1> SUFFICES ASSUME ChordInv, lookup.status = "found"
             PROVE  /\ lookup.op = "findSucc" /\ lookup.key \in Key =>
                         lookup.result = Owner(lookup.key)
                    /\ lookup.op = "findPred" /\ lookup.key \in Key /\ ~lookup.raced =>
                         lookup.result = Before(lookup.key)
                    /\ lookup.op = "getNodeSucc" => lookup.result = Owner(lookup.at + 1)
  BY Zenon DEF AnswerCorrect
<1>1. Ring(nodes) /\ Answer(lookup, nodes)
  BY DEF ChordInv, TablesInv, LookupInv
<1>2. ASSUME lookup.op = "findSucc", lookup.key \in Key
      PROVE  lookup.result = Owner(lookup.key)
  <2>1. Owns(lookup.result, lookup.key, nodes)
    BY <1>1, <1>2 DEF Answer, Key
  <2>2. lookup.result \in nodes /\ lookup.key \in 0..(2^M - 1)
    BY <1>2, <2>1 DEF Owns, Key, Id
  <2> QED BY <1>1, <2>1, <2>2, OwnerIs
<1>3. ASSUME lookup.op = "findPred", lookup.key \in Key, ~lookup.raced
      PROVE  lookup.result = Before(lookup.key)
  <2>1. Precedes(lookup.result, lookup.key, nodes)
    BY <1>1, <1>3 DEF Answer, Key
  <2>2. lookup.result \in nodes /\ lookup.key \in 0..(2^M - 1)
    BY <1>3, <2>1 DEF Precedes, Key, Id
  <2> QED BY <1>1, <2>1, <2>2, BeforeIs
<1>4. ASSUME lookup.op = "getNodeSucc"
      PROVE  lookup.result = Owner(lookup.at + 1)
  <2>1. lookup.at \in nodes /\ Follows(lookup.result, lookup.at, nodes)
    BY <1>1, <1>4 DEF Answer
  <2>2. lookup.result \in nodes /\ lookup.at + 1 \in 0..(2^M - 1)
    BY <1>1, <2>1, RingIds DEF Follows
  <2>3. Owns(lookup.result, lookup.at + 1, nodes)
    BY <1>1, <2>1, <2>2, FollowerOwns
  <2> QED BY <1>1, <2>2, <2>3, OwnerIs
<1> QED BY <1>2, <1>3, <1>4

(***************************************************************************)
(* An answer is right by the definition of the ring, for every set of      *)
(* nodes and number of bits, while the script of chord/init still hands    *)
(* out the tables and processes end and come back: find_successor names    *)
(* the owner of the key, even if torn tables sent it astray; get_successor *)
(* the next node, and find_predecessor the node before the key unless it   *)
(* read a torn table.                                                      *)
(***************************************************************************)
THEOREM AnswersAreCorrect == Spec => []AnswerCorrect
<1>1. Spec => []ChordInv
  BY ChordHolds
<1>2. ChordInv => AnswerCorrect
  BY AnswersRight
<1> QED BY <1>1, <1>2, PTL
-----------------------------------------------------------------------------
(* Hops                                                                    *)

\* The action of HopForward.
Hop ==
  (/\ lookup.key \in Key
   /\ lookup.at \in nodes \ SelfFingered
   /\ lookup'.asked # lookup.asked
   /\ ~lookup'.raced) =>
     \/ lookup'.at = Owner(lookup.key)
     \/ Distance(lookup'.at, lookup.key) < Distance(lookup.at, lookup.key)

\* The step in which a lookup is passed on.
LEMMA PassOnHops ==
  ASSUME ChordInv, lookup.key \in Key, lookup.at \in nodes \ SelfFingered,
         d_fingertable[lookup.at] # <<>>,
         PassOn(ClosestPrecedingNode(lookup.at, lookup.key))
  PROVE  \/ lookup'.at = Owner(lookup.key)
         \/ Distance(lookup'.at, lookup.key) < Distance(lookup.at, lookup.key)
<1> DEFINE n == lookup.at
           key == lookup.key
           c == Closest(n, key, Table(n, nodes))
<1>1. Ring(nodes) /\ TablesInv /\ lookup \in Lookups(nodes)
  BY DEF ChordInv, TablesInv, LookupInv
<1>2. n \in nodes /\ key \in 0..(2^M - 1) /\ key \notin nodes /\ key \in Int
  BY IdType DEF Key
<1>3. n \notin Range(Table(n, nodes))
  BY DEF SelfFingered, Table, SortedNodes
<1>4. lookup'.at = c
  <2>1. ClosestPrecedingNode(n, key) = c
    BY <1>1, <1>2, ClosestNode
  <2> HIDE DEF c
  <2> QED BY <1>1, <2>1 DEF PassOn, Lookups
<1>5. Owns(c, key, nodes) \/ Distance(c, key) < Distance(n, key)
  BY <1>1, <1>2, <1>3, HopIs
<1>6. Owns(c, key, nodes) => c = Owner(key)
  <2> HIDE DEF c, key
  <2> SUFFICES ASSUME Owns(c, key, nodes) PROVE c = Owner(key)
    OBVIOUS
  <2>1. c \in nodes
    BY DEF Owns
  <2> QED BY <1>1, <1>2, <2>1, OwnerIs
<1> HIDE DEF c
<1> QED BY <1>4, <1>5, <1>6

LEMMA HopStep == ChordInv /\ [Next]_vars => Hop
<1> SUFFICES ASSUME ChordInv, [Next]_vars, lookup.key \in Key,
                    lookup.at \in nodes \ SelfFingered,
                    lookup'.asked # lookup.asked, ~lookup'.raced
             PROVE  \/ lookup'.at = Owner(lookup.key)
                    \/ Distance(lookup'.at, lookup.key) < Distance(lookup.at, lookup.key)
  BY Zenon DEF Hop
<1>1. lookup \in Lookups(nodes) /\ (lookup.status = "none" => lookup.asked = {})
  BY DEF ChordInv, LookupInv
<1>2. lookup' # lookup
  OBVIOUS
<1>3. ~Failed
  BY <1>1 DEF Failed, Lookups
<1>4. ASSUME NEW n PROVE ~Found(n)
  BY <1>1 DEF Found, Lookups
<1>5. CASE Script
  BY <1>2, <1>5 DEF Script, CallSetFingertable, AssignFingertable, SetPredecessor, ScriptDies
<1>6. ASSUME NEW op \in {"findSucc", "findPred", "getNodeSucc"}, NEW key \in Id,
             NEW n \in nodes, Ask(op, key, n)
      PROVE  FALSE
  BY <1>1, <1>6 DEF Ask, NoLookup
<1>7. CASE FindSuccessor
  BY <1>3, <1>4, <1>7, PassOnHops DEF FindSuccessor
<1>8. CASE FindPredecessor
  BY <1>3, <1>4, <1>8, PassOnHops DEF FindPredecessor
<1>9. CASE GetSuccessor
  BY <1>3, <1>4, <1>9 DEF GetSuccessor
<1>10. CASE Unreachable
  BY <1>3, <1>10 DEF Unreachable
<1>11. ASSUME TornRead PROVE lookup'.raced
  BY <1>1, <1>11 DEF TornRead, Lookups
<1>12. ASSUME NEW n \in nodes, Crash(n) \/ Restart(n)
       PROVE  FALSE
  BY <1>2, <1>3, <1>12 DEF Crash, Restart
<1>13. CASE UNCHANGED vars
  BY <1>2, <1>13 DEF vars
<1> QED BY <1>5, <1>6, <1>7, <1>8, <1>9, <1>10, <1>11, <1>12, <1>13 DEF Next, Handle

(***************************************************************************)
(* closest_preceding_node never oversteps: a node that is not in its own   *)
(* table passes a lookup on to a node nearer below the key or to the       *)
(* owner, for every ring, whatever the search of the script makes of the   *)
(* entries after the first.                                                *)
(***************************************************************************)
THEOREM HopsGoForward == Spec => HopForward
<1>1. Spec => []ChordInv
  BY ChordHolds
<1>2. ChordInv /\ [Next]_vars => [Hop]_vars
  BY HopStep
<1>3. [][Hop]_vars => HopForward
  BY PTL DEF HopForward, Hop
<1> QED BY <1>1, <1>2, <1>3, PTL DEF Spec
=============================================================================
