----------------------------- MODULE FiniteSums -----------------------------
(***************************************************************************)
(* Sums over a finite set, for the ledgers of the gateway: what a counter  *)
(* has taken in is a sum over the calls that paid into it.  MapThenSumSet  *)
(* is a recursive function on the subsets of its set; the lemmas say that  *)
(* there is one, that it yields an integer, and how it changes when the    *)
(* summand of one element does.                                            *)
(***************************************************************************)
EXTENDS Integers, FiniteSetsExt, FiniteSetTheorems, WellFoundedInduction, TLAPS

\* The element the recursion takes next.
One(s) == CHOOSE x \in s : TRUE

\* it maps each subset of S to the sum of f over it.
IsSum(it, f, S) ==
  it = [s \in SUBSET S |-> IF s = {} THEN 0 ELSE f[One(s)] + it[s \ {One(s)}]]

\* Induction over the natural numbers, for a set.
LEMMA SetInduction ==
  ASSUME NEW T, 0 \in T, \A n \in Nat : n \in T => n + 1 \in T
  PROVE  Nat \subseteq T
<1> DEFINE Bad == Nat \ T
<1> SUFFICES ASSUME Bad # {} PROVE FALSE
  OBVIOUS
<1> DEFINE R == OpToRel(<, Nat)
<1>1. IsWellFoundedOn(R, Nat)
  BY NatLessThanWellFounded
<1>2. PICK x \in Bad : \A y \in Bad : ~(<<y, x>> \in R)
  <2> HIDE DEF R
  <2>1. QED
    BY <1>1, WFMin
<1>3. \A y \in Bad : ~(y < x)
  BY <1>2 DEF OpToRel
<1>4. x # 0 /\ x - 1 \in Nat /\ x - 1 \notin Bad
  BY <1>3
<1>5. QED
  BY <1>4

LEMMA OneLess ==
  ASSUME NEW s, IsFiniteSet(s), s # {}
  PROVE  /\ One(s) \in s /\ IsFiniteSet(s \ {One(s)})
         /\ Cardinality(s) \in Nat /\ Cardinality(s \ {One(s)}) = Cardinality(s) - 1
<1>1. One(s) \in s
  BY DEF One
<1>2. QED
  BY <1>1, FS_RemoveElement, FS_CardinalityType
\* There is such a function: it is built up from the smaller subsets.
LEMMA SumExists ==
  ASSUME NEW S, IsFiniteSet(S), NEW f
  PROVE  \E it : IsSum(it, f, S)
<1> DEFINE Small(n) == {s \in SUBSET S : Cardinality(s) <= n}
           Part(g, n) ==
             g = [s \in Small(n) |-> IF s = {} THEN 0 ELSE f[One(s)] + g[s \ {One(s)}]]
           T == {n \in Nat : \E g : Part(g, n)}
<1>1. \A s \in SUBSET S : IsFiniteSet(s) /\ Cardinality(s) \in Nat
  BY FS_Subset, FS_CardinalityType
<1>2. 0 \in T
  <2> DEFINE g == [s \in Small(0) |-> 0]
  <2>1. \A s \in Small(0) : s = {}
    BY <1>1, FS_EmptySet
  <2>2. Part(g, 0)
    BY <2>1, Zenon
  <2>3. QED
    BY <2>2
<1>3. ASSUME NEW n \in Nat, n \in T PROVE n + 1 \in T
  <2>1. PICK g : Part(g, n)
    BY <1>3
  <2> DEFINE h == [s \in Small(n + 1) |-> IF s = {} THEN 0 ELSE f[One(s)] + g[s \ {One(s)}]]
  <2>2. ASSUME NEW s \in Small(n + 1), s # {} PROVE s \ {One(s)} \in Small(n)
    BY <1>1, <2>2, OneLess
  <2>3. \A s \in Small(n) : s \in Small(n + 1)
    BY <1>1
  <2> HIDE DEF Small
  <2>4. ASSUME NEW s \in Small(n) PROVE h[s] = g[s]
    <3>1. g[s] = IF s = {} THEN 0 ELSE f[One(s)] + g[s \ {One(s)}]
      BY <2>1, Zenon
    <3>2. h[s] = IF s = {} THEN 0 ELSE f[One(s)] + g[s \ {One(s)}]
      BY <2>3
    <3>3. QED
      BY <3>1, <3>2
  <2>5. \A s \in Small(n + 1) :
          h[s] = IF s = {} THEN 0 ELSE f[One(s)] + h[s \ {One(s)}]
    BY <2>2, <2>4
  <2>6. Part(h, n + 1)
    <3>1. h = [s \in Small(n + 1) |-> h[s]]
      OBVIOUS
    <3> HIDE DEF h
    <3>2. [s \in Small(n + 1) |-> h[s]]
            = [s \in Small(n + 1) |-> IF s = {} THEN 0 ELSE f[One(s)] + h[s \ {One(s)}]]
      BY <2>5, Zenon
    <3>3. QED
      BY <3>1, <3>2, Zenon
  <2> HIDE DEF Part, h
  <2>7. QED
    BY <2>6
<1>4. Cardinality(S) \in T
  <2> HIDE DEF T
  <2>1. QED
    BY <1>1, <1>2, <1>3, SetInduction
<1>5. PICK g : Part(g, Cardinality(S))
  BY <1>4
<1>6. Small(Cardinality(S)) = SUBSET S
  BY FS_Subset
<1>7. IsSum(g, f, S)
  BY <1>5, <1>6, Zenon DEF IsSum
<1>8. QED
  BY <1>7

\* What holds of the sum over every subset, by the number of its elements.
LEMMA SumType ==
  ASSUME NEW S, IsFiniteSet(S), NEW f, \A x \in S : f[x] \in Int, NEW it, IsSum(it, f, S)
  PROVE  \A s \in SUBSET S : it[s] \in Int
<1> DEFINE T == {n \in Nat : \A s \in SUBSET S : Cardinality(s) = n => it[s] \in Int}
<1>1. \A s \in SUBSET S : IsFiniteSet(s) /\ Cardinality(s) \in Nat
  BY FS_Subset, FS_CardinalityType
<1>2. \A s \in SUBSET S : it[s] = IF s = {} THEN 0 ELSE f[One(s)] + it[s \ {One(s)}]
  BY Zenon DEF IsSum
<1>3. 0 \in T
  <2>1. ASSUME NEW s \in SUBSET S, Cardinality(s) = 0 PROVE it[s] \in Int
    <3>1. s = {}
      BY <1>1, <2>1, FS_EmptySet
    <3>2. it[s] = 0
      BY <1>2, <3>1
    <3>3. QED
      BY <3>2
  <2>2. QED
    BY <2>1
<1>4. ASSUME NEW n \in Nat, n \in T PROVE n + 1 \in T
  <2>1. ASSUME NEW s \in SUBSET S, Cardinality(s) = n + 1 PROVE it[s] \in Int
    <3>1. s # {}
      BY <2>1, FS_EmptySet
    <3>2. One(s) \in S /\ s \ {One(s)} \in SUBSET S /\ Cardinality(s \ {One(s)}) = n
      BY <1>1, <2>1, <3>1, OneLess
    <3>3. it[s \ {One(s)}] \in Int
      BY <1>4, <3>2
    <3>4. QED
      BY <1>2, <3>1, <3>2, <3>3
  <2>2. QED
    BY <2>1
<1>5. Nat \subseteq T
  <2> HIDE DEF T
  <2>1. QED
    BY <1>3, <1>4, SetInduction
<1>6. QED
  BY <1>1, <1>5

\* Adding d to the summand of one element adds d to the sums it is part of; two
\* sums with the same summands are equal (d = 0).
LEMMA SumUpdate ==
  ASSUME NEW S, IsFiniteSet(S), NEW f, \A x \in S : f[x] \in Int, NEW g, NEW a, NEW d \in Int,
         \A x \in S : g[x] = IF x = a THEN f[x] + d ELSE f[x],
         NEW it, IsSum(it, f, S), NEW jt, IsSum(jt, g, S)
  PROVE  \A s \in SUBSET S : jt[s] = IF a \in s THEN it[s] + d ELSE it[s]
<1> DEFINE T == {n \in Nat : \A s \in SUBSET S : Cardinality(s) = n =>
                   jt[s] = IF a \in s THEN it[s] + d ELSE it[s]}
<1>1. \A s \in SUBSET S : IsFiniteSet(s) /\ Cardinality(s) \in Nat
  BY FS_Subset, FS_CardinalityType
<1>2. /\ \A s \in SUBSET S : it[s] = IF s = {} THEN 0 ELSE f[One(s)] + it[s \ {One(s)}]
      /\ \A s \in SUBSET S : jt[s] = IF s = {} THEN 0 ELSE g[One(s)] + jt[s \ {One(s)}]
  BY Zenon DEF IsSum
<1>3. 0 \in T
  <2>1. \A s \in SUBSET S : Cardinality(s) = 0 => s = {}
    BY <1>1, FS_EmptySet
  <2>2. QED
    BY <1>2, <2>1
<1>4. ASSUME NEW n \in Nat, n \in T PROVE n + 1 \in T
  <2>1. ASSUME NEW s \in SUBSET S, Cardinality(s) = n + 1
        PROVE  jt[s] = IF a \in s THEN it[s] + d ELSE it[s]
    <3> DEFINE x == One(s)
               t == s \ {x}
    <3>1. s # {}
      BY <2>1, FS_EmptySet
    <3>2. x \in s /\ x \in S /\ t \in SUBSET S /\ Cardinality(t) = n
      BY <1>1, <2>1, <3>1, OneLess
    <3>3. jt[t] = IF a \in t THEN it[t] + d ELSE it[t]
      BY <1>4, <3>2
    <3>4. it[t] \in Int /\ f[x] \in Int
      BY <3>2, SumType
    <3>5. it[s] = f[x] + it[t] /\ jt[s] = g[x] + jt[t]
      BY <1>2, <3>1
    <3>6. a \in s <=> (a = x \/ a \in t)
      BY <3>2
    <3> HIDE DEF x
    <3>7. g[x] = IF x = a THEN f[x] + d ELSE f[x]
      BY <3>2
    <3>8. x \notin t
      OBVIOUS
    <3> HIDE DEF t
    <3>9. CASE a = x
      BY <3>3, <3>4, <3>5, <3>6, <3>7, <3>8, <3>9
    <3>10. CASE a # x
      BY <3>3, <3>4, <3>5, <3>6, <3>7, <3>10
    <3>11. QED
      BY <3>9, <3>10
  <2>2. QED
    BY <2>1
<1>5. Nat \subseteq T
  <2> HIDE DEF T
  <2>1. QED
    BY <1>3, <1>4, SetInduction
<1>6. QED
  BY <1>1, <1>5
\* The sum over a subset is the same in every sum that reaches it.
LEMMA SumLocal ==
  ASSUME NEW S, IsFiniteSet(S), NEW A \in SUBSET S, NEW f, NEW it, IsSum(it, f, S),
         NEW jt, IsSum(jt, f, A)
  PROVE  \A s \in SUBSET A : jt[s] = it[s]
<1> DEFINE T == {n \in Nat : \A s \in SUBSET A : Cardinality(s) = n => jt[s] = it[s]}
<1>1. \A s \in SUBSET A : IsFiniteSet(s) /\ Cardinality(s) \in Nat /\ s \in SUBSET S
  BY FS_Subset, FS_CardinalityType
<1>2. /\ \A s \in SUBSET S : it[s] = IF s = {} THEN 0 ELSE f[One(s)] + it[s \ {One(s)}]
      /\ \A s \in SUBSET A : jt[s] = IF s = {} THEN 0 ELSE f[One(s)] + jt[s \ {One(s)}]
  BY Zenon DEF IsSum
<1>3. 0 \in T
  BY <1>1, <1>2, FS_EmptySet
<1>4. ASSUME NEW n \in Nat, n \in T PROVE n + 1 \in T
  <2>1. ASSUME NEW s \in SUBSET A, Cardinality(s) = n + 1 PROVE jt[s] = it[s]
    <3>1. s # {}
      BY <2>1, FS_EmptySet
    <3>2. s \ {One(s)} \in SUBSET A /\ Cardinality(s \ {One(s)}) = n
      BY <1>1, <2>1, <3>1, OneLess
    <3>3. jt[s \ {One(s)}] = it[s \ {One(s)}]
      BY <1>4, <3>2
    <3>4. QED
      BY <1>1, <1>2, <3>1, <3>3
  <2>2. QED
    BY <2>1
<1>5. Nat \subseteq T
  <2> HIDE DEF T
  <2>1. QED
    BY <1>3, <1>4, SetInduction
<1>6. QED
  BY <1>1, <1>5

\* The order in which the recursion takes the elements does not matter.
LEMMA SumAdd ==
  ASSUME NEW S, IsFiniteSet(S), NEW f, \A x \in S : f[x] \in Int, NEW it, IsSum(it, f, S)
  PROVE  \A s \in SUBSET S : \A a \in S \ s : it[s \cup {a}] = it[s] + f[a]
<1> DEFINE T == {n \in Nat : \A s \in SUBSET S : Cardinality(s) = n =>
                   \A a \in S \ s : it[s \cup {a}] = it[s] + f[a]}
<1>1. \A s \in SUBSET S : IsFiniteSet(s) /\ Cardinality(s) \in Nat /\ it[s] \in Int
  BY FS_Subset, FS_CardinalityType, SumType
<1>2. \A s \in SUBSET S : it[s] = IF s = {} THEN 0 ELSE f[One(s)] + it[s \ {One(s)}]
  BY Zenon DEF IsSum
\* The case in which the new element comes first.
<1>3. ASSUME NEW s \in SUBSET S, NEW a \in S \ s, One(s \cup {a}) = a
      PROVE  it[s \cup {a}] = it[s] + f[a]
  <2>1. s \cup {a} \in SUBSET S /\ s \cup {a} # {} /\ (s \cup {a}) \ {a} = s
    OBVIOUS
  <2>2. it[s \cup {a}] = f[a] + it[s]
    BY <1>2, <1>3, <2>1
  <2>3. QED
    BY <1>1, <2>2
<1>4. 0 \in T
  <2>1. ASSUME NEW s \in SUBSET S, Cardinality(s) = 0, NEW a \in S \ s
        PROVE  it[s \cup {a}] = it[s] + f[a]
    <3>1. s = {}
      BY <1>1, <2>1, FS_EmptySet
    <3>2. One(s \cup {a}) = a
      BY <3>1 DEF One
    <3>3. QED
      BY <1>3, <3>2
  <2>2. QED
    BY <2>1
<1>5. ASSUME NEW n \in Nat, n \in T PROVE n + 1 \in T
  <2>1. ASSUME NEW s \in SUBSET S, Cardinality(s) = n + 1, NEW a \in S \ s
        PROVE  it[s \cup {a}] = it[s] + f[a]
    <3> DEFINE u == s \cup {a}
               x == One(u)
               t == s \ {x}
    <3>1. x \in u
      BY DEF One
    <3>2. CASE x = a
      BY <1>3, <3>2
    <3>3. CASE x # a
      <4>1. x \in s /\ t \in SUBSET S /\ a \in S \ t /\ x \in S \ t
        BY <3>1, <3>3
      <4>2. t \cup {x} = s /\ u \ {x} = t \cup {a} /\ u \in SUBSET S /\ u # {}
        BY <4>1, <3>3
      <4>3. Cardinality(t) = n
        <5> HIDE DEF x
        <5>1. IsFiniteSet(s) /\ x \in s
          BY <1>1, <4>1
        <5>2. Cardinality(s \ {x}) = Cardinality(s) - 1
          BY <5>1, FS_RemoveElement
        <5>3. QED
          BY <2>1, <5>2
      <4>4. it[t \cup {a}] = it[t] + f[a] /\ it[t \cup {x}] = it[t] + f[x]
        BY <1>5, <4>1, <4>3
      <4>5. it[u] = f[x] + it[u \ {x}]
        BY <1>2, <4>2
      <4>6. it[t] \in Int /\ f[a] \in Int /\ f[x] \in Int
        BY <1>1, <4>1
      <4> HIDE DEF t, x
      <4>7. it[u] = f[x] + (it[t] + f[a]) /\ it[s] = it[t] + f[x]
        BY <4>2, <4>4, <4>5
      <4>8. QED
        BY <4>6, <4>7
    <3>4. QED
      BY <3>2, <3>3
  <2>2. QED
    BY <2>1
<1>6. Nat \subseteq T
  <2> HIDE DEF T
  <2>1. QED
    BY <1>4, <1>5, SetInduction
<1>7. QED
  BY <1>1, <1>6
----------------------------------------------------------------------------
(* The same for MapThenSumSet, when it maps by a function.                 *)

SumOf(f, S) == MapThenSumSet(LAMBDA x : f[x], S)

LEMMA SumOfIsSum ==
  ASSUME NEW S, IsFiniteSet(S), NEW f
  PROVE  \E it : IsSum(it, f, S) /\ SumOf(f, S) = it[S]
<1>1. \E it : IsSum(it, f, S)
  BY SumExists
<1>2. IsSum(CHOOSE it : IsSum(it, f, S), f, S)
  BY <1>1, Zenon
<1>3. SumOf(f, S) = (CHOOSE it : IsSum(it, f, S))[S]
  BY Zenon DEF SumOf, MapThenSumSet, MapThenFoldSet, IsSum, One
<1>4. QED
  BY <1>2, <1>3

LEMMA SumOfType ==
  ASSUME NEW S, IsFiniteSet(S), NEW f, \A x \in S : f[x] \in Int
  PROVE  SumOf(f, S) \in Int
BY SumOfIsSum, SumType

LEMMA SumOfEmpty ==
  ASSUME NEW f
  PROVE  SumOf(f, {}) = 0
<1>1. PICK it : IsSum(it, f, {}) /\ SumOf(f, {}) = it[{}]
  BY SumOfIsSum, FS_EmptySet
<1>2. it[{}] = 0
  BY <1>1, Zenon DEF IsSum
<1>3. QED
  BY <1>1, <1>2

\* One summand grows by d.
LEMMA SumOfUpdate ==
  ASSUME NEW S, IsFiniteSet(S), NEW f, \A x \in S : f[x] \in Int, NEW g,
         NEW a \in S, NEW d \in Int,
         \A x \in S : g[x] = IF x = a THEN f[x] + d ELSE f[x]
  PROVE  SumOf(g, S) = SumOf(f, S) + d
<1>1. PICK it : IsSum(it, f, S) /\ SumOf(f, S) = it[S]
  BY SumOfIsSum
<1>2. PICK jt : IsSum(jt, g, S) /\ SumOf(g, S) = jt[S]
  BY SumOfIsSum
<1>3. \A s \in SUBSET S : jt[s] = IF a \in s THEN it[s] + d ELSE it[s]
  BY <1>1, <1>2, SumUpdate
<1>4. QED
  BY <1>1, <1>2, <1>3

\* One element leaves, or joins.
LEMMA SumOfRemove ==
  ASSUME NEW S, IsFiniteSet(S), NEW a \in S, NEW f, \A x \in S : f[x] \in Int
  PROVE  SumOf(f, S) = SumOf(f, S \ {a}) + f[a]
<1> DEFINE R == S \ {a}
<1>1. R \in SUBSET S /\ a \in S \ R /\ R \cup {a} = S /\ R \in SUBSET R
  OBVIOUS
<1>2. IsFiniteSet(R)
  BY FS_RemoveElement
<1> HIDE DEF R
<1>3. PICK it : IsSum(it, f, S) /\ SumOf(f, S) = it[S]
  BY SumOfIsSum
<1>4. PICK jt : IsSum(jt, f, R) /\ SumOf(f, R) = jt[R]
  BY <1>2, SumOfIsSum
<1>5. \A s \in SUBSET R : jt[s] = it[s]
  BY <1>1, <1>3, <1>4, SumLocal
<1>6. it[R \cup {a}] = it[R] + f[a]
  BY <1>1, <1>3, SumAdd
<1>7. SumOf(f, S) = SumOf(f, R) + f[a]
  BY <1>1, <1>3, <1>4, <1>5, <1>6
<1>8. QED
  BY <1>7 DEF R

LEMMA SumOfAdd ==
  ASSUME NEW S, IsFiniteSet(S), NEW a, a \notin S,
         NEW f, \A x \in S \cup {a} : f[x] \in Int
  PROVE  SumOf(f, S \cup {a}) = SumOf(f, S) + f[a]
<1>1. PICK U : U = S \cup {a}
  OBVIOUS
<1>2. IsFiniteSet(U) /\ a \in U /\ U \ {a} = S /\ \A x \in U : f[x] \in Int
  BY <1>1, FS_AddElement
<1>3. SumOf(f, U) = SumOf(f, U \ {a}) + f[a]
  BY <1>2, SumOfRemove
<1>4. QED
  BY <1>1, <1>2, <1>3

\* Sums with the same summands are equal.
LEMMA SumOfSame ==
  ASSUME NEW S, IsFiniteSet(S), NEW f, \A x \in S : f[x] \in Int, NEW g,
         \A x \in S : g[x] = f[x]
  PROVE  SumOf(g, S) = SumOf(f, S)
<1>1. CASE S = {}
  BY <1>1, SumOfEmpty
<1>2. ASSUME NEW a \in S PROVE SumOf(g, S) = SumOf(f, S)
  <2>1. 0 \in Int /\ \A x \in S : g[x] = IF x = a THEN f[x] + 0 ELSE f[x]
    OBVIOUS
  <2>2. SumOf(g, S) = SumOf(f, S) + 0
    BY <2>1, SumOfUpdate
  <2>3. SumOf(f, S) \in Int
    BY SumOfType
  <2>4. QED
    BY <2>2, <2>3
<1>3. QED
  BY <1>1, <1>2

\* A sum of zeros.
LEMMA SumOfZeros ==
  ASSUME NEW S, IsFiniteSet(S), NEW f, \A x \in S : f[x] = 0
  PROVE  SumOf(f, S) = 0
<1> DEFINE T == {n \in Nat : \A s \in SUBSET S : Cardinality(s) = n => SumOf(f, s) = 0}
<1>1. \A s \in SUBSET S : IsFiniteSet(s) /\ Cardinality(s) \in Nat
  BY FS_Subset, FS_CardinalityType
<1>2. 0 \in T
  BY <1>1, SumOfEmpty, FS_EmptySet
<1>3. ASSUME NEW n \in Nat, n \in T PROVE n + 1 \in T
  <2>1. ASSUME NEW s \in SUBSET S, Cardinality(s) = n + 1 PROVE SumOf(f, s) = 0
    <3>1. PICK a : a \in s
      BY <2>1, FS_EmptySet
    <3> DEFINE t == s \ {a}
    <3>2. t \in SUBSET S /\ s = t \cup {a} /\ a \notin t /\ \A x \in t \cup {a} : f[x] \in Int
      BY <3>1
    <3>3. Cardinality(t) = n
      <4>1. IsFiniteSet(s)
        BY <1>1
      <4>2. Cardinality(t) = Cardinality(s) - 1
        BY <3>1, <4>1, FS_RemoveElement
      <4>3. QED
        BY <2>1, <4>2
    <3> HIDE DEF t
    <3>4. SumOf(f, t) = 0 /\ IsFiniteSet(t)
      BY <1>1, <1>3, <3>2, <3>3
    <3>5. SumOf(f, t \cup {a}) = SumOf(f, t) + f[a]
      BY <3>2, <3>4, SumOfAdd
    <3>6. QED
      BY <3>1, <3>2, <3>4, <3>5
  <2>2. QED
    BY <2>1
<1>4. Nat \subseteq T
  <2> HIDE DEF T
  <2>1. QED
    BY <1>2, <1>3, SetInduction
<1>5. QED
  BY <1>1, <1>4
\* The sum over a part of S is a sum over S with zeros for the rest.
LEMMA SumOfMask ==
  ASSUME NEW S, IsFiniteSet(S), NEW A, NEW f, \A x \in A : f[x] \in Int, A \subseteq S,
         NEW g, \A x \in S : g[x] = IF x \in A THEN f[x] ELSE 0
  PROVE  SumOf(g, S) = SumOf(f, A)
<1> DEFINE T == {n \in Nat : \A s \in SUBSET S : Cardinality(s) = n =>
                   SumOf(g, s) = SumOf(f, s \cap A)}
<1>1. \A s \in SUBSET S : IsFiniteSet(s) /\ Cardinality(s) \in Nat /\ IsFiniteSet(s \cap A)
  BY FS_Subset, FS_CardinalityType
<1>2. 0 \in T
  <2>1. ASSUME NEW s \in SUBSET S, Cardinality(s) = 0 PROVE SumOf(g, s) = SumOf(f, s \cap A)
    <3>1. s = {} /\ s \cap A = {}
      BY <1>1, <2>1, FS_EmptySet
    <3>2. QED
      BY <3>1, SumOfEmpty
  <2>2. QED
    BY <2>1
<1>3. ASSUME NEW n \in Nat, n \in T PROVE n + 1 \in T
  <2>1. ASSUME NEW s \in SUBSET S, Cardinality(s) = n + 1
        PROVE  SumOf(g, s) = SumOf(f, s \cap A)
    <3>1. PICK a : a \in s
      BY <2>1, FS_EmptySet
    <3>2. PICK t, p, q : t = s \ {a} /\ p = s \cap A /\ q = t \cap A
      OBVIOUS
    <3>3. Cardinality(t) = n /\ t \in SUBSET S
      <4>1. Cardinality(s \ {a}) = Cardinality(s) - 1
        BY <1>1, <3>1, FS_RemoveElement
      <4>2. QED
        BY <2>1, <3>2, <4>1
    <3>4. SumOf(g, t) = SumOf(f, q)
      BY <1>3, <3>2, <3>3
    <3>5. SumOf(g, s) = SumOf(g, t) + g[a]
      <4>1. IsFiniteSet(s)
        BY <1>1
      <4>2. ASSUME NEW x \in s PROVE g[x] \in Int
        <5>1. x \in S
          OBVIOUS
        <5>2. CASE x \in A
          BY <5>1, <5>2
        <5>3. CASE x \notin A
          BY <5>1, <5>3
        <5>4. QED
          BY <5>2, <5>3
      <4>3. SumOf(g, s) = SumOf(g, s \ {a}) + g[a]
        BY <3>1, <4>1, <4>2, SumOfRemove
      <4>4. QED
        BY <3>2, <4>3
    <3>6. SumOf(f, q) \in Int
      BY <1>1, <3>2, <3>3, SumOfType
    <3>7. CASE a \in A
      <4>1. p \ {a} = q /\ a \in p /\ IsFiniteSet(p) /\ \A x \in p : f[x] \in Int
        BY <1>1, <3>1, <3>2, <3>7
      <4>2. SumOf(f, p) = SumOf(f, p \ {a}) + f[a]
        BY <4>1, SumOfRemove
      <4>3. g[a] = f[a]
        BY <3>1, <3>7
      <4>4. QED
        BY <3>2, <3>4, <3>5, <4>1, <4>2, <4>3
    <3>8. CASE a \notin A
      <4>1. p = q
        BY <3>2, <3>8
      <4>2. a \in S /\ g[a] = 0
        BY <3>1, <3>8
      <4>3. SumOf(g, s) = SumOf(f, q) + 0
        BY <3>4, <3>5, <4>2
      <4>4. SumOf(g, s) = SumOf(f, q)
        BY <3>6, <4>3
      <4>5. QED
        BY <3>2, <4>1, <4>4
    <3>9. QED
      BY <3>7, <3>8
  <2>2. QED
    BY <2>1
<1>4. Nat \subseteq T
  <2> HIDE DEF T
  <2>1. QED
    BY <1>2, <1>3, SetInduction
<1>5. S \in SUBSET S /\ S \cap A = A
  OBVIOUS
<1>6. QED
  BY <1>1, <1>4, <1>5
=============================================================================
