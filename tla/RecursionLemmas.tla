-------------------------- MODULE RecursionLemmas --------------------------
(***************************************************************************)
(* What the proofs about recursive functions share: induction, that such   *)
(* functions exist, and sums, which the library defines by one.            *)
(* EveryNumber speaks of a set of numbers where the library's theorem has  *)
(* a predicate.                                                            *)
(***************************************************************************)
EXTENDS Functions, Sequences, FiniteSetTheorems, WellFoundedInduction, TLAPS

\* Induction: a set of numbers that is closed under the next one is all of them.
LEMMA EveryNumber ==
  ASSUME NEW P \in SUBSET Nat, 0 \in P, \A n \in P : n + 1 \in P
  PROVE  P = Nat
<1> DEFINE Missing == Nat \ P
           below == OpToRel(<, Nat)
<1>1. IsWellFoundedOn(below, Nat)
  BY NatLessThanWellFounded
<1>2. \A x, y \in Nat : y < x => <<y, x>> \in below
  BY DEF OpToRel
<1> HIDE DEF below
<1>3. SUFFICES ASSUME Missing # {} PROVE FALSE
  OBVIOUS
<1>4. PICK n \in Missing : \A m \in Missing : ~(<<m, n>> \in below)
  BY <1>1, <1>3, WFMin
<1>5. n \in Nat /\ n # 0 /\ n - 1 \in Nat
  OBVIOUS
<1>6. n - 1 \notin Missing
  <2>1. <<n - 1, n>> \in below
    BY <1>2, <1>5
  <2> QED BY <1>4, <2>1
<1>7. n - 1 \in P
  BY <1>5, <1>6
<1>8. (n - 1) + 1 \in P
  BY <1>7
<1> QED BY <1>5, <1>8

\* The values up to N of a function that is defined by recursion exist.
Steps(V) == [Nat -> [V -> V]]

Iterates(V, e, h, N) ==
  \E g \in [0 .. N -> V] : \A m \in 0 .. N : g[m] = IF m = 0 THEN e ELSE h[m - 1][g[m - 1]]

LEMMA Recursion ==
  ASSUME NEW V, NEW e \in V, NEW h \in Steps(V), NEW N \in Nat PROVE Iterates(V, e, h, N)
<1> DEFINE Good(g, n) == /\ g \in [0 .. n -> V]
                         /\ \A m \in 0 .. n : g[m] = IF m = 0 THEN e ELSE h[m - 1][g[m - 1]]
           P == {n \in Nat : \E g : Good(g, n)}
<1> USE DEF Steps
<1>1. 0 \in P
  <2>1. Good([m \in 0 .. 0 |-> e], 0)
    OBVIOUS
  <2> QED BY <2>1
<1>2. ASSUME NEW n \in P PROVE n + 1 \in P
  <2>1. PICK g : Good(g, n)
    OBVIOUS
  <2> DEFINE k == [m \in 0 .. n + 1 |-> IF m = n + 1 THEN h[n][g[n]] ELSE g[m]]
  <2>2. h[n][g[n]] \in V
    BY <2>1
  <2>3. k \in [0 .. n + 1 -> V]
    BY <2>1, <2>2
  <2>4. ASSUME NEW m \in 0 .. n + 1 PROVE k[m] = IF m = 0 THEN e ELSE h[m - 1][k[m - 1]]
    <3>1. CASE m = n + 1
      BY <2>1, <3>1
    <3>2. CASE m # n + 1
      BY <2>1, <3>2
    <3> QED BY <3>1, <3>2
  <2>5. Good(k, n + 1)
    BY <2>3, <2>4
  <2> HIDE DEF Good
  <2> QED BY <2>5
<1> HIDE DEF P
<1>3. P \in SUBSET Nat
  BY DEF P
<1>4. N \in P
  <2>1. P = Nat
    BY <1>1, <1>2, <1>3, EveryNumber
  <2> QED BY <2>1
<1>5. PICK g : Good(g, N)
  BY <1>4 DEF P
<1>6. /\ g \in [0 .. N -> V]
      /\ \A m \in 0 .. N : g[m] = IF m = 0 THEN e ELSE h[m - 1][g[m - 1]]
  BY <1>5
<1> QED BY <1>6, Zenon DEF Iterates

-----------------------------------------------------------------------------
(* Sums *)

\* One round of adding up f over the set T.
adds(f, g, T) ==
  IF T = {} THEN 0 ELSE LET x == CHOOSE x \in T : TRUE IN f[x] + g[T \ {x}]

\* g is what the rounds settle on.
Settled(f, S, g) == g = [T \in SUBSET S |-> adds(f, g, T)]

IntegersOn(f, S) == \A x \in S : f[x] \in Int

LEMMA SumIsLast ==
  ASSUME NEW f, NEW S, NEW g, Settled(f, S, g)
  PROVE  \E h : Settled(f, S, h) /\ SumFunctionOnSet(f, S) = h[S]
<1> DEFINE h == CHOOSE h : h = [T \in SUBSET S |-> adds(f, h, T)]
<1>1. h = [T \in SUBSET S |-> adds(f, h, T)]
  BY DEF Settled
<1>2. SumFunctionOnSet(f, S) = h[S]
  BY DEF SumFunctionOnSet, FoldFunctionOnSet, MapThenFoldSet, adds
<1> QED BY <1>1, <1>2 DEF Settled

\* Each round takes one element off the set.
LEMMA OneLess ==
  ASSUME NEW S, IsFiniteSet(S), NEW T \in SUBSET S, NEW x \in T
  PROVE  /\ T \ {x} \in SUBSET S
         /\ Cardinality(T) \in Nat \ {0} /\ Cardinality(T \ {x}) = Cardinality(T) - 1
<1>1. IsFiniteSet(T)
  BY FS_Subset
<1>2. Cardinality(T) \in Nat /\ Cardinality(T) # 0
  BY <1>1, FS_CardinalityType, FS_EmptySet
<1>3. Cardinality(T \ {x}) = Cardinality(T) - 1
  BY <1>1, FS_RemoveElement
<1> QED BY <1>2, <1>3

\* The subsets of up to n elements.
UpTo(S, n) == {T \in SUBSET S : Cardinality(T) <= n}

\* Induction over the finite subsets: a family of sets that contains the empty one, and each
\* whose subsets with one element less are all in it, has all of them.
LEMMA EverySubset ==
  ASSUME NEW S, IsFiniteSet(S), NEW P, {} \in P,
         \A T \in SUBSET S : T # {} /\ (\A x \in T : T \ {x} \in P) => T \in P
  PROVE  SUBSET S \subseteq P
<1> DEFINE Q == {n \in Nat : \A T \in SUBSET S : Cardinality(T) = n => T \in P}
<1>1. 0 \in Q
  BY FS_Subset, FS_EmptySet
<1>2. ASSUME NEW n \in Q PROVE n + 1 \in Q
  <2> SUFFICES ASSUME NEW T \in SUBSET S, Cardinality(T) = n + 1 PROVE T \in P
    OBVIOUS
  <2>1. T # {}
    <3>1. n + 1 # 0
      OBVIOUS
    <3> QED BY <3>1, FS_EmptySet
  <2>2. ASSUME NEW x \in T PROVE T \ {x} \in P
    BY OneLess
  <2> QED BY <2>1, <2>2
<1> HIDE DEF Q
<1>3. Q = Nat
  <2>1. Q \in SUBSET Nat
    BY DEF Q
  <2> QED BY <1>1, <1>2, <2>1, EveryNumber
<1>4. ASSUME NEW T \in SUBSET S PROVE T \in P
  <2>1. Cardinality(T) \in Q
    BY <1>3, FS_Subset, FS_CardinalityType
  <2> QED BY <2>1 DEF Q
<1> QED BY <1>4
\* Rounds that start from 0 settle: after n of them the sets of up to n elements are done.
LEMMA SumExists ==
  ASSUME NEW f, NEW S, IsFiniteSet(S), IntegersOn(f, S) PROVE \E g : Settled(f, S, g)
<1> DEFINE V == [SUBSET S -> Int]
           e == [T \in SUBSET S |-> 0]
           h == [m \in Nat |-> [g \in V |-> [T \in SUBSET S |-> adds(f, g, T)]]]
           N == Cardinality(S)
<1>1. ASSUME NEW g \in V, NEW T \in SUBSET S PROVE adds(f, g, T) \in Int
  BY DEF adds, IntegersOn
<1>2. PICK k : k = h
  OBVIOUS
<1>3. k \in Steps(V)
  <2>1. ASSUME NEW g \in V PROVE [T \in SUBSET S |-> adds(f, g, T)] \in V
    BY <1>1
  <2> QED BY <1>2, <2>1 DEF Steps
<1>4. \A m \in Nat, g \in V, T \in SUBSET S : k[m][g][T] = adds(f, g, T)
  BY <1>2
<1>5. e \in V /\ N \in Nat
  BY FS_CardinalityType
<1> HIDE DEF h, e, N
<1>6. Iterates(V, e, k, N + 1)
  <2> HIDE DEF V
  <2>1. N + 1 \in Nat
    BY <1>5
  <2> QED BY <1>3, <1>5, <2>1, Recursion
<1>7. PICK g \in [0 .. N + 1 -> V] :
        \A m \in 0 .. N + 1 : g[m] = IF m = 0 THEN e ELSE k[m - 1][g[m - 1]]
  BY <1>6 DEF Iterates
<1>8. ASSUME NEW m \in Nat, m <= N, NEW T \in SUBSET S
      PROVE  g[m] \in V /\ g[m + 1] \in V /\ g[m + 1][T] = adds(f, g[m], T)
  <2>1. m \in 0 .. N + 1 /\ m + 1 \in 0 .. N + 1 /\ m + 1 # 0 /\ (m + 1) - 1 = m
    BY <1>5, <1>8
  <2>2. g[m] \in V /\ g[m + 1] \in V /\ g[m + 1] = k[m][g[m]]
    BY <1>7, <2>1
  <2> QED BY <1>4, <2>2
<1> DEFINE P == {n \in Nat : n <= N => \A T \in UpTo(S, n) : g[n + 1][T] = g[n][T]}
<1>9. 0 \in P
  <2>1. ASSUME NEW T \in UpTo(S, 0) PROVE g[0 + 1][T] = g[0][T]
    <3>1. T = {}
      <4>1. Cardinality(T) <= 0 /\ IsFiniteSet(T)
        BY FS_Subset DEF UpTo
      <4> QED BY <4>1, FS_CardinalityType, FS_EmptySet
    <3>2. g[0 + 1][T] = adds(f, g[0], T)
      BY <1>5, <1>8 DEF UpTo
    <3>3. g[0] = e
      <4>1. 0 \in 0 .. N + 1
        BY <1>5
      <4> QED BY <1>7, <4>1
    <3>4. g[0][T] = 0
      BY <3>3 DEF e, UpTo
    <3> QED BY <3>1, <3>2, <3>4 DEF adds
  <2> QED BY <2>1
<1>10. ASSUME NEW n \in P PROVE n + 1 \in P
  <2> SUFFICES ASSUME n + 1 <= N, NEW T \in UpTo(S, n + 1)
               PROVE  g[(n + 1) + 1][T] = g[n + 1][T]
    OBVIOUS
  <2>1. n \in Nat /\ n <= N /\ \A U \in UpTo(S, n) : g[n + 1][U] = g[n][U]
    BY <1>5
  <2>2. T \in SUBSET S
    BY DEF UpTo
  <2>3. g[(n + 1) + 1][T] = adds(f, g[n + 1], T) /\ g[n + 1][T] = adds(f, g[n], T)
    BY <1>8, <2>1, <2>2
  <2>4. CASE T = {}
    BY <2>3, <2>4 DEF adds
  <2>5. CASE T # {}
    <3> DEFINE x == CHOOSE x \in T : TRUE
    <3>1. x \in T
      BY <2>5
    <3>2. \A c : adds(f, c, T) = f[x] + c[T \ {x}]
      BY <2>5 DEF adds
    <3> HIDE DEF x
    <3>3. /\ T \ {x} \in SUBSET S
          /\ Cardinality(T) \in Nat \ {0} /\ Cardinality(T \ {x}) = Cardinality(T) - 1
      BY <2>2, <3>1, OneLess
    <3>4. Cardinality(T) <= n + 1
      BY DEF UpTo
    <3>5. Cardinality(T \ {x}) <= n
      BY <2>1, <3>3, <3>4
    <3>6. T \ {x} \in UpTo(S, n)
      BY <3>3, <3>5 DEF UpTo
    <3>7. g[n + 1][T \ {x}] = g[n][T \ {x}]
      BY <2>1, <3>6
    <3> QED BY <2>3, <3>2, <3>7
  <2> QED BY <2>4, <2>5
<1> HIDE DEF P
<1>11. N \in P
  <2>1. P \in SUBSET Nat
    BY DEF P
  <2>2. P = Nat
    BY <1>9, <1>10, <2>1, EveryNumber
  <2> QED BY <1>5, <2>2
<1>12. \A T \in SUBSET S : T \in UpTo(S, N)
  BY FS_Subset DEF UpTo, N
<1>13. \A T \in SUBSET S : g[N + 1][T] = g[N][T]
  BY <1>5, <1>11, <1>12 DEF P
<1>14. g[N] \in V /\ g[N + 1] \in V /\ \A T \in SUBSET S : g[N + 1][T] = adds(f, g[N], T)
  BY <1>5, <1>8
<1>15. g[N] = [T \in SUBSET S |-> adds(f, g[N], T)]
  BY <1>13, <1>14
<1> QED BY <1>15 DEF Settled

\* Only the elements that are added up matter.
LEMMA SettledAgree ==
  ASSUME NEW f, NEW S, IsFiniteSet(S), NEW g, Settled(f, S, g),
         NEW e, NEW R, NEW h, Settled(e, R, h), S \subseteq R, \A x \in S : f[x] = e[x]
  PROVE  \A T \in SUBSET S : g[T] = h[T]
<1> DEFINE P == {T \in SUBSET S : g[T] = h[T]}
<1>1. \A T \in SUBSET S : g[T] = adds(f, g, T) /\ h[T] = adds(e, h, T)
  BY DEF Settled
<1>2. {} \in P
  BY <1>1 DEF adds
<1>3. ASSUME NEW T \in SUBSET S, T # {}, \A x \in T : T \ {x} \in P PROVE T \in P
  BY <1>1, <1>3 DEF adds
<1> HIDE DEF P
<1>4. SUBSET S \subseteq P
  BY <1>2, <1>3, EverySubset
<1> QED BY <1>4 DEF P

\* What the rounds settle on is the sum of each subset, and an integer.
LEMMA SumIsSettled ==
  ASSUME NEW f, NEW S, IsFiniteSet(S), IntegersOn(f, S), NEW g, Settled(f, S, g)
  PROVE  \A T \in SUBSET S : g[T] = SumFunctionOnSet(f, T) /\ g[T] \in Int
<1>1. ASSUME NEW T \in SUBSET S PROVE g[T] = SumFunctionOnSet(f, T)
  <2>1. IsFiniteSet(T) /\ IntegersOn(f, T)
    BY FS_Subset DEF IntegersOn
  <2>2. PICK h : Settled(f, T, h) /\ SumFunctionOnSet(f, T) = h[T]
    BY <2>1, SumExists, SumIsLast
  <2> QED BY <2>1, <2>2, SettledAgree
<1> DEFINE P == {T \in SUBSET S : g[T] \in Int}
<1>2. \A T \in SUBSET S : g[T] = adds(f, g, T)
  BY DEF Settled
<1>3. {} \in P
  BY <1>2 DEF adds
<1>4. ASSUME NEW T \in SUBSET S, T # {}, \A x \in T : T \ {x} \in P PROVE T \in P
  <2> DEFINE x == CHOOSE x \in T : TRUE
  <2>1. x \in T
    BY <1>4
  <2>2. g[T] = f[x] + g[T \ {x}]
    BY <1>2, <1>4 DEF adds
  <2> HIDE DEF x
  <2>3. g[T \ {x}] \in Int
    BY <1>4, <2>1
  <2>4. f[x] \in Int
    BY <2>1 DEF IntegersOn
  <2>5. g[T] \in Int
    BY <2>2, <2>3, <2>4
  <2> QED BY <2>5
<1> HIDE DEF P
<1>5. SUBSET S \subseteq P
  BY <1>3, <1>4, EverySubset
<1> QED BY <1>1, <1>5 DEF P

LEMMA SumOfNone == ASSUME NEW f PROVE SumFunctionOnSet(f, {}) = 0
<1>1. IsFiniteSet({}) /\ IntegersOn(f, {})
  BY FS_EmptySet DEF IntegersOn
<1>2. PICK g : Settled(f, {}, g) /\ SumFunctionOnSet(f, {}) = g[{}]
  BY <1>1, SumExists, SumIsLast
<1> QED BY <1>2 DEF Settled, adds

LEMMA SumType ==
  ASSUME NEW f, NEW S, IsFiniteSet(S), IntegersOn(f, S) PROVE SumFunctionOnSet(f, S) \in Int
<1>1. PICK g : Settled(f, S, g)
  BY SumExists
<1> QED BY <1>1, SumIsSettled

LEMMA SumAgrees ==
  ASSUME NEW f, NEW e, NEW S, IsFiniteSet(S), IntegersOn(f, S), \A x \in S : f[x] = e[x]
  PROVE  SumFunctionOnSet(f, S) = SumFunctionOnSet(e, S)
<1>1. PICK g : Settled(f, S, g)
  BY SumExists
<1>2. IntegersOn(e, S)
  BY DEF IntegersOn
<1>3. PICK h : Settled(e, S, h)
  BY <1>2, SumExists
<1>4. g[S] = h[S]
  BY <1>1, <1>3, SettledAgree
<1> QED BY <1>1, <1>2, <1>3, <1>4, SumIsSettled

\* In whatever order they are added up.
LEMMA SumTakesOut ==
  ASSUME NEW f, NEW S, IsFiniteSet(S), IntegersOn(f, S), NEW y \in S
  PROVE  SumFunctionOnSet(f, S) = f[y] + SumFunctionOnSet(f, S \ {y})
<1>1. PICK g : Settled(f, S, g)
  BY SumExists
<1>2. \A T \in SUBSET S : g[T] = adds(f, g, T) /\ g[T] \in Int /\ g[T] = SumFunctionOnSet(f, T)
  <2>1. \A T \in SUBSET S : g[T] = adds(f, g, T)
    BY <1>1 DEF Settled
  <2> QED BY <1>1, <2>1, SumIsSettled
<1> DEFINE P == {T \in SUBSET S : \A x \in T : g[T] = f[x] + g[T \ {x}]}
<1>3. {} \in P
  OBVIOUS
<1>4. ASSUME NEW T \in SUBSET S, T # {}, \A x \in T : T \ {x} \in P PROVE T \in P
  <2> SUFFICES ASSUME NEW x \in T PROVE g[T] = f[x] + g[T \ {x}]
    OBVIOUS
  <2> DEFINE c == CHOOSE c \in T : TRUE
  <2>1. c \in T
    OBVIOUS
  <2>2. g[T] = f[c] + g[T \ {c}]
    BY <1>2 DEF adds
  <2> HIDE DEF c
  <2>3. CASE c # x
    <3>1. (T \ {c}) \ {x} = (T \ {x}) \ {c}
      OBVIOUS
    <3>2. g[T \ {c}] = f[x] + g[(T \ {c}) \ {x}] /\ g[T \ {x}] = f[c] + g[(T \ {c}) \ {x}]
      BY <1>4, <2>1, <2>3, <3>1
    <3>3. f[x] \in Int /\ f[c] \in Int /\ g[(T \ {c}) \ {x}] \in Int
      BY <1>2, <2>1 DEF IntegersOn
    <3> QED BY <2>2, <3>2, <3>3
  <2> QED BY <2>2, <2>3
<1> HIDE DEF P
<1>5. S \in P
  BY <1>3, <1>4, EverySubset
<1>6. g[S] = f[y] + g[S \ {y}]
  BY <1>5 DEF P
<1> QED BY <1>2, <1>6

LEMMA SumNotNegative ==
  ASSUME NEW f, NEW S, IsFiniteSet(S), IntegersOn(f, S), \A x \in S : f[x] >= 0
  PROVE  SumFunctionOnSet(f, S) >= 0
<1> DEFINE P == {T \in SUBSET S : SumFunctionOnSet(f, T) >= 0}
<1>1. {} \in P
  BY SumOfNone
<1>2. ASSUME NEW T \in SUBSET S, T # {}, \A x \in T : T \ {x} \in P PROVE T \in P
  <2>1. PICK x \in T : TRUE
    BY <1>2
  <2>2. IsFiniteSet(T) /\ IsFiniteSet(T \ {x}) /\ IntegersOn(f, T) /\ IntegersOn(f, T \ {x})
    BY FS_Subset DEF IntegersOn
  <2>3. SumFunctionOnSet(f, T) = f[x] + SumFunctionOnSet(f, T \ {x})
    BY <2>1, <2>2, SumTakesOut
  <2>4. SumFunctionOnSet(f, T \ {x}) \in Int /\ SumFunctionOnSet(f, T \ {x}) >= 0
    BY <1>2, <2>1, <2>2, SumType
  <2>5. f[x] \in Int /\ f[x] >= 0
    BY <2>1 DEF IntegersOn
  <2>6. SumFunctionOnSet(f, T) >= 0
    BY <2>3, <2>4, <2>5
  <2> QED BY <2>6
<1> HIDE DEF P
<1>3. S \in P
  BY <1>1, <1>2, EverySubset
<1> QED BY <1>3 DEF P
=============================================================================
