-------------------------- MODULE SubsetSum_proofs --------------------------
(***************************************************************************)
(* Theorems about SubsetSum for lists of any length.  What the two         *)
(* searches answer is proved by induction over their calls, who survives   *)
(* the program's timer by induction over the steps.                        *)
(***************************************************************************)
EXTENDS SubsetSum, SequenceTheorems, RecursionLemmas

-----------------------------------------------------------------------------
(* Sums of sequences *)

LEMMA SumOfEmpty == SumFunction(<<>>) = 0
<1>1. DOMAIN <<>> = {}
  OBVIOUS
<1> QED BY <1>1, SumOfNone DEF SumFunction

LEMMA SumOfSeq ==
  ASSUME NEW t \in Seq(Int)
  PROVE  /\ IsFiniteSet(DOMAIN t) /\ IntegersOn(t, DOMAIN t)
         /\ SumFunction(t) \in Int
<1>1. DOMAIN t = 1 .. Len(t) /\ Len(t) \in Nat
  OBVIOUS
<1>2. IsFiniteSet(DOMAIN t) /\ IntegersOn(t, DOMAIN t)
  BY <1>1, FS_Interval DEF IntegersOn
<1> QED BY <1>2, SumType DEF SumFunction

LEMMA SumOfAppend ==
  ASSUME NEW t \in Seq(Int), NEW v \in Int
  PROVE  SumFunction(Append(t, v)) = SumFunction(t) + v
<1> DEFINE u == Append(t, v)
           n == Len(t)
<1>1. /\ n \in Nat /\ u \in Seq(Int) /\ DOMAIN u = 1 .. n + 1 /\ DOMAIN t = 1 .. n
      /\ u[n + 1] = v /\ \A i \in 1 .. n : u[i] = t[i]
  OBVIOUS
<1> HIDE DEF u, n
<1>2. IsFiniteSet(DOMAIN u) /\ IntegersOn(u, DOMAIN u) /\ n + 1 \in DOMAIN u
  BY <1>1, SumOfSeq
<1>3. SumFunction(u) = u[n + 1] + SumFunctionOnSet(u, DOMAIN u \ {n + 1})
  BY <1>2, SumTakesOut DEF SumFunction
<1>4. DOMAIN u \ {n + 1} = DOMAIN t
  BY <1>1
<1>5. SumFunctionOnSet(t, DOMAIN t) = SumFunctionOnSet(u, DOMAIN t)
  <2>1. \A i \in DOMAIN t : t[i] = u[i]
    BY <1>1
  <2> QED BY <2>1, SumOfSeq, SumAgrees
<1>6. SumFunction(u) = v + SumFunction(t)
  BY <1>1, <1>3, <1>4, <1>5 DEF SumFunction
<1> QED BY <1>6, SumOfSeq DEF u

LEMMA SumOfPositives ==
  ASSUME NEW t \in Seq(Nat) PROVE SumFunction(t) \in Nat
<1>1. t \in Seq(Int) /\ \A i \in DOMAIN t : t[i] >= 0
  OBVIOUS
<1> QED BY <1>1, SumOfSeq, SumNotNegative DEF SumFunction

-----------------------------------------------------------------------------
(* Picking from a list *)

Positive == Nat \ {0}

\* The ways to pick from the first n elements.
Picks(n) == {p \in Seq(1 .. n) : Ascending(p)}

picked(s, p) == [k \in DOMAIN p |-> s[p[k]]]

LEMMA PickedType ==
  ASSUME NEW s \in Seq(Positive), NEW p \in Picks(Len(s))
  PROVE  /\ picked(s, p) \in Seq(Positive) /\ picked(s, p) \in Seq(Nat) /\ picked(s, p) \in Seq(Int)
         /\ Len(picked(s, p)) = Len(p) /\ DOMAIN picked(s, p) = DOMAIN p
         /\ SumFunction(picked(s, p)) \in Nat
<1>1. p \in Seq(1 .. Len(s)) /\ Len(p) \in Nat /\ DOMAIN p = 1 .. Len(p)
  BY DEF Picks
<1>2. picked(s, p) = [k \in 1 .. Len(p) |-> s[p[k]]]
  BY <1>1 DEF picked
<1>3. \A k \in 1 .. Len(p) : p[k] \in 1 .. Len(s)
  BY <1>1
<1>4. \A k \in 1 .. Len(p) : s[p[k]] \in Positive
  BY <1>3
<1>5. picked(s, p) \in Seq(Positive) /\ Len(picked(s, p)) = Len(p)
  BY <1>1, <1>2, <1>4
<1>6. picked(s, p) \in Seq(Nat) /\ picked(s, p) \in Seq(Int)
  BY <1>5 DEF Positive
<1> QED BY <1>1, <1>2, <1>5, <1>6, SumOfPositives

\* More to pick from.
LEMMA PicksGrow ==
  ASSUME NEW n \in Nat, NEW m \in Nat, n <= m PROVE Picks(n) \subseteq Picks(m)
<1>1. Seq(1 .. n) \subseteq Seq(1 .. m)
  <2>1. 1 .. n \subseteq 1 .. m
    OBVIOUS
  <2> QED BY <2>1, SeqMonotonic
<1> QED BY <1>1 DEF Picks

LEMMA PickOne ==
  ASSUME NEW s \in Seq(Positive), NEW i \in 1 .. Len(s), NEW p \in Picks(i - 1)
  PROVE  /\ Append(p, i) \in Picks(i)
         /\ picked(s, Append(p, i)) = Append(picked(s, p), s[i])
         /\ SumFunction(picked(s, Append(p, i))) = SumFunction(picked(s, p)) + s[i]
<1> DEFINE u == Append(p, i)
<1>1. p \in Seq(1 .. i - 1) /\ Len(p) \in Nat /\ Ascending(p)
  BY DEF Picks
<1>2. p \in Picks(Len(s)) /\ s[i] \in Positive /\ i \in Nat /\ i - 1 \in Nat
  BY PicksGrow
<1>3. /\ u \in Seq(1 .. i) /\ Len(u) = Len(p) + 1 /\ DOMAIN u = 1 .. Len(p) + 1
      /\ u[Len(p) + 1] = i /\ \A k \in 1 .. Len(p) : u[k] = p[k]
  BY <1>1
<1>4. \A k \in 1 .. Len(p) : p[k] \in Int /\ p[k] < i
  BY <1>1
<1>5. Ascending(u)
  BY <1>1, <1>3, <1>4 DEF Ascending
<1>6. picked(s, u) = Append(picked(s, p), s[i])
  <2>1. picked(s, p) \in Seq(Positive) /\ Len(picked(s, p)) = Len(p)
    BY <1>2, PickedType
  <2>2. u \in Picks(Len(s))
    BY <1>2, <1>3, <1>5, PicksGrow DEF Picks
  <2>3. picked(s, u) \in Seq(Positive) /\ Len(picked(s, u)) = Len(p) + 1
    BY <1>3, <2>2, PickedType
  <2>4. Append(picked(s, p), s[i]) \in Seq(Positive)
        /\ Len(Append(picked(s, p), s[i])) = Len(p) + 1
    BY <1>2, <2>1
  <2>5. ASSUME NEW k \in 1 .. Len(p) + 1
        PROVE  picked(s, u)[k] = Append(picked(s, p), s[i])[k]
    BY <1>1, <1>2, <1>3, <2>1 DEF picked
  <2> HIDE DEF u
  <2> QED BY <2>3, <2>4, <2>5, SeqEqual
<1>7. SumFunction(Append(picked(s, p), s[i])) = SumFunction(picked(s, p)) + s[i]
  <2>1. picked(s, p) \in Seq(Int) /\ s[i] \in Int
    BY <1>2, PickedType DEF Positive
  <2> QED BY <2>1, SumOfAppend
<1> QED BY <1>3, <1>5, <1>6, <1>7 DEF Picks

LEMMA NoPick == <<>> \in Picks(0) /\ \A s : picked(s, <<>>) = <<>>
  BY DEF Picks, picked, Ascending

\* A pick that is not empty is one of fewer elements and its last.
LEMMA LastPick ==
  ASSUME NEW n \in Nat, NEW p \in Picks(n), p # <<>>
  PROVE  \E i \in 1 .. n : \E q \in Picks(i - 1) : p = Append(q, i)
<1>1. p \in Seq(1 .. n) /\ Ascending(p)
  BY DEF Picks
<1>2. PICK q \in Seq(1 .. n), i \in 1 .. n : p = Append(q, i)
  BY <1>1, SequenceEmptyOrAppend
<1>3. /\ Len(q) \in Nat /\ DOMAIN q = 1 .. Len(q) /\ DOMAIN p = 1 .. Len(q) + 1
      /\ p[Len(q) + 1] = i /\ \A k \in 1 .. Len(q) : p[k] = q[k]
  BY <1>2
<1>4. ASSUME NEW k \in 1 .. Len(q) PROVE q[k] \in 1 .. i - 1
  <2>1. k < Len(q) + 1 /\ k \in DOMAIN p /\ Len(q) + 1 \in DOMAIN p
    BY <1>3
  <2>2. p[k] < p[Len(q) + 1]
    BY <1>1, <2>1 DEF Ascending
  <2> QED BY <1>2, <1>3, <2>2
<1>5. q \in Seq(1 .. i - 1)
  <2>1. q = [k \in 1 .. Len(q) |-> q[k]]
    BY <1>3
  <2> QED BY <1>3, <1>4, <2>1
<1>6. Ascending(q)
  BY <1>1, <1>3 DEF Ascending
<1> QED BY <1>2, <1>5, <1>6 DEF Picks

-----------------------------------------------------------------------------
(* is_subset_sum *)

\* Some pick from the first k elements has the sum.
Reached(s, k, sum) == \E p \in Picks(k) : SumFunction(picked(s, p)) = sum

LEMMA ReachedFirst ==
  ASSUME NEW s \in Seq(Positive), NEW sum PROVE Reached(s, 0, sum) <=> sum = 0
<1>1. ASSUME NEW p \in Picks(0) PROVE p = <<>>
  <2>1. p \in Seq(1 .. 0)
    BY DEF Picks
  <2>2. Len(p) = 0
    BY <2>1
  <2> QED BY <2>1, <2>2
<1> QED BY <1>1, NoPick, SumOfEmpty DEF Reached

LEMMA ReachedNext ==
  ASSUME NEW s \in Seq(Positive), NEW k \in 1 .. Len(s), NEW sum \in Nat
  PROVE  Reached(s, k, sum) <=> \/ sum = 0
                                \/ Reached(s, k - 1, sum)
                                \/ s[k] <= sum /\ Reached(s, k - 1, sum - s[k])
<1>1. k \in Nat /\ k - 1 \in Nat /\ Len(s) \in Nat /\ s[k] \in Nat /\ s[k] > 0
  BY DEF Positive
<1>2. sum = 0 => Reached(s, k, sum)
  <2>1. <<>> \in Picks(k)
    BY <1>1, NoPick, PicksGrow
  <2> QED BY <2>1, NoPick, SumOfEmpty DEF Reached
<1>3. Reached(s, k - 1, sum) => Reached(s, k, sum)
  <2>1. Picks(k - 1) \subseteq Picks(k)
    BY <1>1, PicksGrow
  <2> QED BY <2>1 DEF Reached
<1>4. ASSUME s[k] <= sum, Reached(s, k - 1, sum - s[k]) PROVE Reached(s, k, sum)
  <2>1. PICK p \in Picks(k - 1) : SumFunction(picked(s, p)) = sum - s[k]
    BY <1>4 DEF Reached
  <2>2. Append(p, k) \in Picks(k)
        /\ SumFunction(picked(s, Append(p, k))) = SumFunction(picked(s, p)) + s[k]
    BY PickOne
  <2>3. SumFunction(picked(s, Append(p, k))) = sum
    BY <1>1, <2>1, <2>2
  <2> QED BY <2>2, <2>3 DEF Reached
<1>5. ASSUME Reached(s, k, sum)
      PROVE  \/ sum = 0
             \/ Reached(s, k - 1, sum)
             \/ s[k] <= sum /\ Reached(s, k - 1, sum - s[k])
  <2>1. PICK p \in Picks(k) : SumFunction(picked(s, p)) = sum
    BY <1>5 DEF Reached
  <2>2. CASE p = <<>>
    BY <2>1, <2>2, NoPick, SumOfEmpty
  <2>3. CASE p # <<>>
    <3>0. PICK i \in 1 .. k : \E q \in Picks(i - 1) : p = Append(q, i)
      BY <1>1, <2>3, LastPick
    <3>1. PICK q \in Picks(i - 1) : p = Append(q, i)
      BY <3>0
    <3>2. CASE i < k
      <4>1. i \in Nat /\ i <= k - 1
        BY <1>1, <3>2
      <4>2. i \in 1 .. Len(s)
        BY <1>1
      <4>3. p \in Picks(i)
        BY <3>1, <4>2, PickOne
      <4>4. p \in Picks(k - 1)
        BY <1>1, <4>1, <4>3, PicksGrow
      <4> QED BY <2>1, <4>4 DEF Reached
    <3>3. CASE i = k
      <4>1. sum = SumFunction(picked(s, q)) + s[k]
        BY <2>1, <3>1, <3>3, PickOne
      <4>2. q \in Picks(Len(s))
        BY <1>1, <3>1, <3>3, PicksGrow
      <4>3. SumFunction(picked(s, q)) \in Nat
        BY <4>2, PickedType
      <4>4. s[k] <= sum /\ SumFunction(picked(s, q)) = sum - s[k]
        BY <1>1, <4>1, <4>3
      <4> QED BY <3>1, <3>3, <4>4 DEF Reached
    <3> QED BY <3>2, <3>3
  <2> QED BY <2>2, <2>3
<1> QED BY <1>2, <1>3, <1>4, <1>5

\* What is_subset_sum makes of its own answers for one element less.
tells(s, g, k, rest) ==
  \/ rest = 0
  \/ k # 0 /\ \/ g[k - 1][rest]
              \/ s[k] <= rest /\ g[k - 1][rest - s[k]]

Answers(s, sum, g) == g = [k \in 0 .. Len(s) |-> [rest \in 0 .. sum |-> tells(s, g, k, rest)]]

LEMMA AnswersExist ==
  ASSUME NEW s \in Seq(Positive), NEW sum \in Nat PROVE \E g : Answers(s, sum, g)
<1> DEFINE n == Len(s)
           V == [0 .. sum -> BOOLEAN]
           e == [rest \in 0 .. sum |-> rest = 0]
           goes(m, g, rest) == \/ rest = 0
                               \/ g[rest]
                               \/ s[m + 1] <= rest /\ g[rest - s[m + 1]]
           h == [m \in Nat |-> [g \in V |-> [rest \in 0 .. sum |-> goes(m, g, rest)]]]
<1>1. ASSUME NEW m \in Nat, NEW g \in V PROVE [rest \in 0 .. sum |-> goes(m, g, rest)] \in V
  <2>1. \A rest \in 0 .. sum : goes(m, g, rest) \in BOOLEAN
    OBVIOUS
  <2> HIDE DEF goes
  <2> QED BY <2>1
<1> HIDE DEF goes
<1>2. PICK k : k = h
  OBVIOUS
<1>3. k \in Steps(V)
  BY <1>1, <1>2 DEF Steps
<1>4. n \in Nat /\ e \in V
  OBVIOUS
<1>5. \A m \in Nat, g \in V : k[m][g] = [rest \in 0 .. sum |-> goes(m, g, rest)]
  BY <1>2
<1> HIDE DEF h, e, n, V
<1>6. Iterates(V, e, k, n)
  BY <1>3, <1>4, Recursion
<1>7. PICK g \in [0 .. n -> V] :
        \A m \in 0 .. n : g[m] = IF m = 0 THEN e ELSE k[m - 1][g[m - 1]]
  BY <1>6 DEF Iterates
<1>8. ASSUME NEW m \in 0 .. n PROVE g[m] = [rest \in 0 .. sum |-> tells(s, g, m, rest)]
  <2>1. CASE m = 0
    BY <1>7, <2>1 DEF e, tells
  <2>2. CASE m # 0
    <3>1. m - 1 \in 0 .. n /\ m - 1 \in Nat /\ (m - 1) + 1 = m
      BY <1>4, <2>2
    <3>2. g[m] = [rest \in 0 .. sum |-> goes(m - 1, g[m - 1], rest)]
      BY <1>5, <1>7, <2>2, <3>1
    <3>3. \A rest \in 0 .. sum : goes(m - 1, g[m - 1], rest) = tells(s, g, m, rest)
      BY <2>2, <3>1 DEF goes, tells
    <3> QED BY <3>2, <3>3
  <2> QED BY <2>1, <2>2
<1>9. g = [m \in 0 .. n |-> [rest \in 0 .. sum |-> tells(s, g, m, rest)]]
  BY <1>7, <1>8
<1> QED BY <1>9 DEF Answers, n

LEMMA LastAnswer ==
  ASSUME NEW s, NEW sum, NEW g, Answers(s, sum, g)
  PROVE  \E f : Answers(s, sum, f) /\ is_subset_sum(s, Len(s), sum) = f[Len(s)][sum]
<1> DEFINE f == CHOOSE f : f = [k \in 0 .. Len(s) |-> [rest \in 0 .. sum |-> tells(s, f, k, rest)]]
<1>1. f = [k \in 0 .. Len(s) |-> [rest \in 0 .. sum |-> tells(s, f, k, rest)]]
  BY DEF Answers
<1>2. is_subset_sum(s, Len(s), sum) = f[Len(s)][sum]
  BY DEF is_subset_sum, tells
<1> QED BY <1>1, <1>2 DEF Answers

\* is_subset_sum finds out whether some elements have the sum.
LEMMA SubsetSumIsRight ==
  ASSUME NEW s \in Seq(Positive), NEW sum \in Nat
  PROVE  is_subset_sum(s, Len(s), sum) <=> Reached(s, Len(s), sum)
<1>1. PICK f : Answers(s, sum, f) /\ is_subset_sum(s, Len(s), sum) = f[Len(s)][sum]
  BY AnswersExist, LastAnswer
<1>2. ASSUME NEW k \in 0 .. Len(s), NEW rest \in 0 .. sum PROVE f[k][rest] <=> tells(s, f, k, rest)
  <2>1. f[k] = [r \in 0 .. sum |-> tells(s, f, k, r)]
    BY <1>1 DEF Answers
  <2> QED BY <2>1
<1> DEFINE P == {k \in Nat : k <= Len(s) => \A rest \in 0 .. sum : f[k][rest] <=> Reached(s, k, rest)}
<1>3. 0 \in P
  <2>1. ASSUME NEW rest \in 0 .. sum PROVE f[0][rest] <=> Reached(s, 0, rest)
    <3>1. f[0][rest] <=> tells(s, f, 0, rest)
      BY <1>2
    <3> QED BY <3>1, ReachedFirst DEF tells
  <2> QED BY <2>1
<1>4. ASSUME NEW k \in P PROVE k + 1 \in P
  <2> SUFFICES ASSUME k + 1 <= Len(s), NEW rest \in 0 .. sum
               PROVE  f[k + 1][rest] <=> Reached(s, k + 1, rest)
    OBVIOUS
  <2>1. k \in Nat /\ k <= Len(s) /\ k + 1 \in 0 .. Len(s) /\ k + 1 \in 1 .. Len(s) /\ k + 1 # 0
        /\ (k + 1) - 1 = k
    OBVIOUS
  <2>2. \A r \in 0 .. sum : f[k][r] <=> Reached(s, k, r)
    BY <2>1
  <2>3. f[k + 1][rest] <=> tells(s, f, k + 1, rest)
    BY <1>2, <2>1
  <2>4. s[k + 1] \in Positive /\ (s[k + 1] <= rest => rest - s[k + 1] \in 0 .. sum)
    <3>1. s[k + 1] \in Positive
      BY <2>1
    <3> QED BY <3>1 DEF Positive
  <2>5. tells(s, f, k + 1, rest) <=> \/ rest = 0
                                     \/ Reached(s, k, rest)
                                     \/ s[k + 1] <= rest /\ Reached(s, k, rest - s[k + 1])
    <3>1. tells(s, f, k + 1, rest) <=> \/ rest = 0
                                       \/ f[k][rest]
                                       \/ s[k + 1] <= rest /\ f[k][rest - s[k + 1]]
      BY <2>1 DEF tells
    <3>2. f[k][rest] <=> Reached(s, k, rest)
      BY <2>2
    <3>3. ASSUME s[k + 1] <= rest PROVE f[k][rest - s[k + 1]] <=> Reached(s, k, rest - s[k + 1])
      BY <2>2, <2>4, <3>3
    <3> QED BY <3>1, <3>2, <3>3
  <2>6. Reached(s, k + 1, rest) <=> \/ rest = 0
                                    \/ Reached(s, k, rest)
                                    \/ s[k + 1] <= rest /\ Reached(s, k, rest - s[k + 1])
    <3>1. rest \in Nat
      OBVIOUS
    <3> HIDE DEF P
    <3> QED BY <2>1, <3>1, ReachedNext
  <2> QED BY <2>3, <2>5, <2>6
<1> HIDE DEF P
<1>5. Len(s) \in P
  <2>1. P \in SUBSET Nat
    BY DEF P
  <2>2. P = Nat
    BY <1>3, <1>4, <2>1, EveryNumber
  <2> QED BY <2>2
<1>6. f[Len(s)][sum] <=> Reached(s, Len(s), sum)
  BY <1>5 DEF P
<1> QED BY <1>1, <1>6

-----------------------------------------------------------------------------
(* The list and its sublists *)

\* A set of numbers has a first one.
LEMMA FirstOf ==
  ASSUME NEW S \in SUBSET Nat, S # {} PROVE Min(S) \in S /\ \A m \in S : Min(S) <= m
<1> DEFINE below == OpToRel(<, Nat)
<1>1. IsWellFoundedOn(below, Nat)
  BY NatLessThanWellFounded
<1>2. \A m, n \in Nat : m < n => <<m, n>> \in below
  BY DEF OpToRel
<1> HIDE DEF below
<1>3. PICK n \in S : \A m \in S : ~(<<m, n>> \in below)
  BY <1>1, WFMin
<1>4. \A m \in S : n <= m
  <2>1. \A m \in S : ~(m < n)
    BY <1>2, <1>3
  <2> QED BY <2>1
<1> QED BY <1>3, <1>4 DEF Min

LEMMA WorkArrayType ==
  ASSUME NEW numbs \in Seq(Int) PROVE work_array(numbs) \in Seq(Positive)
<1> DEFINE stops == {i \in DOMAIN numbs : numbs[i] <= 0}
<1>1. CASE stops = {}
  <2>1. work_array(numbs) = numbs
    BY <1>1 DEF work_array
  <2>2. \A i \in 1 .. Len(numbs) : numbs[i] \in Positive
    BY <1>1 DEF Positive
  <2>3. numbs = [i \in 1 .. Len(numbs) |-> numbs[i]] /\ Len(numbs) \in Nat
    OBVIOUS
  <2> HIDE DEF stops
  <2> QED BY <2>1, <2>2, <2>3
<1>2. CASE stops # {}
  <2>1. stops \in SUBSET Nat
    OBVIOUS
  <2>2. Min(stops) \in stops /\ \A i \in stops : Min(stops) <= i
    BY <1>2, <2>1, FirstOf
  <2>3. PICK n : n = Min(stops)
    OBVIOUS
  <2>4. work_array(numbs) = SubSeq(numbs, 1, n - 1)
    BY <1>2, <2>3 DEF work_array
  <2>5. n \in 1 .. Len(numbs) /\ \A i \in 1 .. n - 1 : numbs[i] > 0
    <3>1. n \in 1 .. Len(numbs)
      BY <2>2, <2>3
    <3>2. ASSUME NEW i \in 1 .. n - 1 PROVE numbs[i] > 0
      <4>1. i \in DOMAIN numbs /\ i < n
        BY <3>1
      <4>2. i \notin stops
        BY <2>1, <2>2, <2>3, <4>1
      <4> QED BY <4>1, <4>2
    <3> QED BY <3>1, <3>2
  <2>6. \A i \in 1 .. n - 1 : numbs[i] \in Positive
    BY <2>5 DEF Positive
  <2> QED BY <2>4, <2>5, <2>6, SubSeqProperties
<1> QED BY <1>1, <1>2

\* One cannot pick more than there is.
LEMMA PickLength ==
  ASSUME NEW n \in Nat, NEW p \in Picks(n) PROVE Len(p) \in 0 .. n
<1>1. p \in Seq(1 .. n) /\ Len(p) \in Nat /\ DOMAIN p = 1 .. Len(p) /\ Ascending(p)
  BY DEF Picks
<1>2. \A k \in 1 .. Len(p) : p[k] \in 1 .. n
  BY <1>1
<1> DEFINE P == {k \in Nat : k # 0 /\ k <= Len(p) => p[k] >= k}
<1>3. 0 \in P
  OBVIOUS
<1>4. ASSUME NEW k \in P PROVE k + 1 \in P
  <2> SUFFICES ASSUME k + 1 <= Len(p) PROVE p[k + 1] >= k + 1
    OBVIOUS
  <2>1. p[k + 1] \in 1 .. n
    BY <1>1, <1>2
  <2>2. CASE k = 0
    BY <2>1, <2>2
  <2>3. CASE k # 0
    <3>1. k \in 1 .. Len(p) /\ k + 1 \in 1 .. Len(p) /\ k < k + 1
      BY <1>1, <2>3
    <3>2. p[k] < p[k + 1]
      BY <1>1, <3>1 DEF Ascending
    <3>3. p[k] >= k /\ p[k] \in Int
      BY <1>2, <2>3, <3>1
    <3> QED BY <2>1, <3>2, <3>3
  <2> QED BY <2>2, <2>3
<1> HIDE DEF P
<1>5. Len(p) \in P
  <2>1. P \in SUBSET Nat
    BY DEF P
  <2>2. P = Nat
    BY <1>3, <1>4, <2>1, EveryNumber
  <2> QED BY <2>2, <1>1
<1>6. Len(p) # 0 => p[Len(p)] >= Len(p) /\ p[Len(p)] \in 1 .. n
  BY <1>1, <1>2, <1>5 DEF P
<1> QED BY <1>1, <1>6

LEMMA SublistsArePicked ==
  ASSUME NEW s \in Seq(Positive)
  PROVE  Sublists(s) = {picked(s, p) : p \in Picks(Len(s))}
<1>1. Len(s) \in Nat /\ DOMAIN s = 1 .. Len(s)
  OBVIOUS
<1>2. {p \in BoundedSeq(DOMAIN s, Len(s)) : Ascending(p)} = Picks(Len(s))
  <2>1. ASSUME NEW p \in BoundedSeq(DOMAIN s, Len(s)) PROVE p \in Seq(1 .. Len(s))
    <3>1. PICK m \in 0 .. Len(s) : p \in [1 .. m -> 1 .. Len(s)]
      BY <1>1 DEF BoundedSeq, SeqOf
    <3> QED BY <3>1
  <2>2. ASSUME NEW p \in Picks(Len(s)) PROVE p \in BoundedSeq(DOMAIN s, Len(s)) /\ Ascending(p)
    <3>1. Len(p) \in 0 .. Len(s) /\ p \in Seq(1 .. Len(s)) /\ Ascending(p)
      BY <1>1, PickLength DEF Picks
    <3>2. p \in [1 .. Len(p) -> 1 .. Len(s)]
      BY <3>1
    <3> QED BY <1>1, <3>1, <3>2 DEF BoundedSeq, SeqOf
  <2> QED BY <2>1, <2>2 DEF Picks
<1> QED BY <1>2 DEF Sublists, picked

LEMMA SolutionsAreReached ==
  ASSUME NEW l \in Line
  PROVE  LET s == work_array(l.numbs)
         IN  /\ s \in Seq(Positive) /\ l.sum \in Positive /\ l.zeros \in Nat
             /\ Solutions(l) = {picked(s, p) : p \in {p \in Picks(Len(s)) : SumFunction(picked(s, p)) = l.sum}}
             /\ Solutions(l) # {} <=> is_subset_sum(s, Len(s), l.sum)
<1> DEFINE s == work_array(l.numbs)
<1>1. l.numbs \in Seq(Int) /\ l.sum \in Positive /\ l.zeros \in Nat
  <2>1. l.numbs \in BoundedSeq(Number, MaxLength) /\ l.sum \in Target /\ l.zeros \in Garbage
    BY DEF Line
  <2>2. PICK m \in 0 .. MaxLength : l.numbs \in [1 .. m -> Number]
    BY <2>1 DEF BoundedSeq, SeqOf
  <2>3. m \in Nat /\ \A i \in 1 .. m : l.numbs[i] \in Int
    <3>1. m \in Nat /\ Number \subseteq Int
      BY LineAssumption
    <3>2. \A i \in 1 .. m : l.numbs[i] \in Number
      BY <2>2
    <3> QED BY <3>1, <3>2
  <2>4. l.numbs \in Seq(Int)
    BY <2>2, <2>3
  <2> QED BY <2>1, <2>4, LineAssumption DEF Positive
<1>2. s \in Seq(Positive)
  BY <1>1, WorkArrayType
<1> HIDE DEF s
<1>3. Solutions(l) = {picked(s, p) : p \in {p \in Picks(Len(s)) : SumFunction(picked(s, p)) = l.sum}}
  BY <1>2, SublistsArePicked DEF Solutions, s
<1>4. Solutions(l) # {} <=> Reached(s, Len(s), l.sum)
  BY <1>3 DEF Reached
<1>5. is_subset_sum(s, Len(s), l.sum) <=> Reached(s, Len(s), l.sum)
  <2>1. l.sum \in Nat
    BY <1>1 DEF Positive
  <2> QED BY <1>2, <2>1, SubsetSumIsRight
<1> QED BY <1>1, <1>2, <1>3, <1>4, <1>5 DEF s

-----------------------------------------------------------------------------
(* Sequences of sequences *)

LEMMA FlattenSteps ==
  ASSUME NEW S, NEW ss \in Seq(Seq(S)), ss # <<>>
  PROVE  \E f \in [1 .. Len(ss) -> Seq(S)] :
           /\ \A i \in 1 .. Len(ss) : f[i] = IF i = 1 THEN ss[i] ELSE f[i - 1] \o ss[i]
           /\ FlattenSeq(ss) = f[Len(ss)]
<1> DEFINE n == Len(ss)
           V == Seq(S)
           e == ss[1]
           goes(m, v) == IF m + 2 <= n THEN v \o ss[m + 2] ELSE v
           h == [m \in Nat |-> [v \in V |-> goes(m, v)]]
<1>1. n \in Nat /\ n >= 1 /\ \A i \in 1 .. n : ss[i] \in V
  OBVIOUS
<1>2. e \in V
  BY <1>1
<1>3. ASSUME NEW m \in Nat, NEW v \in V PROVE goes(m, v) \in V
  <2>1. CASE m + 2 <= n
    <3>1. ss[m + 2] \in V
      BY <1>1, <2>1
    <3> QED BY <2>1, <3>1, ConcatProperties
  <2>2. CASE ~(m + 2 <= n)
    BY <2>2
  <2> QED BY <2>1, <2>2
<1> HIDE DEF goes
<1>4. PICK k : k = h
  OBVIOUS
<1>5. k \in Steps(V)
  BY <1>3, <1>4 DEF Steps
<1>6. \A m \in Nat, v \in V : k[m][v] = goes(m, v)
  BY <1>4
<1> HIDE DEF h, e, n, V
<1>7. Iterates(V, e, k, n - 1)
  <2>1. n - 1 \in Nat
    BY <1>1
  <2> QED BY <1>2, <1>5, <2>1, Recursion
<1>8. PICK g \in [0 .. n - 1 -> V] :
        \A m \in 0 .. n - 1 : g[m] = IF m = 0 THEN e ELSE k[m - 1][g[m - 1]]
  BY <1>7 DEF Iterates
<1> DEFINE f == [i \in 1 .. n |-> g[i - 1]]
<1>9. f \in [1 .. n -> V]
  BY <1>1, <1>8
<1>10. ASSUME NEW i \in 1 .. n PROVE f[i] = IF i = 1 THEN ss[i] ELSE f[i - 1] \o ss[i]
  <2>1. i - 1 \in 0 .. n - 1 /\ f[i] = g[i - 1]
    BY <1>1
  <2>2. CASE i = 1
    BY <1>8, <2>1, <2>2 DEF e
  <2>3. CASE i # 1
    <3>1. /\ (i - 1) - 1 \in 0 .. n - 1 /\ (i - 1) - 1 \in Nat /\ i - 1 \in 1 .. n /\ i - 1 # 0
          /\ ((i - 1) - 1) + 2 = i /\ i <= n
      BY <1>1, <2>3
    <3>2. g[i - 1] = goes((i - 1) - 1, g[(i - 1) - 1])
      BY <1>6, <1>8, <2>1, <3>1
    <3>3. f[i - 1] = g[(i - 1) - 1]
      BY <3>1
    <3> QED BY <2>1, <2>3, <3>1, <3>2, <3>3 DEF goes
  <2> QED BY <2>2, <2>3
<1> DEFINE flatten == CHOOSE fl : fl = [i \in 1 .. Len(ss) |->
                                          IF i = 1 THEN ss[i] ELSE fl[i - 1] \o ss[i]]
<1>11. FlattenSeq(ss) = flatten[Len(ss)]
  <2>1. Len(ss) # 0
    BY <1>1 DEF n
  <2> QED BY <2>1 DEF FlattenSeq
<1>12. flatten = [i \in 1 .. Len(ss) |-> IF i = 1 THEN ss[i] ELSE flatten[i - 1] \o ss[i]]
  <2>1. f = [i \in 1 .. Len(ss) |-> IF i = 1 THEN ss[i] ELSE f[i - 1] \o ss[i]]
    BY <1>9, <1>10 DEF n
  <2> HIDE DEF f
  <2> QED BY <2>1
<1> HIDE DEF f, flatten
<1> DEFINE P == {i \in Nat : i \in 1 .. n => flatten[i] = f[i]}
<1>13. \A i \in 1 .. n : flatten[i] = IF i = 1 THEN ss[i] ELSE flatten[i - 1] \o ss[i]
  BY <1>12 DEF n
<1>14. ASSUME NEW i \in P PROVE i + 1 \in P
  <2> SUFFICES ASSUME i + 1 \in 1 .. n PROVE flatten[i + 1] = f[i + 1]
    OBVIOUS
  <2>1. i + 1 = 1 \/ i \in 1 .. n
    BY <1>1
  <2>2. (i + 1) - 1 = i
    OBVIOUS
  <2> QED BY <1>10, <1>13, <2>1, <2>2
<1>15. 0 \in P
  BY <1>1
<1> HIDE DEF P
<1>16. n \in P
  <2>1. P \in SUBSET Nat
    BY DEF P
  <2>2. P = Nat
    BY <1>14, <1>15, <2>1, EveryNumber
  <2> QED BY <1>1, <2>2
<1>17. flatten[n] = f[n]
  <2>1. n \in 1 .. n
    BY <1>1
  <2> QED BY <1>16, <2>1 DEF P
<1> QED BY <1>9, <1>10, <1>11, <1>17 DEF n, V

LEMMA ConcatParts ==
  ASSUME NEW S, NEW a \in Seq(S), NEW b \in Seq(S)
  PROVE  /\ a \o b \in Seq(S)
         /\ ToSet(a \o b) = ToSet(a) \cup ToSet(b)
         /\ IsInjective(a) /\ IsInjective(b) /\ ToSet(a) \cap ToSet(b) = {} => IsInjective(a \o b)
<1>1. /\ a \o b \in Seq(S) /\ Len(a) \in Nat /\ Len(b) \in Nat
      /\ DOMAIN (a \o b) = 1 .. Len(a) + Len(b) /\ DOMAIN a = 1 .. Len(a) /\ DOMAIN b = 1 .. Len(b)
      /\ \A i \in 1 .. Len(a) + Len(b) : (a \o b)[i] = IF i <= Len(a) THEN a[i] ELSE b[i - Len(a)]
  BY ConcatProperties
<1>2. ToSet(a \o b) = ToSet(a) \cup ToSet(b)
  <2>1. Range(a \o b) = Range(a) \cup Range(b)
    BY RangeConcatenation
  <2> QED BY <2>1 DEF ToSet, Range
<1>3. ASSUME IsInjective(a), IsInjective(b), ToSet(a) \cap ToSet(b) = {},
             NEW i \in 1 .. Len(a) + Len(b), NEW j \in 1 .. Len(a) + Len(b),
             (a \o b)[i] = (a \o b)[j]
      PROVE  i = j
  <2>1. CASE i <= Len(a) /\ j <= Len(a)
    <3>1. i \in DOMAIN a /\ j \in DOMAIN a /\ a[i] = a[j]
      BY <1>1, <1>3, <2>1
    <3> QED BY <1>3, <3>1 DEF IsInjective
  <2>2. CASE i > Len(a) /\ j > Len(a)
    <3>1. i - Len(a) \in DOMAIN b /\ j - Len(a) \in DOMAIN b /\ b[i - Len(a)] = b[j - Len(a)]
      BY <1>1, <1>3, <2>2
    <3>2. i - Len(a) = j - Len(a)
      BY <1>3, <3>1 DEF IsInjective
    <3> QED BY <1>1, <3>2
  <2>3. CASE i <= Len(a) /\ j > Len(a)
    <3>1. i \in DOMAIN a /\ j - Len(a) \in DOMAIN b /\ a[i] = b[j - Len(a)]
      BY <1>1, <1>3, <2>3
    <3>2. a[i] \in ToSet(a) /\ a[i] \in ToSet(b)
      BY <3>1 DEF ToSet
    <3> QED BY <1>3, <3>2
  <2>4. CASE i > Len(a) /\ j <= Len(a)
    <3>1. j \in DOMAIN a /\ i - Len(a) \in DOMAIN b /\ a[j] = b[i - Len(a)]
      BY <1>1, <1>3, <2>4
    <3>2. a[j] \in ToSet(a) /\ a[j] \in ToSet(b)
      BY <3>1 DEF ToSet
    <3> QED BY <1>3, <3>2
  <2> QED BY <1>1, <2>1, <2>2, <2>3, <2>4
<1> QED BY <1>1, <1>2, <1>3 DEF IsInjective

\* FlattenSeq has the elements of all, and none twice if the sequences have none twice
\* and none in common.
LEMMA FlattenParts ==
  ASSUME NEW S, NEW ss \in Seq(Seq(S))
  PROVE  /\ FlattenSeq(ss) \in Seq(S)
         /\ ToSet(FlattenSeq(ss)) = UNION {ToSet(ss[i]) : i \in 1 .. Len(ss)}
         /\ /\ \A i \in 1 .. Len(ss) : IsInjective(ss[i])
            /\ \A i, j \in 1 .. Len(ss) : i # j => ToSet(ss[i]) \cap ToSet(ss[j]) = {}
            => IsInjective(FlattenSeq(ss))
<1>1. CASE ss = <<>>
  <2>1. FlattenSeq(ss) = <<>> /\ Len(ss) = 0
    BY <1>1 DEF FlattenSeq
  <2> QED BY <2>1 DEF ToSet, IsInjective
<1>2. CASE ss # <<>>
  <2> DEFINE n == Len(ss)
             parts(i) == UNION {ToSet(ss[j]) : j \in 1 .. i}
             apart == /\ \A i \in 1 .. n : IsInjective(ss[i])
                      /\ \A i, j \in 1 .. n : i # j => ToSet(ss[i]) \cap ToSet(ss[j]) = {}
  <2>1. n \in Nat /\ n >= 1 /\ \A i \in 1 .. n : ss[i] \in Seq(S)
    BY <1>2
  <2>2. PICK f \in [1 .. n -> Seq(S)] :
          /\ \A i \in 1 .. n : f[i] = IF i = 1 THEN ss[i] ELSE f[i - 1] \o ss[i]
          /\ FlattenSeq(ss) = f[n]
    BY <1>2, FlattenSteps
  <2> HIDE DEF parts, apart, n
  <2> DEFINE P == {i \in Nat : i \in 1 .. n => ToSet(f[i]) = parts(i) /\ (apart => IsInjective(f[i]))}
  <2>3. 0 \in P
    BY <2>1
  <2>4. ASSUME NEW i \in P PROVE i + 1 \in P
    <3> SUFFICES ASSUME i + 1 \in 1 .. n
                 PROVE  ToSet(f[i + 1]) = parts(i + 1) /\ (apart => IsInjective(f[i + 1]))
      OBVIOUS
    <3>0. i \in Nat /\ (i \in 1 .. n => ToSet(f[i]) = parts(i) /\ (apart => IsInjective(f[i])))
      OBVIOUS
    <3> HIDE DEF P
    <3>1. CASE i = 0
      <4>1. f[1] = ss[1]
        <5>1. 1 \in 1 .. n
          BY <2>1
        <5> QED BY <2>2, <5>1
      <4>2. parts(1) = ToSet(ss[1])
        BY DEF parts
      <4>3. apart => IsInjective(ss[1])
        BY <2>1 DEF apart
      <4> QED BY <3>1, <4>1, <4>2, <4>3
    <3>2. CASE i # 0
      <4>1. i \in 1 .. n /\ (i + 1) - 1 = i /\ i + 1 # 1
        BY <2>1, <3>0, <3>2
      <4>2. f[i + 1] = f[i] \o ss[i + 1]
        BY <2>2, <4>1
      <4>3. ToSet(f[i]) = parts(i) /\ (apart => IsInjective(f[i]))
        BY <3>0, <4>1
      <4>4. parts(i + 1) = parts(i) \cup ToSet(ss[i + 1])
        <5>1. 1 .. i + 1 = (1 .. i) \cup {i + 1}
          BY <4>1
        <5> QED BY <5>1 DEF parts
      <4>5. apart => IsInjective(ss[i + 1]) /\ parts(i) \cap ToSet(ss[i + 1]) = {}
        <5> SUFFICES ASSUME apart PROVE IsInjective(ss[i + 1]) /\ parts(i) \cap ToSet(ss[i + 1]) = {}
          OBVIOUS
        <5>1. \A j \in 1 .. i : j \in 1 .. n /\ j # i + 1
          BY <2>1, <4>1
        <5>2. \A j \in 1 .. i : ToSet(ss[j]) \cap ToSet(ss[i + 1]) = {}
          BY <5>1 DEF apart
        <5>3. IsInjective(ss[i + 1])
          BY DEF apart
        <5> QED BY <5>2, <5>3 DEF parts
      <4>6. f[i] \in Seq(S) /\ ss[i + 1] \in Seq(S)
        BY <2>1, <2>2, <4>1
      <4>7. ToSet(f[i + 1]) = parts(i + 1)
        <5>1. ToSet(f[i] \o ss[i + 1]) = ToSet(f[i]) \cup ToSet(ss[i + 1])
          BY <4>6, ConcatParts
        <5> QED BY <4>2, <4>3, <4>4, <5>1
      <4>8. apart => IsInjective(f[i + 1])
        BY <4>2, <4>3, <4>5, <4>6, ConcatParts
      <4> QED BY <4>7, <4>8
    <3> QED BY <3>1, <3>2
  <2> HIDE DEF P
  <2>5. n \in P
    <3>1. P \in SUBSET Nat
      BY DEF P
    <3>2. P = Nat
      BY <2>3, <2>4, <3>1, EveryNumber
    <3> QED BY <2>1, <3>2
  <2>6. n \in 1 .. n
    BY <2>1
  <2>7. ToSet(f[n]) = parts(n) /\ (apart => IsInjective(f[n])) /\ f[n] \in Seq(S)
    BY <2>2, <2>5, <2>6 DEF P
  <2> QED BY <2>2, <2>7 DEF parts, apart, n
<1> QED BY <1>1, <1>2

-----------------------------------------------------------------------------
(* subset_sum: the search exists *)

Tuples == Seq(Seq(Int))

\* What a call prints, if g says what the calls it makes print.
prints(s, zeros, target, g, c) ==
  IF c.sum = target
  THEN print_subset(c.t, target) \o g[exclude(c, s, zeros)]
  ELSE FlattenSeq([k \in 1 .. Len(s) - c.ite |-> g[take(c, s, c.ite + k)]])

Searched(s, zeros, target, g) == g = [c \in Call |-> prints(s, zeros, target, g, c)]

\* A bound on the depth of the calls that are left.
left(s, zeros, target, c) ==
  IF c.ite < Len(s) + zeros THEN (Len(s) + zeros) - c.ite + 1
  ELSE IF c.sum = target THEN 1 ELSE 0

LEMMA CallsGoDown ==
  ASSUME NEW s \in Seq(Positive), NEW zeros \in Nat, NEW target \in Nat, NEW c \in Call
  PROVE  /\ left(s, zeros, target, c) \in 0 .. Len(s) + zeros + 1
         /\ exclude(c, s, zeros) \in Call
         /\ c.sum = target =>
              left(s, zeros, target, exclude(c, s, zeros)) < left(s, zeros, target, c)
         /\ \A k \in 1 .. Len(s) - c.ite :
              /\ take(c, s, c.ite + k) \in Call
              /\ left(s, zeros, target, take(c, s, c.ite + k)) < left(s, zeros, target, c)
<1>1. c.t \in Seq(Int) /\ c.sum \in Int /\ c.ite \in Nat /\ Len(s) \in Nat
  BY DEF Call
<1>2. left(s, zeros, target, c) \in 0 .. Len(s) + zeros + 1
  BY <1>1 DEF left
<1>3. at(s, c.ite, zeros) \in Int /\ (c.ite >= Len(s) + zeros => at(s, c.ite, zeros) = 1)
  <2>1. CASE c.ite < Len(s)
    <3>1. s[c.ite + 1] \in Positive
      BY <1>1, <2>1
    <3> QED BY <1>1, <2>1, <3>1 DEF at, Positive
  <2>2. CASE ~(c.ite < Len(s))
    BY <1>1, <2>2 DEF at
  <2> QED BY <2>1, <2>2
<1>4. SubSeq(c.t, 1, Len(c.t) - 1) \in Seq(Int)
  <2>1. \A i \in 1 .. Len(c.t) - 1 : c.t[i] \in Int
    BY <1>1
  <2>2. Len(c.t) - 1 \in Int
    BY <1>1
  <2> QED BY <2>1, <2>2, SubSeqProperties
<1>5. exclude(c, s, zeros) \in Call
  BY <1>1, <1>3, <1>4 DEF exclude, Call
<1>6. ASSUME c.sum = target
      PROVE  left(s, zeros, target, exclude(c, s, zeros)) < left(s, zeros, target, c)
  <2>1. exclude(c, s, zeros).ite = c.ite + 1
        /\ exclude(c, s, zeros).sum = c.sum - at(s, c.ite, zeros)
    BY DEF exclude
  <2>2. CASE c.ite < Len(s) + zeros
    BY <1>1, <2>1, <2>2 DEF left
  <2>3. CASE c.ite >= Len(s) + zeros
    BY <1>1, <1>3, <1>6, <2>1, <2>3 DEF left
  <2> QED BY <1>1, <2>2, <2>3
<1>7. ASSUME NEW k \in 1 .. Len(s) - c.ite
      PROVE  /\ take(c, s, c.ite + k) \in Call
             /\ left(s, zeros, target, take(c, s, c.ite + k)) < left(s, zeros, target, c)
  <2>1. s[c.ite + k] \in Int
    <3>1. s[c.ite + k] \in Positive
      BY <1>1
    <3> QED BY <3>1 DEF Positive
  <2>2. take(c, s, c.ite + k) \in Call
    BY <1>1, <2>1 DEF take, Call
  <2>3. take(c, s, c.ite + k).ite = c.ite + k
    BY DEF take
  <2>4. left(s, zeros, target, take(c, s, c.ite + k)) < left(s, zeros, target, c)
    BY <1>1, <2>3 DEF left
  <2> QED BY <2>2, <2>4
<1> QED BY <1>2, <1>5, <1>6, <1>7

\* Induction over the calls: a set that has every call whose calls it has, has all.
LEMMA EveryCall ==
  ASSUME NEW s \in Seq(Positive), NEW zeros \in Nat, NEW target \in Nat, NEW Q,
         \A c \in Call :
           /\ c.sum = target => exclude(c, s, zeros) \in Q
           /\ c.sum # target => \A k \in 1 .. Len(s) - c.ite : take(c, s, c.ite + k) \in Q
           => c \in Q
  PROVE  Call \subseteq Q
<1> DEFINE P == {n \in Nat : \A c \in Call : left(s, zeros, target, c) < n => c \in Q}
<1>1. 0 \in P
  BY CallsGoDown
<1>2. ASSUME NEW n \in P PROVE n + 1 \in P
  <2>1. n \in Nat /\ \A c \in Call : left(s, zeros, target, c) < n => c \in Q
    OBVIOUS
  <2> HIDE DEF P
  <2>2. ASSUME NEW c \in Call, left(s, zeros, target, c) < n + 1 PROVE c \in Q
    <3>1. left(s, zeros, target, c) \in Int
      BY CallsGoDown
    <3>2. ASSUME NEW d \in Call, left(s, zeros, target, d) < left(s, zeros, target, c) PROVE d \in Q
      <4>1. left(s, zeros, target, d) \in Int
        BY CallsGoDown
      <4>2. left(s, zeros, target, d) < n
        BY <2>1, <2>2, <3>1, <3>2, <4>1
      <4> QED BY <2>1, <4>2
    <3>3. c.sum = target => exclude(c, s, zeros) \in Q
      BY <3>2, CallsGoDown
    <3>4. \A k \in 1 .. Len(s) - c.ite : take(c, s, c.ite + k) \in Q
      BY <3>2, CallsGoDown
    <3> QED BY <3>3, <3>4
  <2> QED BY <2>1, <2>2 DEF P
<1>3. P = Nat
  <2>1. P \in SUBSET Nat
    OBVIOUS
  <2> HIDE DEF P
  <2> QED BY <1>1, <1>2, <2>1, EveryNumber
<1>4. ASSUME NEW c \in Call PROVE c \in Q
  <2>1. left(s, zeros, target, c) \in Nat
    <3>1. left(s, zeros, target, c) \in 0 .. Len(s) + zeros + 1
      BY CallsGoDown
    <3> QED BY <3>1
  <2>2. left(s, zeros, target, c) + 1 \in P
    <3> HIDE DEF P
    <3> QED BY <1>3, <2>1
  <2>3. left(s, zeros, target, c) < left(s, zeros, target, c) + 1
    BY <2>1
  <2> QED BY <2>2, <2>3
<1> QED BY <1>4

LEMMA PrintsType ==
  ASSUME NEW s \in Seq(Positive), NEW zeros \in Nat, NEW target \in Nat, NEW c \in Call, NEW g,
         c.sum = target => g[exclude(c, s, zeros)] \in Tuples,
         c.sum # target => \A k \in 1 .. Len(s) - c.ite : g[take(c, s, c.ite + k)] \in Tuples
  PROVE  prints(s, zeros, target, g, c) \in Tuples
<1>1. CASE c.sum = target
  <2>1. print_subset(c.t, target) \in Tuples
    BY DEF Call, Tuples, print_subset
  <2>2. g[exclude(c, s, zeros)] \in Tuples
    BY <1>1
  <2>3. print_subset(c.t, target) \o g[exclude(c, s, zeros)] \in Tuples
    BY <2>1, <2>2, ConcatProperties DEF Tuples
  <2> QED BY <1>1, <2>3 DEF prints
<1>2. CASE c.sum # target
  <2> DEFINE n == Len(s) - c.ite
             ss == [k \in 1 .. n |-> g[take(c, s, c.ite + k)]]
  <2>1. n \in Int
    BY DEF Call
  <2>2. \A k \in 1 .. n : ss[k] \in Tuples
    BY <1>2
  <2>3. ss \in Seq(Tuples)
    <3>1. ss = [k \in 1 .. n |-> ss[k]]
      OBVIOUS
    <3> HIDE DEF ss, n
    <3>2. CASE n >= 0
      BY <2>1, <2>2, <3>1, <3>2
    <3>3. CASE n < 0
      <4>1. 1 .. n = {}
        BY <2>1, <3>3
      <4>2. ss = <<>>
        BY <3>1, <4>1
      <4> QED BY <4>2
    <3> QED BY <2>1, <3>2, <3>3
  <2>4. FlattenSeq(ss) \in Tuples
    <3> HIDE DEF ss
    <3> QED BY <2>3, FlattenParts DEF Tuples
  <2> QED BY <1>2, <2>4 DEF prints
<1> QED BY <1>1, <1>2

LEMMA SearchExists ==
  ASSUME NEW s \in Seq(Positive), NEW zeros \in Nat, NEW target \in Nat
  PROVE  \E g : Searched(s, zeros, target, g)
<1> DEFINE V == [Call -> Tuples]
           e == [c \in Call |-> <<>>]
           h == [m \in Nat |-> [g \in V |-> [c \in Call |-> prints(s, zeros, target, g, c)]]]
           depth(c) == left(s, zeros, target, c)
           N == Len(s) + zeros + 2
<1>1. ASSUME NEW g \in V PROVE [c \in Call |-> prints(s, zeros, target, g, c)] \in V
  <2>1. ASSUME NEW c \in Call PROVE prints(s, zeros, target, g, c) \in Tuples
    <3>1. g[exclude(c, s, zeros)] \in Tuples
      BY CallsGoDown
    <3>2. \A k \in 1 .. Len(s) - c.ite : g[take(c, s, c.ite + k)] \in Tuples
      BY CallsGoDown
    <3> QED BY <3>1, <3>2, PrintsType
  <2> QED BY <2>1
<1>2. PICK k : k = h
  OBVIOUS
<1>3. k \in Steps(V)
  BY <1>1, <1>2 DEF Steps
<1>4. \A m \in Nat, g \in V, c \in Call : k[m][g][c] = prints(s, zeros, target, g, c)
  BY <1>2
<1>5. e \in V /\ N \in Nat
  BY DEF Tuples
<1>6. \A c \in Call : depth(c) \in Nat /\ depth(c) < N
  <2>1. ASSUME NEW c \in Call PROVE depth(c) \in Nat /\ depth(c) < N
    <3>1. depth(c) \in 0 .. Len(s) + zeros + 1
      BY CallsGoDown
    <3> QED BY <3>1
  <2> QED BY <2>1
<1> HIDE DEF h, e, N, V
<1>7. Iterates(V, e, k, N + 1)
  <2>1. N + 1 \in Nat
    BY <1>5
  <2> QED BY <1>3, <1>5, <2>1, Recursion
<1>8. PICK g \in [0 .. N + 1 -> V] :
        \A m \in 0 .. N + 1 : g[m] = IF m = 0 THEN e ELSE k[m - 1][g[m - 1]]
  BY <1>7 DEF Iterates
<1>9. ASSUME NEW m \in Nat, m <= N, NEW c \in Call
      PROVE  g[m] \in V /\ g[m + 1][c] = prints(s, zeros, target, g[m], c)
  <2>1. m \in 0 .. N + 1 /\ m + 1 \in 0 .. N + 1 /\ m + 1 # 0 /\ (m + 1) - 1 = m
    BY <1>5, <1>9
  <2>2. g[m] \in V /\ g[m + 1] = k[m][g[m]]
    BY <1>8, <2>1
  <2> QED BY <1>4, <2>2
<1> DEFINE P == {n \in Nat : n <= N => \A c \in Call : depth(c) < n => g[n + 1][c] = g[n][c]}
<1>10. 0 \in P
  BY <1>6
<1>11. ASSUME NEW n \in P PROVE n + 1 \in P
  <2> SUFFICES ASSUME n + 1 <= N, NEW c \in Call, depth(c) < n + 1
               PROVE  g[(n + 1) + 1][c] = g[n + 1][c]
    OBVIOUS
  <2>1. n \in Nat /\ n <= N /\ \A d \in Call : depth(d) < n => g[n + 1][d] = g[n][d]
    BY <1>5
  <2> HIDE DEF P
  <2>2. /\ g[(n + 1) + 1][c] = prints(s, zeros, target, g[n + 1], c)
        /\ g[n + 1][c] = prints(s, zeros, target, g[n], c)
    BY <1>9, <2>1
  <2>3. ASSUME NEW d \in Call, depth(d) < depth(c) PROVE g[n + 1][d] = g[n][d]
    <3>1. depth(d) < n
      BY <1>6, <2>1, <2>3
    <3> QED BY <2>1, <3>1
  <2> HIDE DEF depth
  <2>4. CASE c.sum = target
    <3>1. g[n + 1][exclude(c, s, zeros)] = g[n][exclude(c, s, zeros)]
      BY <2>3, <2>4, CallsGoDown DEF depth
    <3> QED BY <2>2, <2>4, <3>1 DEF prints
  <2>5. CASE c.sum # target
    <3>1. \A i \in 1 .. Len(s) - c.ite :
            g[n + 1][take(c, s, c.ite + i)] = g[n][take(c, s, c.ite + i)]
      BY <2>3, CallsGoDown DEF depth
    <3>2. [i \in 1 .. Len(s) - c.ite |-> g[n + 1][take(c, s, c.ite + i)]]
            = [i \in 1 .. Len(s) - c.ite |-> g[n][take(c, s, c.ite + i)]]
      BY <3>1
    <3> QED BY <2>2, <2>5, <3>2 DEF prints
  <2> QED BY <2>4, <2>5
<1> HIDE DEF P
<1>12. N \in P
  <2>1. P \in SUBSET Nat
    BY DEF P
  <2>2. P = Nat
    BY <1>10, <1>11, <2>1, EveryNumber
  <2> QED BY <1>5, <2>2
<1>13. \A c \in Call : g[N + 1][c] = g[N][c]
  BY <1>5, <1>6, <1>12 DEF P
<1>14. g[N] \in V /\ \A c \in Call : g[N + 1][c] = prints(s, zeros, target, g[N], c)
  <2>1. g[N] \in V
    BY <1>5, <1>8
  <2> QED BY <1>5, <1>9, <2>1
<1>15. g[N] = [c \in Call |-> prints(s, zeros, target, g[N], c)]
  BY <1>13, <1>14 DEF V
<1> QED BY <1>15 DEF Searched

LEMMA LastSearch ==
  ASSUME NEW s, NEW zeros, NEW target, NEW g, Searched(s, zeros, target, g)
  PROVE  \E f : Searched(s, zeros, target, f) /\ subset_sum(s, zeros, target) = f[First]
<1> DEFINE f == CHOOSE f : f = [c \in Call |-> prints(s, zeros, target, f, c)]
<1>1. f = [c \in Call |-> prints(s, zeros, target, f, c)]
  BY DEF Searched
<1>2. subset_sum(s, zeros, target) = f[First]
  BY DEF subset_sum, prints
<1> QED BY <1>1, <1>2 DEF Searched

\* f is the search: what each call prints.
Search(s, zeros, target, f) ==
  \A c \in Call : f[c] \in Tuples /\ f[c] = prints(s, zeros, target, f, c)

LEMMA TheSearch ==
  ASSUME NEW s \in Seq(Positive), NEW zeros \in Nat, NEW target \in Nat
  PROVE  \E f : Search(s, zeros, target, f) /\ subset_sum(s, zeros, target) = f[First]
<1>1. PICK f : Searched(s, zeros, target, f) /\ subset_sum(s, zeros, target) = f[First]
  <2>1. PICK g : Searched(s, zeros, target, g)
    BY SearchExists
  <2> QED BY <2>1, LastSearch
<1>2. \A c \in Call : f[c] = prints(s, zeros, target, f, c)
  BY <1>1 DEF Searched
<1> DEFINE Q == {c \in Call : f[c] \in Tuples}
<1>3. ASSUME NEW c \in Call,
             c.sum = target => exclude(c, s, zeros) \in Q,
             c.sum # target => \A k \in 1 .. Len(s) - c.ite : take(c, s, c.ite + k) \in Q
      PROVE  c \in Q
  <2>1. prints(s, zeros, target, f, c) \in Tuples
    BY <1>3, PrintsType
  <2> QED BY <1>2, <2>1
<1> HIDE DEF Q
<1>4. Call \subseteq Q
  BY <1>3, EveryCall
<1> QED BY <1>1, <1>2, <1>4 DEF Q, Search

LEMMA HitTypes ==
  ASSUME NEW s \in Seq(Positive), NEW zeros \in Nat, NEW target \in Nat, NEW f,
         Search(s, zeros, target, f)
  PROVE  \A c \in Call : c.sum = target =>
           f[exclude(c, s, zeros)] \in Tuples /\ print_subset(c.t, target) \in Tuples
<1> SUFFICES ASSUME NEW c \in Call, c.sum = target
             PROVE  f[exclude(c, s, zeros)] \in Tuples /\ print_subset(c.t, target) \in Tuples
  OBVIOUS
<1>1. f[exclude(c, s, zeros)] \in Tuples
  BY CallsGoDown DEF Search
<1>2. print_subset(c.t, target) \in Tuples
  BY DEF Call, Tuples, print_subset
<1> QED BY <1>1, <1>2

LEMMA HitParts ==
  ASSUME NEW s \in Seq(Positive), NEW zeros \in Nat, NEW target \in Nat, NEW f,
         Search(s, zeros, target, f)
  PROVE  \A c \in Call : c.sum = target =>
           f[c] = print_subset(c.t, target) \o f[exclude(c, s, zeros)]
  BY DEF Search, prints

\* The tuples that a call prints are its own and those of the calls it makes.
Hits(s, zeros, target, f) ==
  \A c \in Call : c.sum = target =>
    ToSet(f[c]) = ToSet(print_subset(c.t, target)) \cup ToSet(f[exclude(c, s, zeros)])

Takes(s, target, f) ==
  \A c \in Call : c.sum # target =>
    ToSet(f[c]) = UNION {ToSet(f[take(c, s, c.ite + k)]) : k \in 1 .. Len(s) - c.ite}

LEMMA PrintedByHit ==
  ASSUME NEW s \in Seq(Positive), NEW zeros \in Nat, NEW target \in Nat, NEW f,
         Search(s, zeros, target, f)
  PROVE  Hits(s, zeros, target, f)
<1>1. \A c \in Call : c.sum = target =>
           f[exclude(c, s, zeros)] \in Tuples /\ print_subset(c.t, target) \in Tuples
  BY HitTypes, Zenon
<1>2. \A c \in Call : c.sum = target =>
           f[c] = print_subset(c.t, target) \o f[exclude(c, s, zeros)]
  BY HitParts, Zenon
<1> SUFFICES ASSUME NEW c \in Call, c.sum = target
             PROVE  ToSet(f[c]) = ToSet(print_subset(c.t, target)) \cup ToSet(f[exclude(c, s, zeros)])
  BY DEF Hits
<1>3. PICK a, b : a = print_subset(c.t, target) /\ b = f[exclude(c, s, zeros)]
  OBVIOUS
<1>4. a \in Tuples /\ b \in Tuples /\ f[c] = a \o b
  BY <1>1, <1>2, <1>3
<1>5. ToSet(a \o b) = ToSet(a) \cup ToSet(b)
  BY <1>4, ConcatParts DEF Tuples
<1> QED BY <1>3, <1>4, <1>5

LEMMA PrintedByLoop ==
  ASSUME NEW s \in Seq(Positive), NEW zeros \in Nat, NEW target \in Nat, NEW f,
         Search(s, zeros, target, f), NEW c \in Call, c.sum # target
  PROVE  /\ ToSet(f[c]) = UNION {ToSet(f[take(c, s, c.ite + k)]) : k \in 1 .. Len(s) - c.ite}
         /\ /\ \A k \in 1 .. Len(s) - c.ite : IsInjective(f[take(c, s, c.ite + k)])
            /\ \A j, k \in 1 .. Len(s) - c.ite : j # k =>
                 ToSet(f[take(c, s, c.ite + j)]) \cap ToSet(f[take(c, s, c.ite + k)]) = {}
            => IsInjective(f[c])
<1>0. /\ f[c] = prints(s, zeros, target, f, c)
      /\ \A k \in 1 .. Len(s) - c.ite : f[take(c, s, c.ite + k)] \in Tuples
  BY CallsGoDown DEF Search
<1> DEFINE n == Len(s) - c.ite
           ss == [k \in 1 .. n |-> f[take(c, s, c.ite + k)]]
<1>1. n \in Int
  BY DEF Call
<1>2. f[c] = FlattenSeq(ss)
  BY <1>0 DEF prints
<1>3. \A k \in 1 .. n : ss[k] \in Tuples /\ ss[k] = f[take(c, s, c.ite + k)]
  BY <1>0
<1>4. ss \in Seq(Tuples) /\ 1 .. Len(ss) = 1 .. n
  <2>1. ss = [k \in 1 .. n |-> ss[k]]
    OBVIOUS
  <2> HIDE DEF ss, n
  <2>2. CASE n >= 0
    BY <1>1, <1>3, <2>1, <2>2
  <2>3. CASE n < 0
    <3>1. 1 .. n = {}
      BY <1>1, <2>3
    <3>2. ss = <<>>
      BY <2>1, <3>1
    <3> QED BY <3>1, <3>2
  <2> QED BY <1>1, <2>2, <2>3
<1> HIDE DEF ss, n
<1>5. /\ ToSet(FlattenSeq(ss)) = UNION {ToSet(ss[i]) : i \in 1 .. n}
      /\ /\ \A i \in 1 .. n : IsInjective(ss[i])
         /\ \A i, j \in 1 .. n : i # j => ToSet(ss[i]) \cap ToSet(ss[j]) = {}
         => IsInjective(FlattenSeq(ss))
  BY <1>4, FlattenParts DEF Tuples
<1>6. ToSet(f[c]) = UNION {ToSet(f[take(c, s, c.ite + k)]) : k \in 1 .. n}
  <2>1. {ToSet(ss[i]) : i \in 1 .. n} = {ToSet(f[take(c, s, c.ite + k)]) : k \in 1 .. n}
    BY <1>3
  <2> QED BY <1>2, <1>5, <2>1
<1>7. /\ \A k \in 1 .. n : IsInjective(f[take(c, s, c.ite + k)])
      /\ \A j, k \in 1 .. n : j # k =>
           ToSet(f[take(c, s, c.ite + j)]) \cap ToSet(f[take(c, s, c.ite + k)]) = {}
      => IsInjective(f[c])
  BY <1>2, <1>3, <1>5
<1> QED BY <1>6, <1>7 DEF n

LEMMA PrintedTaken ==
  ASSUME NEW s \in Seq(Positive), NEW zeros \in Nat, NEW target \in Nat, NEW f,
         Search(s, zeros, target, f)
  PROVE  Takes(s, target, f)
  BY PrintedByLoop DEF Takes

-----------------------------------------------------------------------------
(* What the search prints is right *)

LEMMA PrintSubset ==
  ASSUME NEW t, NEW target
  PROVE  /\ ToSet(print_subset(t, target)) = IF SumFunction(t) = target THEN {t} ELSE {}
         /\ SumFunction(t) = target => print_subset(t, target) = <<t>>
<1>1. CASE SumFunction(t) = target
  <2>1. print_subset(t, target) = <<t>>
    BY <1>1 DEF print_subset
  <2>2. ToSet(<<t>>) = {t}
    <3>1. DOMAIN <<t>> = {1} /\ <<t>>[1] = t
      OBVIOUS
    <3> QED BY <3>1 DEF ToSet
  <2> QED BY <1>1, <2>1, <2>2
<1>2. CASE SumFunction(t) # target
  <2>1. print_subset(t, target) = <<>>
    BY <1>2 DEF print_subset
  <2>2. ToSet(<<>>) = {}
    BY DEF ToSet
  <2> QED BY <1>2, <2>1, <2>2
<1> QED BY <1>1, <1>2

\* The tuple of a call is picked from the elements it has considered.
IsPicked(s, c) == \E p \in Picks(Len(s)) : p \in Picks(c.ite) /\ c.t = picked(s, p)

LEMMA FirstIsPicked ==
  ASSUME NEW s \in Seq(Positive) PROVE First \in Call /\ IsPicked(s, First)
<1>1. Len(s) \in Nat
  OBVIOUS
<1>2. <<>> \in Picks(0) /\ <<>> \in Picks(Len(s))
  BY <1>1, NoPick, PicksGrow
<1>3. First.ite = 0 /\ First.t = <<>> /\ First \in Call
  BY DEF First, Call
<1> QED BY <1>2, <1>3, NoPick DEF IsPicked

LEMMA TakeIsPicked ==
  ASSUME NEW s \in Seq(Positive), NEW c \in Call, IsPicked(s, c), NEW k \in 1 .. Len(s) - c.ite
  PROVE  IsPicked(s, take(c, s, c.ite + k))
<1>1. c.ite \in Nat /\ Len(s) \in Nat
  BY DEF Call
<1>2. PICK p \in Picks(Len(s)) : p \in Picks(c.ite) /\ c.t = picked(s, p)
  BY DEF IsPicked
<1> DEFINE i == c.ite + k
<1>3. i \in 1 .. Len(s) /\ i \in Nat /\ i - 1 \in Nat /\ c.ite <= i - 1 /\ i <= Len(s)
  BY <1>1
<1> HIDE DEF i
<1>4. p \in Picks(i - 1)
  BY <1>1, <1>2, <1>3, PicksGrow
<1>5. Append(p, i) \in Picks(i) /\ picked(s, Append(p, i)) = Append(picked(s, p), s[i])
  BY <1>3, <1>4, PickOne
<1>6. Append(p, i) \in Picks(Len(s))
  BY <1>1, <1>3, <1>5, PicksGrow
<1>7. take(c, s, i).t = Append(c.t, s[i]) /\ take(c, s, i).ite = i
  BY DEF take
<1>8. IsPicked(s, take(c, s, i))
  BY <1>2, <1>5, <1>6, <1>7 DEF IsPicked
<1> QED BY <1>8 DEF i

\* The tuple without its last element.
LEMMA FrontOfAppend ==
  ASSUME NEW u \in Seq(Positive), NEW v \in Positive
  PROVE  SubSeq(Append(u, v), 1, Len(Append(u, v)) - 1) = u
<1>1. Len(Append(u, v)) - 1 = Len(u) /\ Len(u) \in Nat
  OBVIOUS
<1>2. \A k \in 1 .. Len(u) : Append(u, v)[k] \in Positive /\ Append(u, v)[k] = u[k]
  OBVIOUS
<1>3. /\ SubSeq(Append(u, v), 1, Len(u)) \in Seq(Positive)
      /\ Len(SubSeq(Append(u, v), 1, Len(u))) = IF 1 <= Len(u) THEN Len(u) - 1 + 1 ELSE 0
      /\ \A k \in 1 .. Len(u) - 1 + 1 :
           SubSeq(Append(u, v), 1, Len(u))[k] = Append(u, v)[1 + k - 1]
  BY <1>1, <1>2, SubSeqProperties
<1>4. /\ Len(SubSeq(Append(u, v), 1, Len(u))) = Len(u)
      /\ \A k \in 1 .. Len(u) : SubSeq(Append(u, v), 1, Len(u))[k] = u[k]
  BY <1>1, <1>2, <1>3
<1>5. SubSeq(Append(u, v), 1, Len(u)) = u
  BY <1>3, <1>4, SeqEqual
<1> QED BY <1>1, <1>5

LEMMA PickedFront ==
  ASSUME NEW s \in Seq(Positive), NEW i \in 1 .. Len(s), NEW q \in Picks(i - 1), NEW t,
         t = picked(s, Append(q, i))
  PROVE  /\ SubSeq(t, 1, Len(t) - 1) = picked(s, q)
         /\ q \in Picks(Len(s))
         /\ SumFunction(t) = SumFunction(picked(s, q)) + s[i] /\ SumFunction(picked(s, q)) \in Nat
<1>1. i - 1 \in Nat /\ Len(s) \in Nat /\ s[i] \in Positive
  OBVIOUS
<1>2. q \in Picks(Len(s))
  BY <1>1, PicksGrow
<1>3. t = Append(picked(s, q), s[i]) /\ SumFunction(t) = SumFunction(picked(s, q)) + s[i]
  BY PickOne
<1>4. picked(s, q) \in Seq(Positive) /\ SumFunction(picked(s, q)) \in Nat
  BY <1>2, PickedType
<1>5. SubSeq(t, 1, Len(t) - 1) = picked(s, q)
  BY <1>1, <1>3, <1>4, FrontOfAppend
<1> QED BY <1>2, <1>3, <1>4, <1>5

LEMMA EmptyFront == SubSeq(<<>>, 1, Len(<<>>) - 1) = <<>>
<1>1. Len(<<>>) - 1 \in Int /\ Len(<<>>) - 1 < 1
  OBVIOUS
<1> QED BY <1>1, SubSeqEmpty

LEMMA ExcludeIsPicked ==
  ASSUME NEW s \in Seq(Positive), NEW zeros, NEW c \in Call, IsPicked(s, c)
  PROVE  IsPicked(s, exclude(c, s, zeros))
<1>1. c.ite \in Nat /\ Len(s) \in Nat
  BY DEF Call
<1>2. PICK p \in Picks(Len(s)) : p \in Picks(c.ite) /\ c.t = picked(s, p)
  BY DEF IsPicked
<1>3. exclude(c, s, zeros).t = SubSeq(c.t, 1, Len(c.t) - 1) /\ exclude(c, s, zeros).ite = c.ite + 1
  BY DEF exclude
<1>4. CASE p = <<>>
  <2>1. c.t = <<>>
    BY <1>2, <1>4, NoPick
  <2>2. p \in Picks(c.ite + 1)
    BY <1>1, <1>2, PicksGrow
  <2> QED BY <1>2, <1>3, <2>1, <2>2, EmptyFront DEF IsPicked
<1>5. CASE p # <<>>
  <2>1. PICK i \in 1 .. c.ite : \E q \in Picks(i - 1) : p = Append(q, i)
    BY <1>1, <1>2, <1>5, LastPick
  <2>2. PICK q \in Picks(i - 1) : p = Append(q, i)
    BY <2>1
  <2>3. i \in 1 .. Len(s)
    <3>1. p \in Seq(1 .. Len(s))
      BY DEF Picks
    <3>2. q \in Seq(1 .. i - 1) /\ i \in Nat
      BY <1>1 DEF Picks
    <3>3. p[Len(p)] = i /\ Len(p) \in 1 .. Len(p)
      BY <2>2, <3>2
    <3> QED BY <3>1, <3>3
  <2>4. SubSeq(c.t, 1, Len(c.t) - 1) = picked(s, q) /\ q \in Picks(Len(s))
    BY <1>2, <2>2, <2>3, PickedFront
  <2>5. q \in Picks(c.ite + 1)
    <3>1. i - 1 \in Nat /\ c.ite + 1 \in Nat /\ i - 1 <= c.ite + 1
      BY <1>1
    <3> QED BY <3>1, PicksGrow
  <2> QED BY <1>3, <2>4, <2>5 DEF IsPicked
<1> QED BY <1>4, <1>5

\* Whatever is printed is a sublist with the sum.
LEMMA PrintedIsPicked ==
  ASSUME NEW s \in Seq(Positive), NEW zeros \in Nat, NEW target \in Nat, NEW f,
         Search(s, zeros, target, f), NEW c \in Call, IsPicked(s, c), NEW t \in ToSet(f[c])
  PROVE  \E p \in Picks(Len(s)) : t = picked(s, p) /\ SumFunction(t) = target
<1> DEFINE good(u) == \E p \in Picks(Len(s)) : u = picked(s, p) /\ SumFunction(u) = target
           Q == {d \in Call : IsPicked(s, d) => \A u \in ToSet(f[d]) : good(u)}
<1>0. Hits(s, zeros, target, f) /\ Takes(s, target, f)
  BY PrintedByHit, PrintedTaken
<1>1. ASSUME NEW d \in Call,
             d.sum = target => exclude(d, s, zeros) \in Q,
             d.sum # target => \A k \in 1 .. Len(s) - d.ite : take(d, s, d.ite + k) \in Q
      PROVE  d \in Q
  <2> SUFFICES ASSUME IsPicked(s, d), NEW u \in ToSet(f[d]) PROVE good(u)
    OBVIOUS
  <2> HIDE DEF good
  <2>1. CASE d.sum = target
    <3>1. u \in ToSet(print_subset(d.t, target)) \/ u \in ToSet(f[exclude(d, s, zeros)])
      <4>1. ToSet(f[d]) = ToSet(print_subset(d.t, target)) \cup ToSet(f[exclude(d, s, zeros)])
        BY <1>0, <2>1 DEF Hits
      <4> QED BY <4>1
    <3>2. CASE u \in ToSet(print_subset(d.t, target))
      <4>1. u = d.t /\ SumFunction(u) = target
        BY <3>2, PrintSubset
      <4> QED BY <4>1 DEF IsPicked, good
    <3>3. CASE u \in ToSet(f[exclude(d, s, zeros)])
      <4>1. IsPicked(s, exclude(d, s, zeros))
        BY ExcludeIsPicked
      <4> QED BY <1>1, <2>1, <3>3, <4>1
    <3> QED BY <3>1, <3>2, <3>3
  <2>2. CASE d.sum # target
    <3>1. PICK k \in 1 .. Len(s) - d.ite : u \in ToSet(f[take(d, s, d.ite + k)])
      <4>1. ToSet(f[d]) = UNION {ToSet(f[take(d, s, d.ite + k)]) : k \in 1 .. Len(s) - d.ite}
        BY <1>0, <2>2 DEF Takes
      <4> QED BY <4>1
    <3>2. IsPicked(s, take(d, s, d.ite + k))
      BY TakeIsPicked
    <3>3. take(d, s, d.ite + k) \in Q
      BY <1>1, <2>2
    <3> QED BY <3>1, <3>2, <3>3
  <2> QED BY <2>1, <2>2
<1> HIDE DEF Q
<1>2. Call \subseteq Q
  BY <1>1, EveryCall
<1> QED BY <1>2 DEF Q

-----------------------------------------------------------------------------
(* The search prints every solution *)

\* The call whose tuple is picked this way, when its sum is right.
callOf(s, p) == [t |-> picked(s, p), sum |-> SumFunction(picked(s, p)),
                 ite |-> IF p = <<>> THEN 0 ELSE p[Len(p)]]

LEMMA CallOfNone ==
  ASSUME NEW s PROVE callOf(s, <<>>) = First
  BY NoPick, SumOfEmpty DEF callOf, First

LEMMA CallOfType ==
  ASSUME NEW s \in Seq(Positive), NEW n \in 0 .. Len(s), NEW p \in Picks(n)
  PROVE  /\ callOf(s, p) \in Call /\ callOf(s, p).ite \in 0 .. n
         /\ callOf(s, p).t = picked(s, p) /\ callOf(s, p).sum = SumFunction(picked(s, p))
         /\ SumFunction(picked(s, p)) \in Nat
<1>1. n \in Nat /\ Len(s) \in Nat /\ n <= Len(s)
  OBVIOUS
<1>2. p \in Picks(Len(s))
  BY <1>1, PicksGrow
<1>3. picked(s, p) \in Seq(Int) /\ SumFunction(picked(s, p)) \in Nat
  BY <1>2, PickedType
<1>4. (IF p = <<>> THEN 0 ELSE p[Len(p)]) \in 0 .. n
  <2>1. p \in Seq(1 .. n)
    BY DEF Picks
  <2>2. CASE p # <<>>
    <3>1. p[Len(p)] \in 1 .. n
      BY <2>1, <2>2
    <3> QED BY <1>1, <2>2, <3>1
  <2> QED BY <1>1, <2>2
<1>5. callOf(s, p).ite = IF p = <<>> THEN 0 ELSE p[Len(p)]
  BY DEF callOf
<1>6. /\ callOf(s, p).t = picked(s, p) /\ callOf(s, p).sum = SumFunction(picked(s, p))
      /\ callOf(s, p).ite \in 0 .. n
  BY <1>4, <1>5 DEF callOf
<1>7. callOf(s, p) \in Call
  <2>1. (IF p = <<>> THEN 0 ELSE p[Len(p)]) \in Nat
    BY <1>4
  <2> QED BY <1>3, <2>1 DEF callOf, Call
<1> QED BY <1>3, <1>6, <1>7

LEMMA CallOfTake ==
  ASSUME NEW s \in Seq(Positive), NEW i \in 1 .. Len(s), NEW q \in Picks(i - 1)
  PROVE  callOf(s, Append(q, i)) = take(callOf(s, q), s, i)
<1>1. q \in Seq(1 .. i - 1)
  BY DEF Picks
<1>2. Append(q, i) # <<>> /\ Append(q, i)[Len(Append(q, i))] = i
  <2>1. q \in Seq(Nat) /\ i \in Nat
    <3>1. 1 .. i - 1 \subseteq Nat
      OBVIOUS
    <3> QED BY <1>1, <3>1, SeqMonotonic
  <2> HIDE <1>1
  <2>2. Len(Append(q, i)) = Len(q) + 1 /\ Len(q) + 1 # 0
    BY <2>1
  <2>3. Append(q, i)[Len(q) + 1] = i
    BY <2>1
  <2> QED BY <2>2, <2>3
<1>3. /\ picked(s, Append(q, i)) = Append(picked(s, q), s[i])
      /\ SumFunction(picked(s, Append(q, i))) = SumFunction(picked(s, q)) + s[i]
  BY PickOne
<1> QED BY <1>2, <1>3 DEF callOf, take

\* A call the search makes from another before its sum is right: what it prints, the
\* other prints.
LEMMA TakenIsPrinted ==
  ASSUME NEW s \in Seq(Positive), NEW target \in Nat, NEW f, Takes(s, target, f),
         NEW i \in 1 .. Len(s), NEW q \in Picks(i - 1), SumFunction(picked(s, q)) # target
  PROVE  ToSet(f[callOf(s, Append(q, i))]) \subseteq ToSet(f[callOf(s, q)])
<1>1. PICK c : c = callOf(s, q)
  OBVIOUS
<1>2. i - 1 \in 0 .. Len(s)
  OBVIOUS
<1>3. c \in Call /\ c.sum # target /\ c.ite \in 0 .. i - 1
  BY <1>1, <1>2, CallOfType
<1>4. i - c.ite \in 1 .. Len(s) - c.ite /\ c.ite + (i - c.ite) = i
  BY <1>3
<1>5. ToSet(f[c]) = UNION {ToSet(f[take(c, s, c.ite + k)]) : k \in 1 .. Len(s) - c.ite}
  BY <1>3 DEF Takes
<1>6. ToSet(f[take(c, s, i)]) \subseteq ToSet(f[c])
  BY <1>4, <1>5
<1> QED BY <1>1, <1>6, CallOfTake

LEMMA PrefixIsPrinted ==
  ASSUME NEW s \in Seq(Positive), NEW target \in Nat, NEW f, Takes(s, target, f),
         NEW p \in Picks(Len(s)), SumFunction(picked(s, p)) <= target
  PROVE  ToSet(f[callOf(s, p)]) \subseteq ToSet(f[First])
<1> DEFINE below(u) == SumFunction(picked(s, u)) <= target
                         => ToSet(f[callOf(s, u)]) \subseteq ToSet(f[First])
           P == {n \in Nat : n <= Len(s) => \A u \in Picks(n) : below(u)}
<1>1. 0 \in P
  <2> SUFFICES ASSUME NEW u \in Picks(0) PROVE below(u)
    OBVIOUS
  <2>1. u = <<>>
    BY DEF Picks
  <2> QED BY <2>1, CallOfNone
<1>2. ASSUME NEW n \in P PROVE n + 1 \in P
  <2> SUFFICES ASSUME n + 1 <= Len(s), NEW u \in Picks(n + 1), u # <<>>,
                      SumFunction(picked(s, u)) <= target
               PROVE  ToSet(f[callOf(s, u)]) \subseteq ToSet(f[First])
    BY CallOfNone
  <2>1. n \in Nat /\ n + 1 \in Nat /\ Len(s) \in Nat
    OBVIOUS
  <2>2. PICK i \in 1 .. n + 1 : \E q \in Picks(i - 1) : u = Append(q, i)
    BY <2>1, LastPick
  <2>3. PICK q \in Picks(i - 1) : u = Append(q, i)
    BY <2>2
  <2>4. i \in 1 .. Len(s) /\ i - 1 \in Nat /\ i - 1 <= n
    BY <2>1
  <2>5. q \in Picks(n)
    BY <2>1, <2>4, PicksGrow
  <2>6. SumFunction(picked(s, q)) \in Int /\ SumFunction(picked(s, q)) < target
    <3>1. SumFunction(picked(s, u)) = SumFunction(picked(s, q)) + s[i]
      BY <2>3, <2>4, PickOne
    <3>2. q \in Picks(Len(s)) /\ s[i] \in Positive
      BY <2>1, <2>4, <2>5, PicksGrow
    <3>3. SumFunction(picked(s, q)) \in Nat
      BY <3>2, PickedType
    <3> QED BY <3>1, <3>2, <3>3 DEF Positive
  <2>7. ToSet(f[callOf(s, q)]) \subseteq ToSet(f[First])
    BY <2>1, <2>5, <2>6
  <2>8. ToSet(f[callOf(s, Append(q, i))]) \subseteq ToSet(f[callOf(s, q)])
    BY <2>4, <2>6, TakenIsPrinted
  <2> QED BY <2>3, <2>7, <2>8
<1> HIDE DEF P
<1>3. Len(s) \in P
  <2>1. P \in SUBSET Nat
    BY DEF P
  <2>2. P = Nat
    BY <1>1, <1>2, <2>1, EveryNumber
  <2> QED BY <2>2
<1> QED BY <1>3 DEF P

LEMMA HitIsPrinted ==
  ASSUME NEW s \in Seq(Positive), NEW zeros, NEW target, NEW f, Hits(s, zeros, target, f),
         NEW p \in Picks(Len(s)), SumFunction(picked(s, p)) = target
  PROVE  picked(s, p) \in ToSet(f[callOf(s, p)])
<1>1. PICK c : c = callOf(s, p)
  OBVIOUS
<1>2. c \in Call /\ c.sum = target /\ c.t = picked(s, p)
  BY <1>1, CallOfType
<1>3. ToSet(f[c]) = ToSet(print_subset(c.t, target)) \cup ToSet(f[exclude(c, s, zeros)])
  BY <1>2 DEF Hits
<1>4. ToSet(print_subset(c.t, target)) = {c.t}
  BY <1>2, PrintSubset
<1> QED BY <1>1, <1>2, <1>3, <1>4

\* The search prints the solutions and nothing else.
LEMMA GeneratesSolutions ==
  ASSUME NEW l \in Line PROVE ToSet(generateSubsets(l)) = Solutions(l)
<1>1. PICK s, zeros, target, c : /\ s = work_array(l.numbs) /\ zeros = l.zeros
                                 /\ target = l.sum /\ c = First
  OBVIOUS
<1>2. /\ s \in Seq(Positive) /\ target \in Positive /\ zeros \in Nat
      /\ Solutions(l) = {picked(s, p) : p \in {p \in Picks(Len(s)) : SumFunction(picked(s, p)) = target}}
  BY <1>1, SolutionsAreReached
<1>3. target \in Nat
  BY <1>2 DEF Positive
<1>4. PICK f : /\ Search(s, zeros, target, f)
               /\ subset_sum(s, zeros, target) = f[First]
  BY <1>2, <1>3, TheSearch
<1>5. generateSubsets(l) = f[c]
  BY <1>1, <1>4 DEF generateSubsets
<1>6. Hits(s, zeros, target, f) /\ Takes(s, target, f)
  BY <1>2, <1>3, <1>4, PrintedByHit, PrintedTaken
<1>7. ASSUME NEW t \in ToSet(f[c]) PROVE t \in Solutions(l)
  <2>1. c \in Call /\ IsPicked(s, c)
    BY <1>1, <1>2, FirstIsPicked
  <2>2. PICK p \in Picks(Len(s)) : t = picked(s, p) /\ SumFunction(t) = target
    BY <1>2, <1>3, <1>4, <2>1, PrintedIsPicked
  <2> QED BY <1>2, <2>2
<1>8. ASSUME NEW t \in Solutions(l) PROVE t \in ToSet(f[c])
  <2>1. PICK p \in Picks(Len(s)) : t = picked(s, p) /\ SumFunction(picked(s, p)) = target
    BY <1>2
  <2>2. picked(s, p) \in ToSet(f[callOf(s, p)])
    BY <1>2, <1>3, <1>6, <2>1, HitIsPrinted
  <2>3. SumFunction(picked(s, p)) <= target
    BY <1>3, <2>1
  <2>4. ToSet(f[callOf(s, p)]) \subseteq ToSet(f[First])
    BY <1>2, <1>3, <1>6, <2>3, PrefixIsPrinted
  <2> QED BY <1>1, <2>1, <2>2, <2>4
<1> QED BY <1>5, <1>7, <1>8

-----------------------------------------------------------------------------
(* Nothing is printed twice if the numbers ascend *)

\* Every way to go on makes the sum too great: nothing more is printed.
LEMMA TooGreatPrintsNothing ==
  ASSUME NEW s \in Seq(Positive), NEW zeros \in Nat, NEW target \in Nat, NEW f,
         Takes(s, target, f),
         NEW c \in Call, c.sum # target,
         \A i \in c.ite + 1 .. Len(s) : c.sum + s[i] > target
  PROVE  ToSet(f[c]) = {}
<1> DEFINE spoilt(d) == d.sum # target /\ \A i \in d.ite + 1 .. Len(s) : d.sum + s[i] > target
           Q == {d \in Call : spoilt(d) => ToSet(f[d]) = {}}
<1>1. ASSUME NEW d \in Call,
             d.sum = target => exclude(d, s, zeros) \in Q,
             d.sum # target => \A k \in 1 .. Len(s) - d.ite : take(d, s, d.ite + k) \in Q
      PROVE  d \in Q
  <2> SUFFICES ASSUME spoilt(d) PROVE ToSet(f[d]) = {}
    OBVIOUS
  <2>1. d.sum \in Int /\ d.ite \in Nat /\ Len(s) \in Nat
    BY DEF Call
  <2>2. ASSUME NEW k \in 1 .. Len(s) - d.ite PROVE ToSet(f[take(d, s, d.ite + k)]) = {}
    <3>1. PICK i : i = d.ite + k
      OBVIOUS
    <3>2. i \in d.ite + 1 .. Len(s) /\ i \in 1 .. Len(s)
      BY <2>1, <3>1
    <3>3. take(d, s, i).sum = d.sum + s[i] /\ take(d, s, i).ite = i
      BY DEF take
    <3>4. s[i] \in Int /\ d.sum + s[i] > target
      BY <3>2 DEF Positive
    <3>5. \A j \in i + 1 .. Len(s) : s[j] \in Nat
      BY <3>2 DEF Positive
    <3>6. spoilt(take(d, s, i))
      BY <2>1, <3>2, <3>3, <3>4, <3>5
    <3> QED BY <1>1, <3>1, <3>6
  <2>3. ToSet(f[d]) = UNION {ToSet(f[take(d, s, d.ite + k)]) : k \in 1 .. Len(s) - d.ite}
    BY DEF Takes
  <2> HIDE DEF Q
  <2> QED BY <2>2, <2>3
<1> HIDE DEF Q
<1>2. Call \subseteq Q
  BY <1>1, EveryCall
<1> QED BY <1>2 DEF Q

LEMMA FrontIsLess ==
  ASSUME NEW t \in Seq(Positive)
  PROVE  /\ SubSeq(t, 1, Len(t) - 1) \in Seq(Positive)
         /\ SumFunction(SubSeq(t, 1, Len(t) - 1)) <= SumFunction(t)
         /\ SumFunction(SubSeq(t, 1, Len(t) - 1)) \in Nat
         /\ SumFunction(t) \in Nat
<1>1. \A u \in Seq(Positive) : SumFunction(u) \in Nat
  <2>1. Seq(Positive) \subseteq Seq(Nat)
    <3>1. Positive \subseteq Nat
      BY DEF Positive
    <3> QED BY <3>1, SeqMonotonic
  <2> QED BY <2>1, SumOfPositives
<1> SUFFICES \E u \in Seq(Positive) : /\ SubSeq(t, 1, Len(t) - 1) = u
                                      /\ SumFunction(u) <= SumFunction(t)
  BY <1>1
<1>2. CASE t = <<>>
  <2>1. SubSeq(t, 1, Len(t) - 1) = t
    BY <1>2, EmptyFront
  <2>2. SumFunction(t) <= SumFunction(t)
    BY <1>1
  <2> QED BY <2>1, <2>2
<1>3. CASE t # <<>>
  <2>1. PICK u \in Seq(Positive), v \in Positive : t = Append(u, v)
    BY <1>3, SequenceEmptyOrAppend
  <2>2. SubSeq(t, 1, Len(t) - 1) = u
    BY <2>1, FrontOfAppend
  <2>3. SumFunction(t) = SumFunction(u) + v
    <3>1. u \in Seq(Int) /\ v \in Int
      <4>1. Positive \subseteq Int
        BY DEF Positive
      <4> QED BY <4>1, SeqMonotonic
    <3> QED BY <2>1, <3>1, SumOfAppend
  <2>4. PICK a, b : a = SumFunction(u) /\ b = SumFunction(t)
    OBVIOUS
  <2>5. a \in Nat /\ v \in Nat /\ b = a + v
    BY <1>1, <2>3, <2>4 DEF Positive
  <2>6. SumFunction(u) <= SumFunction(t)
    BY <2>4, <2>5
  <2> QED BY <2>2, <2>6
<1> QED BY <1>2, <1>3

\* Past the end of the list only what is left of the tuple could be printed.
LEMMA TailPrintsNothing ==
  ASSUME NEW s \in Seq(Positive), NEW zeros \in Nat, NEW target \in Nat, NEW f,
         Takes(s, target, f), Hits(s, zeros, target, f),
         NEW c \in Call, c.ite >= Len(s), c.t \in Seq(Positive), SumFunction(c.t) < target
  PROVE  ToSet(f[c]) = {}
<1> DEFINE past(d) == d.ite >= Len(s) /\ d.t \in Seq(Positive) /\ SumFunction(d.t) < target
           Q == {d \in Call : past(d) => ToSet(f[d]) = {}}
<1>1. ASSUME NEW d \in Call,
             d.sum = target => exclude(d, s, zeros) \in Q,
             d.sum # target => \A k \in 1 .. Len(s) - d.ite : take(d, s, d.ite + k) \in Q
      PROVE  d \in Q
  <2> SUFFICES ASSUME past(d) PROVE ToSet(f[d]) = {}
    OBVIOUS
  <2>1. d.ite \in Nat /\ Len(s) \in Nat
    BY DEF Call
  <2>2. CASE d.sum = target
    <3>1. /\ exclude(d, s, zeros).t = SubSeq(d.t, 1, Len(d.t) - 1)
          /\ exclude(d, s, zeros).ite = d.ite + 1
      BY DEF exclude
    <3>2. SumFunction(d.t) \in Nat /\ SumFunction(d.t) < target
      BY FrontIsLess
    <3>3. past(exclude(d, s, zeros))
      <4>1. PICK u : u = SubSeq(d.t, 1, Len(d.t) - 1)
        OBVIOUS
      <4>2. u \in Seq(Positive) /\ SumFunction(u) \in Nat /\ SumFunction(u) <= SumFunction(d.t)
        BY <4>1, FrontIsLess
      <4>3. SumFunction(u) < target
        BY <3>2, <4>2
      <4> QED BY <2>1, <3>1, <4>1, <4>2, <4>3
    <3>4. ToSet(f[exclude(d, s, zeros)]) = {}
      BY <1>1, <2>2, <3>3
    <3>5. ToSet(print_subset(d.t, target)) = {}
      BY <3>2, PrintSubset
    <3> QED BY <2>2, <3>4, <3>5 DEF Hits
  <2>3. CASE d.sum # target
    <3>1. 1 .. Len(s) - d.ite = {}
      BY <2>1
    <3>2. ToSet(f[d]) = UNION {ToSet(f[take(d, s, d.ite + k)]) : k \in 1 .. Len(s) - d.ite}
      BY <2>3 DEF Takes
    <3> QED BY <3>1, <3>2
  <2> QED BY <2>2, <2>3
<1> HIDE DEF Q
<1>2. Call \subseteq Q
  BY <1>1, EveryCall
<1> QED BY <1>2 DEF Q

\* After a hit in an ascending list: s[ite] is taken off the sum, and all numbers that
\* are left are greater.
LEMMA NothingAfterHit ==
  ASSUME NEW s \in Seq(Positive), Ascending(s),
         NEW zeros \in Nat, NEW target \in Positive, NEW f,
         Takes(s, target, f), Hits(s, zeros, target, f),
         NEW q \in Picks(Len(s)), SumFunction(picked(s, q)) = target
  PROVE  ToSet(f[exclude(callOf(s, q), s, zeros)]) = {}
<1>1. target \in Nat /\ target > 0 /\ Len(s) \in Nat
  BY DEF Positive
<1>2. q # <<>>
  <2>1. SumFunction(picked(s, <<>>)) = 0
    BY NoPick, SumOfEmpty
  <2> QED BY <1>1, <2>1
<1>3. PICK i \in 1 .. Len(s) : \E r \in Picks(i - 1) : q = Append(r, i)
  BY <1>1, <1>2, LastPick
<1>4. PICK r \in Picks(i - 1) : q = Append(r, i)
  BY <1>3
<1>5. PICK c, e : c = callOf(s, q) /\ e = exclude(c, s, zeros)
  OBVIOUS
<1>6. c.ite = i /\ c.t = picked(s, Append(r, i)) /\ c.sum = target /\ c \in Call
  <2>1. callOf(s, Append(r, i)) = take(callOf(s, r), s, i)
    BY CallOfTake
  <2>2. take(callOf(s, r), s, i).ite = i
    BY DEF take
  <2>3. c.t = picked(s, q) /\ c.sum = SumFunction(picked(s, q)) /\ c \in Call
    BY <1>1, <1>5, CallOfType
  <2> QED BY <1>4, <1>5, <2>1, <2>2, <2>3
<1>7. /\ SubSeq(c.t, 1, Len(c.t) - 1) = picked(s, r) /\ r \in Picks(Len(s))
      /\ SumFunction(c.t) = SumFunction(picked(s, r)) + s[i]
      /\ SumFunction(picked(s, r)) \in Nat
  BY <1>6, PickedFront
<1>8. SumFunction(picked(s, r)) < target /\ picked(s, r) \in Seq(Positive)
  <2>1. SumFunction(c.t) = target
    BY <1>4, <1>6
  <2>2. s[i] \in Positive
    OBVIOUS
  <2>3. SumFunction(picked(s, r)) < target
    BY <1>1, <1>7, <2>1, <2>2 DEF Positive
  <2> QED BY <1>7, <2>3, PickedType
<1>9. /\ e.t = picked(s, r) /\ e.ite = i + 1 /\ e.sum = target - at(s, i, zeros)
      /\ e \in Call
  <2>1. e \in Call
    BY <1>1, <1>5, <1>6, CallsGoDown
  <2> QED BY <1>5, <1>6, <1>7, <2>1 DEF exclude
<1>10. CASE i < Len(s)
  <2>1. i + 1 \in DOMAIN s /\ at(s, i, zeros) = s[i + 1] /\ s[i + 1] \in Nat /\ s[i + 1] > 0
    BY <1>10 DEF at, Positive
  <2>2. \A j \in i + 2 .. Len(s) : s[j] \in Nat /\ s[i + 1] < s[j]
    <3> SUFFICES ASSUME NEW j \in i + 2 .. Len(s) PROVE s[j] \in Nat /\ s[i + 1] < s[j]
      OBVIOUS
    <3>1. j \in DOMAIN s /\ i + 1 < j
      OBVIOUS
    <3> QED BY <2>1, <3>1 DEF Ascending, Positive
  <2>3. e.ite + 1 .. Len(s) = i + 2 .. Len(s)
    BY <1>9
  <2>4. PICK v : v = s[i + 1]
    OBVIOUS
  <2>5. e.sum = target - v /\ v \in Nat /\ v > 0
    BY <1>9, <2>1, <2>4
  <2>6. e.sum # target
    BY <1>1, <2>5
  <2>7. \A j \in e.ite + 1 .. Len(s) : e.sum + s[j] > target
    <3> SUFFICES ASSUME NEW j \in i + 2 .. Len(s) PROVE e.sum + s[j] > target
      BY <2>3
    <3>1. PICK w : w = s[j]
      OBVIOUS
    <3>2. w \in Nat /\ v < w
      BY <2>2, <2>4, <3>1
    <3> QED BY <1>1, <2>5, <3>1, <3>2
  <2>8. ToSet(f[e]) = {}
    BY <1>1, <1>9, <2>6, <2>7, TooGreatPrintsNothing
  <2> QED BY <1>5, <2>8
<1>11. CASE i = Len(s)
  <2>1. e.ite >= Len(s)
    BY <1>1, <1>9, <1>11
  <2>2. ToSet(f[e]) = {}
    BY <1>1, <1>8, <1>9, <2>1, TailPrintsNothing
  <2> QED BY <1>5, <2>2
<1> QED BY <1>10, <1>11

LEMMA EmptySet ==
  ASSUME NEW S, NEW t \in Seq(S), ToSet(t) = {} PROVE t = <<>>
<1>1. DOMAIN t = {}
  BY DEF ToSet
<1> QED BY <1>1

LEMMA HitPrintsOne ==
  ASSUME NEW s \in Seq(Positive), Ascending(s),
         NEW zeros \in Nat, NEW target \in Positive, NEW f,
         Search(s, zeros, target, f),
         Takes(s, target, f), Hits(s, zeros, target, f),
         NEW q \in Picks(Len(s)), SumFunction(picked(s, q)) = target
  PROVE  f[callOf(s, q)] = <<picked(s, q)>>
<1>1. target \in Nat /\ Len(s) \in Nat
  BY DEF Positive
<1>2. PICK c, e : c = callOf(s, q) /\ e = exclude(c, s, zeros)
  OBVIOUS
<1>3. c \in Call /\ c.sum = target /\ c.t = picked(s, q)
  BY <1>1, <1>2, CallOfType
<1>4. e \in Call /\ f[e] \in Tuples
  <2>1. e \in Call
    BY <1>1, <1>2, <1>3, CallsGoDown
  <2> QED BY <2>1 DEF Search
<1>5. f[e] = <<>>
  <2>1. ToSet(f[e]) = {}
    BY <1>2, NothingAfterHit
  <2> QED BY <1>4, <2>1, EmptySet DEF Tuples
<1>6. f[c] = print_subset(c.t, target) \o f[e]
  BY <1>2, <1>3 DEF Search, prints
<1>7. print_subset(c.t, target) = <<c.t>>
  BY <1>3, PrintSubset
<1>8. f[c] = <<c.t>>
  BY <1>5, <1>6, <1>7
<1> QED BY <1>2, <1>3, <1>8

\* The last element is the greatest: what is picked comes from the elements considered.
LEMMA PickedSoFar ==
  ASSUME NEW s \in Seq(Positive), NEW q \in Picks(Len(s)), NEW k \in callOf(s, q).ite + 1 .. Len(s)
  PROVE  k \in 1 .. Len(s) /\ q \in Picks(k - 1)
<1>1. PICK m : m = callOf(s, q).ite
  OBVIOUS
<1>2. m \in 0 .. Len(s) /\ Len(s) \in Nat
  BY <1>1, CallOfType
<1>3. k \in 1 .. Len(s) /\ k - 1 \in Nat /\ m <= k - 1 /\ m \in Nat
  BY <1>1, <1>2
<1>4. q \in Picks(m)
  <2>1. CASE q = <<>>
    BY <1>3, <2>1, NoPick, PicksGrow
  <2>2. CASE q # <<>>
    <3>1. PICK i \in 1 .. Len(s) : \E r \in Picks(i - 1) : q = Append(r, i)
      BY <1>2, <2>2, LastPick
    <3>2. PICK r \in Picks(i - 1) : q = Append(r, i)
      BY <3>1
    <3>3. Append(r, i) \in Picks(i) /\ callOf(s, Append(r, i)) = take(callOf(s, r), s, i)
      BY PickOne, CallOfTake
    <3>4. m = i
      <4>1. take(callOf(s, r), s, i).ite = i
        BY DEF take
      <4> QED BY <1>1, <3>2, <3>3, <4>1
    <3> QED BY <3>2, <3>3, <3>4
  <2> QED BY <2>1, <2>2
<1>5. q \in Picks(k - 1)
  BY <1>3, <1>4, PicksGrow
<1> QED BY <1>1, <1>3, <1>5

Begins(u, t) == \A j \in DOMAIN t : u[j] = t[j]

\* What a loop prints it prints once, if the calls it makes do and share nothing.
Loops(s, target, f) ==
  \A c \in Call :
    /\ c.sum # target
    /\ \A k \in 1 .. Len(s) - c.ite : IsInjective(f[take(c, s, c.ite + k)])
    /\ \A j, k \in 1 .. Len(s) - c.ite : j # k =>
         ToSet(f[take(c, s, c.ite + j)]) \cap ToSet(f[take(c, s, c.ite + k)]) = {}
    => IsInjective(f[c])

LEMMA LoopPrints ==
  ASSUME NEW s \in Seq(Positive), NEW zeros \in Nat, NEW target \in Nat, NEW f,
         Search(s, zeros, target, f)
  PROVE  Loops(s, target, f)
  BY PrintedByLoop DEF Loops

\* As long as the sum is right, a call prints nothing twice, and only what begins with
\* its tuple.
LEMMA PrintsOnce ==
  ASSUME NEW s \in Seq(Positive), Ascending(s),
         NEW zeros \in Nat, NEW target \in Positive, NEW f,
         Search(s, zeros, target, f),
         NEW p \in Picks(Len(s))
  PROVE  IsInjective(f[callOf(s, p)])
<1> DEFINE once(q) == /\ IsInjective(f[callOf(s, q)])
                      /\ \A u \in ToSet(f[callOf(s, q)]) : Begins(u, picked(s, q))
           Q == {d \in Call : \A q \in Picks(Len(s)) : d = callOf(s, q) => once(q)}
<1>1. target \in Nat /\ Len(s) \in Nat
  BY DEF Positive
<1>2. Takes(s, target, f) /\ Hits(s, zeros, target, f) /\ Loops(s, target, f)
  BY <1>1, PrintedTaken, PrintedByHit, LoopPrints
<1>3. ASSUME NEW d \in Call,
             d.sum = target => exclude(d, s, zeros) \in Q,
             d.sum # target => \A k \in 1 .. Len(s) - d.ite : take(d, s, d.ite + k) \in Q
      PROVE  d \in Q
  <2> SUFFICES ASSUME NEW q \in Picks(Len(s)), d = callOf(s, q) PROVE once(q)
    OBVIOUS
  <2>1. d.sum = SumFunction(picked(s, q))
    BY <1>1, CallOfType
  <2>2. CASE d.sum = target
    <3>1. f[callOf(s, q)] = <<picked(s, q)>>
      BY <1>2, <2>1, <2>2, HitPrintsOne
    <3>2. PICK t : t = picked(s, q)
      OBVIOUS
    <3>3. DOMAIN <<t>> = {1} /\ <<t>>[1] = t
      OBVIOUS
    <3>4. IsInjective(<<t>>) /\ ToSet(<<t>>) = {t}
      BY <3>3 DEF IsInjective, ToSet
    <3>5. Begins(t, t)
      BY DEF Begins
    <3> QED BY <3>1, <3>2, <3>4, <3>5
  <2>3. CASE d.sum # target
    <3> DEFINE n == Len(s) - d.ite
    <3>0. \A k \in 1 .. n : d.ite + k \in d.ite + 1 .. Len(s)
      BY <1>1 DEF Call
    <3>1. ASSUME NEW i \in d.ite + 1 .. Len(s)
          PROVE  /\ i \in 1 .. Len(s)
                 /\ IsInjective(f[take(d, s, i)])
                 /\ \A u \in ToSet(f[take(d, s, i)]) : Begins(u, Append(picked(s, q), s[i]))
      <4>1. PICK k \in 1 .. n : i = d.ite + k
        <5>1. d.ite \in Nat
          BY DEF Call
        <5>2. i - d.ite \in 1 .. n /\ i = d.ite + (i - d.ite)
          BY <1>1, <5>1
        <5> QED BY <5>2
      <4>2. i \in 1 .. Len(s) /\ q \in Picks(i - 1)
        BY PickedSoFar
      <4>3. /\ Append(q, i) \in Picks(i) /\ picked(s, Append(q, i)) = Append(picked(s, q), s[i])
            /\ callOf(s, Append(q, i)) = take(d, s, i)
        BY <4>2, PickOne, CallOfTake
      <4>4. Append(q, i) \in Picks(Len(s))
        <5>1. i \in Nat /\ i <= Len(s)
          BY <1>1, <4>2
        <5> QED BY <1>1, <4>3, <5>1, PicksGrow
      <4>5. take(d, s, i) \in Q
        BY <1>3, <2>3, <4>1
      <4>6. once(Append(q, i))
        BY <4>3, <4>4, <4>5
      <4> QED BY <4>2, <4>3, <4>6
    <3> HIDE DEF n
    <3>2. ASSUME NEW j \in 1 .. n, NEW k \in 1 .. n, j # k, NEW u,
                 u \in ToSet(f[take(d, s, d.ite + j)]), u \in ToSet(f[take(d, s, d.ite + k)])
          PROVE  FALSE
      <4>1. PICK a, b, t : a = d.ite + j /\ b = d.ite + k /\ t = picked(s, q)
        OBVIOUS
      <4>2. a \in DOMAIN s /\ b \in DOMAIN s /\ a # b
        <5>1. d.ite \in Nat /\ j \in Int /\ k \in Int
          BY DEF Call
        <5>2. a \in 1 .. Len(s) /\ b \in 1 .. Len(s)
          BY <3>0, <3>1, <4>1
        <5>3. a # b
          BY <3>2, <4>1, <5>1
        <5> QED BY <5>2, <5>3
      <4>3. s[a] # s[b]
        BY <4>2 DEF Ascending, Positive
      <4>4. Begins(u, Append(t, s[a])) /\ Begins(u, Append(t, s[b]))
        BY <3>0, <3>1, <3>2, <4>1
      <4>5. t \in Seq(Positive) /\ s[a] \in Positive /\ s[b] \in Positive
        BY <4>1, <4>2, PickedType
      <4>6. /\ Len(t) + 1 \in DOMAIN Append(t, s[a]) /\ Append(t, s[a])[Len(t) + 1] = s[a]
            /\ Len(t) + 1 \in DOMAIN Append(t, s[b]) /\ Append(t, s[b])[Len(t) + 1] = s[b]
        BY <4>5
      <4> QED BY <4>3, <4>4, <4>6 DEF Begins
    <3>3. IsInjective(f[d])
      BY <1>2, <2>3, <3>0, <3>1, <3>2 DEF Loops, n
    <3>4. ASSUME NEW u \in ToSet(f[d]) PROVE Begins(u, picked(s, q))
      <4>1. PICK k \in 1 .. n : u \in ToSet(f[take(d, s, d.ite + k)])
        BY <1>2, <2>3 DEF Takes, n
      <4>2. PICK t, v : t = picked(s, q) /\ v = s[d.ite + k]
        OBVIOUS
      <4>3. Begins(u, Append(t, v))
        BY <3>0, <3>1, <4>1, <4>2
      <4>4. t \in Seq(Positive) /\ v \in Positive
        <5>1. d.ite + k \in 1 .. Len(s)
          BY <3>0, <3>1
        <5> QED BY <4>2, <5>1, PickedType
      <4>5. \A j \in DOMAIN t : j \in DOMAIN Append(t, v) /\ Append(t, v)[j] = t[j]
        BY <4>4
      <4> QED BY <4>2, <4>3, <4>5 DEF Begins
    <3> QED BY <3>3, <3>4
  <2> QED BY <2>2, <2>3
<1> HIDE DEF Q
<1>4. Call \subseteq Q
  BY <1>1, <1>3, EveryCall
<1>5. callOf(s, p) \in Call
  BY <1>1, CallOfType
<1> QED BY <1>4, <1>5 DEF Q

LEMMA GeneratesOnce ==
  ASSUME NEW l \in Line, Ascending(work_array(l.numbs)) PROVE IsInjective(generateSubsets(l))
<1>1. PICK s, zeros, target : s = work_array(l.numbs) /\ zeros = l.zeros /\ target = l.sum
  OBVIOUS
<1>2. s \in Seq(Positive) /\ target \in Positive /\ zeros \in Nat
  BY <1>1, SolutionsAreReached
<1>3. target \in Nat /\ Ascending(s)
  BY <1>1, <1>2 DEF Positive
<1>4. PICK f : /\ Search(s, zeros, target, f)
               /\ subset_sum(s, zeros, target) = f[First]
  BY <1>2, <1>3, TheSearch
<1>5. <<>> \in Picks(Len(s))
  <2>1. 0 \in Nat /\ Len(s) \in Nat /\ 0 <= Len(s)
    BY <1>2
  <2> QED BY <2>1, NoPick, PicksGrow
<1>6. IsInjective(f[callOf(s, <<>>)])
  BY <1>2, <1>3, <1>4, <1>5, PrintsOnce
<1> QED BY <1>1, <1>4, <1>6, CallOfNone DEF generateSubsets

-----------------------------------------------------------------------------
(* The parent and its child *)

\* pid is a round behind until fork has returned.
PidOfRound ==
  /\ pc \in {"fork", "store", "wait", "ended"} /\ x \in Nat /\ pid \in Nat
  /\ pc = "fork" => child = "none" /\ pid = x
  /\ pc = "store" => pid = x
  /\ pc = "wait" => pid = x + 1
  /\ pc = "ended" /\ child \in Running => pid = x /\ x > 0

\* A child answers once, when it ends, but for the one that denies first.
AnswersFitPlace ==
  /\ child \in Running \cup {"none", "exited", "killed"} /\ verdicts \subseteq {"found", "none", "late"}
  /\ child = "none" => verdicts = {}
  /\ child # "none" => line \in Line
  /\ child \in {"boot", "searching", "printing"} => verdicts = {}
  /\ child = "printing" => Solutions(line) # {}
  /\ "found" \in verdicts => /\ verdicts = {"found"} /\ child = "exited"
                             /\ Solutions(line) # {} /\ printed = generateSubsets(line)
  /\ "found" \notin verdicts => printed = <<>>
  /\ "none" \in verdicts => Solutions(line) = {}

IInv == PidOfRound /\ AnswersFitPlace

\* The first search tells whether the second will find something.
LEMMA ExistsIsRight ==
  ASSUME line \in Line PROVE exists <=> Solutions(line) # {}
<1>1. PICK l \in Line : l = line
  OBVIOUS
<1>2. Solutions(l) # {} <=> is_subset_sum(work_array(l.numbs), Len(work_array(l.numbs)), l.sum)
  BY SolutionsAreReached
<1> QED BY <1>1, <1>2 DEF exists

LEMMA InitIInv == Init => IInv
  BY DEF Init, IInv, PidOfRound, AnswersFitPlace, Running

LEMMA NextPidOfRound ==
  ASSUME IInv, [Next]_vars PROVE PidOfRound'
<1> USE DEF PidOfRound, Running
<1>1. PidOfRound
  BY DEF IInv
<1>2. CASE Fork
  BY <1>1, <1>2 DEF Fork
<1>3. CASE Store
  BY <1>1, <1>3 DEF Store
<1>4. CASE Wait
  BY <1>1, <1>4 DEF Wait
<1>5. CASE Report
  BY <1>1, <1>5 DEF Report
<1>6. CASE TimeOut
  BY <1>1, <1>6 DEF TimeOut, Kills
<1>7. CASE Start
  BY <1>1, <1>7 DEF Start
<1>8. CASE Find
  BY <1>1, <1>8 DEF Find
<1>9. CASE Generate
  BY <1>1, <1>9 DEF Generate
<1>10. CASE Deny
  BY <1>1, <1>10 DEF Deny
<1>11. CASE Exit
  BY <1>1, <1>11 DEF Exit
<1>12. CASE Late
  BY <1>1, <1>12 DEF Late
<1>13. CASE Ended \/ UNCHANGED vars
  BY <1>1, <1>13 DEF Ended, vars, childVars
<1> QED
  BY <1>2, <1>3, <1>4, <1>5, <1>6, <1>7, <1>8, <1>9, <1>10, <1>11, <1>12, <1>13
  DEF Next, ParentStep, ChildStep

LEMMA NextAnswersFitPlace ==
  ASSUME IInv, [Next]_vars PROVE AnswersFitPlace'
<1> USE DEF AnswersFitPlace, Running
<1>1. AnswersFitPlace /\ (pc = "fork" => child = "none")
  BY DEF IInv, PidOfRound
<1>2. CASE Fork
  BY <1>1, <1>2 DEF Fork
<1>3. CASE Store
  BY <1>1, <1>3 DEF Store, childVars
<1>4. CASE Wait
  BY <1>1, <1>4 DEF Wait
<1>5. CASE Report
  BY <1>1, <1>5 DEF Report, childVars
<1>6. CASE TimeOut
  BY <1>1, <1>6 DEF TimeOut, Kills, childVars
<1>7. CASE Start
  BY <1>1, <1>7 DEF Start, childVars
<1>8. CASE Find
  BY <1>1, <1>8, ExistsIsRight DEF Find, childVars
<1>9. CASE Generate
  BY <1>1, <1>9 DEF Generate
<1>10. CASE Deny
  BY <1>1, <1>10, ExistsIsRight DEF Deny
<1>11. CASE Exit
  BY <1>1, <1>11 DEF Exit, childVars
<1>12. CASE Late
  BY <1>1, <1>12 DEF Late
<1>13. CASE Ended \/ UNCHANGED vars
  BY <1>1, <1>13 DEF Ended, vars, childVars
<1> QED
  BY <1>2, <1>3, <1>4, <1>5, <1>6, <1>7, <1>8, <1>9, <1>10, <1>11, <1>12, <1>13
  DEF Next, ParentStep, ChildStep

LEMMA Inductive == Spec => []IInv
<1>1. IInv /\ [Next]_vars => IInv'
  BY NextPidOfRound, NextAnswersFitPlace DEF IInv
<1> QED BY InitIInv, <1>1, PTL DEF Spec

\* is_subset_sum and generateSubsets agree, for every list of any length: what a child
\* has printed are the solutions of its line, and one that denies has none.
THEOREM RightAnswers == Spec => []AnswersAreRight
<1>1. IInv => AnswersAreRight
  <2> SUFFICES ASSUME IInv PROVE AnswersAreRight
    OBVIOUS
  <2>1. AnswersFitPlace
    BY DEF IInv
  <2>2. ASSUME "found" \in verdicts
        PROVE  Solutions(line) # {} /\ ToSet(printed) = Solutions(line)
    <3>1. line \in Line /\ Solutions(line) # {} /\ printed = generateSubsets(line)
      BY <2>1, <2>2 DEF AnswersFitPlace
    <3> QED BY <3>1, GeneratesSolutions
  <2> QED BY <2>1, <2>2 DEF AnswersFitPlace, AnswersAreRight
<1> QED BY Inductive, <1>1, PTL

\* After a hit subset_sum goes on with a wrong sum; if the numbers of the line ascend
\* it never prints a list twice for that.
THEOREM NoneTwice == Spec => []PrintedOnce
<1>1. IInv => PrintedOnce
  <2> SUFFICES ASSUME IInv, Ascending(work_array(line.numbs)) PROVE IsInjective(printed)
    BY DEF PrintedOnce
  <2>1. CASE "found" \in verdicts
    <3>1. line \in Line /\ printed = generateSubsets(line)
      BY <2>1 DEF IInv, AnswersFitPlace
    <3> QED BY <3>1, GeneratesOnce
  <2>2. CASE "found" \notin verdicts
    <3>1. printed = <<>>
      BY <2>2 DEF IInv, AnswersFitPlace
    <3> QED BY <3>1 DEF IsInjective
  <2> QED BY <2>1, <2>2
<1> QED BY Inductive, <1>1, PTL

\* kill_handler kills the child whose pid main has stored: whichever step the timer
\* comes at, only a child that is just being forked is left, and not the first.
THEOREM TimerKills == Spec => []OnlyUnstoredSurvives
<1>1. IInv => OnlyUnstoredSurvives
  BY DEF IInv, PidOfRound, OnlyUnstoredSurvives
<1> QED BY Inductive, <1>1, PTL
=============================================================================
