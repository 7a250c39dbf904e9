----------------------------- MODULE DataLemmas -----------------------------
(* Facts for the proofs of the other modules.                                *)
(*                                                                           *)
(* Natural numbers and recursive functions: induction and recursion are      *)
(* stated over sets and functions, not over operators, so that every prover  *)
(* can use them.                                                             *)
(*                                                                           *)
(* SortedArray: the binary search is right for every strictly sorted array   *)
(* of integers, and its index keeps the array sorted when an element is      *)
(* inserted or removed there.                                                *)
(*                                                                           *)
(* Trie: insertion, marking and deletion keep every trie well formed and     *)
(* change what a query sees by the one n-gram they are called with.          *)
EXTENDS SortedArray, Trie, SequenceTheorems, FiniteSetTheorems, TLAPS

---------------------------------------------------------------------------
(* Induction.                                                               *)

\* A set of natural numbers that is not empty has a least element.
LEMMA LeastNatural ==
  ASSUME NEW S \in SUBSET Nat, S # {}
  PROVE  \E n \in S : \A m \in S : n <= m
  <1> DEFINE Below(n) == 0 .. n
             F == {Below(n) : n \in S}
  <1>1. F \subseteq FiniteSubsetsOf(Nat) /\ F # {}
    <2>1. ASSUME NEW n \in S
          PROVE  0 .. n \in FiniteSubsetsOf(Nat)
      <3>1. n \in Nat /\ n \in Int /\ 0 \in Int /\ 0 .. n \in SUBSET Nat
        OBVIOUS
      <3>2. IsFiniteSet(0 .. n)
        BY <3>1, FS_Interval
      <3> QED
        BY <3>1, <3>2 DEF FiniteSubsetsOf
    <2> QED
      BY <2>1
  <1>2. PICK X \in F : \A Y \in F : <<Y, X>> \notin StrictSubsetOrdering(Nat)
    <2> HIDE DEF F
    <2> QED
      BY <1>1, FS_StrictSubsetOrderingWellFounded, WFMin
  <1>3. PICK n \in S : X = 0 .. n
    OBVIOUS
  <1>4. ASSUME NEW m \in S, m < n
        PROVE  FALSE
    <2>1. <<0 .. m, 0 .. n>> \in StrictSubsetOrdering(Nat)
      BY <1>4 DEF StrictSubsetOrdering
    <2> QED
      BY <1>2, <1>3, <2>1
  <1> QED
    BY <1>4

\* The least element of a set of natural numbers that is not empty.
LEMMA MinOfSet ==
  ASSUME NEW S \in SUBSET Nat, S # {}
  PROVE  Min(S) \in S /\ \A y \in S : Min(S) <= y
  <1>1. PICK n \in S : \A m \in S : n <= m
    BY LeastNatural
  <1> QED
    BY <1>1 DEF Min

\* The first index with a property, n if there is none.
LEMMA FirstOrEnd ==
  ASSUME NEW n \in Nat, NEW S \in SUBSET (0 .. n)
  PROVE  /\ Min(S \union {n}) \in S \union {n}
         /\ Min(S \union {n}) \in 0 .. n
         /\ \A y \in S : Min(S \union {n}) <= y
  <1>1. S \union {n} \in SUBSET Nat /\ S \union {n} # {}
    OBVIOUS
  <1> DEFINE first == Min(S \union {n})
  <1>2. first \in S \union {n} /\ \A y \in S \union {n} : first <= y
    BY <1>1, MinOfSet
  <1> HIDE DEF first
  <1>3. first \in 0 .. n
    BY <1>2
  <1> QED
    BY <1>2, <1>3 DEF first

\* Induction, for the set of the numbers that have a property.
LEMMA Induction ==
  ASSUME NEW P \in SUBSET Nat, 0 \in P, \A n \in P : n + 1 \in P
  PROVE  P = Nat
  <1>1. SUFFICES ASSUME Nat \ P # {}
                 PROVE  FALSE
    OBVIOUS
  <1>2. PICK n \in Nat \ P : \A m \in Nat \ P : n <= m
    BY <1>1, LeastNatural
  <1>3. n - 1 \in P
    BY <1>2
  <1> QED
    BY <1>2, <1>3

---------------------------------------------------------------------------
(* Recursion.                                                               *)

\* D takes one step of a recursion: the value of D[g] at x is made from the values of g
\* that are less deep than x, and no depth is N or more.
BoundedDescent(D, depth, N, S, V) ==
    /\ V # {} /\ N \in Nat
    /\ D \in [[S -> V] -> [S -> V]]
    /\ depth \in [S -> Nat] /\ \A x \in S : depth[x] < N
    /\ \A g, h \in [S -> V], x \in S :
          (\A y \in S : depth[y] < depth[x] => g[y] = h[y]) => D[g][x] = D[h][x]

\* Such a recursion has a solution.  The loops of the code that the modules write as
\* recursive functions (the binary search, the division of a bucket) are all of this kind.
LEMMA BoundedRecursion ==
  ASSUME NEW S, NEW V, NEW D, NEW depth, NEW N, BoundedDescent(D, depth, N, S, V)
  PROVE  \E f \in [S -> V] : f = D[f]
  <1>0. /\ V # {} /\ N \in Nat
        /\ D \in [[S -> V] -> [S -> V]]
        /\ depth \in [S -> Nat] /\ \A x \in S : depth[x] < N
        /\ \A g, h \in [S -> V], x \in S :
              (\A y \in S : depth[y] < depth[x] => g[y] = h[y]) => D[g][x] = D[h][x]
    BY DEF BoundedDescent
  <1> DEFINE Fixed(g, n) == \A x \in S : depth[x] < n => g[x] = D[g][x]
             P == {n \in Nat : \E g \in [S -> V] : Fixed(g, n)}
  <1>1. 0 \in P
    <2>1. PICK g \in [S -> V] : TRUE
      <3>1. [x \in S |-> CHOOSE v \in V : TRUE] \in [S -> V]
        BY <1>0
      <3> QED
        BY <3>1
    <2>2. ASSUME NEW x \in S
          PROVE  ~(depth[x] < 0)
      <3>1. depth[x] \in Nat
        BY <1>0
      <3> QED
        BY ONLY <3>1
    <2>3. Fixed(g, 0)
      BY <2>2, Zenon
    <2> HIDE DEF Fixed
    <2> QED
      BY <2>3
  <1>2. ASSUME NEW n \in P
        PROVE  n + 1 \in P
    <2> HIDE DEF Fixed
    <2>1. n \in Nat /\ \E g \in [S -> V] : Fixed(g, n)
      OBVIOUS
    <2>2. PICK g \in [S -> V] : Fixed(g, n)
      BY <2>1
    <2> HIDE DEF P
    <2> DEFINE h == D[g]
    <2>3. h \in [S -> V]
      BY <1>0
    <2>4. ASSUME NEW x \in S, depth[x] < n + 1
          PROVE  h[x] = D[h][x]
      <3>1. ASSUME NEW y \in S, depth[y] < depth[x]
            PROVE  g[y] = h[y]
        <4>1. depth[y] \in Nat /\ depth[x] \in Nat
          BY <1>0
        <4>2. depth[y] < n
          BY ONLY <2>1, <2>4, <3>1, <4>1
        <4>3. g[y] = D[g][y]
          BY <2>2, <4>2, Zenon DEF Fixed
        <4> QED
          BY <4>3
      <3>2. D[g][x] = D[h][x]
        BY <1>0, <2>3, <3>1
      <3> QED
        BY <3>2
    <2>5. Fixed(h, n + 1)
      <3> HIDE DEF h
      <3> QED
        BY <2>4, Zenon DEF Fixed
    <2>6. n + 1 \in Nat
      BY ONLY <2>1
    <2> QED
      <3> HIDE DEF h
      <3> QED
        BY <2>3, <2>5, <2>6 DEF P
  <1>3. P = Nat
    <2>1. P \in SUBSET Nat
      OBVIOUS
    <2> HIDE DEF P
    <2> QED
      BY <1>1, <1>2, <2>1, Induction
  <1>4. PICK f \in [S -> V] : \A x \in S : depth[x] < N => f[x] = D[f][x]
    BY <1>0, <1>3
  <1>5. f = D[f]
    BY <1>0, <1>4
  <1> QED
    BY <1>5

\* What a loop of n rounds has after each of them.
Loop(f, n, first, step) ==
    f = [i \in 0 .. n |-> IF i = 0 THEN first ELSE step[<<f[i - 1], i>>]]

\* A loop of n steps has a solution as a function on the steps.
LEMMA Iteration ==
  ASSUME NEW V, NEW n \in Nat, NEW first \in V, NEW step \in [V \X (1 .. n) -> V]
  PROVE  \E f \in [0 .. n -> V] : Loop(f, n, first, step)
  <1> DEFINE S == 0 .. n
             round(g) == [i \in S |-> IF i = 0 THEN first ELSE step[<<g[i - 1], i>>]]
             D == [g \in [S -> V] |-> round(g)]
             depth == [i \in S |-> i]
             N == n + 1
  <1>1. ASSUME NEW i \in S, i # 0
        PROVE  i - 1 \in S /\ i \in 1 .. n /\ depth[i - 1] < depth[i]
    BY <1>1
  <1>2. D \in [[S -> V] -> [S -> V]]
    <2> SUFFICES ASSUME NEW g \in [S -> V], NEW i \in S, i # 0
                 PROVE  step[<<g[i - 1], i>>] \in V
      OBVIOUS
    <2>1. g[i - 1] \in V /\ i \in 1 .. n
      BY <1>1
    <2> HIDE DEF S
    <2> QED
      BY <2>1
  <1>3. ASSUME NEW g \in [S -> V], NEW h \in [S -> V], NEW x \in S,
               \A y \in S : depth[y] < depth[x] => g[y] = h[y]
        PROVE  D[g][x] = D[h][x]
    <2>1. x # 0 => g[x - 1] = h[x - 1]
      BY <1>1, <1>3
    <2>2. D[g][x] = IF x = 0 THEN first ELSE step[<<g[x - 1], x>>]
      OBVIOUS
    <2>3. D[h][x] = IF x = 0 THEN first ELSE step[<<h[x - 1], x>>]
      OBVIOUS
    <2> QED
      BY <2>1, <2>2, <2>3, Zenon
  <1>4. /\ V # {} /\ N \in Nat
        /\ depth \in [S -> Nat] /\ \A x \in S : depth[x] < N
    OBVIOUS
  <1>5. PICK f \in [S -> V] : f = D[f]
    <2>1. BoundedDescent(D, depth, N, S, V)
      <3> HIDE DEF D, depth, N, S
      <3> QED
        BY <1>2, <1>3, <1>4 DEF BoundedDescent
    <2> HIDE DEF D, depth, N, S
    <2> QED
      BY <2>1, BoundedRecursion
  <1>6. f = round(f)
    BY <1>5
  <1> QED
    BY <1>6 DEF Loop

\* A loop that goes from each index to a later one and collects a list on its way.
ListFrom(f, D, stop, row, next) ==
    f = [i \in D |-> IF i \in stop THEN <<>> ELSE row[i] \o f[next[i]]]

\* A walk that moves to ever higher places, and so ends, has a solution that lists what is
\* at each of them.
LEMMA ListRecursion ==
  ASSUME NEW S, NEW n \in Nat, NEW D \in SUBSET (0 .. n), NEW stop,
         NEW row \in [D -> Seq(S)], NEW next,
         \A i \in D \ stop : next[i] \in D /\ next[i] > i
  PROVE  \E f \in [D -> Seq(S)] : ListFrom(f, D, stop, row, next)
  <1> DEFINE V == Seq(S)
             step(g) == [i \in D |-> IF i \in stop THEN <<>> ELSE row[i] \o g[next[i]]]
             F == [g \in [D -> V] |-> step(g)]
             depth == [i \in D |-> n - i]
  <1>1. ASSUME NEW g \in [D -> V], NEW i \in D
        PROVE  (IF i \in stop THEN <<>> ELSE row[i] \o g[next[i]]) \in V
    <2>1. <<>> \in Seq(S)
      OBVIOUS
    <2>2. i \notin stop => row[i] \in Seq(S) /\ g[next[i]] \in Seq(S)
      OBVIOUS
    <2> QED
      BY <2>1, <2>2, ConcatProperties
  <1>2. F \in [[D -> V] -> [D -> V]]
    BY <1>1
  <1>3. ASSUME NEW g \in [D -> V], NEW h \in [D -> V], NEW x \in D,
               \A y \in D : depth[y] < depth[x] => g[y] = h[y]
        PROVE  F[g][x] = F[h][x]
    <2>1. x \notin stop => next[x] \in D /\ depth[next[x]] < depth[x]
      <3>1. x \notin stop => next[x] \in 0 .. n /\ next[x] > x /\ next[x] \in D
        OBVIOUS
      <3>2. x \in 0 .. n
        OBVIOUS
      <3> QED
        BY <3>1, <3>2
    <2>2. x \notin stop => g[next[x]] = h[next[x]]
      BY <1>3, <2>1
    <2> QED
      BY <2>2
  <1>4. depth \in [D -> Nat] /\ \A x \in D : depth[x] < n + 1
    OBVIOUS
  <1>5. V # {} /\ n + 1 \in Nat
    <2>1. <<>> \in V
      BY EmptySeq, Zenon
    <2>2. n + 1 \in Nat
      OBVIOUS
    <2> QED
      BY <2>1, <2>2, Zenon
  <1>6. BoundedDescent(F, depth, n + 1, D, V)
    <2> HIDE DEF F, depth
    <2> QED
      BY <1>2, <1>3, <1>4, <1>5 DEF BoundedDescent
  <1>7. PICK f \in [D -> V] : f = F[f]
    <2> DEFINE N == n + 1
    <2>1. BoundedDescent(F, depth, N, D, V)
      BY <1>6
    <2> HIDE DEF F, depth, N, V
    <2> QED
      BY <2>1, BoundedRecursion
  <1>8. f = step(f)
    BY <1>7
  <1> QED
    BY <1>8 DEF ListFrom

\* Every such loop collects a list.
LEMMA ListTyped ==
  ASSUME NEW S, NEW n \in Nat, NEW D \in SUBSET (0 .. n), NEW stop,
         NEW row \in [D -> Seq(S)], NEW next,
         \A i \in D \ stop : next[i] \in D /\ next[i] > i,
         NEW f, ListFrom(f, D, stop, row, next)
  PROVE  f \in [D -> Seq(S)]
  <1> DEFINE P == {k \in Nat : \A i \in D : n - i < k => f[i] \in Seq(S)}
  <1>1. f = [i \in D |-> IF i \in stop THEN <<>> ELSE row[i] \o f[next[i]]]
    BY DEF ListFrom
  <1>2. 0 \in P
    OBVIOUS
  <1>3. ASSUME NEW k \in P
        PROVE  k + 1 \in P
    <2> SUFFICES ASSUME NEW i \in D, n - i < k + 1
                 PROVE  f[i] \in Seq(S)
      OBVIOUS
    <2>1. CASE i \in stop
      BY <1>1, <2>1
    <2>2. CASE i \notin stop
      <3>1. next[i] \in D /\ n - next[i] < k
        <4>1. next[i] \in D /\ next[i] > i
          BY <2>2
        <4>2. next[i] \in 0 .. n /\ i \in 0 .. n /\ k \in Nat
          BY <4>1
        <4> QED
          BY <4>1, <4>2
      <3>2. f[next[i]] \in Seq(S) /\ row[i] \in Seq(S)
        BY <3>1
      <3>3. f[i] = row[i] \o f[next[i]]
        BY <1>1, <2>2
      <3> QED
        BY <3>2, <3>3, ConcatProperties
    <2> QED
      BY <2>1, <2>2
  <1>4. P = Nat
    <2>1. P \in SUBSET Nat
      OBVIOUS
    <2> HIDE DEF P
    <2> QED
      BY <1>2, <1>3, <2>1, Induction
  <1>5. ASSUME NEW i \in D
        PROVE  f[i] \in Seq(S)
    <2>1. n + 1 \in P
      <3> HIDE DEF P
      <3> QED
        BY <1>4
    <2>2. i \in 0 .. n
      OBVIOUS
    <2> QED
      BY <2>1, <2>2
  <1> QED
    BY <1>1, <1>5

---------------------------------------------------------------------------
(* Arithmetic.                                                              *)

\* The products that place a thread's rows in one array (alt_scheduler.c) keep the order.
LEMMA TimesMonotone ==
  ASSUME NEW a \in Nat, NEW b \in Nat, NEW n \in Nat, a <= b
  PROVE  a * n <= b * n
  OBVIOUS

\* What C's / and % give for numbers that are not negative.
LEMMA DivMod ==
  ASSUME NEW a \in Nat, NEW n \in Nat \ {0}
  PROVE  /\ a \div n \in Nat /\ a % n \in 0 .. n - 1
         /\ a = (a \div n) * n + (a % n)
  OBVIOUS

\* The quotient and the remainder are determined.
LEMMA DivModUnique ==
  ASSUME NEW n \in Nat \ {0}, NEW i \in Nat, NEW k \in Nat,
         NEW v \in 0 .. n - 1, NEW w \in 0 .. n - 1, i * n + v = k * n + w
  PROVE  i = k /\ v = w
  OBVIOUS

---------------------------------------------------------------------------
(* The binary search.                                                       *)

\* Strictly sorted: what the arrays of trie_node.c and of the pointer sets have to be.
Increasing(arr) == \A i, k \in DOMAIN arr : i < k => arr[i] < arr[k]

\* The ranges that the search can be at: their first and last index, from 0.
Ranges(arr) == (0 .. Len(arr)) \X (-1 .. Len(arr) - 1)

Middle(range) == (range[1] + range[2]) \div 2

\* One round of the loop, given what the search would answer on smaller ranges.
Round(arr, x, search, range) ==
    IF range[1] > range[2] THEN range[1]
    ELSE CASE arr[Middle(range) + 1] < x -> search[<<Middle(range) + 1, range[2]>>]
           [] arr[Middle(range) + 1] > x -> search[<<range[1], Middle(range) - 1>>]
           [] OTHER                      -> Middle(range)

\* The number of indices in a range.
Width(range) == IF range[1] > range[2] THEN 0 ELSE range[2] - range[1] + 1

---------------------------------------------------------------------------
(* The search is well founded.                                              *)

\* The middle of a range that is not empty lies in it, so that both halves are shorter.
LEMMA Halves ==
  ASSUME NEW arr \in Seq(Int), NEW range \in Ranges(arr), range[1] <= range[2]
  PROVE  /\ Middle(range) \in 0 .. Len(arr) - 1
         /\ range[1] <= Middle(range) /\ Middle(range) <= range[2]
         /\ <<Middle(range) + 1, range[2]>> \in Ranges(arr)
         /\ <<range[1], Middle(range) - 1>> \in Ranges(arr)
         /\ Width(<<Middle(range) + 1, range[2]>>) < Width(range)
         /\ Width(<<range[1], Middle(range) - 1>>) < Width(range)
  <1>1. Len(arr) \in Nat
    OBVIOUS
  <1>2. range[1] \in 0 .. Len(arr) /\ range[2] \in -1 .. Len(arr) - 1
    BY DEF Ranges
  <1>3. range[1] <= Middle(range) /\ Middle(range) <= range[2] /\ Middle(range) \in Int
    BY <1>1, <1>2 DEF Middle
  <1> DEFINE m == Middle(range)
             left == <<range[1], m - 1>>
             right == <<m + 1, range[2]>>
  <1>4. left \in Ranges(arr) /\ right \in Ranges(arr)
    BY <1>1, <1>2, <1>3 DEF Ranges
  <1>5. left[1] = range[1] /\ left[2] = m - 1 /\ right[1] = m + 1 /\ right[2] = range[2]
    OBVIOUS
  <1>6. range[1] \in Int /\ range[2] \in Int
    BY <1>2
  <1> HIDE DEF m, left, right
  <1>7. Width(left) < Width(range) /\ Width(right) < Width(range)
    BY <1>3, <1>5, <1>6 DEF Width, m
  <1> QED
    BY <1>1, <1>2, <1>3, <1>4, <1>7 DEF m, left, right

\* Every range has a width below Len(arr) + 1.
LEMMA WidthType ==
  ASSUME NEW arr \in Seq(Int), NEW range \in Ranges(arr)
  PROVE  Width(range) \in Nat /\ Width(range) < Len(arr) + 1
  <1>1. Len(arr) \in Nat
    OBVIOUS
  <1>2. range[1] \in 0 .. Len(arr) /\ range[2] \in -1 .. Len(arr) - 1
    BY DEF Ranges
  <1> QED
    BY <1>1, <1>2 DEF Width

\* The three outcomes of the comparison with the middle element.
LEMMA RoundCases ==
  ASSUME NEW arr \in Seq(Int), NEW x \in Int, NEW search, NEW range \in Ranges(arr),
         range[1] <= range[2]
  PROVE  Round(arr, x, search, range) =
            IF arr[Middle(range) + 1] < x THEN search[<<Middle(range) + 1, range[2]>>]
            ELSE IF arr[Middle(range) + 1] > x THEN search[<<range[1], Middle(range) - 1>>]
            ELSE Middle(range)
  <1>1. ~(range[1] > range[2])
    BY DEF Ranges
  <1>2. arr[Middle(range) + 1] \in Int
    <2>1. Middle(range) \in 0 .. Len(arr) - 1
      BY Halves
    <2> QED
      BY <2>1
  <1>3. ~(arr[Middle(range) + 1] < x /\ arr[Middle(range) + 1] > x)
    BY <1>2
  <1> QED
    BY <1>1, <1>3 DEF Round

\* The answer on the whole array is that of a function which takes one round of the loop
\* on every range.
LEMMA SearchExists ==
  ASSUME NEW arr \in Seq(Int), NEW x \in Int
  PROVE  \E search : /\ search = [range \in Ranges(arr) |-> Round(arr, x, search, range)]
                     /\ Locate(arr, x) = search[<<0, Len(arr) - 1>>]
  <1> DEFINE D == [g \in [Ranges(arr) -> Int] |->
                      [range \in Ranges(arr) |-> Round(arr, x, g, range)]]
             depth == [range \in Ranges(arr) |-> Width(range)]
  <1>1. D \in [[Ranges(arr) -> Int] -> [Ranges(arr) -> Int]]
    <2> SUFFICES ASSUME NEW g \in [Ranges(arr) -> Int], NEW range \in Ranges(arr)
                 PROVE  Round(arr, x, g, range) \in Int
      OBVIOUS
    <2>1. CASE range[1] > range[2]
      BY <2>1 DEF Round, Ranges
    <2>2. CASE range[1] <= range[2]
      <3>1. Middle(range) \in Int
        <4>1. Middle(range) \in 0 .. Len(arr) - 1
          BY <2>2, Halves
        <4> QED
          BY <4>1
      <3>2. /\ g[<<Middle(range) + 1, range[2]>>] \in Int
            /\ g[<<range[1], Middle(range) - 1>>] \in Int
        BY <2>2, Halves
      <3> QED
        BY <2>2, <3>1, <3>2, RoundCases
    <2> QED
      BY <2>1, <2>2 DEF Ranges
  <1>2. depth \in [Ranges(arr) -> Nat] /\ Len(arr) + 1 \in Nat
    BY WidthType
  <1>3. \A range \in Ranges(arr) : depth[range] < Len(arr) + 1
    BY WidthType
  <1>4. ASSUME NEW g \in [Ranges(arr) -> Int], NEW h \in [Ranges(arr) -> Int],
               NEW range \in Ranges(arr),
               \A r \in Ranges(arr) : depth[r] < depth[range] => g[r] = h[r]
        PROVE  D[g][range] = D[h][range]
    <2>1. Round(arr, x, g, range) = Round(arr, x, h, range)
      <3>1. CASE range[1] > range[2]
        BY <3>1 DEF Round
      <3>2. CASE range[1] <= range[2]
        <4>1. /\ g[<<Middle(range) + 1, range[2]>>] = h[<<Middle(range) + 1, range[2]>>]
              /\ g[<<range[1], Middle(range) - 1>>] = h[<<range[1], Middle(range) - 1>>]
          BY <1>4, <3>2, Halves
        <4>2. /\ Round(arr, x, g, range) =
                    IF arr[Middle(range) + 1] < x THEN g[<<Middle(range) + 1, range[2]>>]
                    ELSE IF arr[Middle(range) + 1] > x
                         THEN g[<<range[1], Middle(range) - 1>>] ELSE Middle(range)
              /\ Round(arr, x, h, range) =
                    IF arr[Middle(range) + 1] < x THEN h[<<Middle(range) + 1, range[2]>>]
                    ELSE IF arr[Middle(range) + 1] > x
                         THEN h[<<range[1], Middle(range) - 1>>] ELSE Middle(range)
          BY <3>2, RoundCases
        <4> QED
          BY <4>1, <4>2
      <3> QED
        BY <3>1, <3>2 DEF Ranges
    <2> QED
      BY <2>1
  <1>5. PICK f \in [Ranges(arr) -> Int] : f = D[f]
    <2>1. BoundedDescent(D, depth, Len(arr) + 1, Ranges(arr), Int)
      <3>1. Int # {}
        OBVIOUS
      <3> HIDE DEF D, depth
      <3> QED
        BY <1>1, <1>2, <1>3, <1>4, <3>1 DEF BoundedDescent
    <2> HIDE DEF D, depth
    <2> QED
      BY <2>1, BoundedRecursion
  <1>6. f = [range \in Ranges(arr) |-> Round(arr, x, f, range)]
    BY <1>5, Zenon
  <1> DEFINE search == CHOOSE g : g = [range \in Ranges(arr) |-> Round(arr, x, g, range)]
  <1>7. search = [range \in Ranges(arr) |-> Round(arr, x, search, range)]
    BY <1>6, Zenon
  <1>8. Locate(arr, x) = search[<<0, Len(arr) - 1>>]
    BY Zenon DEF Locate, Ranges, Round, Middle
  <1> HIDE DEF search
  <1> QED
    BY <1>7, <1>8

---------------------------------------------------------------------------
(* The search is right.                                                     *)

\* The invariant of the loop: x can only be in the range that is left.
Between(arr, x, range) ==
    /\ range[1] <= range[2] + 1
    /\ \A i \in DOMAIN arr : /\ i <= range[1] => arr[i] < x
                             /\ i > range[2] + 1 => arr[i] > x

\* The index, from 0, of the first element that is not below x.
IsPlace(arr, x, index) == /\ index \in 0 .. Len(arr)
                          /\ \A i \in DOMAIN arr : /\ i <= index => arr[i] < x
                                                   /\ i = index + 1 => arr[i] >= x
                                                   /\ i > index + 1 => arr[i] > x

\* One round keeps the invariant of the loop, or ends at the element.
LEMMA RoundKeeps ==
  ASSUME NEW arr \in Seq(Int), Increasing(arr), NEW x \in Int,
         NEW range \in Ranges(arr), range[1] <= range[2], Between(arr, x, range)
  PROVE  /\ arr[Middle(range) + 1] < x => Between(arr, x, <<Middle(range) + 1, range[2]>>)
         /\ arr[Middle(range) + 1] > x => Between(arr, x, <<range[1], Middle(range) - 1>>)
         /\ arr[Middle(range) + 1] = x => IsPlace(arr, x, Middle(range))
  <1> DEFINE m == Middle(range)
  <1>8. m \in 0 .. Len(arr) - 1 /\ range[1] <= m /\ m <= range[2]
    BY Halves
  <1>9. Len(arr) \in Nat /\ DOMAIN arr = 1 .. Len(arr)
    OBVIOUS
  <1>1. /\ m \in 0 .. Len(arr) - 1 /\ range[1] <= m /\ m <= range[2]
        /\ Len(arr) \in Nat /\ DOMAIN arr = 1 .. Len(arr)
    BY <1>8, <1>9
  <1>2. range[1] \in Int /\ range[2] \in Int
    BY DEF Ranges
  <1> HIDE DEF m
  <1>3. m \in Int /\ m + 1 \in DOMAIN arr /\ \A i \in DOMAIN arr : i \in Int /\ arr[i] \in Int
    BY <1>1
  <1>4. ASSUME NEW i \in DOMAIN arr
        PROVE  /\ i < m + 1 => arr[i] < arr[m + 1]
               /\ i > m + 1 => arr[i] > arr[m + 1]
    BY <1>3 DEF Increasing
  <1>5. ASSUME arr[m + 1] < x
        PROVE  Between(arr, x, <<m + 1, range[2]>>)
    <2>1. \A i \in DOMAIN arr : i <= m + 1 => arr[i] < x
      BY <1>3, <1>4, <1>5
    <2>2. m + 1 <= range[2] + 1
      BY <1>1, <1>2, <1>3
    <2> QED
      BY <2>1, <2>2 DEF Between
  <1>6. ASSUME arr[m + 1] > x
        PROVE  Between(arr, x, <<range[1], m - 1>>)
    <2>1. \A i \in DOMAIN arr : i > (m - 1) + 1 => arr[i] > x
      BY <1>3, <1>4, <1>6
    <2>2. range[1] <= (m - 1) + 1
      BY <1>1, <1>2, <1>3
    <2> QED
      BY <2>1, <2>2 DEF Between
  <1>7. ASSUME arr[m + 1] = x
        PROVE  IsPlace(arr, x, m)
    <2>1. m \in 0 .. Len(arr)
      BY <1>1
    <2>2. \A i \in DOMAIN arr : /\ i <= m => arr[i] < x
                                /\ i = m + 1 => arr[i] >= x
                                /\ i > m + 1 => arr[i] > x
      BY <1>3, <1>4, <1>7
    <2> QED
      BY <2>1, <2>2 DEF IsPlace
  <1> QED
    BY <1>5, <1>6, <1>7 DEF m

\* The binary search of a strictly sorted array stops at the first element that is not
\* below x: at x itself if the array holds it, else where x belongs.
THEOREM LocateFindsPlace ==
  ASSUME NEW arr \in Seq(Int), Increasing(arr), NEW x \in Int
  PROVE  IsPlace(arr, x, Locate(arr, x))
  <1>1. PICK search : /\ search = [range \in Ranges(arr) |-> Round(arr, x, search, range)]
                      /\ Locate(arr, x) = search[<<0, Len(arr) - 1>>]
    BY SearchExists
  <1> DEFINE Right(n) == \A range \in Ranges(arr) :
                            Width(range) <= n /\ Between(arr, x, range)
                               => IsPlace(arr, x, search[range])
             P == {n \in Nat : Right(n)}
  <1>2. ASSUME NEW range \in Ranges(arr)
        PROVE  search[range] = Round(arr, x, search, range)
    BY <1>1, Zenon
  <1>3. Len(arr) \in Nat /\ DOMAIN arr = 1 .. Len(arr)
    OBVIOUS
  <1>4. ASSUME NEW range \in Ranges(arr), range[1] > range[2], Between(arr, x, range)
        PROVE  IsPlace(arr, x, search[range])
    <2>1. range[1] \in 0 .. Len(arr) /\ range[2] \in -1 .. Len(arr) - 1
      BY DEF Ranges
    <2>2. search[range] = range[1]
      BY <1>2, <1>4 DEF Round
    <2>3. range[1] = range[2] + 1
      BY <1>3, <1>4, <2>1 DEF Between
    <2>4. \A i \in DOMAIN arr : i \in Int /\ arr[i] \in Int
      OBVIOUS
    <2> QED
      BY <1>4, <2>1, <2>2, <2>3, <2>4 DEF Between, IsPlace
  <1>5. Right(0)
    BY <1>4 DEF Width, Ranges
  <1>6. ASSUME NEW n \in Nat, Right(n)
        PROVE  Right(n + 1)
    <2> SUFFICES ASSUME NEW range \in Ranges(arr), Width(range) <= n + 1,
                        Between(arr, x, range), range[1] <= range[2]
                 PROVE  IsPlace(arr, x, search[range])
      BY <1>4 DEF Ranges
    <2> DEFINE m == Middle(range)
               right == <<m + 1, range[2]>>
               left == <<range[1], m - 1>>
    <2>1. /\ right \in Ranges(arr) /\ Width(right) < Width(range)
          /\ left \in Ranges(arr) /\ Width(left) < Width(range)
          /\ m \in 0 .. Len(arr) - 1
      BY Halves
    <2>2. Width(right) <= n /\ Width(left) <= n
      BY <2>1, WidthType
    <2>3. search[range] = IF arr[m + 1] < x THEN search[right]
                          ELSE IF arr[m + 1] > x THEN search[left] ELSE m
      BY <1>2, RoundCases
    <2>4. /\ arr[m + 1] < x => Between(arr, x, right)
          /\ arr[m + 1] > x => Between(arr, x, left)
          /\ arr[m + 1] = x => IsPlace(arr, x, m)
      BY RoundKeeps
    <2>5. arr[m + 1] \in Int
      BY <1>3, <2>1
    <2> HIDE DEF m, right, left
    <2> QED
      BY <1>6, <2>1, <2>2, <2>3, <2>4, <2>5
  <1>7. P = Nat
    <2> HIDE DEF Right
    <2>1. 0 \in P /\ \A n \in P : n + 1 \in P
      BY <1>5, <1>6
    <2> HIDE DEF P
    <2>2. P \in SUBSET Nat
      BY DEF P
    <2> QED
      BY <2>1, <2>2, Induction
  <1>8. <<0, Len(arr) - 1>> \in Ranges(arr) /\ Between(arr, x, <<0, Len(arr) - 1>>)
    BY <1>3 DEF Ranges, Between
  <1>9. Right(Len(arr) + 1)
    <2> HIDE DEF Right
    <2>1. Len(arr) + 1 \in P
      BY <1>3, <1>7
    <2> QED
      BY <2>1
  <1>10. Width(<<0, Len(arr) - 1>>) <= Len(arr) + 1
    BY <1>3, <1>8, WidthType
  <1> QED
    BY <1>1, <1>8, <1>9, <1>10

\* A word is found exactly when the array holds it.
THEOREM HoldsIffPresent ==
  ASSUME NEW arr \in Seq(Int), Increasing(arr), NEW x \in Int
  PROVE  Holds(arr, x) <=> x \in Range(arr)
  <1> DEFINE k == Locate(arr, x)
  <1>1. IsPlace(arr, x, k)
    BY LocateFindsPlace
  <1> HIDE DEF k
  <1>2. /\ Len(arr) \in Nat /\ DOMAIN arr = 1 .. Len(arr) /\ k \in 0 .. Len(arr)
        /\ \A i \in DOMAIN arr : arr[i] \in Int /\ i \in Int
    BY <1>1 DEF IsPlace
  <1>3. Range(arr) = {arr[i] : i \in DOMAIN arr}
    BY Zenon DEF Range
  <1>4. ASSUME NEW i \in DOMAIN arr, arr[i] = x
        PROVE  i = k + 1
    BY <1>1, <1>2, <1>4 DEF IsPlace
  <1>5. k + 1 <= Len(arr) => k + 1 \in DOMAIN arr
    BY <1>2
  <1>6. Holds(arr, x) <=> k + 1 <= Len(arr) /\ arr[k + 1] = x
    BY DEF Holds, k
  <1> QED
    BY <1>2, <1>3, <1>4, <1>5, <1>6

---------------------------------------------------------------------------
(* Insertions and removals.                                                 *)

\* x is put at index k; what follows moves up by one.
IsInsertion(new, arr, k, x) ==
    /\ Len(new) = Len(arr) + 1
    /\ \A i \in 1 .. Len(arr) + 1 :
          new[i] = IF i <= k THEN arr[i] ELSE IF i = k + 1 THEN x ELSE arr[i - 1]

\* What memmove and the assignment after it leave in an array.
LEMMA InsertElements ==
  ASSUME NEW S, NEW arr \in Seq(S), NEW k \in 0 .. Len(arr), NEW x \in S
  PROVE  /\ InsertAtIndex(arr, k, x) \in Seq(S)
         /\ IsInsertion(InsertAtIndex(arr, k, x), arr, k, x)
  <1> DEFINE before == SubSeq(arr, 1, k)
             after == SubSeq(arr, k + 1, Len(arr))
  <1>1. Len(arr) \in Nat /\ k \in Nat /\ k <= Len(arr)
    OBVIOUS
  <1>2. /\ before \in Seq(S) /\ Len(before) = k
        /\ \A i \in 1 .. k : before[i] = arr[i]
    BY <1>1
  <1>3. /\ after \in Seq(S) /\ Len(after) = Len(arr) - k
        /\ \A i \in 1 .. Len(arr) - k : after[i] = arr[i + k]
    BY <1>1
  <1>4. InsertAtIndex(arr, k, x) = before \o <<x>> \o after
    <2>1. (k + 1) - 1 = k
      BY <1>1
    <2>2. InsertAtIndex(arr, k, x)
             = SubSeq(arr, 1, (k + 1) - 1) \o <<x>> \o SubSeq(arr, k + 1, Len(arr))
      BY Zenon DEF InsertAtIndex, InsertAt
    <2> QED
      BY <2>1, <2>2, Zenon
  <1> HIDE DEF before, after
  <1> DEFINE front == before \o <<x>>
  <1>5. /\ front \in Seq(S) /\ Len(front) = k + 1
        /\ \A i \in 1 .. k + 1 : front[i] = IF i <= k THEN arr[i] ELSE x
    BY <1>1, <1>2
  <1> HIDE DEF front
  <1>6. /\ front \o after \in Seq(S) /\ Len(front \o after) = Len(arr) + 1
        /\ \A i \in 1 .. Len(arr) + 1 :
              (front \o after)[i] = IF i <= k + 1 THEN front[i] ELSE after[i - (k + 1)]
    <2>1. /\ front \o after \in Seq(S) /\ Len(front \o after) = Len(front) + Len(after)
          /\ \A i \in 1 .. Len(front) + Len(after) :
                (front \o after)[i] = IF i <= Len(front) THEN front[i]
                                      ELSE after[i - Len(front)]
      BY <1>3, <1>5, ConcatProperties
    <2>2. Len(front) + Len(after) = Len(arr) + 1
      BY <1>1, <1>3, <1>5
    <2> QED
      BY <1>5, <2>1, <2>2, Zenon
  <1>7. InsertAtIndex(arr, k, x) = front \o after
    BY <1>4 DEF front
  <1>8. ASSUME NEW i \in 1 .. Len(arr) + 1
        PROVE  (front \o after)[i] = IF i <= k THEN arr[i]
                                     ELSE IF i = k + 1 THEN x ELSE arr[i - 1]
    <2>1. CASE i <= k + 1
      BY <1>1, <1>5, <1>6, <2>1
    <2>2. CASE i > k + 1
      <3>1. (front \o after)[i] = after[i - (k + 1)] /\ i - (k + 1) \in 1 .. Len(arr) - k
        BY <1>1, <1>6, <2>2
      <3>2. after[i - (k + 1)] = arr[(i - (k + 1)) + k]
        BY <1>3, <3>1
      <3>3. (i - (k + 1)) + k = i - 1
        BY <1>1
      <3> QED
        BY <1>1, <2>2, <3>1, <3>2, <3>3
    <2>3. i <= k + 1 \/ i > k + 1
      BY <1>1
    <2> QED
      BY <2>1, <2>2, <2>3, Zenon
  <1> QED
    BY <1>6, <1>7, <1>8 DEF IsInsertion

\* Insertion at the index the search finds keeps the array strictly sorted, and adds the
\* new word and nothing else.
THEOREM InsertKeepsSorted ==
  ASSUME NEW arr \in Seq(Int), Increasing(arr), NEW x \in Int, x \notin Range(arr)
  PROVE  LET new == InsertAtIndex(arr, Locate(arr, x), x)
         IN  /\ new \in Seq(Int) /\ Len(new) = Len(arr) + 1
             /\ Increasing(new)
             /\ Range(new) = Range(arr) \union {x}
  <1> DEFINE k == Locate(arr, x)
             new == InsertAtIndex(arr, k, x)
  <1>1. IsPlace(arr, x, k)
    BY LocateFindsPlace
  <1> HIDE DEF k
  <1>2. /\ Len(arr) \in Nat /\ DOMAIN arr = 1 .. Len(arr) /\ k \in 0 .. Len(arr)
        /\ \A i \in DOMAIN arr : arr[i] \in Int /\ i \in Int
    BY <1>1 DEF IsPlace
  <1>3. /\ new \in Seq(Int) /\ Len(new) = Len(arr) + 1
        /\ \A i \in 1 .. Len(arr) + 1 :
              new[i] = IF i <= k THEN arr[i] ELSE IF i = k + 1 THEN x ELSE arr[i - 1]
    <2>1. new \in Seq(Int) /\ IsInsertion(new, arr, k, x)
      BY <1>2, InsertElements
    <2> QED
      BY <2>1 DEF IsInsertion
  <1>4. Range(arr) = {arr[i] : i \in DOMAIN arr} /\ Range(new) = {new[i] : i \in DOMAIN new}
    BY Zenon DEF Range
  <1>5. DOMAIN new = 1 .. Len(arr) + 1
    BY <1>2, <1>3
  <1> HIDE DEF new
  <1>6. \A i \in DOMAIN arr : (i <= k => arr[i] < x) /\ (i > k => arr[i] > x)
    <2> SUFFICES ASSUME NEW i \in DOMAIN arr
                 PROVE  (i <= k => arr[i] < x) /\ (i > k => arr[i] > x)
      OBVIOUS
    <2>1. arr[i] # x
      BY <1>4
    <2> QED
      BY <1>1, <1>2, <2>1 DEF IsPlace
  <1>7. Increasing(new)
    <2> SUFFICES ASSUME NEW i \in 1 .. Len(arr) + 1, NEW j \in 1 .. Len(arr) + 1, i < j
                 PROVE  new[i] < new[j]
      BY <1>5 DEF Increasing
    <2>1. \A a, b \in 1 .. Len(arr) : a < b => arr[a] < arr[b]
      BY <1>2 DEF Increasing
    <2>2. CASE j <= k
      BY <1>2, <1>3, <2>1, <2>2
    <2>3. CASE j = k + 1
      <3>1. new[j] = x /\ i <= k /\ i \in DOMAIN arr
        BY <1>2, <1>3, <2>3
      <3> QED
        BY <1>3, <1>6, <3>1
    <2>4. CASE j > k + 1
      <3>1. new[j] = arr[j - 1] /\ j - 1 \in 1 .. Len(arr) /\ j - 1 > k
        BY <1>2, <1>3, <2>4
      <3>2. CASE i <= k
        BY <1>2, <1>3, <2>1, <3>1, <3>2
      <3>3. CASE i = k + 1
        <4>1. new[i] = x
          BY <1>2, <1>3, <3>3
        <4> QED
          BY <1>2, <1>6, <3>1, <4>1
      <3>4. CASE i > k + 1
        <4>1. new[i] = arr[i - 1] /\ i - 1 \in 1 .. Len(arr) /\ i - 1 < j - 1
          BY <1>2, <1>3, <3>4
        <4> QED
          BY <2>1, <3>1, <4>1
      <3> QED
        BY <1>2, <3>2, <3>3, <3>4
    <2> QED
      BY <1>2, <2>2, <2>3, <2>4
  <1>8. Range(new) = Range(arr) \union {x}
    <2>1. ASSUME NEW i \in DOMAIN new
          PROVE  new[i] \in Range(arr) \union {x}
      <3>1. i \in 1 .. Len(arr) + 1 /\ (i # k + 1 => i <= k \/ i - 1 \in DOMAIN arr)
        BY <1>2, <1>5
      <3> QED
        BY <1>2, <1>3, <1>4, <3>1
    <2>2. ASSUME NEW i \in DOMAIN arr
          PROVE  arr[i] \in Range(new)
      <3>1. i <= k => new[i] = arr[i] /\ i \in DOMAIN new
        BY <1>2, <1>3, <1>5
      <3>2. i > k => new[i + 1] = arr[i] /\ i + 1 \in DOMAIN new
        <4> SUFFICES ASSUME i > k
                     PROVE  new[i + 1] = arr[i] /\ i + 1 \in DOMAIN new
          OBVIOUS
        <4>1. i + 1 \in 1 .. Len(arr) + 1 /\ ~(i + 1 <= k) /\ i + 1 # k + 1 /\ (i + 1) - 1 = i
          BY <1>2
        <4> QED
          BY <1>3, <1>5, <4>1
      <3> QED
        BY <1>2, <1>4, <3>1, <3>2
    <2>3. x \in Range(new)
      <3>1. k + 1 \in 1 .. Len(arr) + 1 /\ ~(k + 1 <= k)
        BY <1>2
      <3> QED
        BY <1>3, <1>4, <1>5, <3>1
    <2> QED
      BY <1>4, <2>1, <2>2, <2>3
  <1> QED
    BY <1>3, <1>7, <1>8 DEF new, k

\* Insertion at the end is Append.
LEMMA InsertAtEnd ==
  ASSUME NEW S, NEW arr \in Seq(S), NEW x \in S
  PROVE  InsertAtIndex(arr, Len(arr), x) = Append(arr, x)
  <1> DEFINE n == Len(arr)
             new == InsertAtIndex(arr, n, x)
  <1>1. n \in Nat /\ n \in 0 .. n
    OBVIOUS
  <1>2. new \in Seq(S) /\ IsInsertion(new, arr, n, x)
    BY <1>1, InsertElements
  <1>3. /\ Append(arr, x) \in Seq(S) /\ Len(Append(arr, x)) = n + 1
        /\ \A i \in 1 .. n : Append(arr, x)[i] = arr[i]
        /\ Append(arr, x)[n + 1] = x
    BY AppendProperties
  <1> HIDE DEF new, n
  <1>4. Len(new) = n + 1 /\ \A i \in 1 .. n + 1 : new[i] = Append(arr, x)[i]
    BY <1>1, <1>2, <1>3 DEF IsInsertion, n
  <1>5. new = Append(arr, x)
    BY <1>2, <1>3, <1>4, SeqEqual
  <1> QED
    BY <1>5 DEF new, n

\* A word that is above all others goes to the end.
LEMMA AppendKeepsSorted ==
  ASSUME NEW arr \in Seq(Int), Increasing(arr), NEW x \in Int, \A w \in Range(arr) : w < x
  PROVE  /\ Len(Append(arr, x)) = Len(arr) + 1
         /\ Increasing(Append(arr, x))
         /\ Range(Append(arr, x)) = Range(arr) \union {x}
  <1> DEFINE new == Append(arr, x)
             n == Len(arr)
  <1>1. n \in Nat /\ DOMAIN arr = 1 .. n /\ \A i \in 1 .. n : arr[i] \in Int
    OBVIOUS
  <1>2. /\ Len(new) = n + 1 /\ DOMAIN new = 1 .. n + 1
        /\ \A i \in 1 .. n : new[i] = arr[i]
        /\ new[n + 1] = x
    BY AppendProperties
  <1>3. Range(arr) = {arr[i] : i \in DOMAIN arr} /\ Range(new) = {new[i] : i \in DOMAIN new}
    BY Zenon DEF Range
  <1> HIDE DEF new, n
  <1>4. \A i \in 1 .. n : arr[i] < x
    BY <1>1, <1>3
  <1>5. Increasing(new)
    <2> SUFFICES ASSUME NEW i \in 1 .. n + 1, NEW j \in 1 .. n + 1, i < j
                 PROVE  new[i] < new[j]
      BY <1>2 DEF Increasing
    <2>1. i \in 1 .. n /\ (j \in 1 .. n \/ j = n + 1)
      BY <1>1
    <2>2. \A a, b \in 1 .. n : a < b => arr[a] < arr[b]
      BY <1>1 DEF Increasing
    <2> QED
      BY <1>2, <1>4, <2>1, <2>2
  <1>6. Range(new) = Range(arr) \union {x}
    <2>1. 1 .. n + 1 = (1 .. n) \union {n + 1}
      BY <1>1
    <2> QED
      BY <1>1, <1>2, <1>3, <2>1
  <1> QED
    BY <1>2, <1>5, <1>6 DEF new, n

\* The element at index k, from 1, is taken out; what follows moves down by one.
IsRemoval(new, arr, k) ==
    /\ Len(new) = Len(arr) - 1
    /\ \A i \in 1 .. Len(arr) - 1 : new[i] = IF i < k THEN arr[i] ELSE arr[i + 1]

\* What memmove leaves in an array when an element is deleted.
LEMMA RemoveElements ==
  ASSUME NEW S, NEW arr \in Seq(S), NEW k \in 1 .. Len(arr)
  PROVE  RemoveAt(arr, k) \in Seq(S) /\ IsRemoval(RemoveAt(arr, k), arr, k)
  <1> DEFINE before == SubSeq(arr, 1, k - 1)
             after == SubSeq(arr, k + 1, Len(arr))
  <1>1. Len(arr) \in Nat /\ k \in Nat /\ 1 <= k /\ k <= Len(arr)
    OBVIOUS
  <1>2. /\ before \in Seq(S) /\ Len(before) = k - 1
        /\ \A i \in 1 .. k - 1 : before[i] = arr[i]
    BY <1>1
  <1>3. /\ after \in Seq(S) /\ Len(after) = Len(arr) - k
        /\ \A i \in 1 .. Len(arr) - k : after[i] = arr[i + k]
    BY <1>1
  <1>4. RemoveAt(arr, k) = before \o after
    BY Zenon DEF RemoveAt
  <1> HIDE DEF before, after
  <1>5. /\ before \o after \in Seq(S) /\ Len(before \o after) = Len(before) + Len(after)
        /\ \A i \in 1 .. Len(before) + Len(after) :
              (before \o after)[i] = IF i <= Len(before) THEN before[i]
                                     ELSE after[i - Len(before)]
    BY <1>2, <1>3, ConcatProperties
  <1>6. Len(before) + Len(after) = Len(arr) - 1
    BY <1>1, <1>2, <1>3
  <1>7. ASSUME NEW i \in 1 .. Len(arr) - 1
        PROVE  (before \o after)[i] = IF i < k THEN arr[i] ELSE arr[i + 1]
    <2>1. (before \o after)[i] = IF i <= k - 1 THEN before[i] ELSE after[i - (k - 1)]
      BY <1>2, <1>5, <1>6, Zenon
    <2>2. CASE i < k
      BY <1>1, <1>2, <2>1, <2>2
    <2>3. CASE i >= k
      <3>1. (before \o after)[i] = after[i - (k - 1)] /\ i - (k - 1) \in 1 .. Len(arr) - k
        BY <1>1, <2>1, <2>3
      <3>2. after[i - (k - 1)] = arr[(i - (k - 1)) + k]
        BY <1>3, <3>1
      <3>3. (i - (k - 1)) + k = i + 1
        BY <1>1
      <3> QED
        BY <1>1, <2>3, <3>1, <3>2, <3>3
    <2>4. i < k \/ i >= k
      BY <1>1
    <2> QED
      BY <2>2, <2>3, <2>4, Zenon
  <1> QED
    BY <1>4, <1>5, <1>6, <1>7 DEF IsRemoval

\* Deletion of the word that the search finds keeps the array strictly sorted, and takes
\* out that word and nothing else.
THEOREM RemoveKeepsSorted ==
  ASSUME NEW arr \in Seq(Int), Increasing(arr), NEW x \in Int, x \in Range(arr)
  PROVE  LET new == RemoveAt(arr, Locate(arr, x) + 1)
         IN  /\ new \in Seq(Int) /\ Len(new) = Len(arr) - 1
             /\ Increasing(new)
             /\ Range(new) = Range(arr) \ {x}
  <1> DEFINE k == Locate(arr, x) + 1
             new == RemoveAt(arr, k)
  <1>1. Len(arr) \in Nat /\ DOMAIN arr = 1 .. Len(arr)
    OBVIOUS
  <1>2. Range(arr) = {arr[i] : i \in DOMAIN arr} /\ Range(new) = {new[i] : i \in DOMAIN new}
    BY Zenon DEF Range
  <1>3. k \in 1 .. Len(arr) /\ arr[k] = x
    <2>1. Holds(arr, x)
      BY HoldsIffPresent
    <2>2. Locate(arr, x) \in 0 .. Len(arr)
      BY LocateFindsPlace DEF IsPlace
    <2> QED
      BY <1>1, <2>1, <2>2 DEF Holds
  <1> HIDE DEF k
  <1>4. new \in Seq(Int) /\ IsRemoval(new, arr, k)
    BY <1>3, RemoveElements
  <1> HIDE DEF new
  <1>5. /\ Len(new) = Len(arr) - 1 /\ DOMAIN new = 1 .. Len(arr) - 1
        /\ \A i \in 1 .. Len(arr) - 1 : new[i] = IF i < k THEN arr[i] ELSE arr[i + 1]
    BY <1>4 DEF IsRemoval
  <1>6. \A a, b \in 1 .. Len(arr) : arr[a] \in Int /\ (a < b => arr[a] < arr[b])
    BY <1>1 DEF Increasing
  <1>7. Increasing(new)
    <2> SUFFICES ASSUME NEW i \in 1 .. Len(arr) - 1, NEW j \in 1 .. Len(arr) - 1, i < j
                 PROVE  new[i] < new[j]
      BY <1>5 DEF Increasing
    <2> DEFINE to(a) == IF a < k THEN a ELSE a + 1
    <2>1. new[i] = arr[to(i)] /\ new[j] = arr[to(j)]
      BY <1>5
    <2>2. to(i) \in 1 .. Len(arr) /\ to(j) \in 1 .. Len(arr) /\ to(i) < to(j)
      BY <1>1, <1>3
    <2> QED
      BY <1>6, <2>1, <2>2
  <1>8. ASSUME NEW a \in 1 .. Len(arr), a # k
        PROVE  arr[a] # x
    BY <1>3, <1>6, <1>8
  <1>9. Range(new) = Range(arr) \ {x}
    <2>1. ASSUME NEW i \in DOMAIN new
          PROVE  new[i] \in Range(arr) \ {x}
      <3>1. CASE i < k
        BY <1>1, <1>2, <1>3, <1>5, <1>8, <3>1
      <3>2. CASE i >= k
        <4>1. new[i] = arr[i + 1] /\ i + 1 \in 1 .. Len(arr) /\ i + 1 # k
          BY <1>1, <1>3, <1>5, <3>2
        <4> QED
          BY <1>1, <1>2, <1>8, <4>1
      <3> QED
        BY <1>3, <1>5, <3>1, <3>2
    <2>2. ASSUME NEW a \in 1 .. Len(arr), a # k
          PROVE  arr[a] \in Range(new)
      <3>1. CASE a < k
        <4>1. a \in 1 .. Len(arr) - 1
          BY <1>1, <1>3, <3>1
        <4>2. new[a] = arr[a]
          BY <1>5, <3>1, <4>1
        <4> QED
          BY <1>2, <1>5, <4>1, <4>2
      <3>2. CASE a > k
        <4>1. a - 1 \in 1 .. Len(arr) - 1 /\ ~(a - 1 < k) /\ (a - 1) + 1 = a
          BY <1>1, <1>3, <3>2
        <4>2. new[a - 1] = arr[a]
          BY <1>5, <4>1
        <4> QED
          BY <1>2, <1>5, <4>1, <4>2
      <3> QED
        BY <1>3, <2>2, <3>1, <3>2
    <2> QED
      BY <1>1, <1>2, <1>3, <2>1, <2>2
  <1> QED
    BY <1>4, <1>5, <1>7, <1>9 DEF new, k
---------------------------------------------------------------------------
(* Paths and prefixes.                                                      *)

\* The names of nodes.
Paths == Seq(STRING) \ {<<>>}

\* The first l words of a sequence.
LEMMA CutElements ==
  ASSUME NEW q \in Seq(STRING), NEW l \in 0 .. Len(q)
  PROVE  /\ SubSeq(q, 1, l) \in Seq(STRING) /\ Len(SubSeq(q, 1, l)) = l
         /\ \A i \in 1 .. l : SubSeq(q, 1, l)[i] = q[i]
  <1>1. Len(q) \in Nat /\ l \in Nat /\ l <= Len(q)
    OBVIOUS
  <1> QED
    BY <1>1

\* A prefix has the same words as far as it goes.
LEMMA PrefixElements ==
  ASSUME NEW p \in Seq(STRING), NEW q \in Seq(STRING)
  PROVE  /\ Len(p) \in Nat /\ Len(q) \in Nat
         /\ IsPrefix(p, q) <=> Len(p) <= Len(q) /\ \A i \in 1 .. Len(p) : p[i] = q[i]
  <1>1. Len(p) \in Nat /\ Len(q) \in Nat
    OBVIOUS
  <1> DEFINE head == SubSeq(q, 1, Len(p))
  <1>2. SubSeq(p, 1, Len(p)) = p
    <2>1. /\ SubSeq(p, 1, Len(p)) \in Seq(STRING) /\ Len(SubSeq(p, 1, Len(p))) = Len(p)
          /\ \A i \in 1 .. Len(p) : SubSeq(p, 1, Len(p))[i] = p[i]
      BY <1>1, CutElements
    <2> QED
      BY <2>1, SeqEqual
  <1>3. IsPrefix(p, q) <=> Len(p) <= Len(q) /\ p = head
    BY <1>2, Zenon DEF IsPrefix
  <1>4. ASSUME Len(p) <= Len(q)
        PROVE  p = head <=> \A i \in 1 .. Len(p) : p[i] = q[i]
    <2>1. /\ head \in Seq(STRING) /\ Len(head) = Len(p)
          /\ \A i \in 1 .. Len(p) : head[i] = q[i]
      BY <1>1, <1>4, CutElements
    <2> HIDE DEF head
    <2>2. (\A i \in 1 .. Len(p) : p[i] = head[i]) => p = head
      BY <2>1, SeqEqual
    <2> QED
      BY <2>1, <2>2
  <1> QED
    BY <1>1, <1>3, <1>4

\* The nodes on the way to a path are its prefixes: one of every length.
LEMMA NodesOnTheWay ==
  ASSUME NEW q \in Paths
  PROVE  /\ NodesTo(q) \subseteq Paths
         /\ \A p \in Paths : p \in NodesTo(q) <=> IsPrefix(p, q)
         /\ \A l \in 1 .. Len(q) : SubSeq(q, 1, l) \in NodesTo(q)
         /\ q \in NodesTo(q)
  <1>1. q \in Seq(STRING) /\ Len(q) \in Nat \ {0}
    BY DEF Paths
  <1>2. NodesTo(q) = {SubSeq(q, 1, l) : l \in 0 .. Len(q)} \ {<<>>}
    BY Zenon DEF NodesTo, Prefixes
  <1>3. NodesTo(q) \subseteq Paths
    BY <1>1, <1>2, CutElements DEF Paths
  <1>4. ASSUME NEW l \in 1 .. Len(q)
        PROVE  SubSeq(q, 1, l) \in NodesTo(q)
    <2>1. l \in 0 .. Len(q) /\ l # 0
      BY <1>1
    <2>2. Len(SubSeq(q, 1, l)) = l /\ Len(<<>>) = 0
      BY <1>1, <2>1, CutElements
    <2> QED
      BY <1>2, <2>1, <2>2
  <1>5. ASSUME NEW p \in Paths
        PROVE  p \in NodesTo(q) <=> IsPrefix(p, q)
    <2>1. p \in Seq(STRING) /\ p # <<>> /\ Len(p) \in Nat
      BY DEF Paths
    <2>2. ASSUME p \in NodesTo(q)
          PROVE  IsPrefix(p, q)
      <3>1. PICK l \in 0 .. Len(q) : p = SubSeq(q, 1, l)
        BY <1>2, <2>2
      <3>2. l \in Nat /\ l <= Len(q) /\ Len(p) = l /\ \A i \in 1 .. l : p[i] = q[i]
        BY <1>1, <3>1, CutElements
      <3> QED
        BY <1>1, <2>1, <3>2, PrefixElements
    <2>3. ASSUME IsPrefix(p, q)
          PROVE  p \in NodesTo(q)
      <3>1. Len(p) <= Len(q) /\ \A i \in 1 .. Len(p) : p[i] = q[i]
        BY <1>1, <2>1, <2>3, PrefixElements
      <3>2. Len(p) \in 0 .. Len(q)
        BY <1>1, <2>1, <3>1
      <3> DEFINE head == SubSeq(q, 1, Len(p))
      <3>3. /\ head \in Seq(STRING) /\ Len(head) = Len(p)
            /\ \A i \in 1 .. Len(p) : head[i] = q[i]
        BY <1>1, <3>2, CutElements
      <3>4. p = head
        <4> HIDE DEF head
        <4> QED
          BY <2>1, <3>1, <3>3, SeqEqual
      <3> QED
        BY <1>2, <2>1, <3>2, <3>4
    <2> QED
      BY <2>2, <2>3
  <1>6. q \in NodesTo(q)
    <2>1. IsPrefix(q, q)
      BY <1>1, PrefixElements
    <2> QED
      BY <1>5, <2>1
  <1> QED
    BY <1>3, <1>4, <1>5, <1>6

\* A prefix of a prefix is a prefix.
LEMMA PrefixTransitive ==
  ASSUME NEW p \in Seq(STRING), NEW q \in Seq(STRING), NEW r \in Seq(STRING),
         IsPrefix(p, q), IsPrefix(q, r)
  PROVE  IsPrefix(p, r)
  <1>1. Len(p) \in Nat /\ Len(q) \in Nat /\ Len(r) \in Nat
    OBVIOUS
  <1>2. Len(p) <= Len(q) /\ \A i \in 1 .. Len(p) : p[i] = q[i]
    BY PrefixElements
  <1>3. Len(q) <= Len(r) /\ \A i \in 1 .. Len(q) : q[i] = r[i]
    BY PrefixElements
  <1>4. Len(p) <= Len(r) /\ \A i \in 1 .. Len(p) : p[i] = r[i]
    BY <1>1, <1>2, <1>3
  <1> QED
    BY <1>4, PrefixElements

\* The nodes on the way to a node on the way to q are on the way to q.
LEMMA NodesTransitive ==
  ASSUME NEW q \in Paths, NEW path \in NodesTo(q)
  PROVE  NodesTo(path) \subseteq NodesTo(q)
  <1> SUFFICES ASSUME NEW node \in NodesTo(path)
               PROVE  node \in NodesTo(q)
    OBVIOUS
  <1>1. path \in Paths /\ node \in Paths /\ IsPrefix(node, path) /\ IsPrefix(path, q)
    BY NodesOnTheWay
  <1>2. path \in Seq(STRING) /\ node \in Seq(STRING) /\ q \in Seq(STRING)
    BY <1>1 DEF Paths
  <1>3. IsPrefix(node, q)
    BY <1>1, <1>2, PrefixTransitive
  <1> QED
    BY <1>1, <1>3, NodesOnTheWay

\* A node on the way to another one has a child, when all of the way is there.
LEMMA ChildOnTheWay ==
  ASSUME NEW q \in Paths, NEW path \in NodesTo(q), path # q,
         NEW trie, NodesTo(q) \subseteq DOMAIN trie
  PROVE  HasChild(trie, path)
  <1>1. q \in Seq(STRING) /\ Len(q) \in Nat
    BY DEF Paths
  <1>2. path \in Seq(STRING) /\ path \in Paths /\ IsPrefix(path, q)
    BY NodesOnTheWay DEF Paths
  <1>3. /\ Len(path) \in Nat /\ Len(path) <= Len(q)
        /\ \A i \in 1 .. Len(path) : path[i] = q[i]
    BY <1>1, <1>2, PrefixElements
  <1>4. Len(path) # Len(q)
    BY <1>1, <1>2, <1>3, SeqEqual
  <1> DEFINE l == Len(path) + 1
             child == SubSeq(q, 1, l)
  <1>5. l \in 1 .. Len(q) /\ l \in 0 .. Len(q)
    BY <1>1, <1>3, <1>4
  <1>6. /\ child \in Seq(STRING) /\ Len(child) = l
        /\ \A i \in 1 .. l : child[i] = q[i]
    BY <1>1, <1>5, CutElements
  <1>7. child \in NodesTo(q)
    BY <1>5, NodesOnTheWay
  <1> HIDE DEF child
  <1>8. IsPrefix(path, child)
    <2>1. Len(path) <= Len(child) /\ \A i \in 1 .. Len(path) : path[i] = child[i]
      BY <1>3, <1>6
    <2> QED
      BY <1>2, <1>6, <2>1, PrefixElements
  <1> QED
    BY <1>6, <1>7, <1>8 DEF HasChild, Children

---------------------------------------------------------------------------
(* Insertion.                                                               *)

\* A trie is a function on the paths of its nodes.
IsMap(trie) == trie = [path \in DOMAIN trie |-> trie[path]]

\* Insertion, marking, deletion and loading give a map from paths to nodes.
LEMMA MapsStayMaps ==
  ASSUME NEW trie, IsMap(trie), NEW ngram, NEW version, NEW ngrams
  PROVE  /\ IsMap(TrieInsert(trie, ngram, version))
         /\ IsMap(TrieMarkDeleted(trie, ngram, version))
         /\ IsMap(TrieDelete(trie, ngram))
         /\ IsMap(Load(ngrams))
  <1>1. IsMap(TrieInsert(trie, ngram, version))
    BY DEF IsMap, TrieInsert
  <1>2. IsMap(TrieMarkDeleted(trie, ngram, version))
    <2>1. IsMap([trie EXCEPT ![ngram].deleted = version])
      BY DEF IsMap
    <2> QED
      BY <2>1 DEF TrieMarkDeleted
  <1>3. IsMap(TrieDelete(trie, ngram))
    <2>1. IsMap([trie EXCEPT ![ngram].final = FALSE])
      BY DEF IsMap
    <2>2. \A forks : IsMap(CutBelow(trie, ngram, forks))
      <3> SUFFICES ASSUME NEW forks
                   PROVE  IsMap(CutBelow(trie, ngram, forks))
        OBVIOUS
      <3> DEFINE top == SubSeq(ngram, 1, Max(forks \union {0}) + 1)
      <3>1. CutBelow(trie, ngram, forks) =
               [path \in {q \in DOMAIN trie : ~IsPrefix(top, q)} |-> trie[path]]
        BY Zenon DEF CutBelow, WithoutSubtree, RestrictDomain, Restrict
      <3> HIDE DEF top
      <3>2. IsMap([path \in {q \in DOMAIN trie : ~IsPrefix(top, q)} |-> trie[path]])
        BY DEF IsMap
      <3> QED
        BY <3>1, <3>2
    <2>3. \/ TrieDelete(trie, ngram) = trie
          \/ TrieDelete(trie, ngram) = [trie EXCEPT ![ngram].final = FALSE]
          \/ \E forks : TrieDelete(trie, ngram) = CutBelow(trie, ngram, forks)
      BY Zenon DEF TrieDelete
    <2> QED
      BY <2>1, <2>2, <2>3
  <1>4. IsMap(Load(ngrams))
    BY DEF IsMap, Load
  <1> QED
    BY <1>1, <1>2, <1>3, <1>4

\* Every node is found from the first level down, and every branch ends in an n-gram.
WellFormed(trie) == /\ DOMAIN trie \subseteq Paths
                    /\ \A path \in DOMAIN trie : /\ NodesTo(path) \subseteq DOMAIN trie
                                                 /\ HasChild(trie, path) \/ trie[path].final

\* What trie_insert changes: the node of the n-gram, and nodes that were missing.
IsInserted(new, trie, ngram, version) ==
    /\ DOMAIN new = DOMAIN trie \cup NodesTo(ngram)
    /\ ngram \in DOMAIN new
    /\ new[ngram] = [final |-> TRUE, added |-> version, deleted |-> NotDeleted]
    /\ \A path \in DOMAIN new : path # ngram =>
          new[path] = IF path \in DOMAIN trie THEN trie[path] ELSE NewNode

\* trie_insert changes that and nothing else.
LEMMA TrieInsertEffect ==
  ASSUME NEW trie, NEW ngram \in Paths, NEW version
  PROVE  IsInserted(TrieInsert(trie, ngram, version), trie, ngram, version)
  <1> DEFINE new == TrieInsert(trie, ngram, version)
             value(path) == IF path = ngram
                            THEN [final |-> TRUE, added |-> version, deleted |-> NotDeleted]
                            ELSE IF path \in DOMAIN trie THEN trie[path] ELSE NewNode
  <1>1. new = [path \in DOMAIN trie \cup NodesTo(ngram) |-> value(path)]
    BY DEF TrieInsert
  <1>2. ngram \in NodesTo(ngram)
    BY NodesOnTheWay
  <1> HIDE DEF new, value
  <1>3. /\ DOMAIN new = DOMAIN trie \cup NodesTo(ngram)
        /\ \A path \in DOMAIN new : new[path] = value(path)
    BY <1>1
  <1> QED
    BY <1>2, <1>3 DEF IsInserted, new, value

\* An inserted n-gram hangs on nodes that are there, and no branch ends before it.
LEMMA InsertWellFormed ==
  ASSUME NEW trie, WellFormed(trie), NEW ngram \in Paths, NEW version
  PROVE  WellFormed(TrieInsert(trie, ngram, version))
  <1> DEFINE new == TrieInsert(trie, ngram, version)
  <1>1. IsInserted(new, trie, ngram, version)
    BY TrieInsertEffect
  <1> HIDE DEF new
  <1>2. /\ DOMAIN new = DOMAIN trie \cup NodesTo(ngram)
        /\ new[ngram].final
        /\ \A path \in DOMAIN trie : path # ngram => new[path] = trie[path]
    BY <1>1 DEF IsInserted
  <1>3. DOMAIN trie \subseteq Paths /\ DOMAIN new \subseteq Paths
    BY <1>2, NodesOnTheWay DEF WellFormed
  <1>4. ngram \in Seq(STRING) /\ Len(ngram) \in Nat
    BY DEF Paths
  <1>5. ASSUME NEW path \in DOMAIN new
        PROVE  NodesTo(path) \subseteq DOMAIN new
    <2>1. CASE path \in DOMAIN trie
      BY <1>2, <2>1 DEF WellFormed
    <2>2. CASE path \in NodesTo(ngram)
      BY <1>2, <2>2, NodesTransitive
    <2> QED
      BY <1>2, <2>1, <2>2
  <1>6. ASSUME NEW path \in DOMAIN new, path # ngram
        PROVE  HasChild(new, path) \/ new[path].final
    <2>1. CASE path \in DOMAIN trie
      <3>1. new[path] = trie[path]
        BY <1>2, <1>6, <2>1
      <3>2. HasChild(trie, path) => HasChild(new, path)
        BY <1>2 DEF HasChild, Children
      <3> QED
        BY <2>1, <3>1, <3>2 DEF WellFormed
    <2>2. CASE path \in NodesTo(ngram)
      BY <1>2, <1>6, <2>2, ChildOnTheWay
    <2> QED
      BY <1>2, <2>1, <2>2
  <1>7. WellFormed(new)
    BY <1>2, <1>3, <1>5, <1>6 DEF WellFormed
  <1> QED
    BY <1>7 DEF new

---------------------------------------------------------------------------
(* Marking.                                                                 *)

\* What trie_mark_deleted changes: the field "deleted" of an n-gram that is there.
IsMarked(new, trie, ngram, version) ==
    /\ DOMAIN new = DOMAIN trie
    /\ \A path \in DOMAIN trie : path # ngram => new[path] = trie[path]
    /\ ngram \in DOMAIN trie =>
          new[ngram] = IF trie[ngram].final
                       THEN [final |-> TRUE, added |-> trie[ngram].added, deleted |-> version]
                       ELSE trie[ngram]

\* The fields of a node.
Node == [final : BOOLEAN, added : Nat, deleted : Nat]

\* trie_mark_deleted changes that and nothing else.
LEMMA TrieMarkEffect ==
  ASSUME NEW trie, WellFormed(trie), \A path \in DOMAIN trie : trie[path] \in Node,
         NEW ngram \in Paths, NEW version
  PROVE  IsMarked(TrieMarkDeleted(trie, ngram, version), trie, ngram, version)
  <1> DEFINE new == TrieMarkDeleted(trie, ngram, version)
  <1>1. Found(trie, ngram) <=> ngram \in DOMAIN trie
    BY NodesOnTheWay DEF Found, WellFormed
  <1>2. CASE ngram \in DOMAIN trie /\ trie[ngram].final
    <2>1. new = [trie EXCEPT ![ngram].deleted = version]
      BY <1>1, <1>2 DEF TrieMarkDeleted
    <2>2. DOMAIN new = DOMAIN trie /\ \A path \in DOMAIN trie : path # ngram => new[path] = trie[path]
      BY <2>1
    <2>3. new[ngram] = [trie[ngram] EXCEPT !.deleted = version]
      BY <1>2, <2>1
    <2>4. new[ngram] = [final |-> TRUE, added |-> trie[ngram].added, deleted |-> version]
      BY <1>2, <2>3 DEF Node
    <2> HIDE DEF new
    <2>5. IsMarked(new, trie, ngram, version)
      BY <1>2, <2>2, <2>4 DEF IsMarked
    <2> QED
      BY <2>5 DEF new
  <1>3. CASE ~(ngram \in DOMAIN trie /\ trie[ngram].final)
    <2>1. new = trie
      BY <1>1, <1>3 DEF TrieMarkDeleted
    <2> QED
      BY <1>3, <2>1 DEF IsMarked
  <1> QED
    BY <1>2, <1>3

\* No node comes, goes or stops being final.
LEMMA MarkWellFormed ==
  ASSUME NEW trie, WellFormed(trie), NEW new, NEW ngram, NEW version,
         IsMarked(new, trie, ngram, version)
  PROVE  WellFormed(new)
  <1>1. DOMAIN new = DOMAIN trie /\ \A path \in DOMAIN trie : new[path].final <=> trie[path].final
    <2> SUFFICES ASSUME NEW path \in DOMAIN trie
                 PROVE  new[path].final <=> trie[path].final
      BY DEF IsMarked
    <2>1. CASE path = ngram /\ trie[ngram].final
      BY <2>1 DEF IsMarked
    <2>2. CASE ~(path = ngram /\ trie[ngram].final)
      BY <2>2 DEF IsMarked
    <2> QED
      BY <2>1, <2>2
  <1>2. \A path \in DOMAIN trie : HasChild(new, path) <=> HasChild(trie, path)
    BY <1>1 DEF HasChild, Children
  <1> QED
    BY <1>1, <1>2 DEF WellFormed

---------------------------------------------------------------------------
(* Deletion.                                                                *)

\* A bounded set of natural numbers that is not empty has a maximum.
LEMMA MaxOfBounded ==
  ASSUME NEW N \in Nat, NEW S \in SUBSET (0 .. N), S # {}
  PROVE  Max(S) \in S /\ \A n \in S : n <= Max(S)
  <1> DEFINE R == {N - n : n \in S}
  <1>1. R \in SUBSET Nat /\ R # {}
    <2>1. \A n \in S : N - n \in Nat
      OBVIOUS
    <2>2. PICK n \in S : TRUE
      OBVIOUS
    <2>3. N - n \in R
      OBVIOUS
    <2> QED
      BY <2>1, <2>3, Zenon
  <1>2. PICK r \in R : \A k \in R : r <= k
    <2> HIDE DEF R
    <2> QED
      BY <1>1, LeastNatural
  <1>3. PICK m \in S : r = N - m
    OBVIOUS
  <1>4. \A n \in S : m >= n
    <2> SUFFICES ASSUME NEW n \in S
                 PROVE  m >= n
      OBVIOUS
    <2>1. r <= N - n
      BY <1>2
    <2> QED
      BY <1>3, <2>1
  <1>5. Max(S) \in S /\ \A n \in S : Max(S) >= n
    BY <1>4, Zenon DEF Max
  <1> QED
    BY <1>5

\* What trie_delete changes: the node of the n-gram is not final any more or is gone with
\* other nodes, which were not final.
IsDeleted(new, trie, ngram) ==
    /\ DOMAIN new \subseteq DOMAIN trie
    /\ \A path \in DOMAIN new : path # ngram => new[path] = trie[path]
    /\ ngram \in DOMAIN new =>
          new[ngram] = [final |-> FALSE, added |-> trie[ngram].added,
                        deleted |-> trie[ngram].deleted]
    /\ \A path \in DOMAIN trie \ DOMAIN new : path # ngram => ~trie[path].final

\* Below the last fork on the way to a leaf there is only that way.
LEMMA OneBranch ==
  ASSUME NEW trie, WellFormed(trie), NEW ngram \in DOMAIN trie, ~HasChild(trie, ngram),
         NEW m \in 0 .. Len(ngram) - 1,
         \A n \in m + 1 .. Len(ngram) - 1 :
            \A q, r \in Children(trie, SubSeq(ngram, 1, n)) : q = r,
         NEW path \in DOMAIN trie, IsPrefix(SubSeq(ngram, 1, m + 1), path)
  PROVE  IsPrefix(path, ngram)
  <1>1. /\ ngram \in Paths /\ path \in Paths
        /\ ngram \in Seq(STRING) /\ path \in Seq(STRING)
        /\ Len(ngram) \in Nat /\ Len(path) \in Nat
    BY DEF WellFormed, Paths
  <1> DEFINE N == Len(ngram)
             L == Len(path)
             D == {l \in 1 .. L : l > N \/ path[l] # ngram[l]}
  <1>2. SUFFICES ASSUME ~IsPrefix(path, ngram)
                 PROVE  FALSE
    OBVIOUS
  <1>3. D # {} /\ D \in SUBSET Nat
    <2>1. ASSUME D = {}
          PROVE  FALSE
      <3>1. \A l \in 1 .. L : l <= N /\ path[l] = ngram[l]
        BY <1>1, <2>1
      <3>2. L <= N
        BY <1>1, <3>1
      <3> QED
        BY <1>1, <1>2, <3>1, <3>2, PrefixElements
    <2> QED
      BY <1>1, <2>1
  <1>4. PICK l \in D : \A k \in D : l <= k
    <2> HIDE DEF D
    <2> QED
      BY <1>3, LeastNatural
  <1>5. l \in 1 .. L /\ l \in Nat /\ (l > N \/ path[l] # ngram[l])
    BY <1>1, <1>4
  <1>6. \A i \in 1 .. l - 1 : i <= N /\ path[i] = ngram[i]
    <2> SUFFICES ASSUME NEW i \in 1 .. l - 1, i > N \/ path[i] # ngram[i]
                 PROVE  FALSE
      BY <1>1, <1>5
    <2>1. i \in D /\ i < l
      BY <1>1, <1>5
    <2> QED
      BY <1>4, <1>5, <2>1
  <1>7. l > m + 1
    <2> DEFINE top == SubSeq(ngram, 1, m + 1)
    <2>1. m + 1 \in 0 .. N /\ m \in Nat
      BY <1>1
    <2>2. /\ top \in Seq(STRING) /\ Len(top) = m + 1
          /\ \A i \in 1 .. m + 1 : top[i] = ngram[i]
      BY <1>1, <2>1, CutElements
    <2>3. IsPrefix(top, path)
      BY Zenon
    <2> HIDE DEF top
    <2>4. \A i \in 1 .. m + 1 : top[i] = path[i]
      BY <1>1, <2>2, <2>3, PrefixElements
    <2>5. ASSUME l <= m + 1
          PROVE  FALSE
      <3>1. l \in 1 .. m + 1 /\ l <= N
        BY <1>1, <1>5, <2>1, <2>5
      <3> QED
        BY <1>5, <2>2, <2>4, <3>1
    <2> QED
      BY <1>5, <2>1, <2>5
  <1> DEFINE q == SubSeq(path, 1, l)
  <1>8. /\ q \in Seq(STRING) /\ Len(q) = l /\ \A i \in 1 .. l : q[i] = path[i]
        /\ q \in DOMAIN trie
    <2>1. l \in 0 .. L
      BY <1>1, <1>5
    <2>2. q \in NodesTo(path)
      BY <1>1, <1>5, NodesOnTheWay
    <2>3. q \in DOMAIN trie
      BY <2>2 DEF WellFormed
    <2> QED
      BY <1>1, <2>1, <2>3, CutElements
  <1> HIDE DEF q
  <1>9. CASE l > N
    <2>1. N = l - 1
      <3>1. ASSUME N < l - 1
            PROVE  FALSE
        <4>1. l - 1 \in 1 .. l - 1 /\ ~(l - 1 <= N)
          BY <1>1, <1>5, <3>1
        <4> QED
          BY <1>6, <4>1
      <3>2. N \in Nat /\ l \in Nat /\ l > N
        BY <1>1, <1>5, <1>9
      <3> HIDE DEF N, D
      <3> QED
        BY <3>1, <3>2
    <2>2. \A i \in 1 .. N : ngram[i] = q[i]
      BY <1>1, <1>5, <1>6, <1>8, <2>1
    <2>3. IsPrefix(ngram, q) /\ Len(q) = Len(ngram) + 1
      <3>1. Len(ngram) <= Len(q) /\ Len(q) = Len(ngram) + 1
        BY <1>1, <1>5, <1>8, <2>1
      <3> QED
        BY <1>1, <1>8, <2>2, <3>1, PrefixElements
    <2> QED
      BY <1>8, <2>3 DEF HasChild, Children
  <1>10. CASE l <= N
    <2> DEFINE n == l - 1
               p == SubSeq(ngram, 1, n)
               r == SubSeq(ngram, 1, l)
    <2>1. /\ n \in m + 1 .. N - 1 /\ n \in 0 .. N /\ l \in 0 .. N /\ l \in 1 .. N
          /\ n \in Nat /\ n <= l /\ l = n + 1
      BY <1>1, <1>5, <1>7, <1>10
    <2>2. /\ p \in Seq(STRING) /\ Len(p) = n /\ \A i \in 1 .. n : p[i] = ngram[i]
      BY <1>1, <2>1, CutElements
    <2>3. /\ r \in Seq(STRING) /\ Len(r) = l /\ \A i \in 1 .. l : r[i] = ngram[i]
      BY <1>1, <2>1, CutElements
    <2>4. r \in DOMAIN trie
      <3>1. r \in NodesTo(ngram)
        BY <1>1, <2>1, NodesOnTheWay
      <3> QED
        BY <3>1 DEF WellFormed
    <2>5. \A one, other \in Children(trie, p) : one = other
      BY <2>1
    <2> HIDE DEF n, p, r
    <2>6. IsPrefix(p, q)
      <3>1. Len(p) <= Len(q) /\ \A i \in 1 .. Len(p) : p[i] = q[i]
        BY <1>5, <1>6, <1>8, <2>1, <2>2
      <3> QED
        BY <1>8, <2>2, <3>1, PrefixElements
    <2>7. IsPrefix(p, r)
      <3>1. Len(p) <= Len(r) /\ \A i \in 1 .. Len(p) : p[i] = r[i]
        BY <2>1, <2>2, <2>3
      <3> QED
        BY <2>2, <2>3, <3>1, PrefixElements
    <2>8. q # r
      <3>1. q[l] = path[l] /\ r[l] = ngram[l]
        BY <1>5, <1>8, <2>3
      <3> QED
        BY <1>1, <1>5, <1>10, <3>1
    <2>9. Len(q) = Len(p) + 1 /\ Len(r) = Len(p) + 1
      BY <1>8, <2>1, <2>2, <2>3
    <2> QED
      BY <1>8, <2>4, <2>5, <2>6, <2>7, <2>8, <2>9 DEF Children
  <1> QED
    BY <1>1, <1>5, <1>9, <1>10

\* The part of trie_delete that calls ca_force_delete, on a leaf.
LEMMA CutEffect ==
  ASSUME NEW trie, WellFormed(trie), NEW ngram \in DOMAIN trie, ~HasChild(trie, ngram)
  PROVE  LET new == CutBelow(trie, ngram, {n \in 1 .. Len(ngram) - 1 :
                                              HasFork(trie, SubSeq(ngram, 1, n))})
         IN  IsDeleted(new, trie, ngram) /\ WellFormed(new)
  <1> DEFINE N == Len(ngram)
             forks == {n \in 1 .. N - 1 : HasFork(trie, SubSeq(ngram, 1, n))}
             m == Max(forks \cup {0})
             top == SubSeq(ngram, 1, m + 1)
             new == CutBelow(trie, ngram, forks)
  <1>1. /\ ngram \in Paths /\ ngram \in Seq(STRING) /\ N \in Nat \ {0}
        /\ DOMAIN trie \subseteq Paths
    BY DEF WellFormed, Paths
  <1>2. /\ m \in forks \cup {0} /\ \A n \in forks \cup {0} : n <= m
        /\ m \in 0 .. N - 1
    <2>1. forks \cup {0} \in SUBSET (0 .. N) /\ forks \cup {0} # {}
      BY <1>1
    <2>2. m \in forks \cup {0} /\ \A n \in forks \cup {0} : n <= m
      <3> DEFINE S == forks \cup {0}
      <3>1. S \in SUBSET (0 .. N) /\ S # {}
        BY <2>1
      <3> HIDE DEF S
      <3>2. Max(S) \in S /\ \A n \in S : n <= Max(S)
        BY <1>1, <3>1, MaxOfBounded
      <3> QED
        BY <3>2 DEF S
    <2> QED
      BY <1>1, <2>2
  <1>3. \A n \in m + 1 .. N - 1 : ~HasFork(trie, SubSeq(ngram, 1, n))
    <2> SUFFICES ASSUME NEW n \in m + 1 .. N - 1, HasFork(trie, SubSeq(ngram, 1, n))
                 PROVE  FALSE
      OBVIOUS
    <2>1. n \in 1 .. N - 1 /\ n > m
      BY <1>1, <1>2
    <2>2. n \in forks
      BY <2>1
    <2> QED
      BY <1>1, <1>2, <2>1, <2>2
  <1>4. m = 0 \/ HasFork(trie, SubSeq(ngram, 1, m))
    BY <1>2
  <1>5. new = [path \in {q \in DOMAIN trie : ~IsPrefix(top, q)} |-> trie[path]]
    BY Zenon DEF CutBelow, WithoutSubtree, RestrictDomain, Restrict
  <1>6. /\ top \in Seq(STRING) /\ Len(top) = m + 1 /\ m + 1 \in 1 .. N
        /\ \A i \in 1 .. m + 1 : top[i] = ngram[i]
    <2>1. m + 1 \in 0 .. N /\ m + 1 \in 1 .. N
      BY <1>1, <1>2
    <2> QED
      BY <1>1, <2>1, CutElements
  <1>7. ASSUME NEW path \in DOMAIN trie, IsPrefix(top, path), path # ngram
        PROVE  ~trie[path].final
    <2>1. IsPrefix(path, ngram)
      <3>1. \A n \in m + 1 .. N - 1 : \A q, r \in Children(trie, SubSeq(ngram, 1, n)) : q = r
        BY <1>3 DEF HasFork
      <3> QED
        BY <1>2, <1>7, <3>1, OneBranch
    <2>2. path \in Paths /\ path \in Seq(STRING) /\ Len(path) \in Nat
      BY <1>1 DEF Paths
    <2>3. Len(path) <= N /\ \A i \in 1 .. Len(path) : path[i] = ngram[i]
      BY <1>1, <2>1, <2>2, PrefixElements
    <2>4. Len(path) # N
      BY <1>1, <1>7, <2>2, <2>3, SeqEqual
    <2>5. m + 1 <= Len(path)
      BY <1>6, <1>7, <2>2, PrefixElements
    <2>6. Len(path) \in m + 1 .. N - 1 /\ Len(path) \in 0 .. N /\ Len(path) + 1 \in 1 .. N
          /\ Len(path) + 1 \in 0 .. N
      BY <1>1, <1>2, <2>2, <2>3, <2>4, <2>5
    <2> DEFINE head == SubSeq(ngram, 1, Len(path))
               child == SubSeq(ngram, 1, Len(path) + 1)
    <2>7. head = path
      <3>1. /\ head \in Seq(STRING) /\ Len(head) = Len(path)
            /\ \A i \in 1 .. Len(path) : head[i] = ngram[i]
        BY <1>1, <2>6, CutElements
      <3> HIDE DEF head
      <3> QED
        BY <2>2, <2>3, <3>1, SeqEqual
    <2>8. ~HasFork(trie, path)
      BY <1>3, <2>6, <2>7
    <2>9. HasChild(trie, path)
      <3>1. /\ child \in Seq(STRING) /\ Len(child) = Len(path) + 1
            /\ \A i \in 1 .. Len(path) + 1 : child[i] = ngram[i]
        BY <1>1, <2>6, CutElements
      <3>2. child \in DOMAIN trie
        <4>1. child \in NodesTo(ngram)
          BY <1>1, <2>6, NodesOnTheWay
        <4> QED
          BY <4>1 DEF WellFormed
      <3> HIDE DEF child
      <3>3. Len(path) <= Len(child) /\ \A i \in 1 .. Len(path) : path[i] = child[i]
        BY <2>2, <2>3, <3>1
      <3>4. IsPrefix(path, child)
        BY <2>2, <3>1, <3>3, PrefixElements
      <3> QED
        BY <3>1, <3>2, <3>4 DEF HasChild, Children
    <2> QED
      BY <2>8, <2>9 DEF HasFork
  <1> HIDE DEF m, top, new
  <1>8. IsPrefix(top, ngram)
    <2>1. Len(top) <= N /\ \A i \in 1 .. Len(top) : top[i] = ngram[i]
      BY <1>1, <1>6
    <2> QED
      BY <1>1, <1>6, <2>1, PrefixElements
  <1>9. /\ DOMAIN new = {q \in DOMAIN trie : ~IsPrefix(top, q)}
        /\ \A path \in DOMAIN new : new[path] = trie[path]
        /\ ngram \notin DOMAIN new
    BY <1>5, <1>8
  <1>10. IsDeleted(new, trie, ngram)
    BY <1>7, <1>9 DEF IsDeleted
  <1>11. ASSUME NEW path \in DOMAIN new
         PROVE  NodesTo(path) \subseteq DOMAIN new
    <2> SUFFICES ASSUME NEW node \in NodesTo(path)
                 PROVE  node \in DOMAIN new
      OBVIOUS
    <2>1. path \in DOMAIN trie /\ ~IsPrefix(top, path) /\ node \in DOMAIN trie
      BY <1>9 DEF WellFormed
    <2>2. path \in Paths /\ node \in Paths /\ path \in Seq(STRING) /\ node \in Seq(STRING)
      BY <1>1, <2>1 DEF Paths
    <2>3. IsPrefix(node, path)
      BY <2>2, NodesOnTheWay
    <2>4. ~IsPrefix(top, node)
      BY <1>6, <2>1, <2>2, <2>3, PrefixTransitive
    <2> QED
      BY <1>9, <2>1, <2>4
  <1>12. ASSUME NEW path \in DOMAIN new
         PROVE  HasChild(new, path) \/ new[path].final
    <2>1. path \in DOMAIN trie /\ ~IsPrefix(top, path) /\ new[path] = trie[path]
      BY <1>9
    <2>2. path \in Paths /\ path \in Seq(STRING) /\ Len(path) \in Nat
      BY <1>1, <2>1 DEF Paths
    <2>3. CASE trie[path].final
      BY <2>1, <2>3
    <2>4. CASE ~trie[path].final
      <3>1. PICK child \in DOMAIN trie : Len(child) = Len(path) + 1 /\ IsPrefix(path, child)
        BY <2>1, <2>4 DEF WellFormed, HasChild, Children
      <3>2. CASE ~IsPrefix(top, child)
        BY <1>9, <3>1, <3>2 DEF HasChild, Children
      <3>3. CASE IsPrefix(top, child)
        <4>1. child \in Seq(STRING) /\ child \in Paths
          BY <1>1 DEF Paths
        <4>2. /\ m + 1 <= Len(child) /\ \A i \in 1 .. m + 1 : top[i] = child[i]
              /\ \A i \in 1 .. Len(path) : path[i] = child[i]
          BY <1>6, <2>2, <3>1, <3>3, <4>1, PrefixElements
        <4>3. m + 1 = Len(path) + 1 /\ m \in Nat
          <5>1. ASSUME m + 1 <= Len(path)
                PROVE  FALSE
            <6>1. \A i \in 1 .. m + 1 : top[i] = path[i]
              BY <1>2, <2>2, <4>2, <5>1
            <6> QED
              BY <1>6, <2>1, <2>2, <5>1, <6>1, PrefixElements
          <5> QED
            BY <1>2, <2>2, <3>1, <4>2, <5>1
        <4>4. m # 0
          <5>1. Len(path) # 0
            BY <2>2 DEF Paths
          <5> QED
            BY <2>2, <4>3, <5>1
        <4>5. path = SubSeq(ngram, 1, m)
          <5> DEFINE head == SubSeq(ngram, 1, m)
          <5>1. m \in 0 .. N
            BY <1>1, <1>2
          <5>2. /\ head \in Seq(STRING) /\ Len(head) = m /\ \A i \in 1 .. m : head[i] = ngram[i]
            BY <1>1, <5>1, CutElements
          <5>3. \A i \in 1 .. m : path[i] = ngram[i] /\ Len(path) = m
            BY <1>6, <2>2, <4>2, <4>3
          <5> HIDE DEF head
          <5>4. path = head
            BY <2>2, <4>3, <5>2, <5>3, SeqEqual
          <5> QED
            BY <5>4 DEF head
        <4>6. HasFork(trie, path)
          BY <1>4, <4>4, <4>5
        <4>7. PICK other \in Children(trie, path) : other # top
          BY <2>4, <4>6 DEF HasFork
        <4>8. other \in DOMAIN trie /\ Len(other) = Len(path) + 1 /\ IsPrefix(path, other)
              /\ other \in Seq(STRING)
          BY <1>1, <4>7 DEF Children, Paths
        <4>9. ~IsPrefix(top, other)
          <5>1. ASSUME IsPrefix(top, other)
                PROVE  FALSE
            <6>1. Len(top) = Len(other) /\ \A i \in 1 .. Len(top) : top[i] = other[i]
              BY <1>6, <4>3, <4>8, <5>1, PrefixElements
            <6>2. top = other
              BY <1>6, <4>8, <6>1, SeqEqual
            <6> QED
              BY <4>7, <6>2
          <5> QED
            BY <5>1
        <4> QED
          BY <1>9, <4>8, <4>9 DEF HasChild, Children
      <3> QED
        BY <3>2, <3>3
    <2> QED
      BY <2>3, <2>4
  <1>13. WellFormed(new)
    BY <1>1, <1>9, <1>11, <1>12 DEF WellFormed
  <1> QED
    BY <1>10, <1>13 DEF new

\* trie_delete takes one n-gram out and leaves the trie without a dead branch.
LEMMA TrieDeleteEffect ==
  ASSUME NEW trie, WellFormed(trie), \A path \in DOMAIN trie : trie[path] \in Node,
         NEW ngram \in Paths
  PROVE  IsDeleted(TrieDelete(trie, ngram), trie, ngram) /\ WellFormed(TrieDelete(trie, ngram))
  <1> DEFINE new == TrieDelete(trie, ngram)
  <1>1. Found(trie, ngram) <=> ngram \in DOMAIN trie
    BY NodesOnTheWay DEF Found, WellFormed
  <1>2. CASE ngram \notin DOMAIN trie
    <2>1. new = trie
      BY <1>1, <1>2, Zenon DEF TrieDelete
    <2> QED
      BY <1>2, <2>1 DEF IsDeleted
  <1>3. CASE ngram \in DOMAIN trie /\ HasChild(trie, ngram)
    <2>1. new = [trie EXCEPT ![ngram].final = FALSE]
      BY <1>1, <1>3, Zenon DEF TrieDelete
    <2>2. DOMAIN new = DOMAIN trie /\ \A path \in DOMAIN trie : path # ngram => new[path] = trie[path]
      BY <2>1
    <2>3. new[ngram] = [trie[ngram] EXCEPT !.final = FALSE]
      BY <1>3, <2>1
    <2>4. new[ngram] = [final |-> FALSE, added |-> trie[ngram].added,
                        deleted |-> trie[ngram].deleted]
      BY <1>3, <2>3 DEF Node
    <2> HIDE DEF new
    <2>5. IsDeleted(new, trie, ngram)
      BY <2>2, <2>4 DEF IsDeleted
    <2>6. \A path \in DOMAIN trie : HasChild(new, path) <=> HasChild(trie, path)
      BY <2>2 DEF HasChild, Children
    <2>7. WellFormed(new)
      BY <1>3, <2>2, <2>6 DEF WellFormed
    <2> QED
      BY <2>5, <2>7 DEF new
  <1>4. CASE ngram \in DOMAIN trie /\ ~HasChild(trie, ngram)
    <2>1. new = CutBelow(trie, ngram, {n \in 1 .. Len(ngram) - 1 :
                                          HasFork(trie, SubSeq(ngram, 1, n))})
      BY <1>1, <1>4, Zenon DEF TrieDelete
    <2> HIDE DEF new
    <2>2. IsDeleted(new, trie, ngram) /\ WellFormed(new)
      BY <1>4, <2>1, CutEffect
    <2> QED
      BY <2>2 DEF new
  <1> QED
    BY <1>2, <1>3, <1>4

---------------------------------------------------------------------------
(* What queries see.                                                        *)

\* The nodes of a trie that was last changed at the given version.
UpTo(version) == [final : BOOLEAN, added : 0 .. version,
                  deleted : 1 .. version \cup {NotDeleted}]

Versioned(trie, version) == /\ WellFormed(trie)
                            /\ version \in Nat /\ NotDeleted \in Nat /\ version < NotDeleted
                            /\ \A path \in DOMAIN trie : trie[path] \in UpTo(version)

\* The n-grams in a trie, those marked deleted included.
Finals(trie) == {path \in DOMAIN trie : trie[path].final}

Marked(trie) == {path \in Finals(trie) : trie[path].deleted # NotDeleted}

\* A node whose versions are not above the given one.
LEMMA NodeUpTo ==
  ASSUME NEW version \in Nat, NEW final \in BOOLEAN, NEW added \in 0 .. version,
         NEW deleted \in 1 .. version \cup {NotDeleted},
         NEW node, node = [final |-> final, added |-> added, deleted |-> deleted]
  PROVE  node \in UpTo(version)
  BY DEF UpTo

\* The fields of a node of a trie in which no version is above the given one.
LEMMA VersionedNodes ==
  ASSUME NEW trie, NEW version, Versioned(trie, version), NEW path \in DOMAIN trie
  PROVE  /\ path \in Paths /\ trie[path] \in Node
         /\ trie[path].final \in BOOLEAN
         /\ trie[path].added \in Nat /\ trie[path].added <= version
         /\ \/ trie[path].deleted = NotDeleted
            \/ trie[path].deleted \in Nat \ {0} /\ trie[path].deleted <= version
  <1>1. trie[path] \in UpTo(version) /\ version \in Nat /\ NotDeleted \in Nat /\ path \in Paths
    BY DEF Versioned, WellFormed
  <1> QED
    BY <1>1 DEF UpTo, Node

\* A search finds the n-grams of its view that occur in its text; in a static trie, those
\* of the trie.
LEMMA SearchIsView ==
  ASSUME NEW trie, WellFormed(trie), NEW text \in Seq(STRING), NEW version
  PROVE  /\ TrieSearch(trie, text, version) = View(trie, version) \cap SubSeqs(text)
         /\ {path \in SubSeqs(text) \ {<<>>} : Found(trie, path) /\ trie[path].final}
               = Finals(trie) \cap SubSeqs(text)
  <1>1. SubSeqs(text) \ {<<>>} \subseteq Paths
    <2> SUFFICES ASSUME NEW path \in SubSeqs(text), path # <<>>
                 PROVE  path \in Paths
      OBVIOUS
    <2>1. PICK i \in 0 .. Len(text), j \in 0 .. Len(text) : path = SubSeq(text, i + 1, j)
      BY SMT DEF SubSeqs
    <2>2. SubSeq(text, i + 1, j) \in Seq(STRING)
      OBVIOUS
    <2> QED
      BY <2>1, <2>2 DEF Paths
  <1>2. \A path \in Paths : Found(trie, path) <=> path \in DOMAIN trie
    BY NodesOnTheWay DEF Found, WellFormed
  <1>3. \A path \in DOMAIN trie : path # <<>>
    BY DEF WellFormed, Paths
  <1> QED
    BY <1>1, <1>2, <1>3 DEF TrieSearch, View, Finals

\* In a trie where nothing is deleted every n-gram is seen.
LEMMA ViewOfUnmarked ==
  ASSUME NEW trie, NEW version, Versioned(trie, version), Marked(trie) = {}
  PROVE  View(trie, version) = Finals(trie)
  <1> SUFFICES ASSUME NEW path \in DOMAIN trie
               PROVE  Visible(trie, path, version) <=> trie[path].final
    BY DEF View, Finals
  <1>1. version < NotDeleted
    BY DEF Versioned
  <1>2. trie[path].final => trie[path].deleted = NotDeleted
    BY DEF Marked, Finals
  <1> QED
    BY <1>1, <1>2, VersionedNodes DEF Visible

\* An empty init file gives the empty trie, and an n-gram more in the file is an insertion
\* more: Load is what main.c:77-83 makes with trie_insert.
LEMMA LoadInserts ==
  ASSUME NEW ngrams \in SUBSET Paths, NEW ngram \in Paths
  PROVE  /\ DOMAIN Load({}) = {}
         /\ TrieInsert(Load(ngrams), ngram, 0) = Load(ngrams \cup {ngram})
  <1> DEFINE old == Load(ngrams)
             all == ngrams \cup {ngram}
             nodes(set) == UNION {NodesTo(g) : g \in set}
             record == [final |-> TRUE, added |-> 0, deleted |-> NotDeleted]
  <1>1. nodes(all) = nodes(ngrams) \cup NodesTo(ngram)
    OBVIOUS
  <1>2. \A set : /\ DOMAIN Load(set) = nodes(set)
                 /\ \A path \in nodes(set) :
                       Load(set)[path] = IF path \in set THEN record ELSE NewNode
    BY DEF Load
  <1>3. ngrams \subseteq nodes(ngrams)
    BY NodesOnTheWay
  <1>4. Load(all) = [path \in nodes(all) |-> IF path \in all THEN record ELSE NewNode]
    BY DEF Load
  <1>5. TrieInsert(old, ngram, 0) =
           [path \in DOMAIN old \cup NodesTo(ngram) |->
               IF path = ngram THEN record
               ELSE IF path \in DOMAIN old THEN old[path] ELSE NewNode]
    BY DEF TrieInsert
  <1>6. DOMAIN Load({}) = {}
    BY DEF Load
  <1> HIDE DEF old, record, nodes
  <1>7. \A path \in nodes(all) :
           (IF path \in all THEN record ELSE NewNode)
             = (IF path = ngram THEN record
                ELSE IF path \in DOMAIN old THEN old[path] ELSE NewNode)
    BY <1>2, <1>3 DEF old
  <1>8. DOMAIN old \cup NodesTo(ngram) = nodes(all)
    BY <1>1, <1>2 DEF old
  <1> QED
    BY <1>4, <1>5, <1>6, <1>7, <1>8 DEF old

\* A loaded trie holds the n-grams of the file, none of them deleted.
LEMMA LoadIs ==
  ASSUME NEW ngrams \in SUBSET Paths
  PROVE  LET trie == Load(ngrams)
         IN  /\ WellFormed(trie) /\ ngrams \subseteq DOMAIN trie
             /\ DOMAIN trie = UNION {NodesTo(g) : g \in ngrams}
             /\ \A path \in DOMAIN trie :
                   trie[path] = IF path \in ngrams
                                THEN [final |-> TRUE, added |-> 0, deleted |-> NotDeleted]
                                ELSE NewNode
  <1> DEFINE trie == Load(ngrams)
             record == [final |-> TRUE, added |-> 0, deleted |-> NotDeleted]
  <1>1. /\ DOMAIN trie = UNION {NodesTo(g) : g \in ngrams}
        /\ \A path \in DOMAIN trie : trie[path] = IF path \in ngrams THEN record ELSE NewNode
    BY DEF Load
  <1> HIDE DEF trie
  <1>2. ngrams \subseteq DOMAIN trie /\ DOMAIN trie \subseteq Paths
    BY <1>1, NodesOnTheWay
  <1>3. ASSUME NEW path \in DOMAIN trie
        PROVE  /\ NodesTo(path) \subseteq DOMAIN trie
               /\ HasChild(trie, path) \/ trie[path].final
    <2>1. PICK g \in ngrams : path \in NodesTo(g)
      BY <1>1
    <2>2. NodesTo(g) \subseteq DOMAIN trie
      BY <1>1
    <2>3. NodesTo(path) \subseteq DOMAIN trie
      BY <2>1, <2>2, NodesTransitive
    <2>4. CASE path = g
      BY <1>1, <2>3, <2>4
    <2>5. CASE path # g
      BY <2>1, <2>2, <2>3, <2>5, ChildOnTheWay
    <2> QED
      BY <2>4, <2>5
  <1>4. WellFormed(trie)
    BY <1>2, <1>3 DEF WellFormed
  <1> QED
    BY <1>1, <1>2, <1>4 DEF trie

\* Every query sees its n-grams.
LEMMA LoadView ==
  ASSUME NEW ngrams \in SUBSET Paths, NEW version \in Nat, NotDeleted \in Nat, version < NotDeleted
  PROVE  /\ Versioned(Load(ngrams), version)
         /\ Finals(Load(ngrams)) = ngrams /\ Marked(Load(ngrams)) = {}
  <1> DEFINE trie == Load(ngrams)
             record == [final |-> TRUE, added |-> 0, deleted |-> NotDeleted]
  <1>1. /\ WellFormed(trie) /\ ngrams \subseteq DOMAIN trie
        /\ \A path \in DOMAIN trie : trie[path] = IF path \in ngrams THEN record ELSE NewNode
    BY LoadIs
  <1> HIDE DEF trie
  <1>2. ASSUME NEW path \in DOMAIN trie
        PROVE  trie[path] \in UpTo(version)
    <2>1. /\ {TRUE, FALSE} \subseteq BOOLEAN /\ 0 \in 0 .. version
          /\ NotDeleted \in 1 .. version \cup {NotDeleted}
      OBVIOUS
    <2> QED
      BY <1>1, <2>1, NodeUpTo DEF NewNode
  <1>3. Versioned(trie, version)
    BY <1>1, <1>2 DEF Versioned
  <1>4. Finals(trie) = ngrams
    BY <1>1 DEF Finals, NewNode
  <1>5. Marked(trie) = {}
    BY <1>1 DEF Marked, Finals, NewNode
  <1> QED
    BY <1>3, <1>4, <1>5 DEF trie

\* An "A" line adds its n-gram to what the next queries see; an earlier query that did not
\* see the n-gram sees what it saw.
LEMMA InsertView ==
  ASSUME NEW trie, NEW version, Versioned(trie, version), version + 1 < NotDeleted,
         NEW ngram \in Paths
  PROVE  LET new == TrieInsert(trie, ngram, version + 1)
         IN  /\ Versioned(new, version + 1)
             /\ Finals(new) = Finals(trie) \cup {ngram}
             /\ Marked(new) = Marked(trie) \ {ngram}
             /\ View(new, version + 1) = View(trie, version) \cup {ngram}
             /\ \A old \in 0 .. version : View(new, old) = View(trie, old) \ {ngram}
  <1> DEFINE next == version + 1
             new == TrieInsert(trie, ngram, next)
  <1>1. WellFormed(trie) /\ version \in Nat /\ NotDeleted \in Nat /\ version < NotDeleted
    BY DEF Versioned
  <1>2. WellFormed(new) /\ IsInserted(new, trie, ngram, next)
    BY <1>1, InsertWellFormed, TrieInsertEffect
  <1>3. next \in Nat /\ next < NotDeleted /\ version < next
    BY <1>1
  <1> HIDE DEF new, next
  <1>4. /\ DOMAIN trie \subseteq DOMAIN new /\ ngram \in DOMAIN new
        /\ new[ngram] = [final |-> TRUE, added |-> next, deleted |-> NotDeleted]
        /\ \A path \in DOMAIN trie : path # ngram => new[path] = trie[path]
        /\ \A path \in DOMAIN new \ DOMAIN trie : path # ngram => new[path] = NewNode
    BY <1>2 DEF IsInserted
  <1>5. Versioned(new, next)
    <2> SUFFICES ASSUME NEW path \in DOMAIN new
                 PROVE  new[path] \in UpTo(next)
      BY <1>1, <1>2, <1>3 DEF Versioned
    <2>1. CASE path = ngram
      <3>1. TRUE \in BOOLEAN /\ next \in 0 .. next /\ NotDeleted \in 1 .. next \cup {NotDeleted}
        BY <1>3
      <3> QED
        BY <1>3, <1>4, <2>1, <3>1, NodeUpTo
    <2>2. CASE path \in DOMAIN trie /\ path # ngram
      <3>1. trie[path] \in UpTo(version)
        BY <2>2 DEF Versioned
      <3>2. UpTo(version) \subseteq UpTo(next)
        BY <1>1, <1>3 DEF UpTo
      <3> QED
        BY <1>4, <2>2, <3>1, <3>2
    <2>3. CASE path \notin DOMAIN trie /\ path # ngram
      <3>1. FALSE \in BOOLEAN /\ 0 \in 0 .. next /\ NotDeleted \in 1 .. next \cup {NotDeleted}
        BY <1>3
      <3> QED
        BY <1>3, <1>4, <2>3, <3>1, NodeUpTo DEF NewNode
    <2> QED
      BY <2>1, <2>2, <2>3
  <1>6. Finals(new) = Finals(trie) \cup {ngram}
    BY <1>4 DEF Finals, NewNode
  <1>7. Marked(new) = Marked(trie) \ {ngram}
    BY <1>4 DEF Marked, Finals, NewNode
  <1>8. View(new, next) = View(trie, version) \cup {ngram}
    <2>1. ASSUME NEW path \in DOMAIN new
          PROVE  Visible(new, path, next)
                    <=> path = ngram \/ (path \in DOMAIN trie /\ Visible(trie, path, version))
      <3>1. CASE path = ngram
        BY <1>3, <1>4, <3>1 DEF Visible
      <3>2. CASE path \in DOMAIN trie /\ path # ngram
        <4>1. new[path] = trie[path]
          BY <1>4, <3>2
        <4> QED
          BY <1>1, <1>3, <3>2, <4>1, VersionedNodes DEF Visible
      <3>3. CASE path \notin DOMAIN trie /\ path # ngram
        BY <1>4, <3>3 DEF Visible, NewNode
      <3> QED
        BY <3>1, <3>2, <3>3
    <2> QED
      BY <1>4, <2>1 DEF View
  <1>9. ASSUME NEW old \in 0 .. version
        PROVE  View(new, old) = View(trie, old) \ {ngram}
    <2>1. ASSUME NEW path \in DOMAIN new
          PROVE  Visible(new, path, old)
                    <=> path # ngram /\ path \in DOMAIN trie /\ Visible(trie, path, old)
      <3>1. CASE path = ngram
        BY <1>1, <1>3, <1>4, <3>1 DEF Visible
      <3>2. CASE path \in DOMAIN trie /\ path # ngram
        BY <1>4, <3>2 DEF Visible
      <3>3. CASE path \notin DOMAIN trie /\ path # ngram
        BY <1>4, <3>3 DEF Visible, NewNode
      <3> QED
        BY <3>1, <3>2, <3>3
    <2> QED
      BY <1>4, <2>1 DEF View
  <1> QED
    BY <1>5, <1>6, <1>7, <1>8, <1>9 DEF new, next

\* A "D" line takes its n-gram out of what the next queries see; an earlier query still
\* sees it, unless it was marked before.
LEMMA MarkView ==
  ASSUME NEW trie, NEW version, Versioned(trie, version), version + 1 < NotDeleted,
         NEW ngram \in Paths
  PROVE  LET new == TrieMarkDeleted(trie, ngram, version + 1)
         IN  /\ Versioned(new, version + 1)
             /\ Finals(new) = Finals(trie)
             /\ Marked(new) \subseteq Marked(trie) \cup {ngram}
             /\ View(new, version + 1) = View(trie, version) \ {ngram}
             /\ ngram \notin Marked(trie) =>
                   \A old \in 0 .. version : View(new, old) = View(trie, old)
  <1> DEFINE next == version + 1
             new == TrieMarkDeleted(trie, ngram, next)
  <1>1. WellFormed(trie) /\ version \in Nat /\ NotDeleted \in Nat /\ version < NotDeleted
    BY DEF Versioned
  <1>2. IsMarked(new, trie, ngram, next)
    BY <1>1, VersionedNodes, TrieMarkEffect
  <1>3. next \in Nat \ {0} /\ next < NotDeleted /\ version < next
    BY <1>1
  <1> HIDE DEF new, next
  <1>4. WellFormed(new)
    BY <1>1, <1>2, MarkWellFormed
  <1>5. /\ DOMAIN new = DOMAIN trie
        /\ \A path \in DOMAIN trie : path # ngram => new[path] = trie[path]
        /\ ngram \in DOMAIN trie =>
              new[ngram] = IF trie[ngram].final
                           THEN [final |-> TRUE, added |-> trie[ngram].added, deleted |-> next]
                           ELSE trie[ngram]
    BY <1>2 DEF IsMarked
  <1>6. Versioned(new, next)
    <2> SUFFICES ASSUME NEW path \in DOMAIN trie
                 PROVE  new[path] \in UpTo(next)
      BY <1>1, <1>3, <1>4, <1>5 DEF Versioned
    <2>1. trie[path] \in UpTo(next) /\ trie[path].added \in 0 .. next
      <3>1. trie[path] \in UpTo(version)
        BY DEF Versioned
      <3>2. UpTo(version) \subseteq UpTo(next)
        BY <1>1, <1>3 DEF UpTo
      <3> QED
        BY <3>1, <3>2 DEF UpTo
    <2>2. CASE path = ngram /\ trie[ngram].final
      <3>1. TRUE \in BOOLEAN /\ next \in 1 .. next \cup {NotDeleted}
        BY <1>3
      <3> QED
        BY <1>3, <1>5, <2>1, <2>2, <3>1, NodeUpTo
    <2>3. CASE ~(path = ngram /\ trie[ngram].final)
      BY <1>5, <2>1, <2>3
    <2> QED
      BY <2>2, <2>3
  <1>7. Finals(new) = Finals(trie)
    BY <1>5 DEF Finals
  <1>8. Marked(new) \subseteq Marked(trie) \cup {ngram}
    BY <1>5 DEF Marked, Finals
  <1>9. View(new, next) = View(trie, version) \ {ngram}
    <2>1. ASSUME NEW path \in DOMAIN trie
          PROVE  Visible(new, path, next) <=> path # ngram /\ Visible(trie, path, version)
      <3>1. CASE path = ngram
        BY <1>3, <1>5, <3>1 DEF Visible
      <3>2. CASE path # ngram
        <4>1. new[path] = trie[path]
          BY <1>5, <3>2
        <4> QED
          BY <1>1, <1>3, <3>2, <4>1, VersionedNodes DEF Visible
      <3> QED
        BY <3>1, <3>2
    <2> QED
      BY <1>5, <2>1 DEF View
  <1>10. ASSUME ngram \notin Marked(trie), NEW old \in 0 .. version
         PROVE  View(new, old) = View(trie, old)
    <2>1. ASSUME NEW path \in DOMAIN trie
          PROVE  Visible(new, path, old) <=> Visible(trie, path, old)
      <3>1. CASE path = ngram /\ trie[ngram].final
        <4>1. trie[ngram].deleted = NotDeleted
          BY <1>10, <3>1 DEF Marked, Finals
        <4>2. old < NotDeleted /\ old < next
          BY <1>1, <1>3
        <4> QED
          BY <1>5, <3>1, <4>1, <4>2 DEF Visible
      <3>2. CASE ~(path = ngram /\ trie[ngram].final)
        BY <1>5, <3>2 DEF Visible
      <3> QED
        BY <3>1, <3>2
    <2> QED
      BY <1>5, <2>1 DEF View
  <1> QED
    BY <1>6, <1>7, <1>8, <1>9, <1>10 DEF new, next

\* trie_delete takes its n-gram out of every view and leaves the others as they are.
LEMMA DeleteView ==
  ASSUME NEW trie, NEW version, Versioned(trie, version), NEW ngram \in Paths
  PROVE  LET new == TrieDelete(trie, ngram)
         IN  /\ Versioned(new, version)
             /\ Finals(new) = Finals(trie) \ {ngram}
             /\ Marked(new) = Marked(trie) \ {ngram}
             /\ View(new, version) = View(trie, version) \ {ngram}
  <1> DEFINE new == TrieDelete(trie, ngram)
  <1>1. WellFormed(trie)
    BY DEF Versioned
  <1>2. IsDeleted(new, trie, ngram) /\ WellFormed(new)
    BY <1>1, VersionedNodes, TrieDeleteEffect
  <1> HIDE DEF new
  <1>3. /\ DOMAIN new \subseteq DOMAIN trie
        /\ \A path \in DOMAIN new : path # ngram => new[path] = trie[path]
        /\ ngram \in DOMAIN new =>
              new[ngram] = [final |-> FALSE, added |-> trie[ngram].added,
                            deleted |-> trie[ngram].deleted]
        /\ \A path \in DOMAIN trie \ DOMAIN new : path # ngram => ~trie[path].final
    BY <1>2 DEF IsDeleted
  <1>4. Versioned(new, version)
    <2> SUFFICES ASSUME NEW path \in DOMAIN new
                 PROVE  new[path] \in UpTo(version)
      BY <1>2 DEF Versioned
    <2>1. trie[path] \in UpTo(version)
      BY <1>3 DEF Versioned
    <2>2. CASE path = ngram
      <3>1. /\ FALSE \in BOOLEAN /\ trie[ngram].added \in 0 .. version
            /\ trie[ngram].deleted \in 1 .. version \cup {NotDeleted}
        BY <2>1, <2>2 DEF UpTo
      <3>2. version \in Nat
        BY DEF Versioned
      <3> QED
        BY <1>3, <2>2, <3>1, <3>2, NodeUpTo
    <2> QED
      BY <1>3, <2>1, <2>2
  <1>5. Finals(new) = Finals(trie) \ {ngram}
    BY <1>3 DEF Finals
  <1>6. Marked(new) = Marked(trie) \ {ngram}
    BY <1>3 DEF Marked, Finals
  <1>7. View(new, version) = View(trie, version) \ {ngram}
    BY <1>3 DEF View, Visible
  <1> QED
    BY <1>4, <1>5, <1>6, <1>7 DEF new
=============================================================================
