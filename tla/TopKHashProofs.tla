--------------------------- MODULE TopKHashProofs ---------------------------
(* The table of counts and the array of frequencies of topk_hash.c are right *)
(* for any n-grams, any hash function and any number of batches; so what is  *)
(* printed at a line "F k" is the ranking of the batch.                      *)
EXTENDS TopKHash, DataLemmas

Entry == [word : Words, freq : Nat \ {0}]

\* How often word is among the first n elements of seq.
Among(seq, n, word) == Cardinality({i \in 1 .. n : seq[i] = word})

\* How often it was inserted in the table.
Times(word) == Among(results, inserted, word)

---------------------------------------------------------------------------
(* The inductive invariant.                                                 *)

\* A bucket that counts the words of one key among the first n elements of seq.
Counts(bucket, key, seq, n) ==
    /\ bucket \in Seq(Entry)
    /\ Increasing(Column(bucket))
    /\ \A i \in DOMAIN bucket : /\ Key[bucket[i].word] = key
                                /\ bucket[i].freq = Among(seq, n, bucket[i].word)
    /\ \A word \in Words : Key[word] = key /\ Among(seq, n, word) > 0
                              => word \in Range(Column(bucket))

ResultsInv == /\ results \in Seq(Words) /\ inserted \in 0 .. Len(results)
              /\ pc = "array" => inserted = Len(results)

TableInv == /\ Bucket \in [Keys -> Seq(Entry)]
            /\ \A key \in Keys : Counts(Bucket[key], key, results, inserted)
            /\ max_freq \in Nat
            /\ \A word \in Words : Times(word) > 1 => Times(word) <= max_freq

\* The row of one frequency when the first n entries are in the array: the words with it,
\* strictly sorted.
IsRow(row, freq, entries, n) ==
    /\ row \in Seq(Words)
    /\ Increasing(row)
    /\ \A word : word \in Range(row)
                    <=> \E i \in 1 .. n : entries[i].word = word /\ entries[i].freq = freq

RowsInv == /\ filled \in Nat
           /\ nodes \in [DOMAIN nodes -> Seq(Words)] /\ DOMAIN nodes \subseteq Nat
           /\ pc = "array" =>
                 /\ DOMAIN nodes = 0 .. max_freq - 1
                 /\ filled \in 0 .. Len(Entries)
                 /\ \A i \in DOMAIN nodes : IsRow(nodes[i], i + 1, Entries, filled)

OutputInv == /\ k \in -1 .. MaxK
             /\ pc \in {"insert", "array"} => k > 0
             /\ pc = "batch" => inserted = 0
             /\ output \in Seq([word : Words, end : {"|", "NEWLINE"}])
             /\ pc = "reuse" => Len(output) <= Max({k, 0})
             /\ PrintsTopK
             /\ pc \in {"batch", "insert", "array", "reuse", "exit"}

IInv == ResultsInv /\ TableInv /\ RowsInv /\ OutputInv

---------------------------------------------------------------------------
(* Concatenation of rows: the loops of topk and display_topk.               *)

\* x stands before y in the first n rows.
InOrder(rows, n, x, y) ==
    \E i, h \in 1 .. n : \E a \in DOMAIN rows[i], b \in DOMAIN rows[h] :
        /\ rows[i][a] = x /\ rows[h][b] = y
        /\ i < h \/ (i = h /\ a < b)

\* seq has the elements of the first n rows, in their order.
IsFlat(seq, rows, n, S) ==
    /\ seq \in Seq(S)
    /\ \A x : x \in Range(seq) <=> \E i \in 1 .. n : x \in Range(rows[i])
    /\ \A p, q \in 1 .. Len(seq) : p < q => InOrder(rows, n, seq[p], seq[q])

\* One row more.
LEMMA FlatStep ==
  ASSUME NEW S, NEW n \in Nat, NEW rows, NEW seq, IsFlat(seq, rows, n, S),
         rows[n + 1] \in Seq(S)
  PROVE  IsFlat(seq \o rows[n + 1], rows, n + 1, S)
  <1> DEFINE row == rows[n + 1]
             new == seq \o row
             l == Len(seq)
             m == Len(row)
  <1>1. /\ seq \in Seq(S) /\ row \in Seq(S)
        /\ l \in Nat /\ m \in Nat /\ DOMAIN seq = 1 .. l /\ DOMAIN row = 1 .. m
    BY DEF IsFlat
  <1>2. /\ new \in Seq(S) /\ Len(new) = l + m
        /\ \A i \in 1 .. l + m : new[i] = IF i <= l THEN seq[i] ELSE row[i - l]
    BY <1>1, ConcatProperties
  <1>3. DOMAIN new = 1 .. l + m
    BY <1>1, <1>2
  <1>4. /\ Range(seq) = {seq[i] : i \in DOMAIN seq}
        /\ Range(row) = {row[i] : i \in DOMAIN row}
        /\ Range(new) = {new[i] : i \in DOMAIN new}
    BY Zenon DEF Range
  <1> HIDE DEF new, l, m
  <1>5. \A i \in 1 .. l + m :
           \/ i \in 1 .. l /\ new[i] = seq[i]
           \/ i > l /\ i - l \in 1 .. m /\ new[i] = row[i - l]
    <2> SUFFICES ASSUME NEW i \in 1 .. l + m
                 PROVE  \/ i \in 1 .. l /\ new[i] = seq[i]
                        \/ i > l /\ i - l \in 1 .. m /\ new[i] = row[i - l]
      OBVIOUS
    <2>1. i \in Nat /\ 1 <= i /\ i <= l + m /\ l \in Nat /\ m \in Nat
      BY <1>1
    <2>2. CASE i <= l
      <3>1. i \in 1 .. l
        BY <2>1, <2>2
      <3> QED
        BY <1>2, <2>2, <3>1
    <2>3. CASE ~(i <= l)
      <3>1. i > l /\ i - l \in 1 .. m
        BY <2>1, <2>3
      <3> QED
        BY <1>2, <2>3, <3>1
    <2> QED
      BY <2>2, <2>3
  <1>6. Range(new) = Range(seq) \union Range(row)
    <2>1. ASSUME NEW i \in 1 .. l + m
          PROVE  new[i] \in Range(seq) \union Range(row)
      BY <1>1, <1>4, <1>5
    <2>2. ASSUME NEW i \in 1 .. l
          PROVE  seq[i] \in Range(new)
      <3>1. i \in 1 .. l + m /\ i <= l
        BY <1>1
      <3> QED
        BY <1>2, <1>3, <1>4, <3>1
    <2>3. ASSUME NEW i \in 1 .. m
          PROVE  row[i] \in Range(new)
      <3>1. i + l \in 1 .. l + m /\ ~(i + l <= l) /\ (i + l) - l = i
        BY <1>1
      <3> QED
        BY <1>2, <1>3, <1>4, <3>1
    <2> QED
      BY <1>1, <1>3, <1>4, <2>1, <2>2, <2>3
  <1>7. 1 .. n + 1 = (1 .. n) \union {n + 1}
    OBVIOUS
  <1>8. \A x : x \in Range(new) <=> \E i \in 1 .. n + 1 : x \in Range(rows[i])
    BY <1>6, <1>7 DEF IsFlat
  <1>9. ASSUME NEW p \in 1 .. l + m, NEW q \in 1 .. l + m, p < q
        PROVE  InOrder(rows, n + 1, new[p], new[q])
    <2>1. CASE q \in 1 .. l
      <3>1. p \in 1 .. l /\ new[p] = seq[p] /\ new[q] = seq[q]
        BY <1>1, <1>5, <1>9, <2>1
      <3>2. InOrder(rows, n, seq[p], seq[q])
        BY <1>9, <2>1, <3>1 DEF IsFlat, l
      <3> QED
        BY <1>7, <3>1, <3>2 DEF InOrder
    <2>2. CASE p \in 1 .. l /\ q - l \in 1 .. m /\ new[q] = row[q - l]
      <3>1. new[p] = seq[p]
        BY <1>1, <1>5, <2>2
      <3>2. new[p] \in Range(seq)
        BY <1>1, <1>4, <2>2, <3>1
      <3>3. PICK i \in 1 .. n : new[p] \in Range(rows[i])
        BY <3>2 DEF IsFlat
      <3>4. PICK a \in DOMAIN rows[i] : rows[i][a] = new[p]
        BY <3>3 DEF Range
      <3>5. i \in 1 .. n + 1 /\ n + 1 \in 1 .. n + 1 /\ i < n + 1
        OBVIOUS
      <3>6. q - l \in DOMAIN rows[n + 1] /\ rows[n + 1][q - l] = new[q]
        BY <1>1, <2>2
      <3>7. \E b \in DOMAIN rows[n + 1] : rows[n + 1][b] = new[q]
        BY <3>6
      <3>8. \E c \in DOMAIN rows[i], b \in DOMAIN rows[n + 1] :
               /\ rows[i][c] = new[p] /\ rows[n + 1][b] = new[q]
               /\ i < n + 1 \/ (i = n + 1 /\ c < b)
        BY <3>4, <3>5, <3>7, Zenon
      <3> QED
        BY <3>5, <3>8, Zenon DEF InOrder
    <2>3. CASE p > l /\ p - l \in 1 .. m /\ new[p] = row[p - l]
      <3>1. q - l \in 1 .. m /\ new[q] = row[q - l]
        BY <1>1, <1>5, <1>9, <2>3
      <3>2. n + 1 \in 1 .. n + 1 /\ p - l < q - l
        BY <1>1, <1>9
      <3> QED
        BY <1>1, <2>3, <3>1, <3>2 DEF InOrder
    <2>4. q \in 1 .. l \/ (q - l \in 1 .. m /\ new[q] = row[q - l])
      BY <1>5
    <2>5. p \in 1 .. l \/ (p > l /\ p - l \in 1 .. m /\ new[p] = row[p - l])
      BY <1>5
    <2> QED
      BY <2>1, <2>2, <2>3, <2>4, <2>5
  <1> QED
    BY <1>2, <1>8, <1>9 DEF IsFlat, new

\* What FlattenSeq gives for rows of elements of S.
LEMMA FlattenIsFlat ==
  ASSUME NEW S, NEW n \in Nat, NEW rows \in [1 .. n -> Seq(S)]
  PROVE  IsFlat(FlattenSeq(rows), rows, n, S)
  <1>0. rows \in Seq(Seq(S)) /\ Len(rows) = n
    OBVIOUS
  <1>1. IsFlat(<<>>, rows, 0, S)
    <2>1. Range(<<>>) = {}
      BY DEF Range
    <2> QED
      BY <2>1 DEF IsFlat
  <1>2. CASE n = 0
    <2>1. rows = <<>>
      BY <1>0, <1>2
    <2>2. FlattenSeq(rows) = <<>>
      BY <1>0, <1>2, <2>1 DEF FlattenSeq
    <2> QED
      BY <1>1, <1>2, <2>2
  <1>3. CASE n > 0
    <2> DEFINE step(g) == [i \in 1 .. n |-> IF i = 1 THEN rows[i] ELSE g[i - 1] \o rows[i]]
               D == [g \in [1 .. n -> Seq(S)] |-> step(g)]
               depth == [i \in 1 .. n |-> i]
    <2>1. ASSUME NEW g \in [1 .. n -> Seq(S)], NEW i \in 1 .. n
          PROVE  (IF i = 1 THEN rows[i] ELSE g[i - 1] \o rows[i]) \in Seq(S)
      <3>1. i # 1 => i - 1 \in 1 .. n
        OBVIOUS
      <3>2. i # 1 => g[i - 1] \in Seq(S)
        BY <3>1
      <3> QED
        BY <3>2, ConcatProperties
    <2>2. D \in [[1 .. n -> Seq(S)] -> [1 .. n -> Seq(S)]]
      BY <2>1
    <2>3. ASSUME NEW g \in [1 .. n -> Seq(S)], NEW h \in [1 .. n -> Seq(S)], NEW x \in 1 .. n,
                 \A y \in 1 .. n : depth[y] < depth[x] => g[y] = h[y]
          PROVE  D[g][x] = D[h][x]
      <3>1. x # 1 => x - 1 \in 1 .. n /\ depth[x - 1] < depth[x]
        OBVIOUS
      <3>2. x # 1 => g[x - 1] = h[x - 1]
        BY <2>3, <3>1
      <3> QED
        BY <3>2
    <2>4. depth \in [1 .. n -> Nat] /\ \A x \in 1 .. n : depth[x] < n + 1
      OBVIOUS
    <2>5. Seq(S) # {} /\ n + 1 \in Nat
      <3>1. <<>> \in Seq(S)
        BY EmptySeq, Zenon
      <3>2. n + 1 \in Nat
        OBVIOUS
      <3> QED
        BY <3>1, <3>2, Zenon
    <2>6. BoundedDescent(D, depth, n + 1, 1 .. n, Seq(S))
      <3> HIDE DEF D, depth
      <3> QED
        BY <2>2, <2>3, <2>4, <2>5 DEF BoundedDescent
    <2>7. PICK f \in [1 .. n -> Seq(S)] : f = D[f]
      <3> HIDE DEF D, depth
      <3> DEFINE N == n + 1
                 X == 1 .. n
                 V == Seq(S)
      <3>1. BoundedDescent(D, depth, N, X, V)
        BY <2>6
      <3> HIDE DEF N, X, V
      <3>2. \E f \in [X -> V] : f = D[f]
        BY <3>1, BoundedRecursion
      <3> QED
        BY <3>2 DEF X, V
    <2>8. f = step(f)
      BY <2>7
    <2> DEFINE flatten == CHOOSE g : g = step(g)
    <2>9. flatten = step(flatten)
      <3> HIDE DEF step
      <3> QED
        BY <2>8, Zenon
    <2>10. FlattenSeq(rows) = flatten[n]
      <3>1. Len(rows) # 0
        BY <1>0, <1>3
      <3>2. FlattenSeq(rows) = (CHOOSE g : g = [i \in 1 .. Len(rows) |->
                                  IF i = 1 THEN rows[i] ELSE g[i - 1] \o rows[i]])[Len(rows)]
        BY <3>1, Zenon DEF FlattenSeq
      <3> QED
        BY <1>0, <3>2, Zenon
    <2>11. \A i \in 1 .. n : flatten[i] = IF i = 1 THEN rows[i] ELSE flatten[i - 1] \o rows[i]
      <3> HIDE DEF flatten
      <3> QED
        BY <2>9, Zenon
    <2> HIDE DEF flatten, D, depth, step
    <2> DEFINE P == {m \in Nat : m \in 1 .. n => IsFlat(flatten[m], rows, m, S)}
    <2>12. 0 \in P
      OBVIOUS
    <2>13. ASSUME NEW m \in P
           PROVE  m + 1 \in P
      <3> SUFFICES ASSUME m + 1 \in 1 .. n
                   PROVE  IsFlat(flatten[m + 1], rows, m + 1, S)
        OBVIOUS
      <3>1. m \in Nat /\ rows[m + 1] \in Seq(S)
        OBVIOUS
      <3>2. CASE m = 0
        <4>1. flatten[1] = rows[1] /\ rows[1] = <<>> \o rows[1]
          BY <2>11, <3>1, <3>2, ConcatEmptySeq
        <4>2. IsFlat(<<>> \o rows[0 + 1], rows, 0 + 1, S)
          BY <1>1, <3>1, <3>2, FlatStep
        <4> QED
          BY <3>2, <4>1, <4>2
      <3>3. CASE m # 0
        <4>1. m \in 1 .. n /\ m + 1 # 1 /\ (m + 1) - 1 = m
          BY <3>1, <3>3
        <4>2. flatten[m + 1] = flatten[m] \o rows[m + 1]
          BY <2>11, <4>1
        <4>3. IsFlat(flatten[m], rows, m, S)
          BY <4>1
        <4> HIDE DEF P
        <4> QED
          BY <3>1, <4>2, <4>3, FlatStep
      <3> QED
        BY <3>2, <3>3
    <2>14. P = Nat
      <3>1. P \in SUBSET Nat
        OBVIOUS
      <3> HIDE DEF P
      <3> QED
        BY <2>12, <2>13, <3>1, Induction
    <2>15. n \in 1 .. n
      BY <1>3
    <2> QED
      BY <2>10, <2>14, <2>15
  <1> QED
    BY <1>2, <1>3

---------------------------------------------------------------------------
(* Counting.                                                                *)

LEMMA AmongType ==
  ASSUME NEW seq, NEW n \in Nat, NEW word
  PROVE  /\ IsFiniteSet({i \in 1 .. n : seq[i] = word})
         /\ Among(seq, n, word) \in Nat
  <1>1. IsFiniteSet(1 .. n)
    BY FS_Interval
  <1>2. {i \in 1 .. n : seq[i] = word} \in SUBSET (1 .. n)
    OBVIOUS
  <1>3. IsFiniteSet({i \in 1 .. n : seq[i] = word})
    BY <1>1, <1>2, FS_Subset
  <1> QED
    BY <1>3, FS_CardinalityType DEF Among

\* One element more.
LEMMA AmongNext ==
  ASSUME NEW seq, NEW n \in Nat, NEW word
  PROVE  Among(seq, n + 1, word) = Among(seq, n, word) + (IF seq[n + 1] = word THEN 1 ELSE 0)
  <1> DEFINE old == {i \in 1 .. n : seq[i] = word}
             new == {i \in 1 .. n + 1 : seq[i] = word}
  <1>1. IsFiniteSet(old) /\ Cardinality(old) \in Nat
    BY AmongType DEF Among
  <1>2. CASE seq[n + 1] = word
    <2>1. new = old \cup {n + 1} /\ n + 1 \notin old
      BY <1>2
    <2> HIDE DEF old, new
    <2>2. Cardinality(new) = Cardinality(old) + 1
      BY <1>1, <2>1, FS_AddElement
    <2> QED
      BY <1>2, <2>2 DEF Among, old, new
  <1>3. CASE seq[n + 1] # word
    <2>1. new = old
      BY <1>3
    <2> QED
      BY <1>1, <1>3, <2>1 DEF Among
  <1> QED
    BY <1>2, <1>3

\* Among no n-grams there is none.
LEMMA AmongNone ==
  ASSUME NEW seq, NEW word
  PROVE  Among(seq, 0, word) = 0
  <1>1. {i \in 1 .. 0 : seq[i] = word} = {}
    OBVIOUS
  <1> QED
    BY <1>1, FS_EmptySet DEF Among

\* The count is positive if and only if the n-gram is among the first n.
LEMMA AmongPositive ==
  ASSUME NEW seq, NEW n \in Nat, NEW word
  PROVE  Among(seq, n, word) > 0 <=> \E i \in 1 .. n : seq[i] = word
  <1> DEFINE set == {i \in 1 .. n : seq[i] = word}
  <1>1. IsFiniteSet(set) /\ Cardinality(set) \in Nat
    BY AmongType DEF Among
  <1>2. Cardinality(set) = 0 <=> set = {}
    <2> HIDE DEF set
    <2> QED
      BY <1>1, FS_EmptySet
  <1>3. Among(seq, n, word) > 0 <=> set # {}
    BY <1>1, <1>2 DEF Among
  <1> QED
    BY <1>3

\* Count in these terms.
LEMMA CountIsAmong ==
  ASSUME NEW S, NEW seq \in Seq(S), NEW n \in 0 .. Len(seq), NEW word
  PROVE  /\ Count(seq, word) = Among(seq, Len(seq), word)
         /\ Count(SubSeq(seq, 1, n), word) = Among(seq, n, word)
  <1>1. DOMAIN seq = 1 .. Len(seq) /\ Len(seq) \in Nat
    OBVIOUS
  <1>2. DOMAIN SubSeq(seq, 1, n) = 1 .. n /\ \A i \in 1 .. n : SubSeq(seq, 1, n)[i] = seq[i]
    OBVIOUS
  <1>3. {i \in DOMAIN SubSeq(seq, 1, n) : SubSeq(seq, 1, n)[i] = word}
           = {i \in 1 .. n : seq[i] = word}
    BY <1>2
  <1> QED
    BY <1>1, <1>3, Zenon DEF Count, Among

\* The larger and the smaller of two numbers.
LEMMA MaxOfTwo ==
  ASSUME NEW a \in Int, NEW b \in Int
  PROVE  Max({a, b}) = IF a >= b THEN a ELSE b
  <1> DEFINE m == IF a >= b THEN a ELSE b
  <1>1. m \in {a, b} /\ \A y \in {a, b} : m >= y
    OBVIOUS
  <1>2. \A x \in {a, b} : (\A y \in {a, b} : x >= y) => x = m
    OBVIOUS
  <1> HIDE DEF m
  <1>3. Max({a, b}) = m
    BY <1>1, <1>2 DEF Max
  <1> QED
    BY <1>3 DEF m

\* The smaller one of two numbers.
LEMMA MinOfTwo ==
  ASSUME NEW a \in Int, NEW b \in Int
  PROVE  Min({a, b}) = IF a <= b THEN a ELSE b
  <1> DEFINE m == IF a <= b THEN a ELSE b
  <1>1. m \in {a, b} /\ \A y \in {a, b} : m <= y
    OBVIOUS
  <1>2. \A x \in {a, b} : (\A y \in {a, b} : x <= y) => x = m
    OBVIOUS
  <1> HIDE DEF m
  <1>3. Min({a, b}) = m
    BY <1>1, <1>2 DEF Min
  <1> QED
    BY <1>3 DEF m

---------------------------------------------------------------------------
(* Insertion in the table.                                                  *)

LEMMA ColumnOf ==
  ASSUME NEW bucket \in Seq(Entry)
  PROVE  /\ Column(bucket) \in Seq(Words) /\ Column(bucket) \in Seq(Int)
         /\ Len(Column(bucket)) = Len(bucket) /\ DOMAIN Column(bucket) = 1 .. Len(bucket)
         /\ \A i \in 1 .. Len(bucket) : Column(bucket)[i] = bucket[i].word
  <1>1. Len(bucket) \in Nat /\ DOMAIN bucket = 1 .. Len(bucket)
    OBVIOUS
  <1>2. ASSUME NEW i \in 1 .. Len(bucket)
        PROVE  bucket[i].word \in Words
    <2>1. bucket[i] \in Entry
      BY ElementOfSeq
    <2> QED
      BY <2>1 DEF Entry
  <1>3. Column(bucket) = [i \in 1 .. Len(bucket) |-> bucket[i].word]
    BY <1>1 DEF Column
  <1>4. Column(bucket) \in Seq(Words)
    BY <1>1, <1>2, <1>3
  <1>5. Column(bucket) \in Seq(Int)
    BY <1>4, WordsAssumption, SeqMonotonic
  <1> QED
    BY <1>1, <1>3, <1>4, <1>5

\* A word of another key changes nothing in the counts of a bucket.
LEMMA OtherBucket ==
  ASSUME NEW bucket, NEW key, NEW seq \in Seq(Words), NEW n \in Nat, n < Len(seq),
         Counts(bucket, key, seq, n), Key[seq[n + 1]] # key
  PROVE  Counts(bucket, key, seq, n + 1)
  <1>1. ASSUME NEW word \in Words, Key[word] = key
        PROVE  Among(seq, n + 1, word) = Among(seq, n, word)
    <2>1. seq[n + 1] # word /\ Among(seq, n, word) \in Nat
      BY <1>1, AmongType
    <2> QED
      BY <2>1, AmongNext
  <1>2. ASSUME NEW i \in DOMAIN bucket
        PROVE  bucket[i].word \in Words
    <2>1. bucket \in Seq(Entry)
      BY DEF Counts
    <2>2. bucket[i] \in Entry
      BY <2>1
    <2> QED
      BY <2>2 DEF Entry
  <1> QED
    BY <1>1, <1>2 DEF Counts

\* A word that is there is counted.
LEMMA CountedAgain ==
  ASSUME NEW bucket, NEW key, NEW seq \in Seq(Words), NEW n \in Nat, n < Len(seq),
         Counts(bucket, key, seq, n), Key[seq[n + 1]] = key,
         Holds(Column(bucket), seq[n + 1])
  PROVE  LET word == seq[n + 1]
             i == Locate(Column(bucket), word) + 1
         IN  /\ Counts(Added(bucket, word), key, seq, n + 1)
             /\ i \in 1 .. Len(bucket) /\ bucket[i].word = word
             /\ bucket[i].freq + 1 = Among(seq, n + 1, word)
  <1> DEFINE word == seq[n + 1]
             i == Locate(Column(bucket), word) + 1
             new == Added(bucket, word)
             entry == [bucket[i] EXCEPT !.freq = @ + 1]
  <1>1. word \in Words /\ word \in Int
    <2>1. n + 1 \in 1 .. Len(seq)
      OBVIOUS
    <2>2. word \in Words
      BY <2>1
    <2> HIDE DEF word
    <2> QED
      BY <2>2, WordsAssumption
  <1>2. /\ bucket \in Seq(Entry) /\ Len(bucket) \in Nat /\ DOMAIN bucket = 1 .. Len(bucket)
        /\ Increasing(Column(bucket))
        /\ \A j \in 1 .. Len(bucket) : /\ bucket[j] \in Entry /\ Key[bucket[j].word] = key
                                       /\ bucket[j].freq = Among(seq, n, bucket[j].word)
    BY DEF Counts
  <1>3. /\ Column(bucket) \in Seq(Int)
        /\ Len(Column(bucket)) = Len(bucket) /\ DOMAIN Column(bucket) = 1 .. Len(bucket)
        /\ \A j \in 1 .. Len(bucket) : Column(bucket)[j] = bucket[j].word
    BY <1>2, ColumnOf
  <1>4. i \in 1 .. Len(bucket) /\ bucket[i].word = word
    <2>1. Locate(Column(bucket), word) \in 0 .. Len(Column(bucket))
      BY <1>1, <1>2, <1>3, LocateFindsPlace DEF IsPlace
    <2>2. i <= Len(Column(bucket)) /\ Column(bucket)[i] = word
      BY DEF Holds
    <2>3. i \in 1 .. Len(bucket)
      BY <1>2, <1>3, <2>1, <2>2
    <2> QED
      BY <1>3, <2>2, <2>3
  <1>5. new = [bucket EXCEPT ![i] = entry]
    BY Zenon DEF Added
  <1> HIDE DEF i, new
  <1>6. entry \in Entry /\ entry.word = word /\ entry.freq = bucket[i].freq + 1
    <2>1. bucket[i] \in [word : Words, freq : Nat \ {0}]
      BY <1>2, <1>4 DEF Entry
    <2>2. entry = [word |-> bucket[i].word, freq |-> bucket[i].freq + 1]
      BY <2>1
    <2> QED
      BY <1>4, <2>1, <2>2 DEF Entry
  <1>7. Among(seq, n + 1, word) = bucket[i].freq + 1
    <2>1. bucket[i].freq = Among(seq, n, word) /\ Among(seq, n, word) \in Nat
      BY <1>2, <1>4, AmongType
    <2> QED
      BY <2>1, AmongNext
  <1>8. ASSUME NEW other \in Words, other # word
        PROVE  Among(seq, n + 1, other) = Among(seq, n, other)
    <2>1. Among(seq, n, other) \in Nat
      BY AmongType
    <2> QED
      BY <1>8, <2>1, AmongNext
  <1> HIDE DEF entry, word
  <1>9. /\ new \in Seq(Entry) /\ Len(new) = Len(bucket)
        /\ \A j \in 1 .. Len(bucket) : new[j] = IF j = i THEN entry ELSE bucket[j]
    BY <1>2, <1>4, <1>5, <1>6, ExceptSeq
  <1>10. Column(new) = Column(bucket)
    <2>1. /\ Column(new) \in Seq(Int) /\ Len(Column(new)) = Len(bucket)
          /\ \A j \in 1 .. Len(bucket) : Column(new)[j] = new[j].word
      BY <1>9, ColumnOf
    <2>2. \A j \in 1 .. Len(bucket) : Column(new)[j] = Column(bucket)[j]
      BY <1>3, <1>4, <1>6, <1>9, <2>1
    <2> QED
      BY <1>3, <2>1, <2>2, SeqEqual
  <1>11. ASSUME NEW j \in 1 .. Len(bucket)
         PROVE  Key[new[j].word] = key /\ new[j].freq = Among(seq, n + 1, new[j].word)
    <2>1. CASE j = i
      BY <1>6, <1>7, <1>9, <2>1 DEF word
    <2>2. CASE j # i
      <3>1. new[j] = bucket[j] /\ bucket[j].word \in Words
        BY <1>2, <1>9, <2>2 DEF Entry
      <3>2. bucket[j].word # word
        <4>1. Column(bucket)[i] # Column(bucket)[j]
          <5>1. i < j \/ j < i
            BY <1>4, <2>2
          <5>2. Column(bucket)[i] \in Int /\ Column(bucket)[j] \in Int
            BY <1>3, <1>4
          <5>3. \A a, b \in 1 .. Len(bucket) :
                   a < b => Column(bucket)[a] < Column(bucket)[b]
            BY <1>2, <1>3 DEF Increasing
          <5>4. /\ i < j => Column(bucket)[i] < Column(bucket)[j]
                /\ j < i => Column(bucket)[j] < Column(bucket)[i]
            BY <1>4, <5>3
          <5> QED
            BY <5>1, <5>2, <5>4
        <4> QED
          BY <1>3, <1>4, <4>1
      <3> QED
        BY <1>2, <1>8, <3>1, <3>2
    <2> QED
      BY <2>1, <2>2
  <1>12. ASSUME NEW other \in Words, Key[other] = key, Among(seq, n + 1, other) > 0
         PROVE  other \in Range(Column(bucket))
    <2>1. CASE other = word
      BY <1>3, <1>4, <2>1 DEF Range
    <2>2. CASE other # word
      BY <1>8, <1>12, <2>2 DEF Counts
    <2> QED
      BY <2>1, <2>2
  <1>13. DOMAIN new = 1 .. Len(bucket)
    BY <1>9
  <1>14. Counts(new, key, seq, n + 1)
    BY <1>2, <1>9, <1>10, <1>11, <1>12, <1>13 DEF Counts
  <1> QED
    BY <1>4, <1>7, <1>14 DEF new, i, word

\* A new word gets its place in the bucket.
LEMMA CountedFirst ==
  ASSUME NEW bucket, NEW key, NEW seq \in Seq(Words), NEW n \in Nat, n < Len(seq),
         Counts(bucket, key, seq, n), Key[seq[n + 1]] = key,
         ~Holds(Column(bucket), seq[n + 1])
  PROVE  /\ Counts(Added(bucket, seq[n + 1]), key, seq, n + 1)
         /\ Among(seq, n + 1, seq[n + 1]) = 1
  <1> DEFINE word == seq[n + 1]
             c == Column(bucket)
             at == Locate(c, word)
             entry == [word |-> word, freq |-> 1]
             new == Added(bucket, word)
  <1>1. word \in Words /\ word \in Int
    BY WordsAssumption
  <1>2. /\ bucket \in Seq(Entry) /\ Len(bucket) \in Nat /\ DOMAIN bucket = 1 .. Len(bucket)
        /\ Increasing(c)
        /\ \A j \in 1 .. Len(bucket) : /\ bucket[j] \in Entry /\ Key[bucket[j].word] = key
                                       /\ bucket[j].freq = Among(seq, n, bucket[j].word)
    BY DEF Counts
  <1>3. /\ c \in Seq(Int)
        /\ Len(c) = Len(bucket) /\ DOMAIN c = 1 .. Len(bucket)
        /\ \A j \in 1 .. Len(bucket) : c[j] = bucket[j].word
    BY <1>2, ColumnOf
  <1>4. at \in 0 .. Len(bucket) /\ word \notin Range(c)
    <2>1. at \in 0 .. Len(c)
      BY <1>1, <1>2, <1>3, LocateFindsPlace DEF IsPlace
    <2>2. word \notin Range(c)
      BY <1>1, <1>2, <1>3, HoldsIffPresent
    <2> QED
      BY <1>3, <2>1, <2>2
  <1>5. entry \in Entry /\ entry.word = word /\ entry.freq = 1
    BY <1>1 DEF Entry
  <1>6. new = InsertAtIndex(bucket, at, entry)
    BY Zenon DEF Added, InsertAtIndex
  <1>7. /\ Among(seq, n, word) = 0 /\ Among(seq, n + 1, word) = 1
    <2>1. Among(seq, n, word) \in Nat /\ ~(Among(seq, n, word) > 0)
      BY <1>1, <1>4, AmongType DEF Counts
    <2> QED
      BY <2>1, AmongNext
  <1>8. ASSUME NEW other \in Words, other # word
        PROVE  Among(seq, n + 1, other) = Among(seq, n, other)
    <2>1. Among(seq, n, other) \in Nat
      BY AmongType
    <2> QED
      BY <1>8, <2>1, AmongNext
  <1>9. /\ Increasing(InsertAtIndex(c, at, word))
        /\ Range(InsertAtIndex(c, at, word)) = Range(c) \union {word}
    BY <1>1, <1>2, <1>3, <1>4, InsertKeepsSorted
  <1>10. /\ InsertAtIndex(c, at, word) \in Seq(Int)
         /\ IsInsertion(InsertAtIndex(c, at, word), c, at, word)
    <2>1. at \in 0 .. Len(c)
      BY <1>3, <1>4
    <2> QED
      BY <1>1, <1>3, <2>1, InsertElements
  <1> HIDE DEF new, entry, at, word
  <1>11. new \in Seq(Entry) /\ IsInsertion(new, bucket, at, entry)
    BY <1>2, <1>4, <1>5, <1>6, InsertElements
  <1>12. /\ Len(new) = Len(bucket) + 1
         /\ \A j \in 1 .. Len(bucket) + 1 :
               new[j] = IF j <= at THEN bucket[j] ELSE IF j = at + 1 THEN entry ELSE bucket[j - 1]
    BY <1>11 DEF IsInsertion
  <1>13. ASSUME NEW j \in 1 .. Len(bucket) + 1
         PROVE  \/ j <= at /\ j \in 1 .. Len(bucket) /\ new[j] = bucket[j]
                \/ j = at + 1 /\ new[j] = entry
                \/ j > at + 1 /\ j - 1 \in 1 .. Len(bucket) /\ new[j] = bucket[j - 1]
    <2>1. CASE j <= at
      <3>1. j \in 1 .. Len(bucket)
        BY <1>2, <1>4, <2>1
      <3> QED
        BY <1>12, <2>1, <3>1
    <2>2. CASE j = at + 1
      <3>1. ~(j <= at)
        BY <1>4, <2>2
      <3> QED
        BY <1>12, <2>2, <3>1
    <2>3. CASE j > at + 1
      <3>1. ~(j <= at) /\ j # at + 1 /\ j - 1 \in 1 .. Len(bucket)
        BY <1>2, <1>4, <2>3
      <3> QED
        BY <1>12, <2>3, <3>1
    <2> QED
      BY <1>4, <2>1, <2>2, <2>3
  <1>14. Column(new) = InsertAtIndex(c, at, word)
    <2> DEFINE d == InsertAtIndex(c, at, word)
    <2>1. /\ Column(new) \in Seq(Int) /\ Len(Column(new)) = Len(new)
          /\ \A j \in 1 .. Len(new) : Column(new)[j] = new[j].word
      BY <1>11, ColumnOf
    <2>2. /\ Len(d) = Len(bucket) + 1
          /\ \A j \in 1 .. Len(bucket) + 1 :
                d[j] = IF j <= at THEN c[j] ELSE IF j = at + 1 THEN word ELSE c[j - 1]
      BY <1>3, <1>10 DEF IsInsertion
    <2>3. d \in Seq(Int)
      BY <1>10
    <2> HIDE DEF d
    <2>4. ASSUME NEW j \in 1 .. Len(bucket) + 1
          PROVE  Column(new)[j] = d[j]
      <3>1. Column(new)[j] = new[j].word
        BY <1>12, <2>1
      <3>2. CASE j <= at /\ j \in 1 .. Len(bucket) /\ new[j] = bucket[j]
        BY <1>3, <2>2, <3>1, <3>2
      <3>3. CASE j = at + 1 /\ new[j] = entry
        <4>1. ~(j <= at)
          BY <1>4, <3>3
        <4> QED
          BY <1>5, <2>2, <3>1, <3>3, <4>1
      <3>4. CASE j > at + 1 /\ j - 1 \in 1 .. Len(bucket) /\ new[j] = bucket[j - 1]
        <4>1. ~(j <= at) /\ j # at + 1
          BY <1>4, <3>4
        <4> QED
          BY <1>3, <2>2, <3>1, <3>4, <4>1
      <3> QED
        BY <1>13, <3>2, <3>3, <3>4
    <2>5. Column(new) = d
      BY <1>12, <2>1, <2>2, <2>3, <2>4, SeqEqual
    <2> QED
      BY <2>5 DEF d
  <1>15. ASSUME NEW j \in 1 .. Len(bucket)
         PROVE  /\ Key[bucket[j].word] = key
                /\ bucket[j].freq = Among(seq, n + 1, bucket[j].word)
    <2>1. bucket[j].word \in Words
      <3>1. bucket[j] \in Entry
        BY <1>2
      <3> QED
        BY <3>1 DEF Entry
    <2>2. bucket[j].word # word
      BY <1>3, <1>4 DEF Range
    <2> QED
      BY <1>2, <1>8, <2>1, <2>2
  <1>16. ASSUME NEW j \in 1 .. Len(bucket) + 1
         PROVE  Key[new[j].word] = key /\ new[j].freq = Among(seq, n + 1, new[j].word)
    <2>1. CASE j = at + 1 /\ new[j] = entry
      BY <1>5, <1>7, <2>1 DEF word
    <2>2. CASE j # at + 1
      <3>1. PICK a \in 1 .. Len(bucket) : new[j] = bucket[a]
        BY <1>13, <2>2
      <3> QED
        BY <1>15, <3>1
    <2> QED
      <3>1. j = at + 1 => ~(j <= at) /\ ~(j > at + 1)
        BY <1>4
      <3> QED
        BY <1>13, <2>1, <2>2, <3>1
  <1>17. ASSUME NEW other \in Words, Key[other] = key, Among(seq, n + 1, other) > 0
         PROVE  other \in Range(Column(new))
    <2>1. CASE other = word
      BY <1>9, <1>14, <2>1
    <2>2. CASE other # word
      <3>1. other \in Range(c)
        BY <1>8, <1>17, <2>2 DEF Counts
      <3> QED
        BY <1>9, <1>14, <3>1
    <2> QED
      BY <2>1, <2>2
  <1>18. DOMAIN new = 1 .. Len(bucket) + 1
    BY <1>2, <1>11, <1>12
  <1>19. Counts(new, key, seq, n + 1)
    BY <1>9, <1>11, <1>14, <1>16, <1>17, <1>18 DEF Counts
  <1> QED
    BY <1>7, <1>19 DEF new, word

---------------------------------------------------------------------------
(* Insertion in the array.                                                  *)

\* What Array_insert makes of the row of the frequency of a word.
Entered(row, word) == IF Holds(row, word) THEN row
                      ELSE InsertAtIndex(row, Locate(row, word), word)

\* A row of one frequency, one entry of the table further.
LEMMA RowGrows ==
  ASSUME NEW row, NEW freq, NEW entries \in Seq(Entry), NEW n \in Nat, n < Len(entries),
         IsRow(row, freq, entries, n)
  PROVE  /\ entries[n + 1].freq # freq => IsRow(row, freq, entries, n + 1)
         /\ entries[n + 1].freq = freq =>
               IsRow(Entered(row, entries[n + 1].word), freq, entries, n + 1)
  <1> DEFINE word == entries[n + 1].word
             new == Entered(row, word)
  <1>1. entries[n + 1] \in Entry
    BY ElementOfSeq
  <1>2. word \in Words /\ word \in Int
    BY <1>1, WordsAssumption DEF Entry
  <1>3. row \in Seq(Words) /\ row \in Seq(Int) /\ Increasing(row)
    BY WordsAssumption, SeqMonotonic DEF IsRow
  <1>4. 1 .. n + 1 = (1 .. n) \union {n + 1}
    OBVIOUS
  <1>5. ASSUME entries[n + 1].freq # freq
        PROVE  IsRow(row, freq, entries, n + 1)
    BY <1>4, <1>5 DEF IsRow
  <1>6. new \in Seq(Words) /\ Increasing(new) /\ Range(new) = Range(row) \union {word}
    <2>1. Holds(row, word) <=> word \in Range(row)
      BY <1>2, <1>3, HoldsIffPresent
    <2>2. CASE Holds(row, word)
      BY <1>3, <2>1, <2>2 DEF Entered
    <2>3. CASE ~Holds(row, word)
      <3>1. new = InsertAtIndex(row, Locate(row, word), word)
        BY <2>3 DEF Entered
      <3>2. Increasing(new) /\ Range(new) = Range(row) \union {word}
        BY <1>2, <1>3, <2>1, <2>3, <3>1, InsertKeepsSorted
      <3>3. Locate(row, word) \in 0 .. Len(row)
        BY <1>2, <1>3, LocateFindsPlace DEF IsPlace
      <3>4. new \in Seq(Words)
        BY <1>2, <1>3, <3>1, <3>3, InsertElements
      <3> QED
        BY <3>2, <3>4
    <2> QED
      BY <2>2, <2>3
  <1>7. ASSUME entries[n + 1].freq = freq
        PROVE  IsRow(new, freq, entries, n + 1)
    <2>1. ASSUME NEW w
          PROVE  w \in Range(new) <=> \E i \in 1 .. n + 1 : /\ entries[i].word = w
                                                            /\ entries[i].freq = freq
      BY <1>4, <1>6, <1>7 DEF IsRow
    <2> HIDE DEF new
    <2> QED
      BY <1>6, <2>1 DEF IsRow
  <1> QED
    BY <1>5, <1>7

---------------------------------------------------------------------------
(* The invariant is kept.                                                   *)

LEMMA WordIn ==
  ASSUME NEW word \in Words
  PROVE  word \in Int /\ Key[word] \in Keys
  BY WordsAssumption DEF Keys

\* The invariant holds at first.
LEMMA InitInv == Init => IInv
  <1> SUFFICES ASSUME Init
               PROVE  IInv
    OBVIOUS
  <1>1. results = <<>> /\ inserted = 0 /\ <<>> \in Seq(Words) /\ Len(<<>>) = 0
    BY DEF Init
  <1>2. ResultsInv
    BY <1>1 DEF ResultsInv, Init
  <1>3. ASSUME NEW key \in Keys
        PROVE  Counts(<<>>, key, results, inserted)
    <2>1. <<>> \in Seq(Entry) /\ Column(<<>>) = <<>> /\ DOMAIN <<>> = {}
      BY DEF Column
    <2>2. \A word : Among(results, inserted, word) = 0
      BY <1>1, AmongNone
    <2> QED
      BY <2>1, <2>2 DEF Counts, Increasing
  <1>4. TableInv
    <2>1. Bucket \in [Keys -> Seq(Entry)] /\ \A key \in Keys : Bucket[key] = <<>>
      BY DEF Init
    <2>2. \A word \in Words : Times(word) = 0
      BY <1>1, AmongNone DEF Times
    <2> QED
      BY <1>3, <2>1, <2>2 DEF TableInv, Init
  <1>5. RowsInv
    BY DEF RowsInv, Init
  <1>6. OutputInv
    <2>1. <<>> \in Seq([word : Words, end : {"|", "NEWLINE"}])
      OBVIOUS
    <2> QED
      BY <2>1, BoundsAssumption DEF OutputInv, Init, PrintsTopK
  <1> QED
    BY <1>2, <1>4, <1>5, <1>6 DEF IInv

\* Steps that leave the table alone.
LEMMA TableKept ==
  ASSUME TableInv, UNCHANGED <<results, inserted, hash>>
  PROVE  TableInv' /\ Entries' = Entries
  BY DEF TableInv, Times, hash, Entries

\* The types of what is counted.
LEMMA CountsTyped ==
  ASSUME ResultsInv
  PROVE  /\ results \in Seq(Words) /\ Len(results) \in Nat /\ inserted \in Nat
         /\ inserted <= Len(results)
         /\ \A word : Times(word) \in Nat
  <1>1. results \in Seq(Words) /\ Len(results) \in Nat /\ inserted \in 0 .. Len(results)
    BY DEF ResultsInv
  <1>2. inserted \in Nat /\ inserted <= Len(results)
    BY <1>1
  <1>3. ASSUME NEW word
        PROVE  Times(word) \in Nat
    <2>1. Among(results, inserted, word) \in Nat
      BY <1>2, AmongType
    <2> QED
      BY <2>1 DEF Times
  <1> QED
    BY <1>1, <1>2, <1>3

\* It is kept when a search detects an n-gram.
LEMMA DetectedInv ==
  ASSUME IInv, NEW word \in Words, result_ngram_detected(word)
  PROVE  IInv'
  <1>1. /\ pc = "batch" /\ results' = Append(results, word) /\ inserted' = inserted
        /\ Bucket' = Bucket /\ max_freq' = max_freq /\ k' = k /\ nodes' = nodes
        /\ filled' = filled /\ output' = output /\ pc' = pc
    BY DEF result_ngram_detected, hash
  <1>2. inserted = 0
    BY <1>1 DEF IInv, OutputInv
  <1>3. ResultsInv'
    <2>1. results' \in Seq(Words) /\ Len(results') \in Nat
      BY <1>1 DEF IInv, ResultsInv
    <2> QED
      BY <1>1, <1>2, <2>1 DEF ResultsInv
  <1>4. TableInv'
    <2>1. \A w : Among(results, inserted, w) = 0 /\ Among(results', inserted', w) = 0
      BY <1>1, <1>2, AmongNone
    <2> QED
      BY <1>1, <2>1 DEF IInv, TableInv, Counts, Times
  <1>5. RowsInv'
    BY <1>1 DEF IInv, RowsInv
  <1>6. OutputInv'
    <2>1. PrintsTopK'
      BY <1>1 DEF PrintsTopK
    <2> QED
      BY <1>1, <2>1 DEF IInv, OutputInv
  <1> QED
    BY <1>3, <1>4, <1>5, <1>6 DEF IInv

\* It is kept when the results are displayed, with or without top k.
LEMMA DisplayResultInv ==
  ASSUME IInv, NEW asked \in -1 .. MaxK, rm_display_result(asked)
  PROVE  IInv'
  <1>1. /\ pc = "batch" /\ results' = results /\ inserted' = inserted
        /\ Bucket' = Bucket /\ max_freq' = max_freq /\ k' = asked /\ nodes' = nodes
        /\ filled' = filled /\ output' = <<>> /\ pc' = IF asked > 0 THEN "insert" ELSE "reuse"
    BY DEF rm_display_result, hash
  <1>2. ResultsInv'
    BY <1>1 DEF IInv, ResultsInv
  <1>3. TableInv'
    BY <1>1, TableKept DEF IInv, hash
  <1>4. RowsInv'
    BY <1>1 DEF IInv, RowsInv
  <1>5. OutputInv'
    <2>1. k' \in -1 .. MaxK /\ pc' \in {"insert", "reuse"} /\ (pc' = "insert" <=> k' > 0)
      BY <1>1
    <2>2. output' \in Seq([word : Words, end : {"|", "NEWLINE"}]) /\ Len(output') = 0
      BY <1>1
    <2>3. 0 <= Max({k', 0})
      <3>1. k' \in Int
        BY <2>1
      <3> QED
        BY <3>1, MaxOfTwo
    <2>4. PrintsTopK'
      BY <2>1 DEF PrintsTopK
    <2> QED
      BY <2>1, <2>2, <2>3, <2>4 DEF OutputInv
  <1> QED
    BY <1>2, <1>3, <1>4, <1>5 DEF IInv

\* Hash_insert keeps it: one occurrence more is counted in the bucket of its key.
LEMMA InsertInv ==
  ASSUME IInv, Hash_insert
  PROVE  IInv'
  <1>0. PICK word \in Words : word = results[inserted + 1]
    <2>1. results \in Seq(Words) /\ inserted + 1 \in 1 .. Len(results)
      <3>1. /\ results \in Seq(Words) /\ Len(results) \in Nat /\ inserted \in Nat
            /\ inserted < Len(results)
        BY CountsTyped DEF IInv, Hash_insert
      <3> QED
        BY <3>1
    <2>2. results[inserted + 1] \in Words
      BY <2>1, ElementOfSeq
    <2> QED
      BY <2>2
  <1> DEFINE key == Key[word]
             i == Locate(Column(Bucket[key]), word) + 1
             found == Holds(Column(Bucket[key]), word)
  <1>1. /\ pc = "insert" /\ inserted < Len(results) /\ results' = results
        /\ inserted' = inserted + 1 /\ k' = k /\ nodes' = nodes
        /\ filled' = filled /\ output' = output /\ pc' = pc
    BY DEF Hash_insert
  <1>2. /\ Bucket' = [Bucket EXCEPT ![key] = Added(Bucket[key], word)]
        /\ max_freq' = IF found THEN Max({max_freq, Bucket[key][i].freq + 1}) ELSE max_freq
    <2>1. Bucket' = [Bucket EXCEPT ![key] = Added(Bucket[key], word)]
      BY <1>0 DEF Hash_insert
    <2>2. max_freq' = IF found THEN Max({max_freq, Bucket[key][i].freq + 1}) ELSE max_freq
      BY <1>0 DEF Hash_insert
    <2> QED
      BY <2>1, <2>2
  <1>3. /\ results \in Seq(Words) /\ Len(results) \in Nat /\ inserted \in Nat
        /\ inserted + 1 \in 0 .. Len(results) /\ \A w : Times(w) \in Nat
    BY <1>1, CountsTyped DEF IInv
  <1>4. key \in Keys
    BY WordIn
  <1>5. /\ Bucket \in [Keys -> Seq(Entry)] /\ max_freq \in Nat
        /\ \A c \in Keys : Counts(Bucket[c], c, results, inserted)
        /\ \A w \in Words : Times(w) > 1 => Times(w) <= max_freq
    BY DEF IInv, TableInv
  <1>6. /\ Counts(Added(Bucket[key], word), key, results, inserted + 1)
        /\ found => /\ Bucket[key][i].freq + 1 = Among(results, inserted + 1, word)
        /\ ~found => Among(results, inserted + 1, word) = 1
    <2>1. Counts(Bucket[key], key, results, inserted)
      BY <1>4, <1>5
    <2> QED
      BY <1>0, <1>1, <1>3, <2>1, CountedAgain, CountedFirst
  <1>7. \A w : Times(w)' = IF w = word THEN Times(w) + 1 ELSE Times(w)
    <2> SUFFICES ASSUME NEW w
                 PROVE  Times(w)' = IF w = word THEN Times(w) + 1 ELSE Times(w)
      OBVIOUS
    <2>1. Times(w)' = Among(results, inserted + 1, w) /\ Times(w) = Among(results, inserted, w)
      BY <1>1 DEF Times
    <2>2. Among(results, inserted + 1, w)
             = Among(results, inserted, w) + (IF word = w THEN 1 ELSE 0)
      BY <1>0, <1>3, AmongNext
    <2>3. Times(w) \in Nat
      BY <1>3
    <2> QED
      BY <2>1, <2>2, <2>3
  <1>8. max_freq' \in Nat /\ max_freq <= max_freq'
        /\ (found => Among(results, inserted + 1, word) <= max_freq')
    <2>1. Among(results, inserted + 1, word) \in Nat
      <3>1. inserted + 1 \in Nat
        BY <1>3
      <3> QED
        BY <3>1, AmongType
    <2>2. CASE found
      <3>1. max_freq' = Max({max_freq, Among(results, inserted + 1, word)})
        BY <1>2, <1>6, <2>2
      <3>2. max_freq' = IF max_freq >= Among(results, inserted + 1, word) THEN max_freq
                        ELSE Among(results, inserted + 1, word)
        BY <1>5, <2>1, <3>1, MaxOfTwo
      <3> QED
        BY <1>5, <2>1, <3>2
    <2>3. CASE ~found
      <3>1. max_freq' = max_freq
        BY <1>2, <2>3
      <3> QED
        BY <1>5, <2>3, <3>1
    <2> QED
      BY <2>2, <2>3
  <1>9. Times(word)' = Among(results, inserted + 1, word)
    BY <1>1 DEF Times
  <1> HIDE DEF key, i, found
  <1>10. ResultsInv'
    BY <1>1, <1>3 DEF ResultsInv
  <1>11. TableInv'
    <2>1. ASSUME NEW c \in Keys
          PROVE  /\ Bucket'[c] \in Seq(Entry)
                 /\ Counts(Bucket'[c], c, results', inserted')
      <3>1. CASE c = key
        <4>1. Bucket'[c] = Added(Bucket[key], word)
          BY <1>2, <1>4, <1>5, <3>1
        <4> QED
          BY <1>1, <1>6, <3>1, <4>1 DEF Counts
      <3>2. CASE c # key
        <4>1. Bucket'[c] = Bucket[c]
          BY <1>2, <1>4, <1>5, <3>2
        <4>2. Counts(Bucket[c], c, results, inserted + 1)
          BY <1>1, <1>3, <1>5, <3>2, <1>0, OtherBucket DEF key
        <4> QED
          BY <1>1, <4>1, <4>2 DEF Counts
      <3> QED
        BY <3>1, <3>2
    <2>2. Bucket' \in [Keys -> Seq(Entry)]
      <3>1. Bucket' = [c \in Keys |-> Bucket'[c]]
        BY <1>2, <1>5
      <3> QED
        BY <2>1, <3>1
    <2>3. ASSUME NEW w \in Words, Times(w)' > 1
          PROVE  Times(w)' <= max_freq'
      <3>1. CASE w = word
        <4>1. found
          BY <1>6, <1>9, <2>3, <3>1
        <4> QED
          BY <1>8, <1>9, <3>1, <4>1
      <3>2. CASE w # word
        <4>1. Times(w)' = Times(w) /\ Times(w) \in Nat
          BY <1>3, <1>7, <3>2
        <4> QED
          BY <1>5, <1>8, <2>3, <4>1
      <3> QED
        BY <3>1, <3>2
    <2> QED
      BY <1>8, <2>1, <2>2, <2>3 DEF TableInv
  <1>12. RowsInv'
    BY <1>1 DEF IInv, RowsInv
  <1>13. OutputInv'
    <2>1. PrintsTopK'
      BY <1>1 DEF PrintsTopK
    <2> QED
      BY <1>1, <2>1 DEF IInv, OutputInv
  <1> QED
    BY <1>10, <1>11, <1>12, <1>13 DEF IInv

\* The loops of topk visit the entries of the buckets and nothing else.
LEMMA EntriesOfBuckets ==
  ASSUME TableInv
  PROVE  /\ Entries \in Seq(Entry)
         /\ \A entry : entry \in Range(Entries)
                          <=> \E key \in Keys : entry \in Range(Bucket[key])
  <1> DEFINE rows == [i \in 1 .. HASH_SIZE |-> Bucket[i - 1]]
  <1>1. HASH_SIZE \in Nat /\ Bucket \in [0 .. HASH_SIZE - 1 -> Seq(Entry)]
    BY BoundsAssumption DEF TableInv, Keys
  <1>2. ASSUME NEW i \in 1 .. HASH_SIZE
        PROVE  i - 1 \in 0 .. HASH_SIZE - 1
    BY <1>1
  <1>3. rows \in [1 .. HASH_SIZE -> Seq(Entry)]
    BY <1>1, <1>2
  <1>4. \A i \in 1 .. HASH_SIZE : rows[i] = Bucket[i - 1]
    OBVIOUS
  <1> HIDE DEF rows
  <1>5. IsFlat(Entries, rows, HASH_SIZE, Entry)
    <2>1. IsFlat(FlattenSeq(rows), rows, HASH_SIZE, Entry)
      BY <1>1, <1>3, FlattenIsFlat
    <2>2. Entries = FlattenSeq(rows)
      BY Zenon DEF Entries, rows
    <2> QED
      BY <2>1, <2>2
  <1>6. Keys = 0 .. HASH_SIZE - 1 /\ \A key \in Keys : key + 1 \in 1 .. HASH_SIZE /\ (key + 1) - 1 = key
    BY <1>1 DEF Keys
  <1>7. ASSUME NEW entry
        PROVE  entry \in Range(Entries) <=> \E key \in Keys : entry \in Range(Bucket[key])
    <2>1. entry \in Range(Entries) <=> \E i \in 1 .. HASH_SIZE : entry \in Range(rows[i])
      BY <1>5, Zenon DEF IsFlat
    <2>2. ASSUME NEW i \in 1 .. HASH_SIZE, entry \in Range(rows[i])
          PROVE  \E key \in Keys : entry \in Range(Bucket[key])
      BY <1>2, <1>4, <1>6, <2>2
    <2>3. ASSUME NEW key \in Keys, entry \in Range(Bucket[key])
          PROVE  \E i \in 1 .. HASH_SIZE : entry \in Range(rows[i])
      <3>1. key + 1 \in 1 .. HASH_SIZE /\ rows[key + 1] = Bucket[key]
        BY <1>4, <1>6
      <3> QED
        BY <2>3, <3>1
    <2> QED
      BY <2>1, <2>2, <2>3
  <1> QED
    BY <1>5, <1>7 DEF IsFlat

\* Array_init keeps it: the rows are there and empty.
LEMMA ArrayInitInv ==
  ASSUME IInv, Array_init
  PROVE  IInv'
  <1>1. /\ pc = "insert" /\ inserted = Len(results) /\ results' = results
        /\ inserted' = inserted /\ UNCHANGED hash /\ Bucket' = Bucket /\ max_freq' = max_freq
        /\ k' = k /\ nodes' = [i \in 0 .. max_freq - 1 |-> <<>>]
        /\ filled' = 0 /\ output' = output /\ pc' = "array"
    BY DEF Array_init, hash
  <1>2. ResultsInv'
    BY <1>1 DEF IInv, ResultsInv
  <1>3. TableInv' /\ Entries' = Entries
    BY <1>1, TableKept DEF IInv
  <1>4. RowsInv'
    <2>1. Len(Entries) \in Nat /\ max_freq \in Nat
      <3>1. Entries \in Seq(Entry) /\ max_freq \in Nat
        BY EntriesOfBuckets DEF IInv, TableInv
      <3> QED
        BY <3>1
    <2>2. DOMAIN nodes' = 0 .. max_freq' - 1 /\ nodes' \in [DOMAIN nodes' -> Seq(Words)]
      BY <1>1
    <2>3. DOMAIN nodes' \subseteq Nat
      BY <1>1
    <2>4. ASSUME NEW freq, NEW entries
          PROVE  IsRow(<<>>, freq, entries, 0)
      <3>1. Range(<<>>) = {}
        BY DEF Range
      <3> QED
        BY <3>1 DEF IsRow, Increasing
    <2>5. \A i \in DOMAIN nodes' : IsRow(nodes'[i], i + 1, Entries', filled')
      BY <1>1, <2>4
    <2>6. filled' \in Nat /\ filled' \in 0 .. Len(Entries')
      BY <1>1, <1>3, <2>1
    <2> QED
      BY <2>2, <2>3, <2>5, <2>6 DEF RowsInv
  <1>5. OutputInv'
    <2>1. PrintsTopK'
      BY <1>1 DEF PrintsTopK
    <2> QED
      BY <1>1, <2>1 DEF IInv, OutputInv
  <1> QED
    BY <1>2, <1>3, <1>4, <1>5 DEF IInv

\* Array_insert keeps it: the entry is put in order into the row of its frequency.
LEMMA ArrayInsertInv ==
  ASSUME IInv, Array_insert
  PROVE  IInv'
  <1>1. /\ pc = "array" /\ filled < Len(Entries) /\ results' = results
        /\ inserted' = inserted /\ UNCHANGED hash /\ Bucket' = Bucket /\ max_freq' = max_freq
        /\ k' = k /\ filled' = filled + 1 /\ output' = output /\ pc' \in {"array", "exit"}
    BY DEF Array_insert, hash
  <1>2. ResultsInv'
    BY <1>1 DEF IInv, ResultsInv
  <1>3. TableInv' /\ Entries' = Entries
    BY <1>1, TableKept DEF IInv
  <1>4. Entries \in Seq(Entry) /\ Len(Entries) \in Nat /\ max_freq \in Nat
    <2>1. Entries \in Seq(Entry) /\ max_freq \in Nat
      BY EntriesOfBuckets DEF IInv, TableInv
    <2> QED
      BY <2>1
  <1>5. filled \in Nat /\ filled + 1 \in 0 .. Len(Entries) /\ filled + 1 \in 1 .. Len(Entries)
    BY <1>1, <1>4 DEF IInv, RowsInv
  <1>6. PICK entry \in Entry : entry = Entries[filled + 1]
    <2>1. Entries[filled + 1] \in Entry
      BY <1>4, <1>5, ElementOfSeq
    <2> QED
      BY <2>1
  <1>7. entry.word \in Words /\ entry.freq \in Nat /\ entry.freq - 1 \in Nat
    BY <1>6 DEF Entry
  <1> DEFINE row == entry.freq - 1
  <1>8. \/ /\ row \in DOMAIN nodes
           /\ nodes' = [nodes EXCEPT ![row] = Entered(nodes[row], entry.word)]
        \/ row \notin DOMAIN nodes /\ nodes' = nodes
    BY <1>6 DEF Array_insert, Entered
  <1>9. /\ nodes \in [DOMAIN nodes -> Seq(Words)] /\ DOMAIN nodes \subseteq Nat
        /\ DOMAIN nodes = 0 .. max_freq - 1
        /\ \A i \in DOMAIN nodes : IsRow(nodes[i], i + 1, Entries, filled)
    BY <1>1 DEF IInv, RowsInv
  <1> HIDE DEF row
  <1>10. DOMAIN nodes' = DOMAIN nodes
    BY <1>8
  <1>11. ASSUME NEW i \in DOMAIN nodes
         PROVE  IsRow(nodes'[i], i + 1, Entries, filled + 1)
    <2>1. i \in Nat
      BY <1>9
    <2>2. /\ entry.freq # i + 1 => IsRow(nodes[i], i + 1, Entries, filled + 1)
          /\ entry.freq = i + 1 =>
                IsRow(Entered(nodes[i], entry.word), i + 1, Entries, filled + 1)
      BY <1>1, <1>4, <1>5, <1>6, <1>9, RowGrows
    <2>3. CASE i = row
      <3>1. nodes'[i] = Entered(nodes[i], entry.word)
        BY <1>8, <1>9, <2>3
      <3>2. entry.freq = i + 1
        BY <1>7, <2>3 DEF row
      <3> QED
        BY <2>2, <3>1, <3>2
    <2>4. CASE i # row
      <3>1. nodes'[i] = nodes[i]
        BY <1>8, <1>9, <2>4
      <3>2. entry.freq # i + 1
        BY <1>7, <2>1, <2>4 DEF row
      <3> QED
        BY <2>2, <3>1, <3>2
    <2> QED
      BY <2>3, <2>4
  <1>12. RowsInv'
    <2>1. \A i \in DOMAIN nodes : nodes'[i] \in Seq(Words)
      BY <1>11 DEF IsRow
    <2>2. nodes' \in [DOMAIN nodes -> Seq(Words)]
      <3>1. nodes' = [i \in DOMAIN nodes |-> nodes'[i]]
        BY <1>8, <1>9
      <3> QED
        BY <2>1, <3>1
    <2>3. filled' \in Nat /\ filled' \in 0 .. Len(Entries')
      BY <1>1, <1>3, <1>5
    <2>4. \A i \in DOMAIN nodes' : IsRow(nodes'[i], i + 1, Entries', filled')
      BY <1>1, <1>3, <1>10, <1>11
    <2> QED
      BY <1>1, <1>9, <1>10, <2>2, <2>3, <2>4 DEF RowsInv
  <1>13. OutputInv'
    <2>1. PrintsTopK'
      BY <1>1 DEF PrintsTopK
    <2> QED
      BY <1>1, <2>1 DEF IInv, OutputInv
  <1> QED
    BY <1>2, <1>3, <1>12, <1>13 DEF IInv

\* Hash_reuse keeps it: no count and no frequency is left.
LEMMA ReuseInv ==
  ASSUME IInv, Hash_reuse
  PROVE  IInv'
  <1>1. /\ pc = "reuse" /\ Bucket' = [key \in Keys |-> <<>>] /\ max_freq' = 0
        /\ results' = <<>> /\ inserted' = 0 /\ k' = -1
        /\ nodes' = [i \in {} |-> <<>>] /\ filled' = 0 /\ pc' = "batch"
        /\ output' = output
    BY DEF Hash_reuse
  <1>2. <<>> \in Seq(Words) /\ Len(<<>>) = 0 /\ <<>> \in Seq(Entry)
    OBVIOUS
  <1>3. ResultsInv'
    BY <1>1, <1>2 DEF ResultsInv
  <1>4. TableInv'
    <2>1. \A word : Among(results', inserted', word) = 0
      BY <1>1, AmongNone
    <2>2. ASSUME NEW key \in Keys
          PROVE  Counts(<<>>, key, results', inserted')
      <3>1. Column(<<>>) = <<>> /\ DOMAIN <<>> = {}
        BY DEF Column
      <3> QED
        BY <1>2, <2>1, <3>1 DEF Counts, Increasing
    <2>3. Bucket' \in [Keys -> Seq(Entry)] /\ \A key \in Keys : Bucket'[key] = <<>>
      BY <1>1, <1>2
    <2> QED
      BY <1>1, <2>1, <2>2, <2>3 DEF TableInv, Times, Counts
  <1>5. RowsInv'
    BY <1>1 DEF RowsInv
  <1>6. OutputInv'
    <2>1. PrintsTopK'
      BY <1>1 DEF PrintsTopK
    <2> QED
      BY <1>1, <2>1, BoundsAssumption DEF IInv, OutputInv
  <1> QED
    BY <1>3, <1>4, <1>5, <1>6 DEF IInv

\* Steps that change nothing.
LEMMA StutterInv ==
  ASSUME IInv, UNCHANGED vars
  PROVE  IInv'
  <1>1. /\ results' = results /\ inserted' = inserted /\ UNCHANGED hash /\ Bucket' = Bucket
        /\ max_freq' = max_freq /\ k' = k /\ nodes' = nodes /\ filled' = filled
        /\ output' = output /\ pc' = pc
    BY DEF vars, hash
  <1>2. ResultsInv'
    BY <1>1 DEF IInv, ResultsInv
  <1>3. TableInv' /\ Entries' = Entries
    BY <1>1, TableKept DEF IInv
  <1>4. RowsInv'
    BY <1>1, <1>3 DEF IInv, RowsInv
  <1>5. OutputInv'
    <2>1. PrintsTopK' <=> PrintsTopK
      BY <1>1 DEF PrintsTopK, RanksBefore
    <2> QED
      BY <1>1, <2>1 DEF IInv, OutputInv
  <1> QED
    BY <1>2, <1>3, <1>4, <1>5 DEF IInv

---------------------------------------------------------------------------
(* What is printed.                                                         *)

\* words are all of found in the order of the relation before.
InRank(words, found, before) ==
    /\ words \in Seq(Words)
    /\ Range(words) = found
    /\ \A p, q \in 1 .. Len(words) : p < q => <<words[p], words[q]>> \in before

\* In an order no element of which stands before itself there is no word twice.
LEMMA RankLength ==
  ASSUME NEW words, NEW found, NEW before, InRank(words, found, before),
         \A word : <<word, word>> \notin before
  PROVE  IsFiniteSet(found) /\ Cardinality(found) = Len(words)
  <1>1. words \in Seq(Words) /\ Len(words) \in Nat /\ DOMAIN words = 1 .. Len(words)
    BY DEF InRank
  <1>2. Range(words) = found /\ Range(words) = {words[p] : p \in 1 .. Len(words)}
    BY <1>1 DEF InRank, Range
  <1>3. words \in [1 .. Len(words) -> found]
    BY <1>1, <1>2
  <1>4. ASSUME NEW p \in 1 .. Len(words), NEW q \in 1 .. Len(words), p # q
        PROVE  words[p] # words[q]
    <2>1. p < q \/ q < p
      BY <1>1, <1>4
    <2>2. <<words[p], words[q]>> \in before \/ <<words[q], words[p]>> \in before
      BY <2>1 DEF InRank
    <2> QED
      BY <2>2
  <1>5. words \in Bijection(1 .. Len(words), found)
    <2>1. words \in Injection(1 .. Len(words), found)
      BY <1>3, <1>4 DEF Injection, IsInjective
    <2>2. words \in Surjection(1 .. Len(words), found)
      BY <1>2, <1>3 DEF Surjection
    <2> QED
      BY <2>1, <2>2 DEF Bijection
  <1>6. IsFiniteSet(1 .. Len(words)) /\ Cardinality(1 .. Len(words)) = Len(words)
    BY <1>1, FS_Interval
  <1>7. ExistsBijection(1 .. Len(words), found)
    BY <1>5, Zenon DEF ExistsBijection
  <1> DEFINE D == 1 .. Len(words)
  <1> HIDE DEF D
  <1>8. IsFiniteSet(found) /\ Cardinality(found) = Cardinality(D)
    <2>1. IsFiniteSet(D) /\ ExistsBijection(D, found)
      BY <1>6, <1>7 DEF D
    <2> QED
      BY <2>1, FS_Bijection
  <1> QED
    BY <1>6, <1>8 DEF D

\* What display_topk prints of words for a k of n.
Cut(words, n) == [i \in 1 .. Min({n, Len(words)}) |->
                     [word |-> words[i], end |-> IF i = n THEN "NEWLINE" ELSE "|"]]

\* out is the ranking of found cut at n, with the end of the line if there are n words.
IsRankingCut(out, found, before, n) ==
    LET printed == {out[i].word : i \in DOMAIN out}
    IN  /\ Len(out) = Min({n, Cardinality(found)})
        /\ printed \subseteq found
        /\ \A i, j \in DOMAIN out : i < j => <<out[i].word, out[j].word>> \in before
        /\ \A v \in printed : \A w \in found \ printed : <<v, w>> \in before
        /\ {i \in DOMAIN out : out[i].end = "NEWLINE"} =
               IF Cardinality(found) < n THEN {} ELSE {n}

\* The first n of what is ranked are the first n of the ranking.
LEMMA CutIsRanking ==
  ASSUME NEW words, NEW found, NEW before, InRank(words, found, before),
         \A word : <<word, word>> \notin before,
         NEW n \in Nat \ {0}, NEW out, out = Cut(words, n)
  PROVE  IsRankingCut(out, found, before, n)
  <1> DEFINE l == Len(words)
             m == Min({n, l})
             printed == {out[i].word : i \in DOMAIN out}
  <1>1. words \in Seq(Words) /\ l \in Nat /\ DOMAIN words = 1 .. l
    BY DEF InRank
  <1>2. found = {words[p] : p \in 1 .. l}
    BY <1>1 DEF InRank, Range
  <1>3. Cardinality(found) = l
    BY RankLength
  <1>4. m = IF n <= l THEN n ELSE l
    BY <1>1, MinOfTwo
  <1>5. m \in Nat /\ m <= n /\ m <= l
    BY <1>1, <1>4
  <1> HIDE DEF m
  <1>6. out = [i \in 1 .. m |-> [word |-> words[i], end |-> IF i = n THEN "NEWLINE" ELSE "|"]]
    BY DEF Cut, m
  <1>7. /\ DOMAIN out = 1 .. m
        /\ \A i \in 1 .. m : /\ out[i].word = words[i]
                             /\ out[i].end = IF i = n THEN "NEWLINE" ELSE "|"
    BY <1>6
  <1>8. \A i \in 1 .. m : i \in 1 .. l /\ words[i] \in Words
    BY <1>1, <1>5
  <1>9. Len(out) = m
    BY <1>5, <1>6
  <1> HIDE DEF l
  <1>10. printed = {words[i] : i \in 1 .. m}
    BY <1>7
  <1> HIDE DEF printed
  <1>11. printed \subseteq found
    BY <1>2, <1>8, <1>10
  <1>12. ASSUME NEW i \in 1 .. m, NEW j \in 1 .. m, i < j
         PROVE  <<out[i].word, out[j].word>> \in before
    BY <1>7, <1>8, <1>12 DEF InRank, l
  <1>13. ASSUME NEW v \in printed, NEW w \in found \ printed
         PROVE  <<v, w>> \in before
    <2>1. PICK i \in 1 .. m : v = words[i]
      BY <1>10
    <2>2. PICK j \in 1 .. l : w = words[j]
      BY <1>2
    <2>3. j \notin 1 .. m
      BY <1>10, <1>13, <2>2
    <2>4. i \in 1 .. l /\ i < j
      BY <1>1, <1>5, <1>8, <2>3
    <2> QED
      BY <2>1, <2>2, <2>4 DEF InRank, l
  <1>14. {i \in DOMAIN out : out[i].end = "NEWLINE"} = IF l < n THEN {} ELSE {n}
    <2>1. {i \in DOMAIN out : out[i].end = "NEWLINE"} = {i \in 1 .. m : i = n}
      BY <1>7
    <2>2. CASE l < n
      <3>1. n \notin 1 .. m
        BY <1>1, <1>5, <2>2
      <3> QED
        BY <2>1, <2>2, <3>1
    <2>3. CASE ~(l < n)
      <3>1. n \in 1 .. m
        BY <1>1, <1>4, <2>3
      <3> QED
        BY <2>1, <2>3, <3>1
    <2> QED
      BY <2>2, <2>3
  <1>15. Len(out) = Min({n, Cardinality(found)})
    BY <1>3, <1>9 DEF m
  <1> QED
    BY <1>3, <1>7, <1>11, <1>12, <1>13, <1>14, <1>15 DEF IsRankingCut, printed

\* RanksBefore as a set of pairs.
Before == {pair \in Words \X Words : RanksBefore(pair[1], pair[2])}

\* An n-gram that two queries found.
SomeTwice == \E word \in Words : Count(results, word) > 1

\* The array is full: its row for a frequency has the n-grams found so often.
LEMMA RowsFull ==
  ASSUME IInv, pc = "array", filled = Len(Entries)
  PROVE  \A i \in DOMAIN nodes, word \in Words :
            word \in Range(nodes[i]) <=> Count(results, word) = i + 1
  <1> SUFFICES ASSUME NEW i \in DOMAIN nodes, NEW word \in Words
               PROVE  word \in Range(nodes[i]) <=> Count(results, word) = i + 1
    OBVIOUS
  <1>1. /\ i \in Nat /\ IsRow(nodes[i], i + 1, Entries, filled)
        /\ inserted = Len(results) /\ TableInv
    BY DEF IInv, RowsInv, ResultsInv
  <1>2. Count(results, word) = Times(word) /\ Times(word) \in Nat
    <2>1. results \in Seq(Words) /\ Len(results) \in 0 .. Len(results) /\ Times(word) \in Nat
      BY CountsTyped DEF IInv
    <2> QED
      BY <1>1, <2>1, CountIsAmong DEF Times
  <1>3. Entries \in Seq(Entry) /\ DOMAIN Entries = 1 .. filled
    <2>1. Entries \in Seq(Entry)
      BY <1>1, EntriesOfBuckets
    <2> QED
      BY <2>1
  <1>4. ASSUME NEW key \in Keys, NEW j \in DOMAIN Bucket[key]
        PROVE  /\ Bucket[key][j] \in Range(Entries)
               /\ Bucket[key][j].freq = Times(Bucket[key][j].word)
    <2>1. Bucket[key][j] \in Range(Bucket[key])
      BY DEF Range
    <2>2. Bucket[key][j] \in Range(Entries)
      BY <1>1, <2>1, EntriesOfBuckets
    <2>3. Bucket[key][j].freq = Times(Bucket[key][j].word)
      BY <1>1 DEF TableInv, Counts, Times
    <2> QED
      BY <2>2, <2>3
  <1>5. ASSUME word \in Range(nodes[i])
        PROVE  Times(word) = i + 1
    <2>1. PICK e \in 1 .. filled : Entries[e].word = word /\ Entries[e].freq = i + 1
      BY <1>1, <1>5 DEF IsRow
    <2>2. Entries[e] \in Range(Entries)
      BY <1>3 DEF Range
    <2>3. PICK key \in Keys : Entries[e] \in Range(Bucket[key])
      BY <1>1, <2>2, EntriesOfBuckets
    <2>4. PICK j \in DOMAIN Bucket[key] : Entries[e] = Bucket[key][j]
      BY <2>3 DEF Range
    <2> QED
      BY <1>4, <2>1, <2>4
  <1>6. ASSUME Times(word) = i + 1
        PROVE  word \in Range(nodes[i])
    <2> DEFINE key == Key[word]
    <2>1. key \in Keys
      BY WordIn
    <2>2. Among(results, inserted, word) > 0
      BY <1>1, <1>6 DEF Times
    <2>3. Bucket[key] \in Seq(Entry) /\ word \in Range(Column(Bucket[key]))
      BY <1>1, <2>1, <2>2 DEF TableInv, Counts
    <2>4. PICK j \in DOMAIN Bucket[key] : Bucket[key][j].word = word
      BY <2>3 DEF Column, Range
    <2>5. Bucket[key][j] \in Range(Entries) /\ Bucket[key][j].freq = i + 1
      BY <1>4, <1>6, <2>1, <2>4
    <2>6. PICK e \in 1 .. filled : Entries[e] = Bucket[key][j]
      BY <1>3, <2>5 DEF Range
    <2> QED
      BY <1>1, <2>4, <2>5, <2>6 DEF IsRow
  <1> QED
    BY <1>2, <1>5, <1>6

\* The rows from the end are then the ranking, if there is a row for every frequency.
LEMMA DescendingRanks ==
  ASSUME IInv, pc = "array", filled = Len(Entries), SomeTwice
  PROVE  InRank(Descending, ToSet(results), Before)
  <1> DEFINE rows == Cardinality(DOMAIN nodes)
             seqs == [i \in 1 .. rows |-> nodes[rows - i]]
  <1>1. /\ max_freq \in Nat /\ DOMAIN nodes = 0 .. max_freq - 1
        /\ nodes \in [DOMAIN nodes -> Seq(Words)]
        /\ \A i \in DOMAIN nodes : Increasing(nodes[i])
    BY DEF IInv, TableInv, RowsInv, IsRow
  <1>2. rows = max_freq
    <2>1. 0 \in Int /\ max_freq - 1 \in Int
      BY <1>1
    <2>2. Cardinality(0 .. max_freq - 1) = IF 0 > max_freq - 1 THEN 0 ELSE (max_freq - 1) - 0 + 1
      BY <2>1, FS_Interval
    <2> QED
      BY <1>1, <2>2
  <1> HIDE DEF rows
  <1>3. ASSUME NEW i \in 1 .. rows
        PROVE  rows - i \in DOMAIN nodes /\ seqs[i] = nodes[rows - i]
    BY <1>1, <1>2
  <1>4. seqs \in [1 .. rows -> Seq(Words)]
    BY <1>1, <1>3
  <1>5. IsFlat(Descending, seqs, rows, Words)
    <2>1. Descending = FlattenSeq(seqs)
      BY Zenon DEF Descending, rows
    <2> HIDE DEF seqs
    <2> QED
      BY <1>1, <1>2, <1>4, <2>1, FlattenIsFlat
  <1> HIDE DEF seqs
  <1>6. \A i \in DOMAIN nodes, word \in Words :
           word \in Range(nodes[i]) <=> Count(results, word) = i + 1
    BY RowsFull
  <1>7. /\ results \in Seq(Words) /\ Len(results) \in Nat /\ inserted = Len(results)
        /\ \A word \in Words : Count(results, word) = Times(word) /\ Count(results, word) \in Nat
    <2>1. /\ results \in Seq(Words) /\ Len(results) \in Nat
          /\ Len(results) \in 0 .. Len(results) /\ inserted = Len(results)
          /\ \A word : Times(word) \in Nat
      BY CountsTyped DEF IInv, ResultsInv
    <2> QED
      BY <2>1, CountIsAmong DEF Times
  <1>8. ASSUME NEW word \in Words, Count(results, word) > 0
        PROVE  Count(results, word) - 1 \in DOMAIN nodes
    <2>1. \A w \in Words : Count(results, w) > 1 => Count(results, w) <= max_freq
      BY <1>7 DEF IInv, TableInv
    <2>2. max_freq > 1
      BY <1>1, <1>7, <2>1 DEF SomeTwice
    <2>3. Count(results, word) <= max_freq
      BY <1>1, <1>7, <1>8, <2>1, <2>2
    <2> QED
      BY <1>1, <1>7, <1>8, <2>3
  <1>9. ASSUME NEW word \in Words
        PROVE  Count(results, word) > 0 <=> word \in ToSet(results)
    <2>1. Count(results, word) = Among(results, Len(results), word)
      BY <1>7 DEF Times
    <2>2. DOMAIN results = 1 .. Len(results)
      BY <1>7
    <2> QED
      BY <1>7, <2>1, <2>2, AmongPositive DEF ToSet
  <1>10. ToSet(results) \subseteq Words
    BY <1>7 DEF ToSet
  <1>11. ASSUME NEW i \in 1 .. rows, NEW word \in Range(seqs[i])
         PROVE  word \in Words /\ Count(results, word) = (rows - i) + 1
    <2>1. rows - i \in DOMAIN nodes /\ seqs[i] = nodes[rows - i] /\ nodes[rows - i] \in Seq(Words)
      BY <1>1, <1>3
    <2>2. word \in Words
      BY <2>1 DEF Range
    <2> QED
      BY <1>6, <2>1, <2>2
  <1>12. Range(Descending) = ToSet(results)
    <2>1. \A word : word \in Range(Descending) <=> \E i \in 1 .. rows : word \in Range(seqs[i])
      BY <1>5, Zenon DEF IsFlat
    <2>2. ASSUME NEW i \in 1 .. rows, NEW word \in Range(seqs[i])
          PROVE  word \in ToSet(results)
      <3>1. word \in Words /\ Count(results, word) = (rows - i) + 1
        BY <1>11
      <3>2. (rows - i) + 1 > 0
        BY <1>1, <1>2
      <3> QED
        BY <1>9, <3>1, <3>2
    <2>3. ASSUME NEW word \in ToSet(results)
          PROVE  \E i \in 1 .. rows : word \in Range(seqs[i])
      <3> DEFINE c == Count(results, word)
                 i == rows - (c - 1)
      <3>1. word \in Words /\ c > 0 /\ c \in Nat
        BY <1>7, <1>9, <1>10
      <3>2. c - 1 \in DOMAIN nodes
        BY <1>8, <3>1
      <3> HIDE DEF c
      <3>3. (c - 1) + 1 = c
        BY <3>1
      <3>4. word \in Range(nodes[c - 1])
        BY <1>6, <3>1, <3>2, <3>3 DEF c
      <3>5. i \in 1 .. rows /\ rows - i = c - 1
        BY <1>1, <1>2, <3>1, <3>2
      <3> QED
        BY <1>3, <3>4, <3>5
    <2> QED
      BY <2>1, <2>2, <2>3
  <1>13. ASSUME NEW p \in 1 .. Len(Descending), NEW q \in 1 .. Len(Descending), p < q
         PROVE  <<Descending[p], Descending[q]>> \in Before
    <2> DEFINE v == Descending[p]
               w == Descending[q]
    <2>1. InOrder(seqs, rows, v, w)
      BY <1>5, <1>13 DEF IsFlat
    <2> HIDE DEF v, w
    <2>2. PICK i \in 1 .. rows, h \in 1 .. rows : \E a \in DOMAIN seqs[i], b \in DOMAIN seqs[h] :
                 seqs[i][a] = v /\ seqs[h][b] = w /\ (i < h \/ (i = h /\ a < b))
      BY <2>1 DEF InOrder
    <2>3. PICK a \in DOMAIN seqs[i], b \in DOMAIN seqs[h] :
                 seqs[i][a] = v /\ seqs[h][b] = w /\ (i < h \/ (i = h /\ a < b))
      BY <2>2
    <2>4. v \in Range(seqs[i]) /\ w \in Range(seqs[h])
      BY <2>3 DEF Range
    <2>5. /\ v \in Words /\ Count(results, v) = (rows - i) + 1
          /\ w \in Words /\ Count(results, w) = (rows - h) + 1
      BY <1>11, <2>4
    <2>6. CASE i < h
      <3>1. (rows - i) + 1 > (rows - h) + 1
        BY <1>1, <1>2, <2>6
      <3> QED
        BY <2>5, <3>1 DEF Before, RanksBefore, v, w
    <2>7. CASE i = h /\ a < b
      <3>1. Increasing(seqs[i])
        BY <1>1, <1>3
      <3>2. v < w
        BY <2>3, <2>7, <3>1 DEF Increasing
      <3> QED
        BY <2>5, <2>7, <3>2 DEF Before, RanksBefore, v, w
    <2> QED
      BY <2>3, <2>6, <2>7
  <1>14. Descending \in Seq(Words)
    BY <1>5 DEF IsFlat
  <1> QED
    BY <1>12, <1>13, <1>14 DEF InRank

\* display_topk keeps it: the line printed is the ranking up to k.
LEMMA DisplayInv ==
  ASSUME IInv, display_topk
  PROVE  IInv'
  <1>1. /\ pc = "array" /\ filled = Len(Entries) /\ results' = results
        /\ inserted' = inserted /\ UNCHANGED hash /\ Bucket' = Bucket /\ max_freq' = max_freq
        /\ k' = k /\ nodes' = nodes /\ filled' = filled /\ output' = Displayed(k)
        /\ pc' = "reuse"
    BY DEF display_topk, hash
  <1>2. ResultsInv'
    BY <1>1 DEF IInv, ResultsInv
  <1>3. TableInv' /\ Entries' = Entries
    BY <1>1, TableKept DEF IInv
  <1>4. RowsInv'
    BY <1>1 DEF IInv, RowsInv
  <1>5. PICK n \in Nat \ {0} : n = k
    BY <1>1, BoundsAssumption DEF IInv, OutputInv
  <1>6. output' = Cut(Descending, n)
    BY <1>1, <1>5 DEF Displayed, Cut
  <1>7. Descending \in Seq(Words)
    <2> DEFINE rows == Cardinality(DOMAIN nodes)
               seqs == [i \in 1 .. rows |-> nodes[rows - i]]
    <2>1. /\ max_freq \in Nat /\ DOMAIN nodes = 0 .. max_freq - 1
          /\ nodes \in [DOMAIN nodes -> Seq(Words)]
      BY <1>1 DEF IInv, TableInv, RowsInv
    <2>2. rows = max_freq
      <3>1. 0 \in Int /\ max_freq - 1 \in Int
        BY <2>1
      <3>2. Cardinality(0 .. max_freq - 1) =
               IF 0 > max_freq - 1 THEN 0 ELSE (max_freq - 1) - 0 + 1
        BY <3>1, FS_Interval
      <3> QED
        BY <2>1, <3>2
    <2>3. Descending = FlattenSeq(seqs)
      BY Zenon DEF Descending
    <2> HIDE DEF rows
    <2>4. seqs \in [1 .. rows -> Seq(Words)]
      BY <2>1, <2>2
    <2> HIDE DEF seqs
    <2>5. IsFlat(FlattenSeq(seqs), seqs, rows, Words)
      BY <2>1, <2>2, <2>4, FlattenIsFlat
    <2> QED
      BY <2>3, <2>5 DEF IsFlat
  <1>8. /\ output' \in Seq([word : Words, end : {"|", "NEWLINE"}])
        /\ Len(output') <= n
    <2> DEFINE m == Min({n, Len(Descending)})
    <2>1. Len(Descending) \in Nat
      BY <1>7
    <2>2. m \in Nat /\ m <= n /\ m <= Len(Descending)
      BY <1>5, <2>1, MinOfTwo
    <2> HIDE DEF m
    <2>3. output' = [i \in 1 .. m |->
                        [word |-> Descending[i], end |-> IF i = n THEN "NEWLINE" ELSE "|"]]
      BY <1>6 DEF Cut, m
    <2>4. \A i \in 1 .. m : Descending[i] \in Words
      BY <1>7, <2>1, <2>2
    <2> QED
      BY <2>2, <2>3, <2>4
  <1>9. PrintsTopK'
    <2> SUFFICES ASSUME SomeTwice
                 PROVE  PrintsTopK'
      BY <1>1 DEF PrintsTopK, SomeTwice
    <2> DEFINE found == ToSet(results)
    <2>1. InRank(Descending, found, Before)
      BY <1>1, DescendingRanks
    <2>2. \A word : <<word, word>> \notin Before
      <3> SUFFICES ASSUME NEW word \in Words
                   PROVE  ~RanksBefore(word, word)
        BY DEF Before
      <3>1. word \in Int /\ Count(results, word) \in Nat
        <4>1. results \in Seq(Words) /\ Len(results) \in Nat /\ Len(results) \in 0 .. Len(results)
          BY CountsTyped DEF IInv
        <4>2. Count(results, word) = Among(results, Len(results), word)
          BY <4>1, CountIsAmong
        <4>3. Among(results, Len(results), word) \in Nat
          BY <4>1, AmongType
        <4> QED
          BY <4>2, <4>3, WordIn
      <3> QED
        BY <3>1 DEF RanksBefore
    <2> DEFINE printed == {output'[i].word : i \in DOMAIN output'}
    <2>3. /\ Len(output') = Min({n, Cardinality(found)})
          /\ printed \subseteq found
          /\ \A i, j \in DOMAIN output' :
                i < j => <<output'[i].word, output'[j].word>> \in Before
          /\ \A v \in printed : \A w \in found \ printed : <<v, w>> \in Before
          /\ {i \in DOMAIN output' : output'[i].end = "NEWLINE"} =
                IF Cardinality(found) < n THEN {} ELSE {n}
      <3> HIDE DEF found
      <3>1. PICK out : out = output'
        OBVIOUS
      <3>2. PICK words, set, before : /\ words = Descending /\ set = found /\ before = Before
        OBVIOUS
      <3>3. /\ out = Cut(words, n) /\ InRank(words, set, before)
            /\ \A word : <<word, word>> \notin before
        BY <1>6, <2>1, <2>2, <3>1, <3>2
      <3>4. IsRankingCut(out, set, before, n)
        BY <3>3, CutIsRanking
      <3> QED
        BY <3>1, <3>2, <3>4 DEF IsRankingCut
    <2>4. \A v, w : <<v, w>> \in Before => RanksBefore(v, w)
      BY DEF Before
    <2>5. \A v, w : RanksBefore(v, w)' <=> RanksBefore(v, w)
      BY <1>1 DEF RanksBefore
    <2>6. \A i, j \in DOMAIN output' : i < j => RanksBefore(output[i].word, output[j].word)'
      <3> SUFFICES ASSUME NEW i \in DOMAIN output', NEW j \in DOMAIN output', i < j
                   PROVE  RanksBefore(output[i].word, output[j].word)'
        OBVIOUS
      <3>1. PICK v, w : v = output'[i].word /\ w = output'[j].word
        OBVIOUS
      <3>2. RanksBefore(v, w)
        BY <2>3, <2>4, <3>1
      <3> QED
        BY <1>1, <3>1, <3>2 DEF RanksBefore
    <2>7. \A v \in printed, w \in found \ printed : RanksBefore(v, w)'
      BY <2>3, <2>4, <2>5
    <2> QED
      BY <1>1, <1>5, <2>3, <2>6, <2>7 DEF PrintsTopK
  <1>10. OutputInv'
    <2>1. Max({k', 0}) = n
      BY <1>1, <1>5, MaxOfTwo
    <2> QED
      BY <1>1, <1>8, <1>9, <2>1, <1>5 DEF IInv, OutputInv
  <1> QED
    BY <1>2, <1>3, <1>4, <1>10 DEF IInv

---------------------------------------------------------------------------
(* The theorems.                                                            *)

LEMMA NextInv == IInv /\ [Next]_vars => IInv'
  <1> SUFFICES ASSUME IInv, [Next]_vars
               PROVE  IInv'
    OBVIOUS
  <1>1. CASE \E word \in Words : result_ngram_detected(word)
    BY <1>1, DetectedInv
  <1>2. CASE \E asked \in -1 .. MaxK : rm_display_result(asked)
    BY <1>2, DisplayResultInv
  <1>3. CASE Hash_insert
    BY <1>3, InsertInv
  <1>4. CASE Array_init
    BY <1>4, ArrayInitInv
  <1>5. CASE Array_insert
    BY <1>5, ArrayInsertInv
  <1>6. CASE display_topk
    BY <1>6, DisplayInv
  <1>7. CASE Hash_reuse
    BY <1>7, ReuseInv
  <1>8. CASE Exited
    BY <1>8, StutterInv DEF Exited
  <1>9. CASE UNCHANGED vars
    BY <1>9, StutterInv
  <1> QED
    BY <1>1, <1>2, <1>3, <1>4, <1>5, <1>6, <1>7, <1>8, <1>9 DEF Next

\* The table, the array and the output are in order in every reachable state.
THEOREM Invariant == Spec => []IInv
  BY InitInv, NextInv, PTL DEF Spec

\* It implies the types.
LEMMA InvTypes == IInv => TypeOK
  <1> SUFFICES ASSUME IInv
               PROVE  TypeOK
    OBVIOUS
  <1>1. results \in Seq(Words) /\ inserted \in 0 .. Len(results)
    BY DEF IInv, ResultsInv
  <1>2. Bucket \in [Keys -> Seq([word : Words, freq : Nat \ {0}])] /\ max_freq \in Nat
    BY DEF IInv, TableInv, Entry
  <1>3. /\ filled \in Nat /\ nodes \in [DOMAIN nodes -> Seq(Words)] /\ DOMAIN nodes \subseteq Nat
    BY DEF IInv, RowsInv
  <1>4. /\ k \in -1 .. MaxK /\ output \in Seq([word : Words, end : {"|", "NEWLINE"}])
        /\ pc = "reuse" => Len(output) <= Max({k, 0})
        /\ pc \in {"batch", "insert", "array", "reuse", "exit"}
    BY DEF IInv, OutputInv
  <1> QED
    BY <1>1, <1>2, <1>3, <1>4 DEF TypeOK

\* Buckets, rows and output keep their types, and no line "F k" prints more than k n-grams.
THEOREM TypeCorrect == Spec => []TypeOK
  BY Invariant, InvTypes, PTL

\* That the batch is counted is one of its parts.
LEMMA InvCounted == IInv => Counted
  <1> SUFFICES ASSUME IInv, NEW key \in Keys
               PROVE  LET bucket == Bucket[key]
                      IN  /\ \A i \in DOMAIN bucket :
                                /\ Key[bucket[i].word] = key
                                /\ bucket[i].freq = Count(SubSeq(results, 1, inserted),
                                                          bucket[i].word)
                          /\ \A i, j \in DOMAIN bucket : i < j => bucket[i].word < bucket[j].word
    BY DEF Counted
  <1> DEFINE bucket == Bucket[key]
  <1>1. /\ bucket \in Seq(Entry) /\ Increasing(Column(bucket))
        /\ \A i \in DOMAIN bucket : /\ Key[bucket[i].word] = key
                                    /\ bucket[i].freq = Among(results, inserted, bucket[i].word)
    BY DEF IInv, TableInv, Counts
  <1>2. \A word : Count(SubSeq(results, 1, inserted), word) = Among(results, inserted, word)
    BY CountIsAmong DEF IInv, ResultsInv
  <1>3. ASSUME NEW i \in DOMAIN bucket, NEW j \in DOMAIN bucket, i < j
        PROVE  bucket[i].word < bucket[j].word
    BY <1>1, <1>3 DEF Increasing, Column
  <1> QED
    BY <1>1, <1>2, <1>3

\* The table counts the n-grams of the batch, each once in the bucket of its key, and
\* nothing of an earlier batch.
THEOREM CountsTheBatch == Spec => []Counted
  BY Invariant, InvCounted, PTL

\* What is printed at a line "F k" is the ranking of the n-grams of the batch, cut at k, in
\* every batch with an n-gram that two queries found.
THEOREM PrintsTheRanking == Spec => []PrintsTopK
  <1>1. IInv => PrintsTopK
    BY DEF IInv, OutputInv
  <1> QED
    BY <1>1, Invariant, PTL
=============================================================================
