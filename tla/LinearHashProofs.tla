-------------------------- MODULE LinearHashProofs --------------------------
(* The linear hash table keeps every word where a search looks for it, for  *)
(* any words, any codes and any initial sizes, through any number of splits *)
(* and rounds; so it implements a set of words.                             *)
EXTENDS LinearHash, DataLemmas

---------------------------------------------------------------------------
(* The inductive invariant.                                                 *)

Buckets == [arr : Seq(Words), slots : Nat \ {0}]

\* A bucket with a strictly sorted array that fits its slots.
Proper(bucket) == /\ bucket \in Buckets
                  /\ Len(bucket.arr) <= bucket.slots
                  /\ Increasing(bucket.arr)

BucketsInv == /\ size \in Nat /\ DOMAIN ca_bucket = 0 .. size - 1
              /\ ca_bucket \in [0 .. size - 1 -> Buckets]
              /\ \A b \in 0 .. size - 1 : Proper(ca_bucket[b])

RoundInv == p \in Nat /\ init_size \in Nat \ {0} /\ mask \in Nat /\ ov_mask \in Nat
            /\ RoundsInStep

---------------------------------------------------------------------------
(* The two hash functions.                                                  *)

\* Where a word of code c is when q of the m buckets of the round have been divided.
Address(c, q, m) == LET key == c % (2 * m) IN IF key - m >= q THEN key - m ELSE key

Held(b) == Range(ca_bucket[b].arr)

\* AtItsAddress, said without the hash functions.
PlacedInv == \A b \in 0 .. size - 1 : \A w \in Held(b) : Address(Code[w], p, init_size) = b

IInv == BucketsInv /\ RoundInv /\ PlacedInv

\* The words in the table.
HeldWords == {w \in Words : \E b \in 0 .. size - 1 : w \in Held(b)}

\* One bit more of the code leaves the bucket or adds m to it.
LEMMA ModDouble ==
  ASSUME NEW c \in Nat, NEW m \in Nat \ {0}
  PROVE  c % (2 * m) \in {c % m, (c % m) + m} /\ c % m \in 0 .. m - 1
  <1> DEFINE d == c \div (2 * m)
             r == c % (2 * m)
  <1>1. d \in Nat /\ r \in 0 .. 2 * m - 1 /\ c = d * (2 * m) + r
    <2> DEFINE n == 2 * m
    <2>1. n \in Nat \ {0}
      OBVIOUS
    <2> HIDE DEF n
    <2>2. c \div n \in Nat /\ c % n \in 0 .. n - 1 /\ c = (c \div n) * n + (c % n)
      BY <2>1, DivMod
    <2> QED
      BY <2>2 DEF n
  <1>2. c \div m \in Nat /\ c % m \in 0 .. m - 1 /\ c = (c \div m) * m + (c % m)
    BY DivMod
  <1> HIDE DEF d, r
  <1>3. d * (2 * m) = (2 * d) * m
    BY <1>1
  <1>4. CASE r < m
    <2>1. r \in 0 .. m - 1 /\ (c \div m) * m + (c % m) = (2 * d) * m + r
      BY <1>1, <1>2, <1>3, <1>4
    <2>2. 2 * d \in Nat
      BY <1>1
    <2>3. c % m = r
      BY <1>2, <2>1, <2>2, DivModUnique
    <2> QED
      BY <1>2, <2>3 DEF r
  <1>5. CASE r >= m
    <2>1. (2 * d + 1) * m = (2 * d) * m + m
      BY <1>1
    <2>2. r - m \in 0 .. m - 1 /\ (c \div m) * m + (c % m) = (2 * d + 1) * m + (r - m)
      BY <1>1, <1>2, <1>3, <1>5, <2>1
    <2>3. 2 * d + 1 \in Nat
      BY <1>1
    <2>4. c % m = r - m
      BY <1>2, <2>2, <2>3, DivModUnique
    <2>5. r = (c % m) + m
      BY <1>1, <2>4
    <2> QED
      BY <1>2, <2>5 DEF r
  <1> QED
    BY <1>1, <1>4, <1>5

\* The address names one of the m + q buckets there are.
LEMMA AddressInTable ==
  ASSUME NEW c \in Nat, NEW m \in Nat \ {0}, NEW q \in 0 .. m
  PROVE  Address(c, q, m) \in 0 .. m + q - 1 /\ c % (2 * m) \in 0 .. 2 * m - 1
  <1>1. c % (2 * m) \in 0 .. 2 * m - 1
    BY DivMod
  <1> QED
    BY <1>1 DEF Address

\* The division of bucket q moves only words of that bucket, and only to bucket m + q.
LEMMA AddressDivided ==
  ASSUME NEW c \in Nat, NEW m \in Nat \ {0}, NEW q \in 0 .. m - 1
  PROVE  /\ Address(c, q, m) # q => Address(c, q + 1, m) = Address(c, q, m)
         /\ Address(c, q, m) = q => /\ Address(c, q + 1, m) = c % (2 * m)
                                    /\ c % (2 * m) \in {q, m + q}
  <1>1. c % (2 * m) \in 0 .. 2 * m - 1
    BY DivMod
  <1> QED
    BY <1>1 DEF Address

\* When all buckets of a round are divided, the next round has the same addresses.
LEMMA AddressNextRound ==
  ASSUME NEW c \in Nat, NEW m \in Nat \ {0}
  PROVE  Address(c, m, m) = Address(c, 0, 2 * m)
  <1> DEFINE n == 2 * m
  <1>1. n \in Nat \ {0}
    OBVIOUS
  <1>2. c % n \in 0 .. n - 1 /\ c % (2 * n) \in {c % n, (c % n) + n}
    BY <1>1, ModDouble
  <1>3. Address(c, m, m) = c % n
    BY <1>2 DEF Address
  <1> HIDE DEF n
  <1>4. Address(c, 0, n) = c % n
    BY <1>1, <1>2 DEF Address
  <1> QED
    BY <1>3, <1>4 DEF n

\* hash_get_bucket with the masks in step.
LEMMA BucketAddress ==
  ASSUME RoundInv, NEW word \in Words
  PROVE  /\ Code[word] \in Nat
         /\ hash_function_overflow(word) = Code[word] % (2 * init_size)
         /\ hash_get_bucket(word) = Address(Code[word], p, init_size)
         /\ hash_get_bucket(word) \in 0 .. size - 1
  <1>1. Code[word] \in Nat
    BY WordsAssumption
  <1>2. ov_mask + 1 = 2 * init_size /\ p \in 0 .. init_size /\ size = init_size + p
    BY DEF RoundInv, RoundsInStep
  <1>3. hash_function_overflow(word) = Code[word] % (2 * init_size)
    BY <1>2 DEF hash_function_overflow
  <1>4. hash_get_bucket(word) = Address(Code[word], p, init_size)
    BY <1>3 DEF hash_get_bucket, Address
  <1>5. Address(Code[word], p, init_size) \in 0 .. init_size + p - 1
    BY <1>1, <1>2, AddressInTable DEF RoundInv
  <1>6. p \in Nat /\ init_size \in Nat
    BY DEF RoundInv
  <1>7. size = init_size + p
    BY <1>2
  <1>8. 0 .. init_size + p - 1 = 0 .. size - 1
    BY ONLY <1>6, <1>7
  <1> QED
    BY <1>1, <1>3, <1>4, <1>5, <1>8, Zenon

---------------------------------------------------------------------------
(* One bucket.                                                              *)

\* A sorted array that fits its slots makes a proper bucket.
LEMMA ProperBucket ==
  ASSUME NEW arr \in Seq(Words), NEW slots \in Nat \ {0}, Len(arr) <= slots, Increasing(arr)
  PROVE  Proper([arr |-> arr, slots |-> slots])
  BY DEF Proper, Buckets

\* What is known of a proper bucket.
LEMMA ProperFacts ==
  ASSUME NEW bucket, Proper(bucket)
  PROVE  /\ bucket.arr \in Seq(Words) /\ bucket.arr \in Seq(Int)
         /\ bucket.slots \in Nat \ {0} /\ Len(bucket.arr) <= bucket.slots
         /\ Increasing(bucket.arr)
         /\ bucket = [arr |-> bucket.arr, slots |-> bucket.slots]
  <1>1. bucket.arr \in Seq(Words) /\ bucket.slots \in Nat \ {0}
    BY DEF Proper, Buckets
  <1>2. bucket.arr \in Seq(Int)
    BY <1>1, WordsAssumption, SeqMonotonic
  <1>3. bucket = [arr |-> bucket.arr, slots |-> bucket.slots]
    BY DEF Proper, Buckets
  <1> QED
    BY <1>1, <1>2, <1>3 DEF Proper

\* A bucket that was just allocated is proper and holds nothing.
LEMMA EmptyIsProper == Proper(EmptyBucket) /\ Range(EmptyBucket.arr) = {}
  <1>1. << >> \in Seq(Words) /\ Len(<< >>) = 0 /\ DOMAIN << >> = {}
    OBVIOUS
  <1>2. Increasing(<< >>)
    BY <1>1 DEF Increasing
  <1>3. InitSize \in Nat \ {0}
    BY SizesAssumption
  <1>4. Proper([arr |-> << >>, slots |-> InitSize])
    <2>1. Len(<< >>) <= InitSize
      BY <1>1, <1>3
    <2> QED
      BY <2>1, <1>1, <1>2, <1>3, ProperBucket
  <1>5. EmptyBucket.arr = << >>
    BY DEF EmptyBucket
  <1>6. Range(<< >>) = {}
    BY <1>1 DEF Range
  <1> QED
    BY <1>4, <1>5, <1>6 DEF EmptyBucket

\* ca_bucket_append of a word that the bucket does not hold, at the index of its search.
LEMMA AppendWord ==
  ASSUME NEW bucket, Proper(bucket), NEW word \in Words, word \notin Range(bucket.arr)
  PROVE  LET new == ca_bucket_append(bucket, Locate(bucket.arr, word), word)
         IN  Proper(new) /\ Range(new.arr) = Range(bucket.arr) \cup {word}
  <1> DEFINE arr == bucket.arr
             slots == bucket.slots
             k == Locate(arr, word)
             long == InsertAtIndex(arr, k, word)
             more == IF Len(arr) = slots THEN 2 * slots ELSE slots
  <1>1. /\ arr \in Seq(Words) /\ arr \in Seq(Int) /\ Increasing(arr) /\ word \in Int
        /\ slots \in Nat \ {0} /\ Len(arr) <= slots
    BY ProperFacts, WordsAssumption
  <1>2. word \notin Range(arr)
    OBVIOUS
  <1>3. ca_bucket_append(bucket, k, word) = [arr |-> long, slots |-> more]
    BY Zenon DEF ca_bucket_append
  <1> HIDE DEF arr, slots
  <1>4. k \in 0 .. Len(arr)
    BY <1>1, LocateFindsPlace DEF IsPlace
  <1>5. long \in Seq(Words)
    BY <1>1, <1>4, InsertElements
  <1>6. Len(long) = Len(arr) + 1 /\ Increasing(long) /\ Range(long) = Range(arr) \cup {word}
    BY <1>1, <1>2, InsertKeepsSorted
  <1> HIDE DEF long
  <1>7. more \in Nat \ {0} /\ Len(long) <= more
    BY <1>1, <1>6
  <1> HIDE DEF more, k
  <1>8. Proper([arr |-> long, slots |-> more])
    BY <1>5, <1>6, <1>7, ProperBucket
  <1> QED
    BY <1>3, <1>6, <1>8 DEF k, arr

\* AppendLast of a word that is above all words of the bucket.
LEMMA AppendLastWord ==
  ASSUME NEW bucket, Proper(bucket), NEW word \in Words,
         \A w \in Range(bucket.arr) : w < word
  PROVE  /\ Proper(AppendLast(bucket, word))
         /\ Range(AppendLast(bucket, word).arr) = Range(bucket.arr) \cup {word}
  <1> DEFINE arr == bucket.arr
             slots == bucket.slots
             long == Append(arr, word)
             more == IF Len(arr) = slots THEN 2 * slots ELSE slots
  <1>1. /\ arr \in Seq(Words) /\ arr \in Seq(Int) /\ Increasing(arr) /\ word \in Int
        /\ slots \in Nat \ {0} /\ Len(arr) <= slots
    BY ProperFacts, WordsAssumption
  <1>2. \A w \in Range(arr) : w < word
    OBVIOUS
  <1>3. AppendLast(bucket, word) = [arr |-> InsertAtIndex(arr, Len(arr), word), slots |-> more]
    BY Zenon DEF AppendLast, ca_bucket_append
  <1> HIDE DEF arr, slots
  <1>4. InsertAtIndex(arr, Len(arr), word) = long
    BY <1>1, InsertAtEnd
  <1>5. long \in Seq(Words)
    BY <1>1
  <1>6. Len(long) = Len(arr) + 1 /\ Increasing(long) /\ Range(long) = Range(arr) \cup {word}
    BY <1>1, <1>2, AppendKeepsSorted
  <1> HIDE DEF long
  <1>7. more \in Nat \ {0} /\ Len(long) <= more
    BY <1>1, <1>6
  <1> HIDE DEF more
  <1>8. Proper([arr |-> long, slots |-> more])
    BY <1>5, <1>6, <1>7, ProperBucket
  <1> QED
    BY <1>3, <1>4, <1>6, <1>8 DEF arr

\* ca_force_delete of a word that the bucket holds.
LEMMA RemoveWord ==
  ASSUME NEW bucket, Proper(bucket), NEW word \in Words, word \in Range(bucket.arr)
  PROVE  LET new == [bucket EXCEPT !.arr = RemoveAt(@, Locate(@, word) + 1)]
         IN  Proper(new) /\ Range(new.arr) = Range(bucket.arr) \ {word}
  <1> DEFINE arr == bucket.arr
             slots == bucket.slots
             k == Locate(arr, word) + 1
             short == RemoveAt(arr, k)
  <1>1. /\ arr \in Seq(Words) /\ arr \in Seq(Int) /\ Increasing(arr) /\ word \in Int
        /\ slots \in Nat \ {0} /\ Len(arr) <= slots
        /\ bucket = [arr |-> arr, slots |-> slots]
    BY ProperFacts, WordsAssumption
  <1>2. [bucket EXCEPT !.arr = RemoveAt(@, Locate(@, word) + 1)] = [arr |-> short, slots |-> slots]
    <2> HIDE DEF slots
    <2>1. bucket = [arr |-> arr, slots |-> slots]
      BY <1>1
    <2> DEFINE a == arr
    <2>2. a = bucket.arr
      OBVIOUS
    <2> HIDE DEF a
    <2> QED
      BY <1>1, <2>2
  <1>3. word \in Range(arr)
    OBVIOUS
  <1> HIDE DEF arr, slots
  <1>4. Len(short) = Len(arr) - 1 /\ Increasing(short) /\ Range(short) = Range(arr) \ {word}
    BY <1>1, <1>3, RemoveKeepsSorted
  <1>5. k \in 1 .. Len(arr)
    <2>1. Locate(arr, word) \in 0 .. Len(arr) /\ Holds(arr, word)
      BY <1>1, <1>3, LocateFindsPlace, HoldsIffPresent DEF IsPlace
    <2> QED
      BY <1>1, <2>1 DEF Holds
  <1>6. short \in Seq(Words)
    BY <1>1, <1>5, RemoveElements
  <1> HIDE DEF short, k
  <1>7. Len(short) <= slots
    BY <1>1, <1>4
  <1>8. Proper([arr |-> short, slots |-> slots])
    BY <1>1, <1>4, <1>6, <1>7, ProperBucket
  <1> QED
    BY <1>2, <1>4, <1>8 DEF arr

---------------------------------------------------------------------------
(* The division of a bucket.                                                *)

\* The two sides of a division.
Sides == [stay : Seq(Words), new : Buckets]

\* One round of the loop of split.
DivideWord(parts, word, old) ==
    IF hash_function_overflow(word) = old THEN [parts EXCEPT !.stay = Append(@, word)]
    ELSE [parts EXCEPT !.new = AppendLast(@, word)]

FirstWords(arr, n) == {arr[i] : i \in 1 .. n}

\* What the loop has done when it has been at the first n words.
DividedUpTo(arr, old, n, parts) ==
    /\ parts \in Sides
    /\ Len(parts.stay) <= n /\ Increasing(parts.stay)
    /\ Range(parts.stay) = {w \in FirstWords(arr, n) : hash_function_overflow(w) = old}
    /\ Proper(parts.new)
    /\ Range(parts.new.arr) = {w \in FirstWords(arr, n) : hash_function_overflow(w) # old}

\* A round puts the next word, which is above all earlier ones, at the end of its side.
LEMMA DivideKeeps ==
  ASSUME NEW arr \in Seq(Words), Increasing(arr), NEW old, NEW n \in Nat, n < Len(arr),
         NEW parts, DividedUpTo(arr, old, n, parts)
  PROVE  DividedUpTo(arr, old, n + 1, DivideWord(parts, arr[n + 1], old))
  <1> DEFINE word == arr[n + 1]
             stay == parts.stay
             new == parts.new
  <1>1. Len(arr) \in Nat /\ DOMAIN arr = 1 .. Len(arr) /\ n + 1 \in 1 .. Len(arr)
    OBVIOUS
  <1>2. word \in Words /\ word \in Int
    BY <1>1, WordsAssumption
  <1>3. /\ stay \in Seq(Words) /\ Len(stay) <= n /\ Increasing(stay)
        /\ Range(stay) = {w \in FirstWords(arr, n) : hash_function_overflow(w) = old}
        /\ Proper(new) /\ new \in Buckets
        /\ Range(new.arr) = {w \in FirstWords(arr, n) : hash_function_overflow(w) # old}
        /\ parts = [stay |-> stay, new |-> new]
    <2>1. parts \in Sides
      BY DEF DividedUpTo
    <2>2. stay \in Seq(Words) /\ new \in Buckets /\ parts = [stay |-> stay, new |-> new]
      BY <2>1 DEF Sides
    <2> QED
      BY <2>2 DEF DividedUpTo
  <1>4. stay \in Seq(Int) /\ Len(stay) \in Nat
    BY <1>3, WordsAssumption, SeqMonotonic
  <1> DEFINE first == FirstWords(arr, n)
  <1>5. /\ FirstWords(arr, n + 1) = first \cup {word}
        /\ \A w \in first : w < word
    <2>1. 1 .. n + 1 = (1 .. n) \cup {n + 1}
      OBVIOUS
    <2>2. FirstWords(arr, n + 1) = first \cup {word}
      BY <2>1 DEF FirstWords
    <2>3. ASSUME NEW i \in 1 .. n
          PROVE  arr[i] < word
      <3>1. i \in DOMAIN arr /\ n + 1 \in DOMAIN arr /\ i < n + 1
        BY <1>1
      <3> QED
        BY <3>1 DEF Increasing
    <2> QED
      BY <2>2, <2>3 DEF FirstWords
  <1>6. DivideWord(parts, word, old) =
           IF hash_function_overflow(word) = old
           THEN [stay |-> Append(stay, word), new |-> new]
           ELSE [stay |-> stay, new |-> AppendLast(new, word)]
    <2> HIDE DEF stay, new, word
    <2>1. parts.stay = stay /\ parts.new = new
      BY DEF stay, new
    <2>2. parts = [stay |-> stay, new |-> new]
      BY <1>3
    <2>3. /\ [parts EXCEPT !.stay = Append(@, word)] = [stay |-> Append(stay, word), new |-> new]
          /\ [parts EXCEPT !.new = AppendLast(@, word)]
                = [stay |-> stay, new |-> AppendLast(new, word)]
      BY ONLY <2>1, <2>2
    <2> QED
      BY <2>3, Zenon DEF DivideWord
  <1> HIDE DEF word, stay, new, first
  <1>7. CASE hash_function_overflow(word) = old
    <2> DEFINE long == Append(stay, word)
    <2>1. long \in Seq(Words)
      BY <1>2, <1>3
    <2>2. \A w \in Range(stay) : w < word
      BY <1>3, <1>5 DEF first
    <2>3. Len(long) = Len(stay) + 1 /\ Increasing(long) /\ Range(long) = Range(stay) \cup {word}
      BY <1>2, <1>3, <1>4, <2>2, AppendKeepsSorted
    <2> HIDE DEF long
    <2> DEFINE parts1 == [stay |-> long, new |-> new]
    <2>4. parts1 \in Sides /\ parts1.stay = long /\ parts1.new = new
      BY <1>3, <2>1 DEF Sides
    <2>5. Len(long) <= n + 1
      BY <1>3, <1>4, <2>3
    <2>6. Range(long) = {w \in first \cup {word} : hash_function_overflow(w) = old}
      BY <1>3, <1>7, <2>3 DEF first
    <2>7. Range(new.arr) = {w \in first \cup {word} : hash_function_overflow(w) # old}
      BY <1>3, <1>7 DEF first
    <2>8. DivideWord(parts, word, old) = parts1
      BY <1>6, <1>7 DEF long
    <2> HIDE DEF parts1
    <2>9. DividedUpTo(arr, old, n + 1, parts1)
      BY <1>3, <1>5, <2>3, <2>4, <2>5, <2>6, <2>7 DEF DividedUpTo
    <2> QED
      BY <2>8, <2>9 DEF word
  <1>8. CASE hash_function_overflow(word) # old
    <2> DEFINE long == AppendLast(new, word)
    <2>1. \A w \in Range(new.arr) : w < word
      BY <1>3, <1>5 DEF first
    <2>2. Proper(long) /\ Range(long.arr) = Range(new.arr) \cup {word}
      BY <1>2, <1>3, <2>1, AppendLastWord
    <2> HIDE DEF long
    <2> DEFINE parts1 == [stay |-> stay, new |-> long]
    <2>3. long \in Buckets
      BY <2>2 DEF Proper
    <2>4. parts1 \in Sides /\ parts1.stay = stay /\ parts1.new = long
      BY <1>3, <2>3 DEF Sides
    <2>5. Len(stay) <= n + 1
      BY <1>3, <1>4
    <2>6. Range(stay) = {w \in first \cup {word} : hash_function_overflow(w) = old}
      BY <1>3, <1>8 DEF first
    <2>7. Range(long.arr) = {w \in first \cup {word} : hash_function_overflow(w) # old}
      BY <1>3, <1>8, <2>2 DEF first
    <2>8. DivideWord(parts, word, old) = parts1
      BY <1>6, <1>8 DEF long
    <2> HIDE DEF parts1
    <2>9. DividedUpTo(arr, old, n + 1, parts1)
      BY <1>3, <1>5, <2>2, <2>4, <2>5, <2>6, <2>7 DEF DividedUpTo
    <2> QED
      BY <2>8, <2>9 DEF word
  <1> QED
    BY <1>7, <1>8

\* The loop has a result: its value is that of a function which takes one round per word.
LEMMA DivisionExists ==
  ASSUME NEW arr \in Seq(Words), NEW old
  PROVE  \E divided :
            /\ divided = [n \in 0 .. Len(arr) |->
                             IF n = 0 THEN [stay |-> <<>>, new |-> EmptyBucket]
                             ELSE DivideWord(divided[n - 1], arr[n], old)]
            /\ Divided(arr, old) = divided[Len(arr)]
  <1> DEFINE N == Len(arr)
             start == [stay |-> <<>>, new |-> EmptyBucket]
             D == [g \in [0 .. N -> Sides] |->
                      [n \in 0 .. N |-> IF n = 0 THEN start
                                        ELSE DivideWord(g[n - 1], arr[n], old)]]
             depth == [n \in 0 .. N |-> n]
  <1>1. N \in Nat /\ \A n \in 1 .. N : arr[n] \in Words
    OBVIOUS
  <1>2. start \in Sides
    <2>1. EmptyBucket \in Buckets
      BY EmptyIsProper DEF Proper
    <2> QED
      BY <2>1 DEF Sides
  <1>3. ASSUME NEW parts \in Sides, NEW word \in Words
        PROVE  DivideWord(parts, word, old) \in Sides
    <2>1. parts.stay \in Seq(Words) /\ parts.new \in Buckets
      BY DEF Sides
    <2>2. Append(parts.stay, word) \in Seq(Words)
      BY <2>1
    <2>3. AppendLast(parts.new, word) \in Buckets
      <3> DEFINE bucket == parts.new
      <3>1. bucket.arr \in Seq(Words) /\ bucket.slots \in Nat \ {0}
        BY <2>1 DEF Buckets
      <3> HIDE DEF bucket
      <3>2. InsertAtIndex(bucket.arr, Len(bucket.arr), word) \in Seq(Words)
        <4>1. InsertAtIndex(bucket.arr, Len(bucket.arr), word) = Append(bucket.arr, word)
          BY <3>1, InsertAtEnd
        <4>2. Append(bucket.arr, word) \in Seq(Words)
          BY <3>1
        <4> QED
          BY <4>1, <4>2
      <3>3. AppendLast(bucket, word) \in Buckets
        BY <3>1, <3>2 DEF AppendLast, ca_bucket_append, Buckets
      <3> QED
        BY <3>3 DEF bucket
    <2> QED
      BY <2>2, <2>3 DEF DivideWord, Sides
  <1> HIDE DEF N, start
  <1>4. D \in [[0 .. N -> Sides] -> [0 .. N -> Sides]]
    <2> SUFFICES ASSUME NEW g \in [0 .. N -> Sides], NEW n \in 0 .. N
                 PROVE  (IF n = 0 THEN start ELSE DivideWord(g[n - 1], arr[n], old)) \in Sides
      OBVIOUS
    <2>1. n # 0 => n \in 1 .. N /\ n - 1 \in 0 .. N
      BY <1>1
    <2> QED
      BY <1>1, <1>2, <1>3, <2>1
  <1>5. depth \in [0 .. N -> Nat] /\ N + 1 \in Nat /\ \A n \in 0 .. N : depth[n] < N + 1
    BY <1>1
  <1>6. ASSUME NEW g \in [0 .. N -> Sides], NEW h \in [0 .. N -> Sides], NEW n \in 0 .. N,
               \A m \in 0 .. N : depth[m] < depth[n] => g[m] = h[m]
        PROVE  D[g][n] = D[h][n]
    <2>1. n # 0 => n - 1 \in 0 .. N /\ depth[n - 1] < depth[n]
      BY <1>1
    <2>2. n # 0 => g[n - 1] = h[n - 1]
      BY <1>6, <2>1
    <2> QED
      BY <2>2
  <1>7. PICK f \in [0 .. N -> Sides] : f = D[f]
    <2>1. Sides # {}
      BY <1>2
    <2> HIDE DEF D, depth
    <2>2. BoundedDescent(D, depth, N + 1, 0 .. N, Sides)
      BY <1>4, <1>5, <1>6, <2>1 DEF BoundedDescent
    <2> DEFINE S == 0 .. N
    <2> HIDE DEF S
    <2>3. BoundedDescent(D, depth, N + 1, S, Sides)
      BY <2>2 DEF S
    <2>4. \E f \in [S -> Sides] : f = D[f]
      BY <2>3, BoundedRecursion
    <2> QED
      BY <2>4 DEF S
  <1>8. f = [n \in 0 .. N |-> IF n = 0 THEN start ELSE DivideWord(f[n - 1], arr[n], old)]
    BY <1>7, Zenon
  <1> DEFINE divided == CHOOSE g : g = [n \in 0 .. N |->
                                          IF n = 0 THEN start
                                          ELSE DivideWord(g[n - 1], arr[n], old)]
  <1>9. divided = [n \in 0 .. N |-> IF n = 0 THEN start
                                    ELSE DivideWord(divided[n - 1], arr[n], old)]
    BY <1>8, Zenon
  <1>10. Divided(arr, old) = divided[N]
    BY Zenon DEF Divided, DivideWord, N, start
  <1> HIDE DEF divided
  <1> QED
    BY <1>9, <1>10 DEF N, start

\* split leaves in the old bucket the words that the second hash function sends there,
\* and the others are in the new bucket; both arrays are sorted.
LEMMA DividesAll ==
  ASSUME NEW arr \in Seq(Words), Increasing(arr), NEW old
  PROVE  DividedUpTo(arr, old, Len(arr), Divided(arr, old))
  <1> DEFINE N == Len(arr)
             start == [stay |-> <<>>, new |-> EmptyBucket]
  <1>1. PICK divided :
            /\ divided = [n \in 0 .. N |-> IF n = 0 THEN start
                                           ELSE DivideWord(divided[n - 1], arr[n], old)]
            /\ Divided(arr, old) = divided[N]
    BY DivisionExists
  <1>2. N \in Nat
    OBVIOUS
  <1> DEFINE P == {n \in Nat : n <= N => DividedUpTo(arr, old, n, divided[n])}
  <1>3. 0 \in P
    <2>1. start \in Sides /\ start.stay = << >> /\ start.new = EmptyBucket
      <3>1. EmptyBucket \in Buckets
        BY EmptyIsProper DEF Proper
      <3> QED
        BY <3>1 DEF Sides
    <2>2. Len(<< >>) <= 0 /\ Increasing(<< >>) /\ Range(<< >>) = {}
      BY DEF Increasing, Range
    <2>3. FirstWords(arr, 0) = {}
      BY DEF FirstWords
    <2>4. divided[0] = start
      BY <1>1, <1>2
    <2> HIDE DEF start
    <2>5. DividedUpTo(arr, old, 0, start)
      BY <2>1, <2>2, <2>3, EmptyIsProper DEF DividedUpTo
    <2> QED
      BY <2>4, <2>5
  <1>4. ASSUME NEW n \in P
        PROVE  n + 1 \in P
    <2>1. n \in Nat
      OBVIOUS
    <2>2. CASE n < N
      <3>1. DividedUpTo(arr, old, n, divided[n])
        BY <1>2, <2>2
      <3>2. divided[n + 1] = DivideWord(divided[n], arr[n + 1], old)
        <4>1. n + 1 \in 0 .. N /\ n + 1 # 0 /\ (n + 1) - 1 = n
          BY <1>2, <2>1, <2>2
        <4> QED
          BY <1>1, <4>1
      <3> HIDE DEF P
      <3>3. DividedUpTo(arr, old, n + 1, DivideWord(divided[n], arr[n + 1], old))
        BY <2>1, <2>2, <3>1, DivideKeeps
      <3> QED
        BY <2>1, <3>2, <3>3 DEF P
    <2>3. CASE ~(n < N)
      BY <1>2, <2>1, <2>3
    <2> QED
      BY <2>2, <2>3
  <1>5. P = Nat
    <2>1. P \in SUBSET Nat
      OBVIOUS
    <2> HIDE DEF P
    <2> QED
      BY <1>3, <1>4, <2>1, Induction
  <1>6. N \in P
    BY <1>2, <1>5
  <1>7. DividedUpTo(arr, old, N, divided[N])
    BY <1>2, <1>6
  <1> QED
    BY <1>1, <1>7

ProperTable(buckets, n) == /\ buckets \in [0 .. n - 1 -> Buckets]
                           /\ \A b \in 0 .. n - 1 : Proper(buckets[b])

IsSplit(new, buckets, old, n) ==
    /\ new \in [0 .. n -> Buckets]
    /\ \A b \in 0 .. n : Proper(new[b])
    /\ \A b \in 0 .. n - 1 : b # old => new[b] = buckets[b]
    /\ Range(new[old].arr) = {w \in Range(buckets[old].arr) : hash_function_overflow(w) = old}
    /\ Range(new[n].arr) = {w \in Range(buckets[old].arr) : hash_function_overflow(w) # old}

\* The whole division: bucket old keeps its side, the new bucket n has the other one, and
\* no other bucket changes.
LEMMA SplitBuckets ==
  ASSUME NEW n \in Nat, size = n, NEW buckets, ProperTable(buckets, n),
         NEW old \in 0 .. n - 1
  PROVE  IsSplit(split(buckets, old), buckets, old, n)
  <1> DEFINE arr == buckets[old].arr
             slots == buckets[old].slots
             parts == Divided(arr, old)
             kept == [arr |-> parts.stay, slots |-> slots]
             staying == [buckets EXCEPT ![old].arr = parts.stay]
             new == [b \in 0 .. n |-> IF b = n THEN parts.new ELSE staying[b]]
  <1>0. /\ buckets \in [0 .. n - 1 -> Buckets]
        /\ \A b \in 0 .. n - 1 : Proper(buckets[b])
    BY DEF ProperTable
  <1>1. /\ arr \in Seq(Words) /\ Increasing(arr) /\ Len(arr) <= slots /\ slots \in Nat \ {0}
        /\ buckets[old] = [arr |-> arr, slots |-> slots]
    <2> DEFINE bucket == buckets[old]
    <2>1. Proper(bucket)
      BY <1>0
    <2> HIDE DEF bucket
    <2> QED
      BY <2>1, ProperFacts DEF bucket
  <1>2. Range(arr) = FirstWords(arr, Len(arr))
    <2>1. DOMAIN arr = 1 .. Len(arr)
      BY <1>1
    <2> QED
      BY <2>1 DEF Range, FirstWords
  <1>3. /\ parts.stay \in Seq(Words) /\ Len(parts.stay) <= Len(arr) /\ Increasing(parts.stay)
        /\ Range(parts.stay) = {w \in Range(arr) : hash_function_overflow(w) = old}
        /\ Proper(parts.new)
        /\ Range(parts.new.arr) = {w \in Range(arr) : hash_function_overflow(w) # old}
    <2> HIDE DEF arr, parts
    <2>1. DividedUpTo(arr, old, Len(arr), parts)
      BY <1>1, DividesAll DEF parts
    <2>2. parts.stay \in Seq(Words)
      BY <2>1 DEF DividedUpTo, Sides
    <2> QED
      BY <1>2, <2>1, <2>2 DEF DividedUpTo
  <1>4. split(buckets, old) = new
    <2>1. DOMAIN buckets \cup {size} = 0 .. n
      BY <1>0
    <2> QED
      BY <2>1, Zenon DEF split
  <1> HIDE DEF arr, slots, parts
  <1>5. staying[old] = kept
    <2>1. staying[old] = [buckets[old] EXCEPT !.arr = parts.stay]
      BY <1>0
    <2> QED
      BY <1>1, <2>1
  <1>6. \A b \in 0 .. n - 1 : b # old => staying[b] = buckets[b]
    BY <1>0
  <1>7. Proper(kept)
    <2>1. Len(parts.stay) <= slots
      <3>1. Len(parts.stay) \in Nat /\ Len(arr) \in Nat
        BY <1>1, <1>3
      <3> QED
        BY <1>1, <1>3, <3>1
    <2> QED
      BY <1>1, <1>3, <2>1, ProperBucket
  <1>8. new[n] = parts.new /\ \A b \in 0 .. n - 1 : new[b] = staying[b]
    OBVIOUS
  <1>9. new[old] = kept /\ kept.arr = parts.stay
    BY <1>5, <1>8
  <1>10. DOMAIN new = 0 .. n /\ 0 .. n = (0 .. n - 1) \cup {n} /\ new = [b \in 0 .. n |-> new[b]]
    OBVIOUS
  <1> HIDE DEF new, kept, staying
  <1>11. \A b \in 0 .. n : Proper(new[b])
    <2> SUFFICES ASSUME NEW b \in 0 .. n
                 PROVE  Proper(new[b])
      OBVIOUS
    <2>1. CASE b = n
      BY <1>3, <1>8, <2>1
    <2>2. CASE b = old
      BY <1>7, <1>9, <2>2
    <2>3. CASE b \in 0 .. n - 1 /\ b # old
      BY <1>0, <1>6, <1>8, <2>3
    <2> QED
      BY <1>10, <2>1, <2>2, <2>3
  <1>12. new \in [0 .. n -> Buckets]
    <2>1. \A b \in 0 .. n : new[b] \in Buckets
      BY <1>11 DEF Proper
    <2> QED
      BY <1>10, <2>1
  <1>13. \A b \in 0 .. n - 1 : b # old => new[b] = buckets[b]
    BY <1>6, <1>8
  <1> QED
    BY <1>3, <1>4, <1>8, <1>9, <1>11, <1>12, <1>13 DEF arr, IsSplit

---------------------------------------------------------------------------
(* The invariant holds at the start, and every operation keeps it.          *)

\* The number of buckets, when they are numbered from 0.
LEMMA SizeOfTable ==
  ASSUME NEW n \in Nat, NEW buckets, DOMAIN buckets = 0 .. n - 1
  PROVE  Cardinality(DOMAIN buckets) = n
  BY FS_Interval

\* The table that hashtable_init makes is empty.
LEMMA InvInit == Init => IInv /\ HeldWords = {}
  <1> SUFFICES ASSUME Init
               PROVE  IInv /\ HeldWords = {}
    OBVIOUS
  <1> DEFINE n == HASH_BUCKETS_INIT
  <1>1. n \in Nat \ {0}
    BY SizesAssumption
  <1>2. /\ ca_bucket = [b \in 0 .. n - 1 |-> EmptyBucket]
        /\ p = 0 /\ init_size = n /\ mask = n - 1 /\ ov_mask = 2 * n - 1
    BY DEF Init
  <1> HIDE DEF n
  <1>3. size = n
    BY <1>1, <1>2, SizeOfTable DEF size
  <1>4. EmptyBucket \in Buckets
    BY EmptyIsProper DEF Proper
  <1>5. BucketsInv
    BY <1>1, <1>2, <1>3, <1>4, EmptyIsProper DEF BucketsInv
  <1>6. RoundInv
    BY <1>1, <1>2, <1>3 DEF RoundInv, RoundsInStep
  <1>7. \A b \in 0 .. size - 1 : Held(b) = {}
    BY <1>2, <1>3, EmptyIsProper DEF Held
  <1> QED
    BY <1>5, <1>6, <1>7 DEF IInv, PlacedInv, HeldWords

\* What the invariant says of a search: it looks where the word would be.
LEMMA SearchFinds ==
  ASSUME IInv, NEW word \in Words
  PROVE  /\ hash_get_bucket(word) \in 0 .. size - 1
         /\ hash_get_bucket(word) = Address(Code[word], p, init_size)
         /\ Proper(ca_bucket[hash_get_bucket(word)])
         /\ hashtable_search(word) <=> word \in Held(hash_get_bucket(word))
  <1> DEFINE b == hash_get_bucket(word)
             bucket == ca_bucket[b]
  <1>1. b \in 0 .. size - 1 /\ b = Address(Code[word], p, init_size)
    BY BucketAddress DEF IInv
  <1>2. Proper(bucket)
    BY <1>1 DEF IInv, BucketsInv
  <1>3. hashtable_search(word) <=> Holds(bucket.arr, word)
    BY DEF hashtable_search
  <1> HIDE DEF bucket
  <1>4. bucket.arr \in Seq(Int) /\ Increasing(bucket.arr) /\ word \in Int
    BY <1>2, ProperFacts, WordsAssumption
  <1>5. Holds(bucket.arr, word) <=> word \in Range(bucket.arr)
    BY <1>4, HoldsIffPresent
  <1> QED
    BY <1>1, <1>2, <1>3, <1>5 DEF bucket, Held

\* A search finds the words in the table.
LEMMA SearchedIsHeld == IInv => {word \in Words : hashtable_search(word)} = HeldWords
  <1> SUFFICES ASSUME IInv, NEW word \in Words
               PROVE  hashtable_search(word) <=> \E b \in 0 .. size - 1 : word \in Held(b)
    BY DEF HeldWords
  <1>1. \A b \in 0 .. size - 1 : word \in Held(b) => b = hash_get_bucket(word)
    BY SearchFinds DEF IInv, PlacedInv
  <1> QED
    BY <1>1, SearchFinds

\* An operation on one bucket, which leaves only words of that address in it.
LEMMA OneBucket ==
  ASSUME IInv, NEW b \in 0 .. size - 1, NEW new, Proper(new),
         \A w \in Range(new.arr) : Address(Code[w], p, init_size) = b,
         ca_bucket' = [ca_bucket EXCEPT ![b] = new],
         UNCHANGED <<p, init_size, mask, ov_mask>>
  PROVE  /\ IInv'
         /\ size' = size /\ Held(b)' = Range(new.arr)
         /\ \A c \in 0 .. size - 1 : c # b => Held(c)' = Held(c)
  <1> DEFINE n == size
  <1>1. /\ n \in Nat /\ DOMAIN ca_bucket = 0 .. n - 1 /\ ca_bucket \in [0 .. n - 1 -> Buckets]
        /\ \A c \in 0 .. n - 1 : Proper(ca_bucket[c])
    BY DEF IInv, BucketsInv
  <1>2. DOMAIN ca_bucket' = 0 .. n - 1
    BY <1>1
  <1> HIDE DEF n
  <1>3. size' = n
    BY <1>1, <1>2, SizeOfTable DEF size
  <1>4. /\ ca_bucket'[b] = new
        /\ \A c \in 0 .. n - 1 : c # b => ca_bucket'[c] = ca_bucket[c]
    BY <1>1 DEF n
  <1>5. ca_bucket' \in [0 .. n - 1 -> Buckets]
    <2>1. new \in Buckets
      BY DEF Proper
    <2> QED
      BY <1>1, <2>1
  <1>6. BucketsInv'
    <2>1. \A c \in 0 .. n - 1 : Proper(ca_bucket'[c])
      BY <1>1, <1>4
    <2> QED
      BY <1>1, <1>2, <1>3, <1>5, <2>1 DEF BucketsInv
  <1>7. RoundInv'
    <2>1. size' = size
      BY <1>3 DEF n
    <2> QED
      BY <2>1 DEF IInv, RoundInv, RoundsInStep
  <1>8. Held(b)' = Range(new.arr) /\ \A c \in 0 .. n - 1 : c # b => Held(c)' = Held(c)
    BY <1>4 DEF Held
  <1>9. PlacedInv'
    <2> SUFFICES ASSUME NEW c \in 0 .. n - 1, NEW w \in Held(c)'
                 PROVE  Address(Code[w], p, init_size) = c
      BY <1>3 DEF PlacedInv
    <2>1. CASE c = b
      BY <1>8, <2>1
    <2>2. CASE c # b
      BY <1>8, <2>2 DEF IInv, PlacedInv, n
    <2> QED
      BY <2>1, <2>2
  <1> QED
    BY <1>3, <1>6, <1>7, <1>8, <1>9 DEF IInv, n

\* The fields at the next round: the addresses are those of p + 1 in the round that ran.
LEMMA RoundStep ==
  ASSUME IInv, update_round, NextRound, size' = size + 1
  PROVE  /\ RoundInv'
         /\ \A c \in Nat : Address(c, p', init_size') = Address(c, p + 1, init_size)
  <1> DEFINE m == init_size
  <1>1. /\ p \in Nat /\ m \in Nat \ {0} /\ mask \in Nat /\ ov_mask \in Nat
        /\ p < m /\ size = m + p /\ mask + 1 = m /\ ov_mask + 1 = 2 * m
    BY DEF IInv, RoundInv, RoundsInStep
  <1>2. CASE p + 1 < m
    <2>1. p' = p + 1 /\ UNCHANGED <<init_size, mask, ov_mask>>
      BY <1>1, <1>2 DEF update_round, NextRound
    <2>2. size' = m + (p + 1)
      BY <1>1
    <2> QED
      BY <1>1, <1>2, <2>1, <2>2 DEF RoundInv, RoundsInStep
  <1>3. CASE p + 1 = m
    <2>1. p = m - 1
      BY <1>1, <1>3
    <2>2. p' = 0
      BY <2>1 DEF update_round
    <2>3. init_size' = size + 1 /\ mask' = 2 * mask + 1 /\ ov_mask' = 2 * mask' + 1
      BY <2>2 DEF NextRound
    <2>4. size + 1 = 2 * m
      BY <1>1, <2>1
    <2>5. /\ init_size' = 2 * m /\ init_size' \in Nat \ {0} /\ p' < init_size'
          /\ size' = init_size' + p' /\ mask' + 1 = 2 * m /\ mask' \in Nat
          /\ ov_mask' \in Nat /\ ov_mask' + 1 = 2 * (2 * m)
      BY <1>1, <2>2, <2>3, <2>4
    <2>6. RoundInv'
      BY <1>1, <2>2, <2>5 DEF RoundInv, RoundsInStep
    <2>7. ASSUME NEW c \in Nat
          PROVE  Address(c, p', init_size') = Address(c, p + 1, init_size)
      <3>1. Address(c, m, m) = Address(c, 0, 2 * m)
        BY <1>1, AddressNextRound
      <3> QED
        BY <1>3, <2>2, <2>5, <3>1
    <2> QED
      BY <2>6, <2>7
  <1> QED
    BY <1>1, <1>2, <1>3

\* An overflow: the word is in its bucket, and bucket p is divided.
LEMMA OverflowEffect ==
  ASSUME IInv, NEW word \in Words, word \notin Held(hash_get_bucket(word)),
         NEW appended,
         appended = [ca_bucket EXCEPT ![hash_get_bucket(word)] =
                        ca_bucket_append(@, Locate(@.arr, word), word)],
         update_round, ca_bucket' = split(appended, p), NextRound
  PROVE  IInv' /\ HeldWords' = HeldWords \cup {word}
  <1> DEFINE n == size
             b == hash_get_bucket(word)
             m == init_size
             new == ca_bucket_append(ca_bucket[b], Locate(ca_bucket[b].arr, word), word)
             In(c) == Range(appended[c].arr)
             After(c) == Range(ca_bucket'[c].arr)
  <1>1. /\ n \in Nat /\ DOMAIN ca_bucket = 0 .. n - 1 /\ ca_bucket \in [0 .. n - 1 -> Buckets]
        /\ \A c \in 0 .. n - 1 : Proper(ca_bucket[c])
    BY DEF IInv, BucketsInv
  <1>2. /\ p \in 0 .. n - 1 /\ p \in 0 .. m - 1 /\ n = m + p /\ m \in Nat \ {0} /\ p \in Nat
    BY DEF IInv, RoundInv, RoundsInStep
  <1>3. /\ b \in 0 .. n - 1 /\ b = Address(Code[word], p, m) /\ Proper(ca_bucket[b])
        /\ word \notin Range(ca_bucket[b].arr)
    BY SearchFinds DEF Held
  <1>4. Proper(new) /\ Range(new.arr) = Range(ca_bucket[b].arr) \cup {word}
    <2> DEFINE bucket == ca_bucket[b]
    <2>1. Proper(bucket) /\ word \notin Range(bucket.arr)
      BY <1>3
    <2> HIDE DEF bucket
    <2> QED
      BY <2>1, AppendWord DEF bucket
  <1>5. appended = [ca_bucket EXCEPT ![b] = new]
    BY Zenon
  <1> HIDE DEF new, b, n
  <1>6. /\ appended \in [0 .. n - 1 -> Buckets] /\ appended[b] = new
        /\ \A c \in 0 .. n - 1 : c # b => appended[c] = ca_bucket[c]
    <2>1. new \in Buckets
      BY <1>4 DEF Proper
    <2> QED
      BY <1>1, <1>3, <1>5, <2>1
  <1>7. \A c \in 0 .. n - 1 : Proper(appended[c])
    BY <1>1, <1>4, <1>6
  <1>8. /\ In(b) = Held(b) \cup {word}
        /\ \A c \in 0 .. n - 1 : c # b => In(c) = Held(c)
    BY <1>4, <1>6 DEF Held
  <1>9. ASSUME NEW c \in 0 .. n - 1, NEW w \in In(c)
        PROVE  w \in Words /\ Code[w] \in Nat /\ Address(Code[w], p, m) = c
    <2>1. w \in Words
      <3>1. appended[c].arr \in Seq(Words)
        BY <1>7, ProperFacts
      <3> QED
        BY <3>1 DEF Range
    <2>2. Address(Code[w], p, m) = c
      <3>1. CASE w = word /\ c = b
        BY <1>3, <3>1 DEF b
      <3>2. CASE w \in Held(c)
        BY <3>2 DEF IInv, PlacedInv, n
      <3> QED
        BY <1>8, <3>1, <3>2
    <2> QED
      BY <2>1, <2>2, WordsAssumption
  <1>10. /\ ca_bucket' \in [0 .. n -> Buckets]
         /\ \A c \in 0 .. n : Proper(ca_bucket'[c])
         /\ \A c \in 0 .. n - 1 : c # p => ca_bucket'[c] = appended[c]
         /\ Range(ca_bucket'[p].arr) = {w \in In(p) : hash_function_overflow(w) = p}
         /\ Range(ca_bucket'[n].arr) = {w \in In(p) : hash_function_overflow(w) # p}
    <2>1. size = n
      BY DEF n
    <2>2. ProperTable(appended, n)
      BY <1>6, <1>7 DEF ProperTable
    <2>3. IsSplit(ca_bucket', appended, p, n)
      BY <1>1, <1>2, <2>1, <2>2, SplitBuckets
    <2> QED
      BY <2>3 DEF IsSplit
  <1> HIDE DEF In
  <1>11. size' = n + 1
    <2>1. DOMAIN ca_bucket' = 0 .. (n + 1) - 1 /\ n + 1 \in Nat
      BY <1>1, <1>10
    <2> DEFINE k == n + 1
    <2> HIDE DEF k
    <2>2. DOMAIN ca_bucket' = 0 .. k - 1 /\ k \in Nat
      BY <2>1 DEF k
    <2>3. Cardinality(DOMAIN ca_bucket') = k
      BY <2>2, SizeOfTable
    <2> QED
      BY <2>3 DEF size, k
  <1>12. BucketsInv'
    <2>1. 0 .. size' - 1 = 0 .. n /\ size' \in Nat
      BY <1>1, <1>11
    <2> QED
      BY <1>10, <2>1 DEF BucketsInv
  <1>13. /\ RoundInv'
         /\ \A c \in Nat : Address(c, p', init_size') = Address(c, p + 1, m)
    BY <1>11, RoundStep DEF n
  <1>14. /\ After(p) = {w \in In(p) : hash_function_overflow(w) = p}
         /\ After(n) = {w \in In(p) : hash_function_overflow(w) # p}
         /\ \A c \in 0 .. n - 1 : c # p => After(c) = In(c)
    BY <1>10 DEF In
  <1> HIDE DEF After
  <1>15. ASSUME NEW c \in 0 .. n - 1, NEW w \in In(c)
         PROVE  IF c # p THEN Address(Code[w], p', init_size') = c
                ELSE IF hash_function_overflow(w) = p
                     THEN Address(Code[w], p', init_size') = p
                     ELSE Address(Code[w], p', init_size') = n
    <2>1. w \in Words /\ Code[w] \in Nat /\ Address(Code[w], p, m) = c
      BY <1>9
    <2>2. Address(Code[w], p', init_size') = Address(Code[w], p + 1, m)
      BY <1>13, <2>1
    <2>3. hash_function_overflow(w) = Code[w] % (2 * m)
      BY <2>1, BucketAddress DEF IInv
    <2>4. /\ c # p => Address(Code[w], p + 1, m) = c
          /\ c = p => /\ Address(Code[w], p + 1, m) = Code[w] % (2 * m)
                      /\ Code[w] % (2 * m) \in {p, m + p}
      BY <1>2, <2>1, AddressDivided
    <2> QED
      BY <1>2, <2>2, <2>3, <2>4
  <1>16. PlacedInv'
    <2> SUFFICES ASSUME NEW c \in 0 .. n, NEW w \in After(c)
                 PROVE  Address(Code[w], p', init_size') = c
      <3>1. 0 .. size' - 1 = 0 .. n
        BY <1>1, <1>11
      <3> QED
        BY <3>1 DEF PlacedInv, Held, After
    <2>1. c \in 0 .. n - 1 \/ c = n
      BY <1>1
    <2>2. CASE c = p
      BY <1>2, <1>14, <1>15, <2>2
    <2>3. CASE c = n
      BY <1>2, <1>14, <1>15, <2>3
    <2>4. CASE c \in 0 .. n - 1 /\ c # p
      BY <1>14, <1>15, <2>4
    <2> QED
      BY <2>1, <2>2, <2>3, <2>4
  <1>17. HeldWords' = HeldWords \cup {word}
    <2>1. 0 .. size' - 1 = 0 .. n /\ 0 .. n = (0 .. n - 1) \cup {n} /\ 0 .. size - 1 = 0 .. n - 1
      BY <1>1, <1>11 DEF n
    <2>2. ASSUME NEW w \in Words
          PROVE  (\E c \in 0 .. n : w \in After(c))
                    <=> (\E c \in 0 .. n - 1 : w \in In(c))
      BY <1>2, <1>14, <2>1
    <2>3. ASSUME NEW w \in Words
          PROVE  (\E c \in 0 .. n - 1 : w \in In(c))
                    <=> (\E c \in 0 .. n - 1 : w \in Held(c)) \/ w = word
      BY <1>3, <1>8 DEF b
    <2>4. HeldWords' = {w \in Words : \E c \in 0 .. n : w \in After(c)}
      BY <2>1, Zenon DEF HeldWords, Held, After
    <2>5. HeldWords = {w \in Words : \E c \in 0 .. n - 1 : w \in Held(c)}
      BY <2>1, Zenon DEF HeldWords
    <2> QED
      BY <2>2, <2>3, <2>4, <2>5
  <1> QED
    BY <1>12, <1>13, <1>16, <1>17 DEF IInv

\* hashtable_insert adds its word and nothing else.
LEMMA InsertEffect ==
  ASSUME IInv, NEW word \in Words, hashtable_insert(word)
  PROVE  IInv' /\ HeldWords' = HeldWords \cup {word}
  <1>0. PICK b : b = hash_get_bucket(word)
    OBVIOUS
  <1> DEFINE bucket == ca_bucket[b]
             new == ca_bucket_append(bucket, Locate(bucket.arr, word), word)
             appended == [ca_bucket EXCEPT ![b] =
                             ca_bucket_append(@, Locate(@.arr, word), word)]
  <1>1. /\ b \in 0 .. size - 1 /\ b = Address(Code[word], p, init_size)
        /\ Proper(bucket) /\ word \notin Held(b)
    BY <1>0, SearchFinds DEF hashtable_insert
  <1>2. Proper(new) /\ Range(new.arr) = Held(b) \cup {word}
    <2>1. word \notin Range(bucket.arr) /\ Held(b) = Range(bucket.arr)
      BY <1>1 DEF Held
    <2> HIDE DEF bucket
    <2> QED
      BY <1>1, <2>1, AppendWord
  <1>3. appended = [ca_bucket EXCEPT ![b] = new]
    BY Zenon
  <1>4. \/ ca_bucket' = appended /\ UNCHANGED <<p, init_size, mask, ov_mask>>
        \/ update_round /\ ca_bucket' = split(appended, p) /\ NextRound
    BY <1>0, Zenon DEF hashtable_insert
  <1> HIDE DEF appended, new, bucket
  <1>5. CASE ca_bucket' = appended /\ UNCHANGED <<p, init_size, mask, ov_mask>>
    <2>1. \A w \in Range(new.arr) : Address(Code[w], p, init_size) = b
      BY <1>1, <1>2 DEF IInv, PlacedInv
    <2>2. /\ IInv' /\ size' = size /\ Held(b)' = Held(b) \cup {word}
          /\ \A c \in 0 .. size - 1 : c # b => Held(c)' = Held(c)
      BY <1>1, <1>2, <1>3, <1>5, <2>1, OneBucket
    <2> QED
      BY <1>1, <2>2 DEF HeldWords
  <1>6. CASE update_round /\ ca_bucket' = split(appended, p) /\ NextRound
    BY <1>0, <1>1, <1>6, OverflowEffect DEF appended
  <1> QED
    BY <1>4, <1>5, <1>6

\* ca_force_delete takes out its word and nothing else.
LEMMA DeleteEffect ==
  ASSUME IInv, NEW word \in Words, ca_force_delete(word)
  PROVE  IInv' /\ HeldWords' = HeldWords \ {word}
  <1>0. PICK b : b = hash_get_bucket(word)
    OBVIOUS
  <1> DEFINE bucket == ca_bucket[b]
             new == [bucket EXCEPT !.arr = RemoveAt(@, Locate(@, word) + 1)]
  <1>1. /\ b \in 0 .. size - 1 /\ b = Address(Code[word], p, init_size)
        /\ Proper(bucket) /\ word \in Held(b)
    BY <1>0, SearchFinds DEF ca_force_delete
  <1>2. Proper(new) /\ Range(new.arr) = Held(b) \ {word}
    <2>1. word \in Range(bucket.arr) /\ Held(b) = Range(bucket.arr)
      BY <1>1 DEF Held
    <2> HIDE DEF bucket
    <2> QED
      BY <1>1, <2>1, RemoveWord
  <1>3. ca_bucket' = [ca_bucket EXCEPT ![b] = new] /\ UNCHANGED <<p, init_size, mask, ov_mask>>
    BY <1>0, Zenon DEF ca_force_delete
  <1> HIDE DEF new, bucket
  <1>4. \A w \in Range(new.arr) : Address(Code[w], p, init_size) = b
    BY <1>1, <1>2 DEF IInv, PlacedInv
  <1>5. /\ IInv' /\ size' = size /\ Held(b)' = Held(b) \ {word}
        /\ \A c \in 0 .. size - 1 : c # b => Held(c)' = Held(c)
    BY <1>1, <1>2, <1>3, <1>4, OneBucket
  <1>6. \A c \in 0 .. size - 1 : word \in Held(c) => c = b
    BY <1>1 DEF IInv, PlacedInv
  <1> QED
    BY <1>1, <1>5, <1>6 DEF HeldWords

\* Every operation keeps the invariant.
LEMMA InvStep ==
  ASSUME IInv, [Next]_vars
  PROVE  IInv'
  <1>1. ASSUME NEW word \in Words, hashtable_insert(word)
        PROVE  IInv'
    BY <1>1, InsertEffect
  <1>2. ASSUME NEW word \in Words, ca_force_delete(word)
        PROVE  IInv'
    BY <1>2, DeleteEffect
  <1>3. CASE UNCHANGED vars
    BY <1>3 DEF vars, IInv, BucketsInv, RoundInv, PlacedInv, RoundsInStep, Held, size
  <1> QED
    BY <1>1, <1>2, <1>3 DEF Next

---------------------------------------------------------------------------
(* The theorems.                                                            *)

\* The inductive invariant holds in every reachable state, for any words, codes and sizes.
THEOREM Invariant == Spec => []IInv
  BY InvInit, InvStep, PTL DEF Spec

\* Types, with every array inside its slots and the buckets numbered from 0.
THEOREM TypeCorrect == Spec => []TypeOK
  <1>1. IInv => TypeOK
    <2> SUFFICES ASSUME IInv
                 PROVE  TypeOK
      OBVIOUS
    <2>1. DOMAIN ca_bucket = 0 .. size - 1 /\ \A b \in DOMAIN ca_bucket : Proper(ca_bucket[b])
      BY DEF IInv, BucketsInv
    <2>2. ASSUME NEW b \in DOMAIN ca_bucket
          PROVE  /\ ca_bucket[b].arr \in Seq(Words)
                 /\ ca_bucket[b].slots \in Nat \ {0}
                 /\ Len(ca_bucket[b].arr) <= ca_bucket[b].slots
      BY <2>1, ProperFacts
    <2>3. {p, init_size, mask, ov_mask} \subseteq Nat
      BY DEF IInv, RoundInv
    <2> QED
      BY <2>1, <2>2, <2>3 DEF TypeOK
  <1> QED
    BY Invariant, <1>1, PTL

\* The split pointer, the number of buckets and the masks stay in step over the rounds.
THEOREM Rounds == Spec => []RoundsInStep
  <1>1. IInv => RoundsInStep
    BY DEF IInv, RoundInv
  <1> QED
    BY Invariant, <1>1, PTL

\* Every stored word is in the bucket where a search looks for it.
THEOREM Addresses == Spec => []AtItsAddress
  <1>1. IInv => AtItsAddress
    <2> SUFFICES ASSUME IInv, NEW b \in DOMAIN ca_bucket, NEW i \in DOMAIN ca_bucket[b].arr
                 PROVE  hash_get_bucket(ca_bucket[b].arr[i]) = b
      BY DEF AtItsAddress
    <2> DEFINE w == ca_bucket[b].arr[i]
    <2>1. b \in 0 .. size - 1 /\ Proper(ca_bucket[b])
      BY DEF IInv, BucketsInv
    <2>2. ca_bucket[b].arr \in Seq(Words)
      BY <2>1, ProperFacts
    <2>3. w \in Words /\ w \in Held(b)
      BY <2>2 DEF Held, Range
    <2> HIDE DEF w
    <2>4. hash_get_bucket(w) = b
      BY <2>1, <2>3, BucketAddress DEF IInv, PlacedInv
    <2> QED
      BY <2>4 DEF w
  <1> QED
    BY Invariant, <1>1, PTL

\* Every array stays strictly sorted, which the binary search relies on.
THEOREM ArraysSorted == Spec => []Sorted
  <1>1. IInv => Sorted
    BY DEF IInv, BucketsInv, Proper, Increasing, Sorted
  <1> QED
    BY Invariant, <1>1, PTL

\* The table implements a set of words: what searches find changes only by the word that
\* is inserted or deleted.
THEOREM Implements == Spec => ImplementsWordSet
  <1>1. Init => Table!Init
    BY InvInit, SearchedIsHeld DEF Table!Init
  <1>2. IInv /\ IInv' /\ [Next]_vars
           => [Table!Next]_({word \in Words : hashtable_search(word)})
    <2> SUFFICES ASSUME IInv, IInv', [Next]_vars
                 PROVE  [Table!Next]_({word \in Words : hashtable_search(word)})
      OBVIOUS
    <2>1. {word \in Words : hashtable_search(word)} = HeldWords
      BY SearchedIsHeld
    <2>2. (IInv => {word \in Words : hashtable_search(word)} = HeldWords)'
      BY SearchedIsHeld, PTL
    <2>3. {word \in Words : hashtable_search(word)}' = HeldWords'
      BY <2>2
    <2>4. ASSUME NEW word \in Words, hashtable_insert(word)
          PROVE  Table!Insert(word)
      BY <2>1, <2>3, <2>4, InsertEffect DEF Table!Insert
    <2>5. ASSUME NEW word \in Words, ca_force_delete(word)
          PROVE  Table!Delete(word)
      BY <2>1, <2>3, <2>5, DeleteEffect DEF Table!Delete
    <2>6. CASE UNCHANGED vars
      <3>1. HeldWords' = HeldWords
        BY <2>6 DEF vars, HeldWords, Held, size
      <3> QED
        BY <2>1, <2>3, <3>1
    <2> QED
      BY <2>4, <2>5, <2>6 DEF Next, Table!Next
  <1> QED
    BY Invariant, <1>1, <1>2, PTL DEF Spec, ImplementsWordSet, Table!Spec
=============================================================================
