----------------------------- MODULE LinearHash -----------------------------
(***************************************************************************)
(* The linear hash table of hashtable.c, the first level of the trie.  A   *)
(* word that arrives at a full bucket doubles that bucket, and then the    *)
(* bucket that the split pointer was at (not the one that overflowed) is   *)
(* divided between itself and a new bucket.  A round ends when the number  *)
(* of buckets has doubled.                                                 *)
(*                                                                         *)
(* Words are numbers in their alphabetical order and Code gives their djb2 *)
(* code.  The code takes a code modulo 2^k with a mask of k ones, here     *)
(* code % (mask + 1).  The fields round and old_p are never read.          *)
(***************************************************************************)
EXTENDS SortedArray

CONSTANTS Words,             \* a set of integers
          Code,              \* word -> its djb2 code
          HASH_BUCKETS_INIT, \* buckets at the start
          InitSize           \* slots of a new bucket

ASSUME WordsAssumption == Words \subseteq Int /\ Code \in [Words -> Nat]
ASSUME SizesAssumption == {HASH_BUCKETS_INIT, InitSize} \subseteq Nat \ {0}

VARIABLES ca_bucket,         \* bucket -> its sorted array and its slots
          p,                 \* the next bucket to be divided
          init_size,         \* number of buckets at the start of the round
          mask, ov_mask

vars == <<ca_bucket, p, init_size, mask, ov_mask>>

size == Cardinality(DOMAIN ca_bucket)

EmptyBucket == [arr |-> <<>>, slots |-> InitSize]

Init == /\ ca_bucket = [b \in 0 .. HASH_BUCKETS_INIT - 1 |-> EmptyBucket]
        /\ p = 0
        /\ init_size = HASH_BUCKETS_INIT
        /\ mask = HASH_BUCKETS_INIT - 1
        /\ ov_mask = 2 * HASH_BUCKETS_INIT - 1

-----------------------------------------------------------------------------
(* Looking a word up.                                                      *)

hash_function_overflow(word) == Code[word] % (ov_mask + 1)

\* The bucket of a word under the second hash function, or under the first one when that
\* bucket does not exist yet.
hash_get_bucket(word) ==
    LET ov_key == hash_function_overflow(word)
    IN  IF ov_key - init_size >= p THEN ov_key - init_size ELSE ov_key

hashtable_search(word) == Holds(ca_bucket[hash_get_bucket(word)].arr, word)

-----------------------------------------------------------------------------
(* Changing the table.                                                     *)

\* Mutants: the word goes after the place where it belongs.
AppendAfter(bucket, index, word) ==
    [arr |-> InsertAtIndex(bucket.arr, Min({index + 1, Len(bucket.arr)}), word),
     slots |-> IF Len(bucket.arr) = bucket.slots THEN 2 * bucket.slots ELSE bucket.slots]

\* The array doubles when a word is already past its end.
AppendLate(bucket, index, word) ==
    [arr |-> InsertAtIndex(bucket.arr, index, word),
     slots |-> IF Len(bucket.arr) > bucket.slots THEN 2 * bucket.slots ELSE bucket.slots]

\* The array doubles when it is full; the words from the index on move up.
ca_bucket_append(bucket, index, word) ==
    [arr |-> InsertAtIndex(bucket.arr, index, word),
     slots |-> IF Len(bucket.arr) = bucket.slots THEN 2 * bucket.slots ELSE bucket.slots]

AppendLast(bucket, word) == ca_bucket_append(bucket, Len(bucket.arr), word)

\* Mutants of split: nothing moves; the loop goes on after a word that moved, so that it
\* skips the next one.
SplitNothing(buckets, old) == buckets @@ (size :> EmptyBucket)

SplitSkips(buckets, old) ==
    LET arr == buckets[old].arr
        moves(i) == hash_function_overflow(arr[i]) # old
        moved == {i \in DOMAIN arr : moves(i) /\ (i = 1 \/ ~moves(i - 1))}
        part(S) == SetToSortSeq({arr[i] : i \in S}, <)
    IN  [buckets EXCEPT ![old].arr = part(DOMAIN arr \ moved)]
            @@ (size :> FoldLeft(AppendLast, EmptyBucket, part(moved)))

\* The loop of split over the words of the old bucket, in order: those that stay there,
\* and the new bucket with those that the second hash function sends elsewhere.
Divided(arr, old) ==
    LET divided[n \in 0 .. Len(arr)] ==
            IF n = 0 THEN [stay |-> <<>>, new |-> EmptyBucket]
            ELSE LET word == arr[n]
                     before == divided[n - 1]
                 IN  IF hash_function_overflow(word) = old
                     THEN [before EXCEPT !.stay = Append(@, word)]
                     ELSE [before EXCEPT !.new = AppendLast(@, word)]
    IN  divided[Len(arr)]

split(buckets, old) ==
    LET parts == Divided(buckets[old].arr, old)
        staying == [buckets EXCEPT ![old].arr = parts.stay]
    IN  [b \in DOMAIN buckets \cup {size} |-> IF b = size THEN parts.new ELSE staying[b]]

\* Mutant: the round ends one bucket too late.
RoundLate == p' = IF p = init_size THEN 0 ELSE p + 1

update_round == p' = IF p = init_size - 1 THEN 0 ELSE p + 1

\* At the end of a round both hash functions use one bit more.
NextRound == IF p' = 0
             THEN /\ init_size' = size + 1
                  /\ mask' = 2 * mask + 1
                  /\ ov_mask' = 2 * mask' + 1
             ELSE UNCHANGED <<init_size, mask, ov_mask>>

\* hashtable_insert of a word that is there changes nothing, of a word that fits its
\* bucket only that bucket; after an overflow the bucket that p was at is divided.
hashtable_insert(word) ==
    /\ ~hashtable_search(word)
    /\ LET b == hash_get_bucket(word)
           appended == [ca_bucket EXCEPT ![b] =
                           ca_bucket_append(@, Locate(@.arr, word), word)]
       IN  IF appended[b].slots = ca_bucket[b].slots
           THEN /\ ca_bucket' = appended
                /\ UNCHANGED <<p, init_size, mask, ov_mask>>
           ELSE /\ update_round
                /\ ca_bucket' = split(appended, p)
                /\ NextRound

\* ca_force_delete on a bucket, from trie_delete: the array keeps its slots.
ca_force_delete(word) ==
    /\ hashtable_search(word)
    /\ LET b == hash_get_bucket(word)
       IN  ca_bucket' = [ca_bucket EXCEPT ![b].arr =
                            RemoveAt(@, Locate(@, word) + 1)]
    /\ UNCHANGED <<p, init_size, mask, ov_mask>>

Next == \/ \E word \in Words : hashtable_insert(word)
        \/ \E word \in Words : ca_force_delete(word)

Spec == Init /\ [][Next]_vars

-----------------------------------------------------------------------------
(* Properties.                                                             *)

\* Types, with every array inside its slots and the buckets numbered from 0.
TypeOK == /\ DOMAIN ca_bucket = 0 .. size - 1
          /\ \A b \in DOMAIN ca_bucket :
                /\ ca_bucket[b].arr \in Seq(Words)
                /\ ca_bucket[b].slots \in Nat \ {0}
                /\ Len(ca_bucket[b].arr) <= ca_bucket[b].slots
          /\ {p, init_size, mask, ov_mask} \subseteq Nat

\* The split pointer, the number of buckets and the masks stay in step over the rounds
\* (hashtable.c:119-126, 147-159), so that hash_get_bucket always names a bucket.
RoundsInStep == /\ p < init_size
                /\ size = init_size + p
                /\ mask + 1 = init_size
                /\ ov_mask + 1 = 2 * init_size

\* Every stored word is in the bucket where a search looks for it, although the buckets
\* and both hash functions change under it.
AtItsAddress == \A b \in DOMAIN ca_bucket : \A i \in DOMAIN ca_bucket[b].arr :
                   hash_get_bucket(ca_bucket[b].arr[i]) = b

\* The arrays are strictly sorted, which ca_locate_bin relies on; a split keeps the
\* order on both sides.
Sorted == \A b \in DOMAIN ca_bucket : LET arr == ca_bucket[b].arr IN
             \A i, k \in DOMAIN arr : i < k => arr[i] < arr[k]

Table == INSTANCE WordSet WITH stored <- {word \in Words : hashtable_search(word)}

\* What searches find changes only by the word that is inserted or deleted: no split
\* loses, duplicates or hides another one.
ImplementsWordSet == Table!Spec
=============================================================================
