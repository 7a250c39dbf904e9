------------------------------ MODULE TopKHash ------------------------------
(***************************************************************************)
(* The n-grams of a batch that were found most often: topk/topk_hash.c and *)
(* the calls of it in rm_display_result (string_utils.c).  Main counts all *)
(* n-grams of the results in a hash table of sorted buckets, distributes   *)
(* the words over an array indexed by frequency, and prints the first k    *)
(* from its end.                                                           *)
(*                                                                         *)
(* Words (here whole n-grams) are numbers in their strcmp order.  The      *)
(* field max_freq of a bucket is never set and the loop over it in         *)
(* Hash_maxfreq is without effect.                                         *)
(***************************************************************************)
EXTENDS SortedArray

CONSTANTS Words,             \* the n-grams, a set of integers
          HASH_SIZE,         \* buckets
          Key,               \* word -> its bucket (hashfuction)
          MaxDetected,       \* bound: n-grams in the results of a batch
          MaxK               \* bound: the k of an "F k" line

ASSUME WordsAssumption == Words \subseteq Int /\ Key \in [Words -> 0 .. HASH_SIZE - 1]
ASSUME BoundsAssumption == /\ HASH_SIZE \in Nat \ {0} /\ {MaxDetected, MaxK} \subseteq Nat

VARIABLES results,           \* the n-grams of the results of the batch, in order
          inserted,          \* how many of them are counted
          Bucket,            \* key -> sequence of [word, freq], sorted by word
          max_freq, k,
          nodes,             \* top_array: frequency - 1 -> sorted words
          filled,            \* how many entries of the table are in the array
          output,            \* the words printed, each with what is printed behind it
          pc

hash == <<Bucket, max_freq>>
vars == <<results, inserted, hash, k, nodes, filled, output, pc>>

Keys == 0 .. HASH_SIZE - 1

Init == /\ results = <<>> /\ inserted = 0
        /\ Bucket = [key \in Keys |-> <<>>] /\ max_freq = 0
        /\ k = -1
        /\ nodes = [i \in {} |-> <<>>] /\ filled = 0
        /\ output = <<>>
        /\ pc = "batch"

Count(seq, word) == Cardinality({i \in DOMAIN seq : seq[i] = word})

\* A search reports an n-gram to its result.
result_ngram_detected(word) ==
    /\ pc = "batch" /\ Len(results) < MaxDetected
    /\ results' = Append(results, word)
    /\ UNCHANGED <<inserted, hash, k, nodes, filled, output, pc>>

\* rm_use_topk and rm_display_result at a line "F" (-1) or "F k".
rm_display_result(asked) ==
    /\ pc = "batch"
    /\ k' = asked
    /\ output' = <<>>
    /\ pc' = IF asked > 0 THEN "insert" ELSE "reuse"
    /\ UNCHANGED <<results, inserted, hash, nodes, filled>>

Column(bucket) == [i \in DOMAIN bucket |-> bucket[i].word]

\* A word that is there is counted, a new one gets the frequency 1 at its place.
Added(bucket, word) ==
    LET i == Locate(Column(bucket), word) + 1
    IN  IF Holds(Column(bucket), word) THEN [bucket EXCEPT ![i].freq = @ + 1]
        ELSE InsertAt(bucket, i, [word |-> word, freq |-> 1])

\* Only a word that is there can raise max_freq.
Hash_insert ==
    LET word == results[inserted + 1]
        key == Key[word]
        i == Locate(Column(Bucket[key]), word) + 1
        found == Holds(Column(Bucket[key]), word)
    IN  /\ pc = "insert" /\ inserted < Len(results)
        /\ Bucket' = [Bucket EXCEPT ![key] = Added(@, word)]
        /\ max_freq' = IF found THEN Max({max_freq, Bucket[key][i].freq + 1}) ELSE max_freq
        /\ inserted' = inserted + 1
        /\ UNCHANGED <<results, k, nodes, filled, output, pc>>

\* Mutant: no row for the highest frequency.
ArrayInitShort == /\ pc = "insert" /\ inserted = Len(results)
                  /\ nodes' = [i \in 0 .. max_freq - 2 |-> <<>>]
                  /\ filled' = 0
                  /\ pc' = "array"
                  /\ UNCHANGED <<results, inserted, hash, k, output>>

Array_init == /\ pc = "insert" /\ inserted = Len(results)
              /\ nodes' = [i \in 0 .. max_freq - 1 |-> <<>>]
              /\ filled' = 0
              /\ pc' = "array"
              /\ UNCHANGED <<results, inserted, hash, k, output>>

\* The entries of the table in the order of topk's loops.
Entries == FlattenSeq([i \in 1 .. HASH_SIZE |-> Bucket[i - 1]])

\* Outside the array the behaviour is undefined: the memory of malloc(0) may pass for an
\* empty row, whose words are not displayed, or its size may end the program.
Array_insert ==
    LET entry == Entries[filled + 1]
        row == entry.freq - 1
    IN  /\ pc = "array" /\ filled < Len(Entries)
        /\ filled' = filled + 1
        /\ \/ /\ row \in DOMAIN nodes
              /\ nodes' = [nodes EXCEPT ![row] =
                              IF Holds(@, entry.word) THEN @
                              ELSE InsertAtIndex(@, Locate(@, entry.word), entry.word)]
              /\ pc' = pc
           \/ /\ row \notin DOMAIN nodes
              /\ pc' \in {"array", "exit"}
              /\ UNCHANGED nodes
        /\ UNCHANGED <<results, inserted, hash, k, output>>

\* The rows from the end.
Descending == LET rows == Cardinality(DOMAIN nodes)
              IN  FlattenSeq([i \in 1 .. rows |-> nodes[rows - i]])

\* The first n of them; the one at which k has come down to 1 ends the line.
Displayed(n) == [i \in 1 .. Min({n, Len(Descending)}) |->
                    [word |-> Descending[i], end |-> IF i = k THEN "NEWLINE" ELSE "|"]]

\* Mutant: k is ignored.
DisplayWhole ==
    /\ pc = "array" /\ filled = Len(Entries)
    /\ output' = Displayed(Len(Descending))
    /\ pc' = "reuse"
    /\ UNCHANGED <<results, inserted, hash, k, nodes, filled>>

display_topk ==
    /\ pc = "array" /\ filled = Len(Entries)
    /\ output' = Displayed(k)
    /\ pc' = "reuse"
    /\ UNCHANGED <<results, inserted, hash, k, nodes, filled>>

\* Mutant: the bucket of the first key keeps its words.
ReuseAllButFirst ==
    /\ pc = "reuse"
    /\ Bucket' = [key \in Keys |-> IF key = 0 THEN Bucket[key] ELSE <<>>]
    /\ max_freq' = 0
    /\ results' = <<>> /\ inserted' = 0 /\ k' = -1
    /\ nodes' = [i \in {} |-> <<>>] /\ filled' = 0
    /\ pc' = "batch"
    /\ UNCHANGED output

\* Array_fin, Hash_reuse, and the results are free for the next batch.
Hash_reuse ==
    /\ pc = "reuse"
    /\ Bucket' = [key \in Keys |-> <<>>]
    /\ max_freq' = 0
    /\ results' = <<>> /\ inserted' = 0 /\ k' = -1
    /\ nodes' = [i \in {} |-> <<>>] /\ filled' = 0
    /\ pc' = "batch"
    /\ UNCHANGED output

Exited == pc = "exit" /\ UNCHANGED vars

Next == \/ \E word \in Words : result_ngram_detected(word)
        \/ \E asked \in -1 .. MaxK : rm_display_result(asked)
        \/ Hash_insert \/ Array_init \/ Array_insert \/ display_topk \/ Hash_reuse
        \/ Exited

Spec == Init /\ [][Next]_vars

-----------------------------------------------------------------------------
(* Properties.                                                             *)

\* Types; what is printed has no more words than asked for.
TypeOK == /\ results \in Seq(Words) /\ inserted \in 0 .. Len(results)
          /\ Bucket \in [Keys -> Seq([word : Words, freq : Nat \ {0}])]
          /\ {max_freq, filled} \subseteq Nat /\ k \in -1 .. MaxK
          /\ nodes \in [DOMAIN nodes -> Seq(Words)] /\ DOMAIN nodes \subseteq Nat
          /\ output \in Seq([word : Words, end : {"|", "NEWLINE"}])
          /\ pc = "reuse" => Len(output) <= Max({k, 0})
          /\ pc \in {"batch", "insert", "array", "reuse", "exit"}

\* The table counts the n-grams of this batch and of no earlier one: each is in the
\* bucket of its key once, with the number of times it was inserted.
Counted == \A key \in Keys :
             LET bucket == Bucket[key]
             IN  /\ \A i \in DOMAIN bucket :
                       /\ Key[bucket[i].word] = key
                       /\ bucket[i].freq = Count(SubSeq(results, 1, inserted),
                                                 bucket[i].word)
                 /\ \A i, j \in DOMAIN bucket : i < j => bucket[i].word < bucket[j].word

\* README.md:59, "we create an array of size, max frequency of all the values of
\* hashtable": every frequency in the table has its row.
EveryFrequencyHasARow == pc = "array" => \A key \in Keys : \A i \in DOMAIN Bucket[key] :
                                            Bucket[key][i].freq - 1 \in DOMAIN nodes

\* The order of the ranking: falling frequency, at one frequency the alphabet.
RanksBefore(v, w) == \/ Count(results, v) > Count(results, w)
                     \/ Count(results, v) = Count(results, w) /\ v < w

\* What is printed at "F k" is the ranking of all n-grams of the batch, cut at k, when at
\* least one of them was found by two queries: hash buckets, frequency rows and the reuse
\* of the table between batches do not show.  The line is ended, and ended once, only if
\* there are k n-grams: otherwise the next batch goes on in it (topk_hash.c:331).
PrintsTopK ==
    LET found == ToSet(results)
        printed == {output[i].word : i \in DOMAIN output}
    IN  pc = "reuse" /\ k > 0 /\ (\E word \in Words : Count(results, word) > 1) =>
            /\ Len(output) = Min({k, Cardinality(found)})
            /\ printed \subseteq found
            /\ \A i, j \in DOMAIN output : i < j => RanksBefore(output[i].word, output[j].word)
            /\ \A v \in printed, w \in found \ printed : RanksBefore(v, w)
            /\ {i \in DOMAIN output : output[i].end = "NEWLINE"} =
                   IF Cardinality(found) < k THEN {} ELSE {k}
=============================================================================
