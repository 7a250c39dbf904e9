------------------------------ MODULE TrieWalk ------------------------------
(***************************************************************************)
(* The queries of batches, word by word: worker threads run                *)
(* trie_search_dynamic on a trie loaded from a DYNAMIC init file, or       *)
(* trie_search_static on one that trie_compress has changed, each thread   *)
(* with its own filter and each query with its own result; Main then       *)
(* counts and prints the results and they are used again by the next       *)
(* batch.  As JobBatch says, the jobs of a batch are taken in any order    *)
(* and Main goes on when all are done.                                     *)
(*                                                                         *)
(* From each word of the text the search walks down as long as it finds    *)
(* the next word.  The walk moves from word to word, as LineInput shows.   *)
(***************************************************************************)
EXTENDS HyperTrie, NGramFilter, ResultBuffer

CONSTANTS Files,           \* init files: their n-grams, and those that are marked
                           \* deleted in version 2
          Batches,         \* sequence of batches: the queries and the k of the "F" line
          Threads,         \* the workers
          t_ids,           \* 0 .. number_of_threads - 1 -> worker
          Address          \* path of a node, or of a word in a hyper node -> its address

ASSUME FilesAssumption ==
    \A f \in Files : /\ IsFiniteSet(f.ngrams) /\ f.ngrams \subseteq Seq(STRING) \ {<<>>}
                      /\ f.removed \subseteq f.ngrams
ASSUME BatchesAssumption ==
    /\ Batches # <<>>
    /\ Batches \in Seq([queries : Seq([text : Seq(STRING \ {NUL}), version : Nat]), k : Int])
ASSUME ThreadsAssumption == IsInjective(t_ids) /\ Range(t_ids) = Threads
ASSUME AddressAssumption == /\ IsInjective(Address) /\ Range(Address) \subseteq Nat
                            /\ \A f \in Files : DOMAIN Load(f.ngrams) \subseteq DOMAIN Address
                            /\ \A ptr \in Range(Address) : Avalanche[ptr] \in Nat

VARIABLES file,            \* the init file
          which,           \* the selected filter
          trie,            \* the nodes that are not inside a hyper node
          vector,          \* hyper node -> the words and final bits of its branch
          dynamic,         \* FALSE after trie_compress
          detected_nodes,  \* filter_manager: index -> filter
          batch,           \* number of the batch
          waiting,         \* its queries that no worker has taken
          walk,            \* worker -> where it is, see Walk
          result,          \* query -> the buffer of its result
          counted,         \* what rm_prepare_topk inserted for the last batch
          printed          \* the lines printed for the last batch

loaded == <<file, which, trie, vector, dynamic>>
vars == <<loaded, detected_nodes, batch, waiting, walk, result, counted, printed>>

Queries == Batches[batch].queries

\* The query; the word the walk began at (line_fetch_ngram); the next word to be looked
\* up (current_word); the node the walk is at, <<>> in a bucket; and how many words of a
\* hyper node are passed, 0 outside.
Walk(query, start, pos, node, inside) ==
    [query |-> query, start |-> start, pos |-> pos, node |-> node, inside |-> inside]
Idle == Walk(0, 1, 1, <<>>, 0)

\* The trie loaded from the init file after trie_mark_deleted, in version 2, of those that
\* are removed.
LoadedWithout(ngrams, removed) ==
    LET t == Load(ngrams)
    IN  [path \in DOMAIN t |-> IF path \in removed THEN [t[path] EXCEPT !.deleted = 2]
                               ELSE t[path]]

Init == /\ file \in Files
        /\ which \in WHICH_FILTER
        /\ \/ /\ dynamic = TRUE
              /\ trie = LoadedWithout(file.ngrams, file.removed)
              /\ vector = [path \in {} |-> <<>>]
           \/ /\ dynamic = FALSE
              /\ file.removed = {}
              /\ trie = Compressed(Load(file.ngrams))
              /\ vector = Vectors(Load(file.ngrams))
        /\ detected_nodes = [i \in DOMAIN t_ids |-> FilterInit(which)]
        /\ batch = 1
        /\ waiting = DOMAIN Queries
        /\ walk = [t \in Threads |-> Idle]
        /\ result = [q \in UNION {DOMAIN Batches[b].queries : b \in DOMAIN Batches} |->
                        result_init]
        /\ counted = <<>> /\ printed = <<>>

-----------------------------------------------------------------------------
(* The filter of a thread.                                                 *)

\* Mutant: every thread gets the first filter.
get_filter_first(t) == 0

get_filter(t) == CHOOSE i \in DOMAIN t_ids : t_ids[i] = t

\* A worker takes a job; get_filter also empties the filter for the new query.
StartSearch(t, q) ==
    /\ walk[t] = Idle
    /\ q \in waiting
    /\ waiting' = waiting \ {q}
    /\ detected_nodes' = [detected_nodes EXCEPT ![get_filter(t)] = reuse_filter(which, @)]
    /\ walk' = [walk EXCEPT ![t] = Walk(q, 1, 1, <<>>, 0)]
    /\ UNCHANGED <<loaded, batch, result, counted, printed>>

-----------------------------------------------------------------------------
(* The walk.                                                               *)

Text(t) == Queries[walk[t].query].text
AtWord(t) == walk[t].query # 0 /\ walk[t].pos <= Len(Text(t))

\* A final node, or a final word of a hyper node, is detected when its address is new to
\* the filter; the words from start to pos, which are its path, go to the result.
Report(t, final) ==
    LET w == walk[t]
        ngram == SubSeq(Text(t), w.start, w.pos)
        asked == ngram_unique(which, detected_nodes[get_filter(t)], Address[ngram])
    IN  IF ~final THEN UNCHANGED <<detected_nodes, result>>
        ELSE /\ detected_nodes' = [detected_nodes EXCEPT ![get_filter(t)] = asked.filter]
             /\ result' = IF ~asked.unique THEN result
                          ELSE [result EXCEPT ![w.query] = result_ngram_detected(@, ngram)]

\* The versions count in a dynamic trie only.
Matches(path, version) == IF dynamic THEN Visible(trie, path, version)
                          ELSE trie[path].final

\* ca_locate_bin among the children; a hyper node is found by its first word.
Descend(t) ==
    LET w == walk[t]
        child == Append(w.node, Text(t)[w.pos])
    IN  /\ AtWord(t) /\ w.inside = 0
        /\ child \in DOMAIN trie
        /\ Report(t, Matches(child, Queries[w.query].version))
        /\ walk' = [walk EXCEPT ![t] = Walk(w.query, w.start, w.pos + 1, child,
                                            IF child \in DOMAIN vector THEN 1 ELSE 0)]
        /\ UNCHANGED <<loaded, batch, waiting, counted, printed>>

\* The word of the vector behind those that are passed is the next one of the text.
InVector(t) == LET w == walk[t]
               IN  /\ w.inside > 0 /\ w.inside < Len(vector[w.node])
                   /\ vector[w.node][w.inside + 1].word = Text(t)[w.pos]

\* In a hyper node the next word of the vector is compared with the next of the text.
Compare(t) ==
    LET w == walk[t]
    IN  /\ AtWord(t) /\ InVector(t)
        /\ Report(t, vector[w.node][w.inside + 1].final)
        /\ walk' = [walk EXCEPT ![t].pos = @ + 1, ![t].inside = @ + 1]
        /\ UNCHANGED <<loaded, batch, waiting, counted, printed>>

\* The walk goes on: neither the end of the text, nor a word that no child has or that is
\* not the next one of the vector.
GoesOn(t) == LET w == walk[t]
             IN  /\ w.pos <= Len(Text(t))
                 /\ IF w.inside = 0 THEN Append(w.node, Text(t)[w.pos]) \in DOMAIN trie
                    ELSE InVector(t)

\* Mutant: the next walk begins inside the hyper node.
NextNGramInside(t) ==
    LET w == walk[t]
    IN  /\ w.query # 0 /\ w.start <= Len(Text(t))
        /\ ~GoesOn(t)
        /\ walk' = [walk EXCEPT ![t] = Walk(w.query, w.start + 1, w.start + 1, <<>>, w.inside)]
        /\ UNCHANGED <<loaded, detected_nodes, batch, waiting, result, counted, printed>>

\* line_fetch_ngram: the next walk starts one word later, in the bucket of that word.
NextNGram(t) ==
    LET w == walk[t]
    IN  /\ w.query # 0 /\ w.start <= Len(Text(t))
        /\ ~GoesOn(t)
        /\ walk' = [walk EXCEPT ![t] = Walk(w.query, w.start + 1, w.start + 1, <<>>, 0)]
        /\ UNCHANGED <<loaded, detected_nodes, batch, waiting, result, counted, printed>>

\* No n-gram is left: the result is completed, and with it the job.
CompleteSearch(t) ==
    LET w == walk[t]
    IN  /\ w.query # 0 /\ w.start > Len(Text(t))
        /\ result' = [result EXCEPT ![w.query] = result_completed(@)]
        /\ walk' = [walk EXCEPT ![t] = Idle]
        /\ UNCHANGED <<loaded, detected_nodes, batch, waiting, counted, printed>>

-----------------------------------------------------------------------------
(* Main, when all jobs of the batch are done.                              *)

\* The results of the batch in the order of their queries.
Used == [q \in DOMAIN Queries |-> result[q]]

Formatted == [q \in DOMAIN result |->
                 IF q \in DOMAIN Queries THEN result_format(result[q]) ELSE result[q]]

\* Mutant: the results are formatted before they are counted.
DisplayFormatsFirst ==
    /\ batch <= Len(Batches)
    /\ waiting = {} /\ \A t \in Threads : walk[t] = Idle
    /\ counted' = IF Batches[batch].k > 0
                  THEN FlattenSeq([q \in DOMAIN Queries |-> Fetched(Formatted[q])])
                  ELSE <<>>
    /\ result' = Formatted
    /\ printed' = [q \in DOMAIN Queries |-> StringAt(result'[q], 0)]
    /\ batch' = batch + 1
    /\ waiting' = IF batch = Len(Batches) THEN {} ELSE DOMAIN Batches[batch + 1].queries
    /\ UNCHANGED <<loaded, detected_nodes, walk>>

\* rm_display_result: the n-grams are counted if "F" asked for top k, then every result
\* is formatted, which frees it, and printed.  The next batch begins.
rm_display_result ==
    /\ batch <= Len(Batches)
    /\ waiting = {} /\ \A t \in Threads : walk[t] = Idle
    /\ counted' = IF Batches[batch].k > 0
                  THEN FlattenSeq([q \in DOMAIN Queries |-> Fetched(Used[q])])
                  ELSE <<>>
    /\ result' = Formatted
    /\ printed' = [q \in DOMAIN Queries |-> StringAt(result'[q], 0)]
    /\ batch' = batch + 1
    /\ waiting' = IF batch = Len(Batches) THEN {} ELSE DOMAIN Batches[batch + 1].queries
    /\ UNCHANGED <<loaded, detected_nodes, walk>>

Ended == batch > Len(Batches) /\ UNCHANGED vars

Next == \/ \E t \in Threads : \/ \E q \in waiting : StartSearch(t, q)
                              \/ Descend(t) \/ Compare(t)
                              \/ NextNGram(t) \/ CompleteSearch(t)
        \/ rm_display_result
        \/ Ended

Spec == Init /\ [][Next]_vars

-----------------------------------------------------------------------------
(* Properties.                                                             *)

\* Types; a walk stays inside its text and inside the vector of its hyper node.
TypeOK ==
    /\ \A path \in DOMAIN trie : trie[path].final \in BOOLEAN
    /\ dynamic \in BOOLEAN /\ which \in WHICH_FILTER
    /\ batch \in 1 .. Len(Batches) + 1
    /\ \A q \in DOMAIN result : result[q].first_available_slot \in 0 .. Bufsize(result[q])
    /\ \A t \in Threads : walk[t] # Idle =>
          LET w == walk[t]
          IN  /\ w.query \in DOMAIN Queries \ waiting
              /\ w.start \in 1 .. Len(Text(t)) + 1
              /\ w.pos \in w.start .. Len(Text(t)) + 1
              /\ w.inside > 0 =>
                    w.node \in DOMAIN vector /\ w.inside \in DOMAIN vector[w.node]

\* What the search of a query in one step, as in NGramBatch, answers.
AnswerOf(query) == IF dynamic THEN TrieSearch(trie, query.text, query.version)
                   ELSE file.ngrams \intersect SubSeqs(query.text)

\* At <<i, j>>: the n-grams that occur in a text before its words i to j, in the order of
\* their first occurrence, the shorter ones first, and these words if they are one.
Occurrences(text, ngrams) ==
    LET last == Len(text)
        upTo[place \in (1 .. last + 1) \X (0 .. last)] ==
            LET i == place[1]
                j == place[2]
                ngram == SubSeq(text, i, j)
            IN  IF j < i THEN IF i = 1 THEN <<>> ELSE upTo[<<i - 1, last>>]
                ELSE LET before == upTo[<<i, j - 1>>]
                     IN  IF ngram \in ngrams \ ToSet(before) THEN Append(before, ngram)
                         ELSE before
    IN  upTo

\* The n-grams of the answer in the order of their first occurrence.
InOrder(query) ==
    LET last == Len(query.text)
    IN  Occurrences(query.text, AnswerOf(query))[<<last + 1, last>>]

SpacedOut(ngrams) == [i \in DOMAIN ngrams |-> Spaced(ngrams[i])]

\* The walk of the query is over and its result not displayed yet.
Answered(q) == /\ q \in DOMAIN Queries \ waiting
               /\ \A t \in Threads : walk[t].query # q

\* README.md:22, a search finds "every possible n_gram in that line avoiding duplicates"
\* and nothing else, whichever thread runs it, whatever the other threads search at the
\* same time, and whatever its filter and its result were used for before.
\* Compression, only "for faster queries" (trie.h:35), changes no answer.
AnswersExactly ==
    batch <= Len(Batches) /\ which # "bloom" =>
        \A q \in DOMAIN Queries :
            Answered(q) => Fetched(result[q]) = SpacedOut(InOrder(Queries[q]))

\* The n-grams of the init file that occur in the text of a query, without those that
\* trie_mark_deleted had removed when the query was read.
OfFile(query) ==
    {g \in file.ngrams \intersect SubSeqs(query.text) :
        dynamic /\ query.version >= 2 => g \notin file.removed}

\* README.md:22 again, of the file and not of the nodes made from it: a query reports each
\* n-gram of the init file that occurs in its line once, a deleted one only if it was read
\* before the deletion, although all nodes stay until the batch ends (main.c:113).
AnswersOfFile ==
    batch <= Len(Batches) /\ which # "bloom" =>
        \A q \in DOMAIN Queries :
            Answered(q) /\ Queries[q].version < NotDeleted =>
                /\ IsInjective(Fetched(result[q]))
                /\ ToSet(Fetched(result[q])) = {Spaced(g) : g \in OfFile(Queries[q])}

\* A bloom filter adds nothing, and drops an n-gram only if the n-grams reported for this
\* query have set all its bits: nothing of an earlier query is left in it.
BloomDropsOnlyCovered ==
    batch <= Len(Batches) /\ which = "bloom" =>
        \A q \in DOMAIN Queries :
            LET answer == InOrder(Queries[q])
                found == ToSet(Fetched(result[q]))
                bits(i) == Bits[Address[answer[i]]]
            IN  Answered(q) =>
                  /\ IsInjective(Fetched(result[q]))
                  /\ found \subseteq ToSet(SpacedOut(answer))
                  /\ \A i \in DOMAIN answer :
                        Spaced(answer[i]) \in found
                        \/ bits(i) \subseteq
                              UNION {bits(j) : j \in {j \in 1 .. i - 1 :
                                                        Spaced(answer[j]) \in found}}

\* The line of a query: its n-grams in order, separated by |, or -1 when it has none.
Layout(ngrams) ==
    LET upTo[n \in 0 .. Len(ngrams)] ==
            IF n = 0 THEN <<>>
            ELSE IF n = 1 THEN Spaced(ngrams[1])
            ELSE upTo[n - 1] \o <<BAR>> \o Spaced(ngrams[n])
    IN  IF ngrams = <<>> THEN <<NONE>> ELSE upTo[Len(ngrams)]

\* Every query of a batch is answered by its line, in the order of the queries: neither
\* the growth of a buffer nor what an earlier batch left in it shows.
PrintedLines ==
    batch > 1 /\ which # "bloom" =>
        LET queries == Batches[batch - 1].queries
        IN  printed = [q \in DOMAIN queries |-> Layout(InOrder(queries[q]))]

\* Top k gets the n-grams of exactly the answers of the batch, no separator and no "-1".
CountedOnce ==
    batch > 1 /\ which # "bloom" =>
        LET queries == Batches[batch - 1].queries
        IN  counted = IF Batches[batch - 1].k > 0
                      THEN FlattenSeq([q \in DOMAIN queries |-> SpacedOut(InOrder(queries[q]))])
                      ELSE <<>>
=============================================================================
