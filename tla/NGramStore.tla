----------------------------- MODULE NGramStore -----------------------------
(***************************************************************************)
(* What README.md:20-25 promises of a trie, with no versions, no batches   *)
(* of deletions and no threads: a set of n-grams that "A" lines extend,    *)
(* "D" lines shrink and "Q" lines search, each line taking effect when it  *)
(* is read; a static trie only answers.  The answers of a batch are        *)
(* printed at its "F" line.                                                *)
(*                                                                         *)
(* NGramBatch is checked to implement this module.                         *)
(***************************************************************************)
EXTENDS SequencesExt

CONSTANTS NGrams,          \* the n-grams that lines insert and delete
          Texts            \* the texts that lines search

VARIABLES store,           \* the set of n-grams
          dynamic,         \* FALSE for a static trie
          asked,           \* the answers to the queries of the current batch, in order
          printed          \* the answers of the last batch printed

vars == <<store, dynamic, asked, printed>>

\* The n-grams that occur in a text as consecutive words.
Answer(text) == store \intersect SubSeqs(text)

Init == store \in SUBSET NGrams /\ dynamic \in BOOLEAN /\ asked = <<>> /\ printed = <<>>

Insert(g) == /\ dynamic
             /\ store' = store \union {g}
             /\ UNCHANGED <<dynamic, asked, printed>>

Delete(g) == /\ dynamic
             /\ store' = store \ {g}
             /\ UNCHANGED <<dynamic, asked, printed>>

Query(text) == asked' = Append(asked, Answer(text)) /\ UNCHANGED <<store, dynamic, printed>>

Flush == asked' = <<>> /\ printed' = asked /\ UNCHANGED <<store, dynamic>>

Next == \/ \E g \in NGrams : Insert(g) \/ Delete(g)
        \/ \E text \in Texts : Query(text)
        \/ Flush

Spec == Init /\ [][Next]_vars
=============================================================================
