----------------------------- MODULE NGramBatch -----------------------------
(***************************************************************************)
(* The batch loop of main.c (lines 77-120): lines are read one by one into *)
(* the slots of a line manager, "A" and "D" change a dynamic trie at once  *)
(* under a new version and leave a static one as it is, "Q" becomes a job  *)
(* that remembers its slot, its result and the version, and "F" executes   *)
(* the jobs, prints the answers, and only then removes the deleted n-grams *)
(* from the trie.                                                          *)
(*                                                                         *)
(* The scheduler is what JobBatch says of it, and what JobScheduler and    *)
(* AltScheduler are shown to implement: jobs run in any order between the  *)
(* start and the return of execute_jobs.  Searches only read the trie, and *)
(* Main does not change it while a batch runs, so one search is one step.  *)
(***************************************************************************)
EXTENDS Trie

CONSTANTS NGrams,          \* the n-grams of the init file and of "A" and "D" lines
          Texts,           \* the texts of "Q" lines
          MaxLines,        \* bound: lines read in the life of the program
          NumberOfLines,   \* slots of the line manager before it grows
          Disciplined      \* inside a batch no n-gram is inserted that is present or
                           \* that a line deletes, and none is deleted twice

ASSUME NGramsAssumption == NGrams \union Texts \subseteq Seq(STRING) \ {<<>>}
ASSUME BoundsAssumption == /\ {MaxLines, NotDeleted} \subseteq Nat
                           /\ MaxLines + 1 < NotDeleted
                           /\ NumberOfLines \in Nat \ {0}
ASSUME DisciplinedAssumption == Disciplined \in BOOLEAN

VARIABLES
    line,                  \* line_manager: slot -> the line it holds
    first_available_slot,  \* line_manager
    fetch,                 \* how Main fetches the next line
    version,               \* task.version
    trie, dynamic,         \* db; dynamic is FALSE after trie_compress
    job,                   \* the jobs of the batch: slot, result and version, as submitted
    results,               \* result_manager: the answers of the batch
    printed,               \* what the last rm_display_result printed
    read,                  \* number of lines read so far
    earlier,               \* history: number of jobs of the earlier batches
    phase, queue, running, done          \* the scheduler, as in JobBatch

mainVars == <<line, first_available_slot, fetch, version, trie, dynamic, job, printed,
              read, earlier>>
vars == <<mainVars, results, phase, queue, running, done>>

Scheduler == INSTANCE JobBatch WITH Jobs <- 1 .. MaxLines

Line == [status : {"-", "Q", "A", "D", "F"}, words : NGrams \union Texts \union {<<>>}]
Unused == [status |-> "-", words |-> <<>>]
LineOf(status, words) == [status |-> status, words |-> words]

Init == /\ line = [slot \in 0 .. NumberOfLines - 1 |-> Unused]
        /\ first_available_slot = 0
        /\ fetch = "sequence"
        /\ version = 1
        /\ \E loaded \in SUBSET NGrams : trie = Load(loaded)
        /\ dynamic \in BOOLEAN
        /\ job = <<>> /\ results = <<>> /\ printed = <<>>
        /\ read = 0 /\ earlier = 0
        /\ Scheduler!Init

-----------------------------------------------------------------------------
(* Fetching a line: lm_fetch_sequence_line reuses the last slot,           *)
(* lm_fetch_independent_line takes a new one and doubles the array first   *)
(* when it is full.                                                        *)

\* Mutant: the last slot is not the one before the first available one.
SequenceSlotOff == first_available_slot - 1

SequenceSlot == IF first_available_slot = 0 THEN 0 ELSE first_available_slot - 1

Slot == IF fetch = "sequence" THEN SequenceSlot ELSE first_available_slot

Grown == IF first_available_slot \in DOMAIN line THEN line
         ELSE [slot \in DOMAIN line \union first_available_slot .. 2 * first_available_slot - 1
                   |-> IF slot \in DOMAIN line THEN line[slot] ELSE Unused]

Fetch(status, words) ==
    /\ phase = "collect"
    /\ read < MaxLines
    /\ read' = read + 1
    /\ line' = [(IF fetch = "sequence" THEN line ELSE Grown)
                   EXCEPT ![Slot] = LineOf(status, words)]
    /\ first_available_slot' = Slot + 1

\* The n-grams that "D" lines of the batch delete.
DeleteLines == {line[slot].words : slot \in
                   {s \in 0 .. first_available_slot - 1 : line[s].status = "D"}}

-----------------------------------------------------------------------------
(* The handlers of the four kinds of lines.                                *)

\* The first result that is free; when the array of pointers to them is full it is
\* doubled, and the results themselves stay where they are.
rm_get_result == Len(results)

ReadQuery(text) ==
    /\ Fetch("Q", text)
    /\ job' = Append(job, [slot |-> Slot, result |-> rm_get_result, version |-> version])
    /\ results' = Append(results, {})
    /\ Scheduler!Submit(earlier + Len(job) + 1)
    /\ fetch' = "independent"
    /\ UNCHANGED <<version, trie, dynamic, printed, earlier>>

ReadInsert(ngram) ==
    /\ Disciplined => ngram \notin View(trie, version) \union DeleteLines
    /\ Fetch("A", ngram)
    /\ version' = version + 1
    /\ trie' = IF dynamic THEN TrieInsert(trie, ngram, version') ELSE trie
    /\ fetch' = "sequence"
    /\ UNCHANGED <<dynamic, job, results, printed, earlier, phase, queue, running, done>>

\* Mutant: the line of a deletion is not kept.
ReadDeleteSequence(ngram) ==
    /\ Disciplined => ngram \notin DeleteLines
    /\ Fetch("D", ngram)
    /\ version' = version + 1
    /\ trie' = IF dynamic THEN TrieMarkDeleted(trie, ngram, version') ELSE trie
    /\ fetch' = "sequence"
    /\ UNCHANGED <<dynamic, job, results, printed, earlier, phase, queue, running, done>>

ReadDelete(ngram) ==
    /\ Disciplined => ngram \notin DeleteLines
    /\ Fetch("D", ngram)
    /\ version' = version + 1
    /\ trie' = IF dynamic THEN TrieMarkDeleted(trie, ngram, version') ELSE trie
    /\ fetch' = "independent"
    /\ UNCHANGED <<dynamic, job, results, printed, earlier, phase, queue, running, done>>

\* execute_jobs starts the batch.
ReadF == /\ Fetch("F", <<>>)
         /\ Scheduler!Execute
         /\ UNCHANGED <<fetch, version, trie, dynamic, job, results, printed, earlier>>

\* A worker starts a job, and execute_job (jobscheduler.c) ends with its answer.
StartSearch(j) == /\ Scheduler!Start(j)
                  /\ UNCHANGED <<mainVars, results>>

\* A static trie is searched without versions.
Answer(task) == LET text == line[task.slot].words
                IN  IF dynamic THEN TrieSearch(trie, text, task.version)
                    ELSE {path \in SubSeqs(text) \ {<<>>} : Found(trie, path) /\ trie[path].final}

Search(j) ==
    LET task == job[j - earlier]
    IN  /\ Scheduler!Finish(j)
        /\ results' = [results EXCEPT ![task.result + 1] = Answer(task)]
        /\ UNCHANGED mainVars

\* trie_delete of the n-gram of a slot that holds a "D" line; it returns at once when the
\* trie is static.
Removed(t, slot) == IF line[slot].status = "D" /\ dynamic
                    THEN TrieDelete(t, line[slot].words) ELSE t

\* Mutant: the loop over the slots starts at the second one.
PurgedSkipFirst == LET purged[n \in 0 .. first_available_slot] ==
                           IF n <= 1 THEN trie ELSE Removed(purged[n - 1], n - 1)
                   IN  purged[first_available_slot]

\* The trie after the loop over the slots of the batch, in order.
PurgedTrie == LET purged[n \in 0 .. first_available_slot] ==
                      IF n = 0 THEN trie ELSE Removed(purged[n - 1], n - 1)
              IN  purged[first_available_slot]

\* execute_jobs returns; the answers are printed, the deletions made, and the slots and
\* the results are free for the next batch.
FinishBatch == /\ Scheduler!Return
               /\ printed' = results
               /\ trie' = PurgedTrie
               /\ first_available_slot' = 0
               /\ fetch' = "sequence"
               /\ earlier' = earlier + Len(job)
               /\ job' = <<>> /\ results' = <<>>
               /\ UNCHANGED <<line, version, dynamic, read>>

\* End of the query file, before any line: the jobs of an unfinished batch are dropped.
EndOfFile == /\ Scheduler!Close
             /\ UNCHANGED <<mainVars, results>>

Terminated == phase = "closed" /\ UNCHANGED vars

Next == \/ \E text \in Texts : ReadQuery(text)
        \/ \E ngram \in NGrams : ReadInsert(ngram)
        \/ \E ngram \in NGrams : ReadDelete(ngram)
        \/ ReadF
        \/ \E j \in 1 .. MaxLines : StartSearch(j)
        \/ \E j \in 1 .. MaxLines : Search(j)
        \/ FinishBatch
        \/ EndOfFile
        \/ Terminated

Spec == Init /\ [][Next]_vars

-----------------------------------------------------------------------------
(* Properties.                                                             *)

TypeOK == /\ line \in [DOMAIN line -> Line]
          /\ DOMAIN line = 0 .. Cardinality(DOMAIN line) - 1
          /\ first_available_slot \in 0 .. Cardinality(DOMAIN line)
          /\ fetch \in {"sequence", "independent"}
          /\ version \in 1 .. MaxLines + 1
          /\ trie \in [DOMAIN trie -> [final : BOOLEAN, added : 0 .. version,
                                       deleted : 1 .. version \union {NotDeleted}]]
          /\ dynamic \in BOOLEAN
          /\ job \in Seq([slot : DOMAIN line, result : Nat, version : 1 .. version])
          /\ \A i \in DOMAIN job : job[i].result < Len(results)
          /\ results \in Seq(SUBSET NGrams) /\ Len(results) = Len(job)
          /\ printed \in Seq(SUBSET NGrams)
          /\ {read, earlier} \subseteq 0 .. MaxLines

\* The trie has no node without its parent, and no branch that ends in a node that is
\* not an n-gram: trie_delete removes all of a path that nothing else needs, no less
\* and no more (trie.c:74-126).
TrieWellFormed == \A path \in DOMAIN trie :
                     /\ Found(trie, path)
                     /\ HasChild(trie, path) \/ trie[path].final

\* Until the batch is over, the slot of each job still holds its query, no two jobs share
\* a slot or a result, and every n-gram marked deleted has a "D" line that will remove
\* it: no later line overwrites a slot that is still needed (string_utils.c:287-382).
LinesKept ==
    /\ \A i \in DOMAIN job : /\ job[i].slot < first_available_slot
                             /\ line[job[i].slot].status = "Q"
    /\ \A i, k \in DOMAIN job : i # k => /\ job[i].slot # job[k].slot
                                         /\ job[i].result # job[k].result
    /\ \A path \in DOMAIN trie :
          trie[path].final /\ trie[path].deleted # NotDeleted => path \in DeleteLines

\* Between two batches nothing in the trie is marked deleted: the n-grams that are there
\* are those of the next batch's first query (main.c:111-117).
Purged == first_available_slot = 0 =>
             \A path \in DOMAIN trie : trie[path].final => trie[path].deleted = NotDeleted

\* The store has the n-grams that a query submitted now would see; the answer to a query
\* read earlier is what its version makes of the trie as it is now.
Store == INSTANCE NGramStore WITH
             store <- View(trie, version),
             asked <- [i \in DOMAIN job |-> Answer(job[i])]

\* Deferred searches with versions and deferred deletions answer each query as if every
\* line had taken effect when it was read (README.md:20-23), in a static trie only the
\* queries (README.md:25).
ImplementsNGramStore == Store!Spec

\* The removals at the end of a batch change nothing a query can see: they make "actual"
\* what the "D" lines did (main.c:109-116).
RemovalsUnseen == [][phase = "run" /\ phase' = "collect"
                        => View(trie', version') = View(trie, version)]_vars
=============================================================================
