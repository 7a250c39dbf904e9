# TLA+ models of n_grams_detection

The program loads n-grams from an init file into a trie, then reads a work file
of lines `A` (insert an n-gram), `D` (delete one), `Q` (find all n-grams in a
text) and `F` (end of a batch: answer its queries, optionally with the `k` most
frequent n-grams). Queries are jobs for worker threads, everything else is done
by the main thread.

This directory holds TLA+ modules of the parts that carry this logic, TLC
configurations that check them on small instances, and modules of proofs, which
hold for every value of the constants. `PROJECT.json` maps every definition to the lines it models
and lists runs, mutants, hazards, findings and theorems. Paths below are
relative to `src/`.

## Inventory

| Component | State | Operations | What makes it correct |
|---|---|---|---|
| Batch loop, `main.c` | version counter, current line | one handler per kind of line | each line takes effect as if executed when it is read, although searches and removals are deferred to `F` |
| Job scheduler, `job_scheduler/jobscheduler.c` | array of jobs, `next_job`, `num_of_jobs`, `thread_in_cs`, `run`, a mutex, two condition variables | init, submit, execute, fin, worker | a batch ends, and only when all jobs are done; each job runs once; nothing runs between batches |
| Alternative scheduler, `job_scheduler/alt_scheduler.c` | one row of jobs per worker, `inactive_workers`, `total_tasks` | the same | the same, and an even share of jobs |
| Trie, `trie.c`, `trie_node.c` | nodes with a final bit and an interval of versions | insert, mark deleted, delete, compress, search | finds what is stored, for the version asked; deletion removes what nothing else needs |
| Linear hash table, `hashtable.c` | buckets, split pointer, masks | insert with split, delete, search | a stored word is in the bucket where it is looked for |
| Line manager, `string_utils.c` | slots of lines; in each a buffer of characters and positions in it | fetch into the last slot or a new one, grow, parse, next n-gram, next word | the words of the file, in order; a line that is still needed is not overwritten |
| Result manager, `string_utils.c` | one buffer of characters per query | detect, complete, fetch for top k, format and display, use again | answers in the order of the queries, nothing left of earlier ones |
| Top k, `topk/topk_hash.c` | hash table of counts, array by frequency | insert, display, reuse | the k most frequent of this batch, in order |
| Filters, `filters/` | per thread, a set of node addresses: a hash table, a sorted array or a row of bloom filters | append, reuse | an n-gram is reported once per query (a bloom filter may drop one) |

**Not modelled.** `filters/murmur3.c` is arithmetic without state; the bits it
gives an address are a constant. `topk/topk.c`, the first version of top k, is
compiled and never called. The test programs have no assertions. The build files,
the timing script, the debug printers, the dump of the trie to a file and the code
under `HYPER_NODE_OPT 0` are left out. Memory management and I/O appear only where
a bound, a reuse or the order of characters depends on them: that `realloc` and
`malloc` fail, or that a freed node is used, is not in the models.

**Interaction.** Main and the workers share the trie, the lines and the results
with no lock of their own: `trie.h:25` calls the functions that change the trie
not thread safe, and the only protection is that the scheduler runs no job
outside `execute_jobs`. Hence the division of the models: the schedulers are
shown to keep the promise `JobBatch`, and the batch loop is built on `JobBatch`.

**Hard behaviours.** Main writes the shared fields and broadcasts without the
mutex; the wait counts arrivals, not finished jobs; an n-gram has one interval of
versions; deletions are made later than they are read; slots and tables are
reused by the next batch; splits move words while both hash functions change.

## Modules

| Module | Models | Built on |
|---|---|---|
| `JobBatch` | abstract: what `jobscheduler.h:38` promises | |
| `JobScheduler` | `jobscheduler.c`, step by step | refines `JobBatch` |
| `JobSchedulerProofs` | theorems about `JobScheduler` | |
| `AltScheduler` | `alt_scheduler.c`, step by step | refines `JobBatch` |
| `AltSchedulerProofs` | theorems about `AltScheduler` | `DataLemmas` |
| `NGramStore` | abstract: a set of n-grams, as `README.md:20-25` describes it | |
| `Trie` | `trie.c`, `trie_node.c` as functions on a map from paths to nodes | |
| `NGramBatch` | the loop of `main.c`, the slots of the line manager | `Trie`, `JobBatch`; refines `NGramStore` |
| `NGramBatchProofs` | theorems about `NGramBatch` | `DataLemmas` |
| `HyperTrie` | `trie_compress` | `Trie` |
| `NGramFilter` | the three kinds of filters | `SortedArray` |
| `ResultBuffer` | the buffer of one result | |
| `TrieWalk` | the queries of batches, word by word, by worker threads, on a dynamic and on a compressed trie | `HyperTrie`, `NGramFilter`, `ResultBuffer` |
| `TrieWalkProofs` | theorems about `TrieWalk` and the three modules below it | `DataLemmas` |
| `LineInput` | one line, from `fgets` to its last word | |
| `LineInputProofs` | theorems about `LineInput` | `DataLemmas` |
| `WordSet` | abstract: a set of words | |
| `SortedArray` | the binary search that several files write out | |
| `LinearHash` | `hashtable.c` | `SortedArray`; refines `WordSet` |
| `LinearHashProofs` | theorems about `LinearHash` | `DataLemmas` |
| `DataLemmas` | lemmas that several proofs need: induction and recursion over numbers, arithmetic; the binary search finds the place, insertion and removal there keep the order; what insertion, marking, deletion and search do to any trie | `SortedArray`, `Trie` |
| `TopKHash` | `topk_hash.c` and its callers in `string_utils.c` | `SortedArray` |
| `TopKHashProofs` | theorems about `TopKHash` | `DataLemmas` |
| `MC...` | values of constants for the runs | |

Each component module has the variables and action names of the code; a "Mutant"
before an action is the action with one plausible mistake, used to show that a
property notices it.

### JobScheduler

Main's program counter `mpc` follows `main.c` and `js_execute_jobs`; `wpc` gives
the place of each worker in `worker`. The code touches shared fields with and
without the mutex, so the grain of the steps matters:

* every unlocked write of Main (lines 30, 63, 64, 65 and so on) and every
  broadcast is one step;
* a worker's critical section is cut at each shared access that an unlocked
  write of Main can come between: the load and store of `thread_in_cs`, the loop
  condition, the start of the wait, the take;
* at `-O2` the take uses the `next_job` that the loop condition loaded; the
  model does the same, with `reg` for the register;
* `pthread_cond_wait` releases the mutex and sleeps in one step.

The unlocked accesses are data races in C11. The model gives them their ordinary
meaning, interleaved in program order, and does not reorder the writes of Main.

What the environment does is named by four constants.

* `SettledStart`: every worker waits before the first job is submitted. Main
  reads the whole init file first; nothing in the code enforces it.
* `PromptWake`: a worker woken by a broadcast has either taken a job or is
  waiting again when Main resumes after the barrier. With several workers the
  code depends on it: a worker that wakes between the resets `num_of_jobs = 0`
  and `next_job = 0` finds them different and takes a slot of the old batch.
* `EmptyBatches`: a batch may have no query.
* `MaxSpurious`: how often `pthread_cond_wait` returns spuriously while Main is inside
  `js_execute_jobs`. Spurious returns of a worker at any other time are excluded.

The configuration that the repository ships (`THREADS 1`) needs no `PromptWake`
as long as no batch is empty: the run `js_shipped` checks it without, and the
theorems cover it.

### AltScheduler

The same conventions. A worker waits for `job_pending` with no loop around
(`alt_scheduler.c:114`); a spurious return there runs the worker's row at once
while Main may be dealing jobs, so the model assumes that this wait does not
return spuriously (Main's may). `SettledStart` stands for the barrier that is
commented out at lines 39-43.

### Trie, NGramBatch

A node is named by its path, a non-empty sequence of words. The first level (the
hash table) and the sorted arrays below both hold the children of a path, and
what they store is left to `LinearHash` and `SortedArray`. `deleted = -1`, an
unsigned maximum, is `NotDeleted`. `ca_force_delete` removes a subtree; the node
it is called on follows from the last fork, as in `trie_delete`.

`NGramBatch` fetches a line and handles it in one action. `fetch` is the fetch
function that the handler of the previous line called; `Slot` and `Grown` are
the slot arithmetic of the line manager, `rm_get_result` that of the results. On
a static trie (`dynamic` is FALSE) `A` and `D` lines take a version and a slot and
change nothing else. Searches are jobs of `JobBatch` and run
in any order once `F` is read. One search is one step, since it reads only the
trie and its line, which do not change while a batch runs; `TrieWalk` looks
inside it. End of file may come before any line and drops an unfinished batch,
as the code does; an invalid line ends the work file in the same way.

A node has one interval of versions, and `trie.c:25-26` says that inserting an
n-gram that is already there can give wrong results. `Disciplined` excludes
such lines: inside a batch no n-gram is inserted that is present or that an
earlier line of the batch deletes, and none is deleted twice. It does not
restrict different n-grams, or the same n-gram in different batches. The same
lines are kept from a static trie, which loses nothing: they change nothing there.

The `store` of the refinement is the set of n-grams visible at the current
version, and the answers asked for are computed from the trie as it is *now*
with the version of each query (without it on a static trie). The refinement therefore says that no later
line, and no deferred removal, changes what an earlier query finds, and that
what is printed is what those queries find.

### LinearHash, SortedArray, TopKHash

Words are numbers in alphabetical order; the djb2 codes are a constant. Masks
are the sizes minus one, and a code is taken modulo a size, which is what the
mask does to it. The insertion is one action, with the split and the change of
round in the order of `hashtable_insert`.

`TopKHash` adds n-grams one by one as the loops of `rm_prepare_topk` and `topk`
do. An access outside the array is undefined behaviour: the module lets the
program go on as if it had found an empty row, or end.

What the display prints is a sequence of records, an n-gram and whether `|` or a
newline follows it, because the two loops of the display decide that separately.

### HyperTrie, NGramFilter, ResultBuffer, TrieWalk

`TrieWalk` chooses an init file and a filter, loads the file, compresses the trie
when it is static, and then runs batches. A worker takes a query, empties its own
filter and walks: `Descend` looks a word up among the children, `Compare` passes
one word of a hyper node, `NextNGram` starts again one word further. `LoadedWithout`
is the trie after `trie_mark_deleted` of the n-grams that are removed. The steps of
the workers interleave. They share nothing that they write, and that is what the
properties test: `detected_nodes` is indexed by the position that `get_filter`
finds, and each result belongs to one query. When all are done `rm_display_result`
counts, formats and prints in one step, since only Main runs.

A filter holds addresses of nodes, and inside a hyper node addresses of words;
`Address` is any injective numbering. `FILTER_INIT_SIZE` and the capacity of one
bloom filter are small so that both grow. The values of the hash functions are
constants chosen to collide: two addresses in a bucket, and an address whose bloom
bits are covered by another one's, which makes a false positive. README.md admits
false positives, so `BloomDropsOnlyCovered` says what a bloom filter may do instead
of `AnswersExactly`.

`AnswersExactly` compares the walk with a search of the same nodes in one step.
`AnswersOfFile` leaves the nodes and the order aside and compares it with the init
file: an error in how versions or nodes say what is in the trie shows only there.

`ResultBuffer` keeps the characters, with one character for a word, because the
separators, the NULs and the `-1` are what can go wrong: a result is written with
NULs, read for top k by NULs, turned into a line, and written again by the next
batch without being cleared.

### LineInput

A file is a sequence of characters, and the two headers are `STATIC` and `DYNAMIC`, letter
by letter, because their length matters (see below). The steps follow `Qline_fetch` and
`Iline_fetch`: `FetchFirst` is the first `fgets`, `Grow` a `realloc` with the `fgets` behind it, `Header` the second
call of a fetch, then `line_parse`, and `line_fetch_ngram` and `line_fetch_word` as
insertion and deletion call them (deletion goes through the words twice). A search
takes its words from every n-gram that `line_fetch_ngram` returns (`NextWalk`).
New memory holds `JUNK`, and the fields that `line_init` does not set start with any
value. `Expected` is written from the format of the files, as a function from each
position in a whole text to the words, or lines, behind it, and has no buffer.

Two things about files are assumed (`FilesAssumption`): they are text, without NUL, and
a line that is a header word alone is the first line of an init file. The code takes any
such line for a header; what it then does is in `Header`, but a header in the middle of
a file is a file that no part of the repository describes.

When an init file ends inside a line, `Iline_fetch` returns `false`, which is 0, "a line
was read" (`string_utils.c:268`), and `line_parse` (119) looks for a newline beyond the NUL
of the string. `line_parse` itself takes the newline of every line away, but a header is
never parsed: its newline stays at index 8 (`STATIC`) or 9 (`DYNAMIC`) of the buffer until
a line is long enough to reach it. So there are two cases, and `HeaderEndRemains` tells them
apart from the file alone:

* no line behind the header, the unfinished one included, reaches that index. Then
  `line_parse` stops there, and main inserts a line that the file does not have, made of
  the unfinished one and of what is left of the header: the file `STATIC`, newline, `a` gives
  the n-gram `a ATIC`. `LinesAsWritten` states this as the only case in which the program
  gets a line more than the file has, and that it then does get one. The comment at
  `string_utils.c:247` promises -1 at the end of the file: the code breaks it here;
* otherwise no newline is in the buffer, and `line_parse` reads memory that was never
  written and goes on behind the buffer. That is undefined; the module stops there
  (`"overrun"`), and `OverrunOnlyUnfinished` says that it happens in no other case.

## Runs

| Run | Bounds | Shows |
|---|---|---|
| `js_shipped` | 1 worker, 5 jobs | without `PromptWake`: barrier, no overlap, every batch with queries returns |
| `js_pool` | 3 workers, 3 jobs, 1 spurious wake-up, empty batches | refines `JobBatch`, each job once, array bounds, execute and fin return |
| `js_emptybatch` | 1 worker, 1 job | **violation**: a batch without queries can hang the next `js_execute_jobs` |
| `alt_settled` | 3 workers, 4 jobs, 1 spurious wake-up | as `js_pool`, and that the rows hold the jobs of the batch, round robin and in order |
| `batch_lines` | 6 lines, 3 n-grams that fork and extend each other, 2 slots at first | static and dynamic: refines `NGramStore`; slots and results, shape of the trie, purge |
| `batch_reinsert` | 4 lines, 1 n-gram | **violation**: delete then insert in one batch loses the n-gram |
| `hash_rounds` | 7 words, 1 bucket of 1 slot at first | refines `WordSet`; every word in its bucket; rounds in step |
| `topk_batches` | 3 n-grams in 2 buckets, 5 detections a batch, k up to 3 | counts of this batch only; output is the ranking cut at k, with its separators and the end of its line |
| `topk_onceeach` | 2 detections | **violation**: no row when every n-gram occurs once |
| `walk_search` | 2 workers, 2 batches of 2 queries, 5 init files (one with a deletion), each static where possible and dynamic, 3 filters, result buffers of 3 characters | exactly the n-grams of each text, once, in order, and those of the file that are not deleted yet; the printed lines; what top k gets |
| `lines_files` | all init and work files of up to two lines out of 6 and 13, with each header, 4 unfinished ends of an init file and 2 of a work file, a buffer of 4 characters | the lines as they are written, when there is one more, the status, and when the parser leaves the buffer |
| `lines_empty` | those of them with an empty line behind an `A` line | **violation**: a line without words yields a word |

**Why the bounds are enough to be of interest.** Three workers and three jobs
give a worker that runs several jobs, workers that run none, and a batch after
one that grew the array; `INIT_ARR_SIZE 1` makes it grow at the second job. Five
jobs with one worker give batches of every size up to five in sequence. Six
lines are a batch of up to five lines and a second batch on its results, with the
slots doubled at the third independent line. Seven words cause splits in three
rounds (five buckets): words of one code, which no split separates, words whose
codes agree in their last bits, and words that the first split separates. The
init files of `walk_search` give branches with and without forks and an n-gram that ends inside
a branch; the texts repeat n-grams and leave a branch at its end, in its middle and at a fork; the second
batch meets filters, and results, that the first one filled. A buffer of 3
characters is doubled more than once by the first result. The lines of `lines_files` end
before, at and behind the end of the first buffer and of the doubled one, the longest
needs three doublings, and two lines are enough for a line to find another one's
characters and positions in the slot. Lines and unfinished ends of its init files stop
before, at and behind the index where a header leaves its newline. `CountersBounded` in `MCJobScheduler`
keeps the run `js_emptybatch` finite.

**Fairness.** The schedulers assume weak fairness of `MainStep` and of each
worker: a thread that can run, or that waits for a mutex which becomes free for
good, does run at some time. Reading further lines, submitting, starting a batch
and ending are not fair: the input decides. `ExecuteReturns` and `FinReturns` are
the only liveness properties. The mutex of the model is free again after every
critical section and weak fairness was enough, so no strong fairness is assumed.

**Violations.** The four violating runs are findings, listed with the lines and
the sentences they contradict in `PROJECT.json`: `js_emptybatch` (a lost wake-up
after a batch without queries), `batch_reinsert` (`D` then `A` of one n-gram in a
batch), `topk_onceeach` (no row for frequency 1) and `lines_empty` (the letter of
the task taken for an n-gram). The n-gram made of an unfinished line and the header before
it has no run of its own: `LinesAsWritten` states it exactly, in the run `lines_files`.

**Assumptions that hide behaviour.** Each of these excludes executions that the code has
and that would break a promise; the runs and theorems say nothing of them.

* `PromptWake` (`JobScheduler`, several workers). Without it two workers break
  `NoJobOutsideBatch` even when no batch is empty, by the window between the resets
  described above.
* `SettledStart`. Without it one late worker breaks `NoJobOutsideBatch` of `JobScheduler`
  (it takes a job before `js_execute_jobs`) and `BatchBarrier` of `AltScheduler` (it counts
  as one that came back from its row).
* Spurious returns in `JobScheduler` only while Main is inside `js_execute_jobs`: the
  guard `InBatch` of `Spurious`. POSIX allows them at any time. A worker whose wait
  (`jobscheduler.c:80`) returns without a signal after `js_submit_job` finds
  `num_of_jobs` above `next_job` and runs the job while Main is still reading lines and
  changing the trie. Without the guard TLC finds `NoJobOutsideBatch` and
  `ImplementsJobBatch` of `js_pool` violated, with one spurious return.
* No spurious return of the unconditional wait of a worker in `AltScheduler`
  (`alt_scheduler.c:114`): it would run the row at once, whatever Main is doing.
* `Disciplined` (`NGramBatch`): no `A` of an n-gram that is present, and no second `D` of
  one, within a batch. The `D` then `A` that it also excludes is the finding
  `batch_reinsert`.
* `FilesAssumption` (`LineInput`): text without NUL, and no header behind the first line.

## Proofs

### JobScheduler

`JobSchedulerProofs` proves, for every finite non-empty set of workers, every
number of jobs, every initial capacity and any number of spurious wake-ups while Main is
inside `js_execute_jobs`:

* `TypeCorrect`: types, under any timing;
* under `Regime`, which is `SettledStart` and either `PromptWake` or (one worker,
  no empty batch, no spurious wake-up): `BarrierCorrect`, `NoOverlap`,
  `ExactlyOnce`, `ArrayBounds`, and `Implements`, the refinement of `JobBatch`.

`Regime` is a hypothesis of these theorems, not a fact about every execution. Its
second alternative is the shipped configuration.

The argument rests on an inductive invariant, `IInv`, with these parts.

* `CountInv`: while arrivals are counted, `thread_in_cs` plus the number of busy
  workers is the number of workers plus `next_job`. This is what makes the odd
  condition of line 59 right: at `thread_in_cs - threads = num_of_jobs`, with
  `next_job <= num_of_jobs`, no worker is busy and every slot was taken.
  `BatchBarrier` alone says nothing of the count and is not inductive.
* `SlotInv` and `ProgressInv`: slot `i` holds the job `submitted - num_of_jobs + i
  + 1`; executing workers hold different taken slots; a submitted job is
  unfinished exactly if its slot is untaken or held by such a worker. The counters
  are reset but the slots are not cleared, so this is needed for `EachJobOnce`.
* `MutexInv`: the places in which a worker owns the mutex, and that `reg` is
  current there.
* `PlaceInv`: when Main writes without the mutex, all workers sleep.
* `WakeInv`: without `PromptWake` (one worker, no empty batch), a batch has jobs,
  and while the worker has not run since the broadcast none of them was taken; so
  Main cannot pass the wait before the worker has come back and sleeps.

Each action has one lemma with one step per part of `IInv`. For the refinement,
`Take` is the start of a job, `ExecuteJob` its end, and `ResetNum` the return.

### AltScheduler

`AltSchedulerProofs`, for every number of workers, every number of jobs and every
initial capacity: `TypeCorrect` under any timing, and under `SettledStart`
`BarrierWaits`, `QuietOutsideBatch`, `SharedOut` and `Implements`,
the refinement of `JobBatch`. `SharedOut` (`DealtOut`) says that the rows hold exactly the
last `total_tasks` jobs submitted, among them every job that is not done, that the `a`-th
of them, from 0, is in row `a % T` and slot `a \div T`, that the sizes differ by at most one and
that no row exceeds its allocation. In the inductive invariant `CountInv` says that, until Main
passes the barrier, `inactive_workers` and the number of workers away from the wait add
up to the number of workers; `DealInv` that the slots in use are those whose place in
the round robin is below `total_tasks`, and which job each holds; `ProgressInv` how far
every worker is in its row. Places in the round robin are products of rows and slots:
`TimesMonotone` and `DivModUnique` are for them. `SettledStart` is what the barrier that is
commented out would give; without it the theorems are false.

### SortedArray, LinearHash

`DataLemmas` proves that the binary search returns, on every strictly sorted
array, the index where the element is or belongs (`LocateFindsPlace`,
`HoldsIffPresent`), and that the insertion and the removal there keep the array
strictly sorted. The loop invariant is `Between`: what is left of the range is
below the element, what is right of it above.

`LinearHashProofs`, for any words, any codes and any sizes: `TypeCorrect`, `Rounds`,
`Addresses`, `ArraysSorted` and `Implements`, the refinement of `WordSet`. `IInv` is
`BucketsInv` (types, the arrays inside their slots, strictly sorted), `RoundInv` (the
split pointer, the number of buckets and both masks) and `PlacedInv` (a word is in
the bucket of its address). `AtItsAddress` is not inductive without the other two: a
split sends a word by the larger mask to its own bucket or to the new one, and it
lands at its address only because the new bucket's number is the split pointer
plus the smaller size, and nowhere else because each array is sorted and holds a word
once. There are no assumptions besides those of the constants.

### TopKHash

`TopKHashProofs`, for any n-grams, any hash function and any number of batches and of
n-grams in them: `TypeCorrect`, `CountsTheBatch` (`Counted`) and `PrintsTheRanking`
(`PrintsTopK`), without assumptions besides those of the constants. `Counted` alone does
not say that the table is complete; the parts of `IInv` are

* `TableInv`: each bucket is sorted, holds the words of its key that were inserted and no
  other one, each with the number of times (`Counts`); and `max_freq` is no less than any
  number above 1. It may be 0 while there are words, which is why `PrintsTopK`, and the
  last step of its proof, need an n-gram that occurs twice (run `topk_onceeach`);
* `RowsInv`: when `n` entries are in the array, each row is sorted and has the words of
  its frequency among these entries (`IsRow`), and no row is missing up to `max_freq`;
* `OutputInv`: what was printed is the ranking cut at `k`.

The loops over buckets and over rows are concatenations, and `FlattenIsFlat` says what is
in a concatenation and in which order: for the table that no word is left out
(`EntriesOfBuckets`), for the rows from the end that frequencies fall and that words of one
frequency are in alphabetical order (`DescendingRanks`). An order in which nothing stands
before itself has no word twice, so the output has `k` words or all of them
(`RankLength`, `CutIsRanking`).

### Trie, NGramBatch

The lemmas about `Trie` are in `DataLemmas`. A trie is `WellFormed` when every node's way from the
first level is there and every branch ends in an n-gram. Insertion, marking and
deletion keep that, and change the nodes they should and no other one
(`TrieInsertEffect`, `TrieMarkEffect`, `TrieDeleteEffect`). The deletion is the delicate one:
`OneBranch` says that below the last fork on the way to a leaf there is nothing but
that way, so that the subtree which `ca_force_delete` removes holds no other n-gram,
and `CutEffect` that the node above it is a fork or final and stays the end of no dead
branch. `InsertView`, `MarkView` and `DeleteView` say what a query of each version
sees afterwards.

`NGramBatchProofs`, for any n-grams, texts, number of lines and of slots, on a static
and on a dynamic trie, for batches of any kind: `TypeCorrect`, `WellFormedTries`,
`KeptLines` and `PurgedBetweenBatches`. For disciplined batches, `RemovalsInDiscipline`
(the removals at `F` change nothing that a query can see) and `Implements`, the
refinement of `NGramStore`. `Disciplined` is needed: the run `batch_reinsert` shows
that `RemovalsUnseen` is false without it. The parts of `IInv` are

* `LinesInv`: the slot that the next line may reuse holds no query and no deletion.
  `LinesKept` alone does not say why the next line spares the slots of the batch;
* `TrieInv`: the trie is well formed, no version in it is above the current one, and
  what is marked deleted has its `D` line. With no slot in use there is no such line:
  hence `Purged`;
* `JobsInv`: each job has its own slot, with its query in it, and its own result;
* `SchedulerInv`: the queue is the batch, and outside `F` nothing of it is done;
* `AnswersInv`: a job that is done has left the answer of its version;
* `DisciplineInv`: what the `D` lines of a disciplined batch name is out of sight.

The refinement follows from the three view lemmas: an insertion changes no earlier
view because the n-gram was not there, a deletion none because it was not marked, and
the loop over the slots at the end takes away only what is out of sight already.
`NGramBatch` relies on the scheduler only through `JobBatch`, which both schedulers
are proved to implement, each under its assumptions on timing.

### LineInput

`LineInputProofs`, for every size of the first buffer, every set of files of any length
and any content: `LineInputTypes` (`TypeOK`: nothing is written outside the buffer),
`LineInputLines` (`LinesAsWritten`, with the one line too many of an unfinished init file
exactly when `HeaderEndRemains`), `LineInputStatus` and `LineInputOverrun` (outside the
buffer only in the other unfinished init files). The only assumptions are those of the constants. `IInv` is `Typed` and `Progress`, which says for
each place of the program what the buffer, the words and the lines given have to do with
the part of the file that was read. Its parts are

* `Reading`: what is not read yet is the end of the file;
* `Begins` and `Agree`: a line begins behind the first `m` characters, it was read
  without a newline up to `Read`, and the lines given are those in front of `m`, so that
  the lines behind `m` are the rest of the lines expected;
* `Filled`: the buffer holds the line so far, the characters `A ` in front of it in an
  init file, and a NUL behind; the only newlines in it are that of the line and, behind
  it, that of a header that no line has reached (`OldEnds`). `Grow` keeps
  this because `fgets` goes on exactly at that NUL: `FillStep` is for the first `fgets`
  and for every further one. That an *old* newline is never in front of that of the line
  (`OldEndsBehind`) is what makes `line_parse` stop at the end of this line; when the file
  ends inside the line, the old one is all that is left (`CutOff`, `RemainsIs`);
* `Complete`: the line ends at `Read`, is valid, and its task and its `k` are those that
  its text asks for;
* `Cut`: the words are separated by NULs, and no newline of the line is left for the next
  one to find;
* `Returned`, `WalksTaken` and `ListTaken`: the words returned and the words behind the
  position of the line are together the words of the line. For a search, the lists taken
  are those from the first words on, one for each.

`Words`, which goes through a text by spaces, and the positions in a buffer cut by
`line_parse` are related by `CutWords`: the next place that is no NUL is the first letter
of the next word. `WordsUnfold`, `LinesUnfold` and `WordsFromIs` say that the recursive
functions satisfy their equations (`ListRecursion`). What the proof found: `KOf` was
written with a `CASE` whose guards overlapped, so that TLA+ left open which one counts.

### TrieWalk

`TrieWalkProofs`, for every set of init files, all texts and batches, every number of
threads, each of the three filters and every size of a buffer: `WalkTypes`
(`TypeOK`), `WalkAnswers` (`AnswersExactly`), `WalkBloom` (`BloomDropsOnlyCovered`),
`WalkOfFile` (`AnswersOfFile`), `WalkPrinted` and `WalkCounted`. Assumed of the constants are: the n-grams of a file are
finitely many and not empty, no word is a NUL, each thread has one position in
`t_ids`, the addresses of nodes are different natural numbers, and the
sizes of filters and buffers are positive. The values of the hash functions are
arbitrary.

Each part has a predicate that says what it holds, and lemmas about its operations:

* `HasNGrams`: the n-grams of a result are placed one behind the other, each followed by
  its NUL. `ResultExtended` and `ResultCompleted` keep it whether or not the buffer
  grows; `FetchedIs` says that top k fetches exactly these n-grams, and `FormattedIs`
  that the line is theirs and that the buffer is empty afterwards, whatever is left
  in it;
* `FilterHas`: what a filter answers next, from the addresses it was asked for and those
  it let through. For the table and the array of pointers both are the same set;
  `FilterEmpty` says that reuse leaves nothing, for bloom filters because none above
  `in_use` has a bit set;
* `IsOccurred`: the reference `Occurrences` satisfies its equation at each place;
* `IsBranch`: below a hyper node there is one way, down to a leaf, and the vector has the
  words and final bits of that way (`BranchOfHyperNode`);
* `At`: the walk is at the node of the words from `start` to `pos`, or inside the hyper
  node above it, behind the last of them. `FollowsIs`: it goes on exactly when the next
  words are a node of the trie *before* compression. Hence nothing longer is in the
  answer where it stops (`NoneFollows`).

`Searched` joins filter, result and text: what the walk has asked for is what occurs
before it, and what it has reported is the same list or, for a bloom filter, a part of
it that covers the rest (`Covered`). `IInv` says this of every working thread
(`Walking`) and, of the whole text, of every answered query (`AnsweredOK`). It also says
that no two threads have one query and, with `FilterOfThread`, that none shares a filter
(`WorkerStepKeeps` needs both), that the results no search has begun are empty
(`FreeOK`), and what was displayed (`DisplayedOK`). `AnswersExactly` is not inductive: it
speaks of finished walks only, and not of the filters.

The order `Occurrences` is a recursion, and that it loses nothing is a lemma of its own:
`OccurrencesComplete`, by induction over the places of the text, says that at the end of
the text the list has every n-gram between its words, each once. With `SearchOfFile`,
which n-grams of the file a search sees in each version, it gives `AnswersOfFile`
from `AnswersExactly`; `IInv` needs nothing more.

### How the proofs deal with recursion

The theorems of the library on induction take an operator as a parameter, which the
installed provers cannot instantiate. `DataLemmas` states induction for a *set* of
numbers, and that a recursion whose depth is bounded has a solution (`BoundedRecursion`)
for a *function* on functions; both are first-order and proved from finite sets. The
binary search, the division of a bucket and the loop of removals are recursive
functions for that reason, and so are the concatenations of top k (`FlattenSeq`) and the
lines and words of a file.

**Only model-checked:** liveness of both schedulers (fairness and `ENABLED` are out of
reach of the provers): `ExecuteReturns` and `FinReturns`. Every other property of a
passing run is a theorem. Folds with a `LAMBDA`, `SelectSeq`, `@@` and
`:>` are opaque to the provers; what is proved is written with recursive functions.

## Limits

Every component that carries logic is modelled, checked and proved. What stays outside
is listed under Components in `PROJECT.json`, each with its reason. Three gaps are
worth knowing. `NGramBatch` takes a search as one step and `TrieWalk` takes it apart, but
on a trie that is loaded and not changed between batches; that both speak of the same
answer is `AnswerOf`, which is the `TrieSearch` of `NGramBatch`. The memory of nodes
(allocation, addresses, what is freed) is abstracted to injective addresses. And
`LineInput` stops where the code leaves the buffer. The assumptions under Runs that hide
behaviour limit the schedulers and the batch loop in the same way.
