-------------------------- MODULE NGramBatchProofs --------------------------
(* The batch loop keeps every line and every node that is still needed, and *)
(* deferred searches, versions and deferred deletions answer each query as  *)
(* if every line had taken effect when it was read.                         *)
EXTENDS NGramBatch, DataLemmas

---------------------------------------------------------------------------
(* The inductive invariant.                                                 *)

\* The slots of the line manager; the slot that the next line may reuse holds neither a
\* query nor a deletion.
LinesInv ==
    /\ \E n \in Nat \ {0} : DOMAIN line = 0 .. n - 1 /\ first_available_slot \in 0 .. n
    /\ line \in [DOMAIN line -> Line]
    /\ fetch \in {"sequence", "independent"}
    /\ fetch = "sequence" /\ first_available_slot > 0 =>
          line[first_available_slot - 1].status \notin {"Q", "D"}

\* The trie is one that lines up to the version can make, of n-grams of the lines, and
\* what is marked in it has its "D" line.
TrieInv ==
    /\ read \in 0 .. MaxLines /\ version \in 1 .. read + 1
    /\ dynamic \in BOOLEAN
    /\ IsMap(trie) /\ Versioned(trie, version)
    /\ Finals(trie) \subseteq NGrams /\ DeleteLines \subseteq NGrams
    /\ Marked(trie) \subseteq DeleteLines
    /\ ~dynamic => Marked(trie) = {}

\* Each job has a slot of its own with its query, and its own result.
JobsInv ==
    /\ job \in Seq([slot : Nat, result : Nat, version : Nat])
    /\ results \in Seq(SUBSET NGrams) /\ Len(results) = Len(job)
    /\ printed \in Seq(SUBSET NGrams)
    /\ earlier \in Nat /\ earlier + Len(job) <= read
    /\ \A i \in 1 .. Len(job) : /\ job[i].slot \in 0 .. first_available_slot - 1
                                /\ job[i].result = i - 1
                                /\ job[i].version \in 1 .. version
                                /\ line[job[i].slot].status = "Q"
    /\ \A i, k \in 1 .. Len(job) : i # k => job[i].slot # job[k].slot

\* The queue is the batch, and its jobs run only between "F" and the answers.
SchedulerInv ==
    /\ phase \in {"collect", "run", "closed"}
    /\ queue = IF phase = "closed" THEN {} ELSE earlier + 1 .. earlier + Len(job)
    /\ running \subseteq queue /\ running \cap done = {}
    /\ done \subseteq 1 .. earlier + Len(job)
    /\ phase # "run" => running = {} /\ done \subseteq 1 .. earlier

\* A job that is done has left its answer.
AnswersInv == \A i \in 1 .. Len(job) : earlier + i \in done => results[i] = Answer(job[i])

\* What the "D" lines of a batch name is out of sight already.
DisciplineInv == Disciplined /\ dynamic => DeleteLines \cap View(trie, version) = {}

IInv == /\ LinesInv /\ TrieInv /\ JobsInv /\ SchedulerInv /\ AnswersInv /\ DisciplineInv

---------------------------------------------------------------------------
(* What fetching a line does.                                               *)

\* The line goes to a slot that no query and no deletion of the batch is in.
Fetched(slot, status, words) ==
    /\ slot = Slot /\ slot \in Nat
    /\ \E n \in Nat \ {0} : DOMAIN line' = 0 .. n - 1 /\ slot \in 0 .. n - 1
    /\ line' \in [DOMAIN line' -> Line]
    /\ first_available_slot \in Nat /\ first_available_slot' = slot + 1
    /\ first_available_slot - 1 <= slot /\ slot <= first_available_slot
    /\ line'[slot] = LineOf(status, words)
    /\ \A s \in 0 .. first_available_slot - 1 : s # slot => line'[s] = line[s]
    /\ slot \in 0 .. first_available_slot - 1 => line[slot].status \notin {"Q", "D"}
    /\ read' = read + 1 /\ read < MaxLines /\ phase = "collect"

\* A line that is read is put into one slot, and no other slot changes.
LEMMA FetchEffect ==
  ASSUME LinesInv, NEW status \in {"-", "Q", "A", "D", "F"},
         NEW words \in NGrams \cup Texts \cup {<<>>}, Fetch(status, words)
  PROVE  \E slot \in Nat : Fetched(slot, status, words)
  <1> DEFINE slot == Slot
             before == IF fetch = "sequence" THEN line ELSE Grown
  <1>1. PICK n \in Nat \ {0} : DOMAIN line = 0 .. n - 1 /\ first_available_slot \in 0 .. n
    BY DEF LinesInv
  <1>2. LineOf(status, words) \in Line /\ Unused \in Line
    BY DEF LineOf, Unused, Line
  <1>3. /\ slot \in Nat /\ first_available_slot - 1 <= slot /\ slot <= first_available_slot
        /\ fetch = "sequence" => slot \in 0 .. n - 1
        /\ slot \in 0 .. first_available_slot - 1 =>
              fetch = "sequence" /\ slot = first_available_slot - 1 /\ first_available_slot > 0
    BY <1>1 DEF Slot, SequenceSlot, LinesInv
  <1>4. /\ before \in [DOMAIN before -> Line]
        /\ \E m \in Nat \ {0} : DOMAIN before = 0 .. m - 1 /\ slot \in 0 .. m - 1
        /\ \A s \in 0 .. first_available_slot - 1 : before[s] = line[s]
    <2>1. line \in [DOMAIN line -> Line]
      BY DEF LinesInv
    <2>2. CASE fetch = "sequence" \/ first_available_slot \in DOMAIN line
      <3>1. before = line
        BY <2>2 DEF Grown
      <3>2. slot \in 0 .. n - 1
        BY <1>1, <1>3, <2>2 DEF Slot
      <3> QED
        BY <1>1, <2>1, <3>1, <3>2
    <2>3. CASE ~(fetch = "sequence" \/ first_available_slot \in DOMAIN line)
      <3>1. before = [s \in DOMAIN line \cup first_available_slot .. 2 * first_available_slot - 1
                         |-> IF s \in DOMAIN line THEN line[s] ELSE Unused]
        BY <2>3 DEF Grown
      <3>2. first_available_slot = n /\ slot = n
        BY <1>1, <2>3 DEF Slot
      <3>3. 0 .. n - 1 \cup n .. 2 * n - 1 = 0 .. 2 * n - 1
        OBVIOUS
      <3> HIDE DEF before, slot
      <3>4. DOMAIN before = 0 .. 2 * n - 1
        BY <1>1, <3>1, <3>2, <3>3
      <3>5. \A s \in DOMAIN before : before[s] = IF s \in DOMAIN line THEN line[s] ELSE Unused
        BY <3>1
      <3>6. before \in [DOMAIN before -> Line]
        BY <1>2, <2>1, <3>1
      <3>7. 2 * n \in Nat \ {0} /\ slot \in 0 .. 2 * n - 1
        BY <3>2
      <3>8. \A s \in 0 .. first_available_slot - 1 : before[s] = line[s]
        BY <1>1, <3>2, <3>4, <3>5
      <3> QED
        BY <3>4, <3>6, <3>7, <3>8
    <2> QED
      BY <2>2, <2>3
  <1>5. line' = [before EXCEPT ![slot] = LineOf(status, words)]
    BY DEF Fetch
  <1>6. /\ first_available_slot' = slot + 1 /\ read' = read + 1
        /\ read < MaxLines /\ phase = "collect"
    BY DEF Fetch
  <1>7. slot = Slot
    OBVIOUS
  <1>8. fetch = "sequence" /\ first_available_slot > 0 =>
           line[first_available_slot - 1].status \notin {"Q", "D"}
    BY DEF LinesInv
  <1> HIDE DEF slot, before
  <1>9. slot \in DOMAIN before /\ DOMAIN line' = DOMAIN before
    BY <1>4, <1>5
  <1>10. /\ line'[slot] = LineOf(status, words)
         /\ \A s \in 0 .. first_available_slot - 1 : s # slot => line'[s] = line[s]
         /\ line' \in [DOMAIN line' -> Line]
    <2>1. line'[slot] = LineOf(status, words)
      BY <1>5, <1>9
    <2>2. \A s \in DOMAIN before : s # slot => line'[s] = before[s]
      BY <1>5
    <2>3. \A s \in 0 .. first_available_slot - 1 : s \in DOMAIN before
      BY <1>3, <1>4, <1>1
    <2>4. line' \in [DOMAIN line' -> Line]
      BY <1>2, <1>4, <1>5
    <2> QED
      BY <1>4, <2>1, <2>2, <2>3, <2>4
  <1>11. Fetched(slot, status, words)
    BY <1>1, <1>3, <1>4, <1>6, <1>7, <1>8, <1>9, <1>10 DEF Fetched
  <1> QED
    BY <1>3, <1>11

\* Queries and deletions stay in their slots: the "D" lines of the batch are those that
\* were read, and the text of a job is the one it was submitted with.
LEMMA FetchKeeps ==
  ASSUME LinesInv, JobsInv, NEW slot \in Nat, NEW status, NEW words, Fetched(slot, status, words)
  PROVE  /\ DeleteLines' = DeleteLines \cup (IF status = "D" THEN {words} ELSE {})
         /\ \A i \in 1 .. Len(job) : job[i].slot # slot /\ line'[job[i].slot] = line[job[i].slot]
  <1> DEFINE some == 0 .. first_available_slot - 1
             all == 0 .. first_available_slot' - 1
  <1>1. /\ first_available_slot \in Nat /\ first_available_slot' = slot + 1
        /\ first_available_slot - 1 <= slot /\ slot <= first_available_slot
        /\ line'[slot] = LineOf(status, words)
        /\ \A s \in some : s # slot => line'[s] = line[s]
        /\ slot \in some => line[slot].status \notin {"Q", "D"}
    BY DEF Fetched
  <1>2. all = some \cup {slot}
    BY <1>1
  <1>3. line'[slot].status = status /\ line'[slot].words = words
    BY <1>1 DEF LineOf
  <1>4. DeleteLines = {line[s].words : s \in {s \in some : line[s].status = "D"}}
    BY DEF DeleteLines
  <1>5. DeleteLines' = {line'[s].words : s \in {s \in all : line'[s].status = "D"}}
    BY DEF DeleteLines
  <1> HIDE DEF some, all
  <1>6. DeleteLines' = DeleteLines \cup (IF status = "D" THEN {words} ELSE {})
    BY <1>1, <1>2, <1>3, <1>4, <1>5
  <1>7. \A i \in 1 .. Len(job) : job[i].slot \in some /\ line[job[i].slot].status = "Q"
    BY DEF JobsInv, some
  <1> QED
    BY <1>1, <1>6, <1>7

\* The lines kept for jobs and removals stay in their slots when another line is read.
LEMMA FetchLines ==
  ASSUME LinesInv, NEW slot \in Nat, NEW status, NEW words, Fetched(slot, status, words),
         fetch' \in {"sequence", "independent"}, fetch' = "sequence" => status \notin {"Q", "D"}
  PROVE  LinesInv'
  <1>1. line'[slot].status = status /\ first_available_slot' - 1 = slot
    BY DEF Fetched, LineOf
  <1>2. PICK n \in Nat \ {0} : DOMAIN line' = 0 .. n - 1 /\ slot \in 0 .. n - 1
    BY DEF Fetched
  <1>3. first_available_slot' \in 0 .. n
    BY <1>2 DEF Fetched
  <1>4. line' \in [DOMAIN line' -> Line]
    BY DEF Fetched
  <1> QED
    BY <1>1, <1>2, <1>3, <1>4 DEF LinesInv

---------------------------------------------------------------------------
(* The steps of main.c while it reads a batch.                              *)

\* The constants: versions stay below the one that stands for "not deleted".
LEMMA Constants ==
  /\ NGrams \subseteq Paths /\ Texts \subseteq Paths /\ {<<>>} \cup NGrams \cup Texts \subseteq Seq(STRING)
  /\ MaxLines \in Nat /\ NotDeleted \in Nat /\ MaxLines + 1 < NotDeleted
  /\ NumberOfLines \in Nat \ {0} /\ Disciplined \in BOOLEAN
  <1>1. <<>> \in Seq(STRING)
    OBVIOUS
  <1> QED
    BY <1>1, NGramsAssumption, BoundsAssumption, DisciplinedAssumption DEF Paths

\* A new version changes nothing by itself, and nothing that is seen when nothing is marked.
LEMMA NextVersion ==
  ASSUME NEW some, NEW old, Versioned(some, old), old + 1 < NotDeleted
  PROVE  /\ Versioned(some, old + 1)
         /\ Marked(some) = {} => View(some, old + 1) = View(some, old)
  <1>1. old \in Nat /\ NotDeleted \in Nat /\ old + 1 \in Nat
    BY DEF Versioned
  <1>2. Versioned(some, old + 1)
    <2>1. UpTo(old) \subseteq UpTo(old + 1)
      BY <1>1 DEF UpTo
    <2> QED
      BY <1>1, <2>1 DEF Versioned
  <1> QED
    BY <1>2, ViewOfUnmarked

\* Reading an "A", a "D" or an "F" line leaves the jobs as they are.
LEMMA JobsKept ==
  ASSUME LinesInv, JobsInv, NEW slot \in Nat, NEW status, NEW words, Fetched(slot, status, words),
         UNCHANGED <<job, results, printed, earlier>>,
         version \in Nat, version' \in Nat, version <= version', read \in Nat
  PROVE  JobsInv'
  <1>1. \A i \in 1 .. Len(job) : line'[job[i].slot] = line[job[i].slot]
    BY FetchKeeps
  <1>2. /\ first_available_slot \in Nat /\ first_available_slot' \in Nat
        /\ first_available_slot <= first_available_slot' /\ read' = read + 1
    BY DEF Fetched
  <1>3. \A i \in 1 .. Len(job) :
           /\ job[i].slot \in 0 .. first_available_slot' - 1
           /\ job[i].result = i - 1
           /\ job[i].version \in 1 .. version'
           /\ line'[job[i].slot].status = "Q"
    <2> SUFFICES ASSUME NEW i \in 1 .. Len(job)
                 PROVE  /\ job[i].slot \in 0 .. first_available_slot' - 1
                        /\ job[i].result = i - 1
                        /\ job[i].version \in 1 .. version'
                        /\ line'[job[i].slot].status = "Q"
      OBVIOUS
    <2>1. /\ job[i].slot \in 0 .. first_available_slot - 1 /\ job[i].result = i - 1
          /\ job[i].version \in 1 .. version /\ line[job[i].slot].status = "Q"
      BY DEF JobsInv
    <2>2. job[i].slot \in 0 .. first_available_slot' - 1
      BY <1>2, <2>1
    <2>3. job[i].version \in 1 .. version'
      BY <2>1
    <2>4. line'[job[i].slot].status = "Q"
      BY <1>1, <2>1
    <2> QED
      BY <2>1, <2>2, <2>3, <2>4
  <1>4. earlier + Len(job) <= read'
    <2>1. earlier \in Nat /\ Len(job) \in Nat /\ earlier + Len(job) <= read
      BY DEF JobsInv
    <2> QED
      BY <1>2, <2>1
  <1> QED
    BY <1>3, <1>4 DEF JobsInv

\* Nothing is done of a batch that is not running.
LEMMA NothingDone ==
  ASSUME JobsInv', done' \subseteq 1 .. earlier'
  PROVE  AnswersInv'
  <1>1. earlier' \in Nat /\ Len(job') \in Nat
    BY DEF JobsInv
  <1>2. ASSUME NEW i \in 1 .. Len(job')
        PROVE  earlier' + i \notin 1 .. earlier'
    <2>1. i \in Nat \ {0}
      BY <1>1
    <2>2. PICK e \in Nat : e = earlier'
      BY <1>1
    <2>3. e + i \notin 1 .. e
      BY <2>1
    <2> QED
      BY <2>2, <2>3
  <1> QED
    BY <1>2 DEF AnswersInv

\* What an "A" line and a "D" line share.
LEMMA UpdateStep ==
  ASSUME IInv, NEW ngram \in NGrams, NEW status \in {"A", "D"}, Fetch(status, ngram),
         version' = version + 1, fetch' = IF status = "D" THEN "independent" ELSE "sequence",
         UNCHANGED <<dynamic, job, results, printed, earlier, phase, queue, running, done>>
  PROVE  /\ LinesInv' /\ JobsInv' /\ SchedulerInv' /\ AnswersInv'
         /\ DeleteLines' = DeleteLines \cup (IF status = "D" THEN {ngram} ELSE {})
         /\ read' \in 0 .. MaxLines /\ version' \in 1 .. read' + 1 /\ version + 1 < NotDeleted
         /\ phase = "collect"
  <1>1. /\ LinesInv /\ JobsInv /\ SchedulerInv /\ read \in Nat
        /\ version \in 1 .. read + 1 /\ version \in Nat
    BY DEF IInv, TrieInv
  <1>2. PICK slot \in Nat : Fetched(slot, status, ngram)
    BY <1>1, FetchEffect
  <1>3. read' = read + 1 /\ read < MaxLines /\ phase = "collect"
    BY <1>2 DEF Fetched
  <1>4. LinesInv'
    BY <1>1, <1>2, FetchLines
  <1>5. JobsInv'
    BY <1>1, <1>2, JobsKept
  <1>6. SchedulerInv'
    BY <1>1 DEF SchedulerInv
  <1>7. done' \subseteq 1 .. earlier'
    BY <1>1, <1>3 DEF SchedulerInv
  <1>8. AnswersInv'
    BY <1>5, <1>7, NothingDone
  <1>9. DeleteLines' = DeleteLines \cup (IF status = "D" THEN {ngram} ELSE {})
    BY <1>1, <1>2, FetchKeeps
  <1>10. read' \in 0 .. MaxLines /\ version' \in 1 .. read' + 1 /\ version + 1 < NotDeleted
    BY <1>1, <1>3, Constants
  <1> QED
    BY <1>3, <1>4, <1>5, <1>6, <1>8, <1>9, <1>10

\* An "A" line keeps the invariant: the insertion is made at once, in a new version.
LEMMA ReadInsertInv ==
  ASSUME IInv, NEW ngram \in NGrams, ReadInsert(ngram)
  PROVE  IInv'
  <1>1. /\ Disciplined => ngram \notin View(trie, version) \cup DeleteLines
        /\ Fetch("A", ngram) /\ version' = version + 1 /\ fetch' = "sequence"
        /\ trie' = IF dynamic THEN TrieInsert(trie, ngram, version + 1) ELSE trie
        /\ UNCHANGED <<dynamic, job, results, printed, earlier, phase, queue, running, done>>
    BY DEF ReadInsert
  <1>2. /\ LinesInv' /\ JobsInv' /\ SchedulerInv' /\ AnswersInv'
        /\ DeleteLines' = DeleteLines
        /\ read' \in 0 .. MaxLines /\ version' \in 1 .. read' + 1 /\ version + 1 < NotDeleted
    BY <1>1, UpdateStep
  <1>3. /\ IsMap(trie) /\ DeleteLines \subseteq NGrams /\ Versioned(trie, version) /\ Finals(trie) \subseteq NGrams /\ dynamic \in BOOLEAN
        /\ Marked(trie) \subseteq DeleteLines /\ (~dynamic => Marked(trie) = {}) /\ DisciplineInv
    BY DEF IInv, TrieInv
  <1>4. CASE dynamic
    <2>1. /\ Versioned(trie', version')
          /\ Finals(trie') = Finals(trie) \cup {ngram}
          /\ Marked(trie') = Marked(trie) \ {ngram}
          /\ View(trie', version') = View(trie, version) \cup {ngram}
      BY <1>1, <1>2, <1>3, <1>4, Constants, InsertView
    <2>2. IsMap(trie')
      BY <1>1, <1>3, MapsStayMaps
    <2>3. TrieInv'
      BY <1>1, <1>2, <1>3, <1>4, <2>1, <2>2 DEF TrieInv
    <2>4. DisciplineInv'
      BY <1>1, <1>2, <1>3, <1>4, <2>1 DEF DisciplineInv
    <2> QED
      BY <1>2, <2>3, <2>4 DEF IInv
  <1>5. CASE ~dynamic
    <2>1. Versioned(trie', version')
      BY <1>1, <1>2, <1>3, <1>5, NextVersion
    <2>2. IsMap(trie')
      BY <1>1, <1>3, MapsStayMaps
    <2>3. TrieInv'
      BY <1>1, <1>2, <1>3, <1>5, <2>1, <2>2 DEF TrieInv
    <2>4. DisciplineInv'
      BY <1>1, <1>5 DEF DisciplineInv
    <2> QED
      BY <1>2, <2>3, <2>4 DEF IInv
  <1> QED
    BY <1>4, <1>5

\* A "D" line keeps it: the n-gram is marked and its line stays until the batch ends.
LEMMA ReadDeleteInv ==
  ASSUME IInv, NEW ngram \in NGrams, ReadDelete(ngram)
  PROVE  IInv'
  <1>1. /\ Disciplined => ngram \notin DeleteLines
        /\ Fetch("D", ngram) /\ version' = version + 1 /\ fetch' = "independent"
        /\ trie' = IF dynamic THEN TrieMarkDeleted(trie, ngram, version + 1) ELSE trie
        /\ UNCHANGED <<dynamic, job, results, printed, earlier, phase, queue, running, done>>
    BY DEF ReadDelete
  <1>2. /\ LinesInv' /\ JobsInv' /\ SchedulerInv' /\ AnswersInv'
        /\ DeleteLines' = DeleteLines \cup {ngram}
        /\ read' \in 0 .. MaxLines /\ version' \in 1 .. read' + 1 /\ version + 1 < NotDeleted
    BY <1>1, UpdateStep
  <1>3. /\ IsMap(trie) /\ DeleteLines \subseteq NGrams /\ Versioned(trie, version) /\ Finals(trie) \subseteq NGrams /\ dynamic \in BOOLEAN
        /\ Marked(trie) \subseteq DeleteLines /\ (~dynamic => Marked(trie) = {}) /\ DisciplineInv
    BY DEF IInv, TrieInv
  <1>4. CASE dynamic
    <2>1. /\ Versioned(trie', version')
          /\ Finals(trie') = Finals(trie)
          /\ Marked(trie') \subseteq Marked(trie) \cup {ngram}
          /\ View(trie', version') = View(trie, version) \ {ngram}
      BY <1>1, <1>2, <1>3, <1>4, Constants, MarkView
    <2>2. IsMap(trie')
      BY <1>1, <1>3, MapsStayMaps
    <2>3. TrieInv'
      BY <1>1, <1>2, <1>3, <1>4, <2>1, <2>2 DEF TrieInv
    <2>4. DisciplineInv'
      BY <1>1, <1>2, <1>3, <1>4, <2>1 DEF DisciplineInv
    <2> QED
      BY <1>2, <2>3, <2>4 DEF IInv
  <1>5. CASE ~dynamic
    <2>1. Versioned(trie', version')
      BY <1>1, <1>2, <1>3, <1>5, NextVersion
    <2>2. IsMap(trie')
      BY <1>1, <1>3, MapsStayMaps
    <2>3. TrieInv'
      BY <1>1, <1>2, <1>3, <1>5, <2>1, <2>2 DEF TrieInv
    <2>4. DisciplineInv'
      BY <1>1, <1>5 DEF DisciplineInv
    <2> QED
      BY <1>2, <2>3, <2>4 DEF IInv
  <1> QED
    BY <1>4, <1>5

\* A "Q" line keeps it: a job is submitted with the slot and the version of the line.
LEMMA ReadQueryInv ==
  ASSUME IInv, NEW text \in Texts, ReadQuery(text)
  PROVE  IInv'
  <1> DEFINE task == [slot |-> Slot, result |-> Len(results), version |-> version]
  <1>1. /\ Fetch("Q", text) /\ job' = Append(job, task) /\ results' = Append(results, {})
        /\ fetch' = "independent"
        /\ UNCHANGED <<version, trie, dynamic, printed, earlier>>
    BY DEF ReadQuery, rm_get_result
  <1>2. /\ phase = "collect" /\ queue' = queue \cup {earlier + Len(job) + 1}
        /\ UNCHANGED <<phase, running, done>>
    BY DEF ReadQuery, Scheduler!Submit
  <1>3. /\ LinesInv /\ TrieInv /\ JobsInv /\ SchedulerInv /\ DisciplineInv
        /\ read \in Nat /\ version \in 1 .. read + 1 /\ version \in Nat
    BY DEF IInv, TrieInv
  <1>4. PICK slot \in Nat : Fetched(slot, "Q", text)
    BY <1>1, <1>3, FetchEffect
  <1>5. LinesInv'
    BY <1>1, <1>3, <1>4, FetchLines
  <1>6. /\ DeleteLines' = DeleteLines
        /\ \A i \in 1 .. Len(job) : job[i].slot # slot /\ line'[job[i].slot] = line[job[i].slot]
    <2>1. DeleteLines' = DeleteLines \cup (IF "Q" = "D" THEN {text} ELSE {})
      BY <1>3, <1>4, FetchKeeps
    <2>2. "Q" # "D"
      OBVIOUS
    <2> QED
      BY <1>3, <1>4, <2>1, <2>2, FetchKeeps
  <1>7. /\ slot = Slot /\ line'[slot].status = "Q"
        /\ first_available_slot \in Nat /\ first_available_slot' = slot + 1
        /\ first_available_slot <= slot + 1
        /\ read' = read + 1 /\ read < MaxLines
    BY <1>4 DEF Fetched, LineOf
  <1>8. TrieInv'
    BY <1>1, <1>3, <1>6, <1>7, Constants DEF TrieInv
  <1>9. DisciplineInv'
    BY <1>1, <1>3, <1>6 DEF DisciplineInv
  <1>10. /\ job \in Seq([slot : Nat, result : Nat, version : Nat]) /\ Len(job) \in Nat
         /\ results \in Seq(SUBSET NGrams) /\ Len(results) = Len(job)
    BY <1>3 DEF JobsInv
  <1>11. task \in [slot : Nat, result : Nat, version : Nat]
         /\ task.slot = slot /\ task.result = Len(job) /\ task.version = version
    BY <1>3, <1>7, <1>10
  <1> HIDE DEF task
  <1>12. /\ job' \in Seq([slot : Nat, result : Nat, version : Nat])
         /\ Len(job') = Len(job) + 1 /\ job'[Len(job) + 1] = task
         /\ \A i \in 1 .. Len(job) : job'[i] = job[i]
    BY <1>1, <1>10, <1>11
  <1>13. results' \in Seq(SUBSET NGrams) /\ Len(results') = Len(job')
    BY <1>1, <1>10, <1>12
  <1>14. JobsInv'
    <2>1. ASSUME NEW i \in 1 .. Len(job')
          PROVE  /\ job'[i].slot \in 0 .. first_available_slot' - 1
                 /\ job'[i].result = i - 1
                 /\ job'[i].version \in 1 .. version'
                 /\ line'[job'[i].slot].status = "Q"
      <3>1. CASE i = Len(job) + 1
        BY <1>1, <1>3, <1>7, <1>10, <1>11, <1>12, <3>1
      <3>2. CASE i \in 1 .. Len(job)
        <4>1. /\ job[i].slot \in 0 .. first_available_slot - 1 /\ job[i].result = i - 1
              /\ job[i].version \in 1 .. version /\ line[job[i].slot].status = "Q"
          BY <1>3, <3>2 DEF JobsInv
        <4>2. job'[i] = job[i] /\ line'[job[i].slot] = line[job[i].slot]
          BY <1>6, <1>12, <3>2
        <4>3. job[i].slot \in 0 .. first_available_slot' - 1
          BY <1>7, <4>1
        <4> QED
          BY <1>1, <4>1, <4>2, <4>3
      <3> QED
        BY <1>10, <1>12, <3>1, <3>2
    <2>2. ASSUME NEW i \in 1 .. Len(job'), NEW k \in 1 .. Len(job'), i # k
          PROVE  job'[i].slot # job'[k].slot
      <3>1. CASE i \in 1 .. Len(job) /\ k \in 1 .. Len(job)
        BY <1>3, <1>12, <2>2, <3>1 DEF JobsInv
      <3>2. CASE i = Len(job) + 1 /\ k \in 1 .. Len(job)
        BY <1>6, <1>11, <1>12, <3>2
      <3>3. CASE i \in 1 .. Len(job) /\ k = Len(job) + 1
        BY <1>6, <1>11, <1>12, <3>3
      <3>4. {i, k} \subseteq 1 .. Len(job) \cup {Len(job) + 1}
        BY <1>10, <1>12
      <3> QED
        BY <2>2, <3>1, <3>2, <3>3, <3>4
    <2>3. earlier' + Len(job') <= read'
      BY <1>1, <1>3, <1>7, <1>10, <1>12 DEF JobsInv
    <2> QED
      BY <1>1, <1>3, <1>12, <1>13, <2>1, <2>2, <2>3 DEF JobsInv
  <1>15. SchedulerInv'
    <2>1. queue' = earlier' + 1 .. earlier' + Len(job')
      BY <1>1, <1>2, <1>3, <1>10, <1>12 DEF SchedulerInv, JobsInv
    <2>2. done' \subseteq 1 .. earlier' /\ running' = {}
      BY <1>1, <1>2, <1>3 DEF SchedulerInv
    <2>3. earlier' \in Nat /\ Len(job') \in Nat
      BY <1>1, <1>3, <1>10, <1>12 DEF JobsInv
    <2> QED
      BY <1>2, <2>1, <2>2, <2>3 DEF SchedulerInv
  <1>16. AnswersInv'
    BY <1>1, <1>2, <1>3, <1>14, NothingDone DEF SchedulerInv
  <1> QED
    BY <1>5, <1>8, <1>9, <1>14, <1>15, <1>16 DEF IInv

\* An "F" line keeps it: it starts the batch.
LEMMA ReadFInv ==
  ASSUME IInv, ReadF
  PROVE  IInv'
  <1>1. /\ Fetch("F", <<>>) /\ phase = "collect" /\ phase' = "run"
        /\ UNCHANGED <<fetch, version, trie, dynamic, job, results, printed, earlier,
                       queue, running, done>>
    BY DEF ReadF, Scheduler!Execute
  <1>2. /\ LinesInv /\ TrieInv /\ JobsInv /\ SchedulerInv /\ DisciplineInv
        /\ read \in Nat /\ version \in 1 .. read + 1 /\ version \in Nat
    BY DEF IInv, TrieInv
  <1>3. PICK slot \in Nat : Fetched(slot, "F", <<>>)
    BY <1>1, <1>2, FetchEffect
  <1>4. LinesInv'
    BY <1>1, <1>2, <1>3, FetchLines DEF LinesInv
  <1>5. JobsInv'
    BY <1>1, <1>2, <1>3, JobsKept
  <1>6. DeleteLines' = DeleteLines
    <2>1. DeleteLines' = DeleteLines \cup (IF "F" = "D" THEN {<<>>} ELSE {})
      BY <1>2, <1>3, FetchKeeps
    <2> QED
      BY <2>1
  <1>7. TrieInv' /\ DisciplineInv'
    <2>1. read' = read + 1 /\ read < MaxLines
      BY <1>3 DEF Fetched
    <2> QED
      BY <1>1, <1>2, <1>6, <2>1, Constants DEF TrieInv, DisciplineInv
  <1>8. SchedulerInv'
    BY <1>1, <1>2 DEF SchedulerInv
  <1>9. AnswersInv'
    BY <1>1, <1>2, <1>5, NothingDone DEF SchedulerInv
  <1> QED
    BY <1>4, <1>5, <1>7, <1>8, <1>9 DEF IInv

---------------------------------------------------------------------------
(* The start of the program.                                                *)

LEMMA InitInv ==
  ASSUME Init
  PROVE  IInv
  <1>1. /\ line = [slot \in 0 .. NumberOfLines - 1 |-> Unused]
        /\ first_available_slot = 0 /\ fetch = "sequence" /\ version = 1
        /\ dynamic \in BOOLEAN /\ job = <<>> /\ results = <<>> /\ printed = <<>>
        /\ read = 0 /\ earlier = 0
        /\ phase = "collect" /\ queue = {} /\ running = {} /\ done = {}
    BY DEF Init, Scheduler!Init
  <1>2. PICK loaded \in SUBSET NGrams : trie = Load(loaded)
    BY DEF Init
  <1>3. 1 \in Nat /\ 1 < NotDeleted /\ 0 \in 0 .. MaxLines /\ NotDeleted \in Nat
    BY Constants
  <1>4. LinesInv
    <2>1. Unused \in Line
      BY DEF Unused, Line
    <2>2. NumberOfLines \in Nat \ {0} /\ 0 \in 0 .. NumberOfLines
      BY Constants
    <2> QED
      BY <1>1, <2>1, <2>2 DEF LinesInv
  <1>5. DeleteLines = {}
    BY <1>1 DEF DeleteLines
  <1>6. TrieInv
    <2>1. Versioned(trie, 1) /\ Finals(trie) = loaded /\ Marked(trie) = {}
      BY <1>2, <1>3, Constants, LoadView
    <2>2. IsMap(trie)
      BY <1>2 DEF IsMap, Load
    <2> QED
      BY <1>1, <1>3, <1>5, <2>1, <2>2 DEF TrieInv
  <1>7. Len(job) = 0 /\ Len(results) = 0
    BY <1>1
  <1>8. JobsInv
    BY <1>1, <1>7 DEF JobsInv
  <1>9. SchedulerInv
    BY <1>1, <1>7 DEF SchedulerInv
  <1>10. AnswersInv /\ DisciplineInv
    BY <1>5, <1>7 DEF AnswersInv, DisciplineInv
  <1> QED
    BY <1>4, <1>6, <1>8, <1>9, <1>10 DEF IInv

---------------------------------------------------------------------------
(* The steps of a batch that runs.                                          *)

\* The text of a slot.
LEMMA WordsOfSlots ==
  ASSUME LinesInv, NEW slot \in DOMAIN line
  PROVE  /\ line[slot].words \in Seq(STRING)
         /\ line[slot].status \in {"-", "Q", "A", "D", "F"}
  <1>1. line[slot] \in Line
    BY DEF LinesInv
  <1> QED
    BY <1>1, Constants DEF Line

\* Every slot below the first available one is there.
LEMMA SlotsInUse ==
  ASSUME LinesInv
  PROVE  /\ first_available_slot \in Nat
         /\ 0 .. first_available_slot - 1 \subseteq DOMAIN line
  BY DEF LinesInv

\* A query finds the n-grams of its view that occur in its text.
LEMMA AnswerIs ==
  ASSUME LinesInv, TrieInv, NEW task, task.slot \in DOMAIN line
  PROVE  /\ Answer(task) = (IF dynamic THEN View(trie, task.version) ELSE Finals(trie))
                              \cap SubSeqs(line[task.slot].words)
         /\ Answer(task) \subseteq NGrams
  <1> DEFINE text == line[task.slot].words
  <1>1. text \in Seq(STRING) /\ WellFormed(trie) /\ Finals(trie) \subseteq NGrams
    BY WordsOfSlots DEF TrieInv, Versioned
  <1>2. Answer(task) = IF dynamic THEN TrieSearch(trie, text, task.version)
                       ELSE {path \in SubSeqs(text) \ {<<>>} : Found(trie, path) /\ trie[path].final}
    BY DEF Answer
  <1> HIDE DEF text
  <1>3. Answer(task) = (IF dynamic THEN View(trie, task.version) ELSE Finals(trie)) \cap SubSeqs(text)
    BY <1>1, <1>2, SearchIsView
  <1>4. View(trie, task.version) \subseteq Finals(trie)
    BY DEF View, Visible, Finals
  <1> QED
    BY <1>1, <1>3, <1>4 DEF text

\* A search keeps it: the line of its job is still in its slot.
LEMMA SearchInv ==
  ASSUME IInv, NEW j \in 1 .. MaxLines, Search(j)
  PROVE  IInv'
  <1> DEFINE i == j - earlier
             task == job[i]
  <1>1. /\ j \in running /\ running' = running \ {j} /\ done' = done \cup {j}
        /\ UNCHANGED <<phase, queue>>
        /\ results' = [results EXCEPT ![task.result + 1] = Answer(task)]
        /\ UNCHANGED <<line, first_available_slot, fetch, version, trie, dynamic, job, printed,
                       read, earlier>>
    BY DEF Search, Scheduler!Finish, mainVars
  <1>2. LinesInv /\ TrieInv /\ JobsInv /\ SchedulerInv /\ AnswersInv /\ DisciplineInv
    BY DEF IInv
  <1>3. /\ earlier \in Nat /\ Len(job) \in Nat /\ job \in Seq([slot : Nat, result : Nat, version : Nat])
        /\ results \in Seq(SUBSET NGrams) /\ Len(results) = Len(job)
    BY <1>2 DEF JobsInv
  <1>4. phase = "run" /\ i \in 1 .. Len(job) /\ j = earlier + i /\ j \in 1 .. earlier + Len(job)
    <2>1. phase = "run" /\ j \in earlier + 1 .. earlier + Len(job)
      BY <1>1, <1>2 DEF SchedulerInv
    <2> QED
      BY <1>3, <2>1
  <1>5. LinesInv'
    BY <1>1, <1>2 DEF LinesInv
  <1>6. DeleteLines' = DeleteLines
    BY <1>1 DEF DeleteLines
  <1>7. TrieInv' /\ DisciplineInv'
    BY <1>1, <1>2, <1>6 DEF TrieInv, DisciplineInv
  <1>8. task.result + 1 = i /\ task.slot \in DOMAIN line
    <2>1. task.slot \in 0 .. first_available_slot - 1 /\ task.result = i - 1
      BY <1>2, <1>4 DEF JobsInv
    <2>2. i \in Nat
      BY <1>3, <1>4
    <2> QED
      BY <1>2, <2>1, <2>2, SlotsInUse
  <1>9. Answer(task) \in SUBSET NGrams
    BY <1>2, <1>8, AnswerIs
  <1> DEFINE answer == Answer(task)
  <1>10. results' = [results EXCEPT ![i] = answer]
    BY <1>1, <1>8
  <1> HIDE DEF task, answer, i
  <1>11. /\ results' \in Seq(SUBSET NGrams) /\ Len(results') = Len(job')
         /\ results'[i] = answer
         /\ \A k \in 1 .. Len(job) : k # i => results'[k] = results[k]
    <2>1. answer \in SUBSET NGrams /\ i \in 1 .. Len(results) /\ job' = job
      BY <1>1, <1>3, <1>4, <1>9 DEF answer
    <2> QED
      BY <1>3, <1>10, <2>1, ExceptSeq
  <1>12. JobsInv'
    BY <1>1, <1>2, <1>11 DEF JobsInv
  <1>13. SchedulerInv'
    BY <1>1, <1>2, <1>3, <1>4 DEF SchedulerInv
  <1>14. AnswersInv'
    <2> SUFFICES ASSUME NEW k \in 1 .. Len(job), earlier + k \in done'
                 PROVE  results'[k] = Answer(job[k])'
      BY <1>1 DEF AnswersInv
    <2>1. Answer(job[k])' = Answer(job[k])
      BY <1>1 DEF Answer
    <2>2. CASE k = i
      BY <1>11, <2>1, <2>2 DEF answer, task
    <2>3. CASE k # i
      <3>1. earlier + k # j
        BY <1>3, <1>4, <2>3
      <3>2. results[k] = Answer(job[k])
        BY <1>1, <1>2, <3>1 DEF AnswersInv
      <3> QED
        BY <1>11, <2>1, <2>3, <3>2
    <2> QED
      BY <2>2, <2>3
  <1> QED
    BY <1>5, <1>7, <1>12, <1>13, <1>14 DEF IInv

\* Starting a job and the end of the file leave what main.c has as it is.
LEMMA QuietInv ==
  ASSUME IInv, UNCHANGED <<mainVars, results, done>>, SchedulerInv'
  PROVE  IInv'
  <1>1. UNCHANGED <<line, first_available_slot, fetch, version, trie, dynamic, job, printed,
                    read, earlier, results, done>>
    BY DEF mainVars
  <1>2. DeleteLines' = DeleteLines
    BY <1>1 DEF DeleteLines
  <1>3. LinesInv' /\ TrieInv' /\ JobsInv' /\ DisciplineInv'
    BY <1>1, <1>2 DEF IInv, LinesInv, TrieInv, JobsInv, DisciplineInv
  <1>4. AnswersInv'
    BY <1>1 DEF IInv, AnswersInv, Answer
  <1> QED
    BY <1>3, <1>4 DEF IInv

\* So does a worker that takes a job.
LEMMA StartInv ==
  ASSUME IInv, NEW j \in 1 .. MaxLines, StartSearch(j)
  PROVE  IInv'
  <1>1. /\ phase = "run" /\ j \in queue \ (running \cup done) /\ running' = running \cup {j}
        /\ UNCHANGED <<mainVars, results, phase, queue, done, earlier, job>>
    BY DEF StartSearch, Scheduler!Start, mainVars
  <1>2. SchedulerInv'
    BY <1>1 DEF IInv, SchedulerInv
  <1> QED
    BY <1>1, <1>2, QuietInv

\* So does the end of the file.
LEMMA EndOfFileInv ==
  ASSUME IInv, EndOfFile
  PROVE  IInv'
  <1>1. /\ phase = "collect" /\ phase' = "closed" /\ queue' = {}
        /\ UNCHANGED <<mainVars, results, running, done, earlier, job>>
    BY DEF EndOfFile, Scheduler!Close, mainVars
  <1>2. SchedulerInv'
    BY <1>1 DEF IInv, SchedulerInv
  <1> QED
    BY <1>1, <1>2, QuietInv

---------------------------------------------------------------------------
(* The end of a batch.                                                      *)

\* The n-grams that the "D" lines of the first n slots delete.
DeletedBy(n) == {line[slot].words : slot \in {s \in 0 .. n - 1 : line[s].status = "D"}}

\* The trie after the loop went over the first n slots.
PurgedTo(t, n) ==
    /\ IsMap(t) /\ Versioned(t, version) /\ Finals(t) \subseteq NGrams
    /\ dynamic => /\ Marked(t) = Marked(trie) \ DeletedBy(n)
                  /\ View(t, version) = View(trie, version) \ DeletedBy(n)
    /\ ~dynamic => t = trie

\* One round of the loop.
LEMMA RemovedEffect ==
  ASSUME LinesInv, TrieInv, NEW n \in 0 .. first_available_slot - 1, NEW t, PurgedTo(t, n)
  PROVE  PurgedTo(Removed(t, n), n + 1)
  <1>1. n \in DOMAIN line /\ n \in Nat
    BY SlotsInUse
  <1>2. DeletedBy(n + 1) = DeletedBy(n) \cup (IF line[n].status = "D" THEN {line[n].words} ELSE {})
    <2>1. 0 .. (n + 1) - 1 = 0 .. n - 1 \cup {n}
      BY <1>1
    <2> QED
      BY <2>1 DEF DeletedBy
  <1>3. CASE line[n].status = "D" /\ dynamic
    <2>1. line[n].words \in Paths
      <3>1. line[n].words \in DeleteLines
        BY <1>3 DEF DeleteLines
      <3> QED
        BY <3>1, Constants DEF TrieInv
    <2>2. Removed(t, n) = TrieDelete(t, line[n].words)
      BY <1>3 DEF Removed
    <2>3. /\ Versioned(t, version) /\ IsMap(t) /\ Finals(t) \subseteq NGrams
          /\ Marked(t) = Marked(trie) \ DeletedBy(n)
          /\ View(t, version) = View(trie, version) \ DeletedBy(n)
      BY <1>3 DEF PurgedTo
    <2>4. DeletedBy(n + 1) = DeletedBy(n) \cup {line[n].words}
      BY <1>2, <1>3
    <2> DEFINE new == Removed(t, n)
               words == line[n].words
    <2>5. /\ Versioned(new, version)
          /\ Finals(new) = Finals(t) \ {words}
          /\ Marked(new) = Marked(t) \ {words}
          /\ View(new, version) = View(t, version) \ {words}
      BY <2>1, <2>2, <2>3, DeleteView
    <2>6. IsMap(new)
      BY <2>2, <2>3, MapsStayMaps
    <2> HIDE DEF new, words
    <2>7. DeletedBy(n + 1) = DeletedBy(n) \cup {words}
      BY <2>4 DEF words
    <2>8. PurgedTo(new, n + 1)
      BY <1>3, <2>3, <2>5, <2>6, <2>7 DEF PurgedTo
    <2> QED
      BY <2>8 DEF new
  <1>4. CASE ~(line[n].status = "D" /\ dynamic)
    <2>1. Removed(t, n) = t
      BY <1>4 DEF Removed
    <2>2. dynamic => DeletedBy(n + 1) = DeletedBy(n)
      BY <1>2, <1>4
    <2> QED
      BY <2>1, <2>2 DEF PurgedTo
  <1> QED
    BY <1>3, <1>4

\* The loop takes out of the trie what the "D" lines of the batch marked in it.
LEMMA PurgeEffect ==
  ASSUME LinesInv, TrieInv
  PROVE  PurgedTo(PurgedTrie, first_available_slot)
  <1> DEFINE N == first_available_slot
             Tries == {t \in UNION {[P -> UpTo(version)] : P \in SUBSET Paths} :
                          Versioned(t, version)}
             S == 0 .. N
             D == [g \in [S -> Tries] |->
                      [n \in S |-> IF n = 0 THEN trie ELSE Removed(g[n - 1], n - 1)]]
             depth == [n \in S |-> n]
  <1>1. N \in Nat /\ 0 .. N - 1 \subseteq DOMAIN line /\ DeleteLines \subseteq Paths
    BY SlotsInUse, Constants DEF TrieInv
  <1>2. \A t : t \in Tries <=> IsMap(t) /\ Versioned(t, version)
    <2> SUFFICES ASSUME NEW t
                 PROVE  t \in Tries <=> IsMap(t) /\ Versioned(t, version)
      OBVIOUS
    <2>1. ASSUME t \in Tries
          PROVE  IsMap(t)
      BY <2>1 DEF IsMap
    <2>2. ASSUME IsMap(t), Versioned(t, version)
          PROVE  t \in Tries
      <3>1. DOMAIN t \in SUBSET Paths /\ \A path \in DOMAIN t : t[path] \in UpTo(version)
        BY <2>2 DEF Versioned, WellFormed
      <3>2. t \in [DOMAIN t -> UpTo(version)]
        BY <2>2, <3>1 DEF IsMap
      <3> QED
        BY <2>2, <3>1, <3>2
    <2> QED
      BY <2>1, <2>2
  <1>3. trie \in Tries
    BY <1>2 DEF TrieInv
  <1>4. ASSUME NEW t \in Tries, NEW n \in 0 .. N - 1
        PROVE  Removed(t, n) \in Tries
    <2>1. IsMap(t) /\ Versioned(t, version)
      BY <1>2
    <2>2. CASE line[n].status = "D" /\ dynamic
      <3>1. line[n].words \in Paths
        BY <1>1, <2>2 DEF DeleteLines
      <3>2. Removed(t, n) = TrieDelete(t, line[n].words)
        BY <2>2 DEF Removed
      <3>3. Versioned(Removed(t, n), version)
        BY <2>1, <3>1, <3>2, DeleteView
      <3>4. IsMap(Removed(t, n))
        BY <2>1, <3>2, MapsStayMaps
      <3> QED
        BY <1>2, <3>3, <3>4
    <2>3. CASE ~(line[n].status = "D" /\ dynamic)
      BY <2>3 DEF Removed
    <2> QED
      BY <2>2, <2>3
  <1> HIDE DEF N, Tries
  <1>5. D \in [[S -> Tries] -> [S -> Tries]]
    <2> SUFFICES ASSUME NEW g \in [S -> Tries], NEW n \in S
                 PROVE  (IF n = 0 THEN trie ELSE Removed(g[n - 1], n - 1)) \in Tries
      OBVIOUS
    <2>1. n # 0 => n - 1 \in S /\ n - 1 \in 0 .. N - 1
      BY <1>1
    <2> QED
      BY <1>3, <1>4, <2>1
  <1>6. depth \in [S -> Nat] /\ N + 1 \in Nat /\ \A n \in S : depth[n] < N + 1
    BY <1>1
  <1>7. ASSUME NEW g \in [S -> Tries], NEW h \in [S -> Tries], NEW n \in S,
               \A m \in S : depth[m] < depth[n] => g[m] = h[m]
        PROVE  D[g][n] = D[h][n]
    <2>1. n # 0 => n - 1 \in S /\ depth[n - 1] < depth[n]
      BY <1>1
    <2>2. n # 0 => g[n - 1] = h[n - 1]
      BY <1>7, <2>1
    <2> QED
      BY <2>2
  <1>8. PICK f \in [S -> Tries] : f = D[f]
    <2>1. Tries # {}
      BY <1>3
    <2> HIDE DEF D, depth, S
    <2>2. BoundedDescent(D, depth, N + 1, S, Tries)
      BY <1>5, <1>6, <1>7, <2>1 DEF BoundedDescent
    <2> QED
      BY <2>2, BoundedRecursion
  <1>9. f = [n \in 0 .. N |-> IF n = 0 THEN trie ELSE Removed(f[n - 1], n - 1)]
    BY <1>8, Zenon
  <1> DEFINE purged == CHOOSE g : g = [n \in 0 .. N |->
                                         IF n = 0 THEN trie ELSE Removed(g[n - 1], n - 1)]
  <1>10. purged = [n \in 0 .. N |-> IF n = 0 THEN trie ELSE Removed(purged[n - 1], n - 1)]
    BY <1>9, Zenon
  <1>11. PurgedTrie = purged[N]
    BY Zenon DEF PurgedTrie, N
  <1> HIDE DEF purged
  <1>12. purged[0] = trie /\ \A n \in 0 .. N - 1 : purged[n + 1] = Removed(purged[n], n)
    <2>1. 0 \in 0 .. N /\ \A n \in 0 .. N - 1 : n + 1 \in 0 .. N /\ n + 1 # 0 /\ (n + 1) - 1 = n
      BY <1>1
    <2>2. \A n \in 0 .. N : purged[n] = IF n = 0 THEN trie ELSE Removed(purged[n - 1], n - 1)
      BY <1>10
    <2> QED
      BY <2>1, <2>2
  <1> DEFINE P == {n \in Nat : n <= N => PurgedTo(purged[n], n)}
  <1>13. 0 \in P
    <2>1. DeletedBy(0) = {}
      BY DEF DeletedBy
    <2>2. PurgedTo(trie, 0)
      BY <2>1 DEF PurgedTo, TrieInv
    <2> QED
      BY <1>12, <2>2
  <1>14. ASSUME NEW n \in P
         PROVE  n + 1 \in P
    <2> SUFFICES ASSUME n + 1 <= N
                 PROVE  PurgedTo(purged[n + 1], n + 1)
      OBVIOUS
    <2>1. n \in 0 .. N - 1 /\ PurgedTo(purged[n], n)
      BY <1>1
    <2>2. n \in 0 .. first_available_slot - 1
      BY <2>1 DEF N
    <2>3. PurgedTo(Removed(purged[n], n), n + 1)
      BY <2>1, <2>2, RemovedEffect
    <2> QED
      BY <1>12, <2>1, <2>3
  <1>15. P = Nat
    <2>1. P \in SUBSET Nat
      OBVIOUS
    <2> HIDE DEF P
    <2> QED
      BY <1>13, <1>14, <2>1, Induction
  <1> QED
    BY <1>1, <1>11, <1>15 DEF N

\* The end of a batch removes what is marked; disciplined, it changes nothing a query sees.
LEMMA FinishInv ==
  ASSUME IInv, FinishBatch
  PROVE  /\ IInv'
         /\ Disciplined => View(trie', version') = View(trie, version)
  <1>1. /\ phase = "run" /\ queue \subseteq done /\ phase' = "collect" /\ queue' = {}
        /\ printed' = results /\ trie' = PurgedTrie /\ first_available_slot' = 0
        /\ fetch' = "sequence" /\ earlier' = earlier + Len(job) /\ job' = <<>> /\ results' = <<>>
        /\ UNCHANGED <<line, version, dynamic, read, running, done>>
    BY DEF FinishBatch, Scheduler!Return
  <1>2. LinesInv /\ TrieInv /\ JobsInv /\ SchedulerInv /\ DisciplineInv
    BY DEF IInv
  <1>3. LinesInv'
    BY <1>1, <1>2 DEF LinesInv
  <1>4. DeletedBy(first_available_slot) = DeleteLines
    BY DEF DeletedBy, DeleteLines
  <1>5. DeleteLines' = {}
    BY <1>1 DEF DeleteLines
  <1>6. /\ IsMap(trie') /\ Versioned(trie', version) /\ Finals(trie') \subseteq NGrams
        /\ dynamic => /\ Marked(trie') = Marked(trie) \ DeleteLines
                      /\ View(trie', version) = View(trie, version) \ DeleteLines
        /\ ~dynamic => trie' = trie
    BY <1>1, <1>2, <1>4, PurgeEffect DEF PurgedTo
  <1>7. TrieInv'
    BY <1>1, <1>2, <1>5, <1>6 DEF TrieInv
  <1>8. DisciplineInv'
    BY <1>5 DEF DisciplineInv
  <1>9. Len(job') = 0 /\ Len(results') = 0
    BY <1>1
  <1>10. JobsInv'
    <2>1. earlier \in Nat /\ Len(job) \in Nat /\ earlier + Len(job) <= read
          /\ results \in Seq(SUBSET NGrams)
      BY <1>2 DEF JobsInv
    <2> QED
      BY <1>1, <1>9, <2>1 DEF JobsInv
  <1>11. SchedulerInv'
    <2>1. earlier \in Nat /\ Len(job) \in Nat
      BY <1>2 DEF JobsInv
    <2>2. running = {}
      BY <1>1, <1>2 DEF SchedulerInv
    <2>3. done \subseteq 1 .. earlier + Len(job)
      BY <1>2 DEF SchedulerInv
    <2>4. earlier' + 1 .. earlier' + Len(job') = {} /\ earlier' + Len(job') = earlier'
      BY <1>1, <1>9, <2>1
    <2> QED
      BY <1>1, <2>2, <2>3, <2>4 DEF SchedulerInv
  <1>12. AnswersInv'
    BY <1>9 DEF AnswersInv
  <1>13. Disciplined => View(trie', version') = View(trie, version)
    BY <1>1, <1>2, <1>6 DEF DisciplineInv, TrieInv
  <1> QED
    BY <1>3, <1>7, <1>8, <1>10, <1>11, <1>12, <1>13 DEF IInv

---------------------------------------------------------------------------
(* The invariant.                                                           *)

LEMMA StepInv ==
  ASSUME IInv, [Next]_vars
  PROVE  IInv'
  <1>1. CASE \E text \in Texts : ReadQuery(text)
    BY <1>1, ReadQueryInv
  <1>2. CASE \E ngram \in NGrams : ReadInsert(ngram)
    BY <1>2, ReadInsertInv
  <1>3. CASE \E ngram \in NGrams : ReadDelete(ngram)
    BY <1>3, ReadDeleteInv
  <1>4. CASE ReadF
    BY <1>4, ReadFInv
  <1>5. CASE \E j \in 1 .. MaxLines : StartSearch(j)
    BY <1>5, StartInv
  <1>6. CASE \E j \in 1 .. MaxLines : Search(j)
    BY <1>6, SearchInv
  <1>7. CASE FinishBatch
    BY <1>7, FinishInv
  <1>8. CASE EndOfFile
    BY <1>8, EndOfFileInv
  <1>9. CASE UNCHANGED vars
    <2>1. UNCHANGED <<mainVars, results, phase, queue, running, done, earlier, job>>
      BY <1>9 DEF vars, mainVars
    <2>2. SchedulerInv'
      BY <2>1 DEF IInv, SchedulerInv
    <2> QED
      BY <2>1, <2>2, QuietInv
  <1> QED
    BY <1>1, <1>2, <1>3, <1>4, <1>5, <1>6, <1>7, <1>8, <1>9 DEF Next, Terminated

\* The inductive invariant holds of every run of the batch loop, disciplined or not.
THEOREM Invariant == Spec => []IInv
  <1>1. Init => IInv
    BY InitInv
  <1>2. IInv /\ [Next]_vars => IInv'
    BY StepInv
  <1> QED
    BY <1>1, <1>2, PTL DEF Spec

---------------------------------------------------------------------------
(* Safety.                                                                  *)

\* Every variable has its type: no slot is outside the array, no version reaches the one
\* that stands for "not deleted", and every answer is a set of n-grams that were loaded or
\* inserted (main.c:77-120).
THEOREM TypeCorrect == Spec => []TypeOK
  <1>1. ASSUME IInv
        PROVE  TypeOK
    <2>1. LinesInv /\ TrieInv /\ JobsInv
      BY <1>1 DEF IInv
    <2>2. PICK n \in Nat \ {0} : DOMAIN line = 0 .. n - 1 /\ first_available_slot \in 0 .. n
      BY <2>1 DEF LinesInv
    <2>3. Cardinality(DOMAIN line) = n
      <3>1. Cardinality(0 .. n - 1) = n
        <4>1. 0 \in Int /\ n - 1 \in Int
          OBVIOUS
        <4>2. Cardinality(0 .. n - 1) = IF 0 > n - 1 THEN 0 ELSE (n - 1) - 0 + 1
          BY <4>1, FS_Interval
        <4> QED
          BY <4>2
      <3> QED
        BY <2>2, <3>1
    <2>4. /\ line \in [DOMAIN line -> Line] /\ DOMAIN line = 0 .. Cardinality(DOMAIN line) - 1
          /\ first_available_slot \in 0 .. Cardinality(DOMAIN line)
          /\ fetch \in {"sequence", "independent"}
      BY <2>1, <2>2, <2>3 DEF LinesInv
    <2>5. /\ version \in 1 .. MaxLines + 1 /\ dynamic \in BOOLEAN /\ read \in 0 .. MaxLines
      BY <2>1, Constants DEF TrieInv
    <2>6. trie \in [DOMAIN trie -> [final : BOOLEAN, added : 0 .. version,
                                    deleted : 1 .. version \union {NotDeleted}]]
      <3>1. IsMap(trie) /\ \A path \in DOMAIN trie : trie[path] \in UpTo(version)
        BY <2>1 DEF TrieInv, Versioned
      <3>2. trie \in [DOMAIN trie -> UpTo(version)]
        BY <3>1 DEF IsMap
      <3> QED
        BY <3>2 DEF UpTo
    <2>7. /\ job \in Seq([slot : Nat, result : Nat, version : Nat]) /\ Len(job) \in Nat
          /\ DOMAIN job = 1 .. Len(job)
          /\ results \in Seq(SUBSET NGrams) /\ Len(results) = Len(job)
          /\ printed \in Seq(SUBSET NGrams)
          /\ earlier \in Nat /\ earlier + Len(job) <= read
      BY <2>1 DEF JobsInv
    <2>8. job \in Seq([slot : DOMAIN line, result : Nat, version : 1 .. version])
      <3>1. ASSUME NEW i \in 1 .. Len(job)
            PROVE  job[i] \in [slot : DOMAIN line, result : Nat, version : 1 .. version]
        <4>1. job[i] \in [slot : Nat, result : Nat, version : Nat]
          BY <2>7, ElementOfSeq
        <4>2. job[i].slot \in DOMAIN line /\ job[i].version \in 1 .. version
          BY <2>1, SlotsInUse DEF JobsInv
        <4> QED
          BY <4>1, <4>2
      <3> DEFINE R == [slot : DOMAIN line, result : Nat, version : 1 .. version]
      <3>2. \A i \in 1 .. Len(job) : job[i] \in R
        BY <3>1
      <3> HIDE DEF R
      <3>3. job \in Seq(R)
        BY <2>7, <3>2
      <3> QED
        BY <3>3 DEF R
    <2>9. \A i \in DOMAIN job : job[i].result < Len(results)
      BY <2>1, <2>7 DEF JobsInv
    <2>10. earlier \in 0 .. MaxLines
      BY <2>5, <2>7, Constants
    <2> QED
      BY <2>4, <2>5, <2>6, <2>7, <2>8, <2>9, <2>10 DEF TypeOK
  <1> QED
    BY <1>1, Invariant, PTL

\* No line of any sequence of lines leaves a node without its parent or a branch that ends
\* in no n-gram (trie.c:74-126).
THEOREM WellFormedTries == Spec => []TrieWellFormed
  <1>1. IInv => TrieWellFormed
    BY NodesOnTheWay DEF IInv, TrieInv, Versioned, WellFormed, TrieWellFormed, Found
  <1> QED
    BY <1>1, Invariant, PTL

\* No line of a batch is overwritten while a job or a removal still needs it, however the
\* kinds of lines follow one another (string_utils.c:287-382).
THEOREM KeptLines == Spec => []LinesKept
  <1>1. ASSUME IInv
        PROVE  LinesKept
    <2>1. JobsInv /\ TrieInv /\ first_available_slot \in Nat
      BY <1>1, SlotsInUse DEF IInv
    <2>2. DOMAIN job = 1 .. Len(job) /\ Len(job) \in Nat
      BY <2>1 DEF JobsInv
    <2>3. ASSUME NEW i \in DOMAIN job
          PROVE  job[i].slot < first_available_slot /\ line[job[i].slot].status = "Q"
      <3>1. job[i].slot \in 0 .. first_available_slot - 1 /\ line[job[i].slot].status = "Q"
        BY <2>1, <2>2 DEF JobsInv
      <3> QED
        BY <2>1, <3>1
    <2>4. \A i, k \in DOMAIN job : i # k => /\ job[i].slot # job[k].slot
                                            /\ job[i].result # job[k].result
      <3>1. \A i \in 1 .. Len(job) : i \in Nat /\ job[i].result = i - 1
        BY <2>1, <2>2 DEF JobsInv
      <3>2. \A i, k \in 1 .. Len(job) : i # k => job[i].slot # job[k].slot
        BY <2>1 DEF JobsInv
      <3> QED
        BY <2>2, <3>1, <3>2
    <2>5. \A path \in DOMAIN trie :
             trie[path].final /\ trie[path].deleted # NotDeleted => path \in DeleteLines
      BY <2>1 DEF TrieInv, Marked, Finals
    <2> QED
      BY <2>3, <2>4, <2>5 DEF LinesKept
  <1> QED
    BY <1>1, Invariant, PTL

\* When a batch begins nothing in the trie is marked deleted (main.c:111-117).
THEOREM PurgedBetweenBatches == Spec => []Purged
  <1>1. ASSUME IInv, first_available_slot = 0
        PROVE  \A path \in DOMAIN trie : trie[path].final => trie[path].deleted = NotDeleted
    <2>1. DeleteLines = {}
      BY <1>1 DEF DeleteLines
    <2> QED
      BY <1>1, <2>1 DEF IInv, TrieInv, Marked, Finals
  <1>2. IInv => Purged
    BY <1>1 DEF Purged
  <1> QED
    BY <1>2, Invariant, PTL

---------------------------------------------------------------------------
(* Refinement, for batches that do not insert what is there or deleted.     *)

\* The removals at the end of a disciplined batch change nothing that a query can see
\* (main.c:109-116).
THEOREM RemovalsInDiscipline ==
  ASSUME Disciplined
  PROVE  Spec => RemovalsUnseen
  <1>1. ASSUME IInv, [Next]_vars
        PROVE  [phase = "run" /\ phase' = "collect"
                  => View(trie', version') = View(trie, version)]_vars
    <2> SUFFICES ASSUME Next, phase = "run", phase' = "collect"
                 PROVE  View(trie', version') = View(trie, version)
      BY <1>1
    <2>1. CASE FinishBatch
      BY <1>1, <2>1, FinishInv
    <2>2. CASE ~FinishBatch
      BY <2>2 DEF Next, Terminated, vars, ReadQuery, ReadInsert, ReadDelete, Fetch, ReadF,
                  StartSearch, Search, EndOfFile, Scheduler!Start, Scheduler!Finish,
                  Scheduler!Close
    <2> QED
      BY <2>1, <2>2
  <1> QED
    BY <1>1, Invariant, PTL DEF Spec, RemovalsUnseen

\* The abstract answers to the jobs of the batch.
Asked == [i \in DOMAIN job |-> Answer(job[i])]

\* The jobs are numbered from 1.
LEMMA JobsAre ==
  ASSUME JobsInv
  PROVE  Len(job) \in Nat /\ DOMAIN job = 1 .. Len(job)
  BY DEF JobsInv

\* An abstract step that leaves the store and the answers alone is none.
LEMMA SameAsked ==
  ASSUME JobsInv, UNCHANGED job, \A i \in 1 .. Len(job) : Answer(job[i])' = Answer(job[i])
  PROVE  Asked' = Asked
  <1>1. DOMAIN job' = DOMAIN job /\ DOMAIN job = 1 .. Len(job)
    BY JobsAre
  <1>2. \A i \in DOMAIN job : Answer(job[i])' = Answer(job[i])
    BY <1>1
  <1> QED
    BY <1>1, <1>2 DEF Asked

\* What a query finds, now and in the next state.
Seen(task) == (IF dynamic THEN View(trie, task.version) ELSE Finals(trie))
                 \cap SubSeqs(line[task.slot].words)

\* In every state with the invariant, the answer of a job is what its version sees.
LEMMA AnswerSeen ==
  \A task : LinesInv /\ TrieInv /\ task.slot \in DOMAIN line => Answer(task) = Seen(task)
  BY AnswerIs DEF Seen

\* The same of the next state.
LEMMA AnswerSeenNext ==
  (\A task : LinesInv /\ TrieInv /\ task.slot \in DOMAIN line => Answer(task) = Seen(task))'
  BY AnswerSeen, PTL

\* A query whose slot stays as it is finds what it found, when it sees what it saw.
LEMMA SameAnswer ==
  ASSUME LinesInv, TrieInv, LinesInv', TrieInv', JobsInv, UNCHANGED dynamic,
         NEW i \in 1 .. Len(job), job'[i] = job[i], line'[job[i].slot] = line[job[i].slot],
         job[i].slot \in DOMAIN line',
         IF dynamic THEN View(trie', job[i].version) = View(trie, job[i].version)
                    ELSE Finals(trie') = Finals(trie)
  PROVE  Answer(job[i])' = Answer(job[i])
  <1>1. PICK task : task = job[i]
    OBVIOUS
  <1>2. task.slot \in DOMAIN line
    BY <1>1, SlotsInUse DEF JobsInv
  <1>3. Answer(task) = Seen(task)
    BY <1>2, AnswerSeen
  <1>4. Answer(task)' = Seen(task)'
    BY <1>1, AnswerSeenNext
  <1>5. Seen(task)' = Seen(task)
    BY <1>1 DEF Seen
  <1>6. Answer(task)' = Answer(job[i])'
    BY <1>1 DEF Answer
  <1> QED
    BY <1>1, <1>3, <1>4, <1>5, <1>6

\* The operators that the abstract module takes from its own library are the same.
LEMMA SameSubSeqs == \A text : Store!SubSeqs(text) = SubSeqs(text)
  BY DEF SubSeqs, Store!SubSeqs

\* An earlier query does not see what a disciplined line inserts.
LEMMA UnseenBefore ==
  ASSUME TrieInv, NEW ngram, ngram \notin View(trie, version) \cup DeleteLines,
         NEW old \in 1 .. version
  PROVE  ngram \notin View(trie, old)
  <1> SUFFICES ASSUME ngram \in DOMAIN trie, Visible(trie, ngram, old)
               PROVE  FALSE
    BY DEF View
  <1>1. Versioned(trie, version) /\ Marked(trie) \subseteq DeleteLines /\ version < NotDeleted
    BY DEF TrieInv, Versioned
  <1>2. trie[ngram].final /\ trie[ngram].added <= version
    BY <1>1, VersionedNodes DEF Visible
  <1>3. trie[ngram].deleted = NotDeleted
    BY <1>1, <1>2 DEF Marked, Finals
  <1>4. Visible(trie, ngram, version)
    BY <1>1, <1>2, <1>3 DEF Visible
  <1> QED
    BY <1>4 DEF View

\* What the versions of the jobs are, and their slots after a line is fetched.
LEMMA JobsAfterFetch ==
  ASSUME LinesInv, JobsInv, NEW slot \in Nat, NEW status, NEW words, Fetched(slot, status, words),
         NEW i \in 1 .. Len(job)
  PROVE  /\ job[i].version \in 1 .. version
         /\ line'[job[i].slot] = line[job[i].slot] /\ job[i].slot \in DOMAIN line'
  <1>1. /\ job[i].version \in 1 .. version /\ job[i].slot \in 0 .. first_available_slot - 1
    BY DEF JobsInv
  <1>2. line'[job[i].slot] = line[job[i].slot]
    BY FetchKeeps
  <1>3. PICK n \in Nat \ {0} : DOMAIN line' = 0 .. n - 1 /\ slot \in 0 .. n - 1
    BY DEF Fetched
  <1>4. first_available_slot - 1 <= slot /\ first_available_slot \in Nat
    BY DEF Fetched
  <1> QED
    BY <1>1, <1>2, <1>3, <1>4

\* In NGramStore an "A" line is an insertion, or nothing when the n-gram was there.
LEMMA InsertRefines ==
  ASSUME Disciplined, IInv, IInv', NEW ngram \in NGrams, ReadInsert(ngram)
  PROVE  Store!Insert(ngram) \/ UNCHANGED Store!vars
  <1>1. /\ ngram \notin View(trie, version) \cup DeleteLines
        /\ Fetch("A", ngram) /\ version' = version + 1
        /\ trie' = IF dynamic THEN TrieInsert(trie, ngram, version + 1) ELSE trie
        /\ UNCHANGED <<dynamic, job, printed>>
    BY DEF ReadInsert
  <1>2. LinesInv /\ TrieInv /\ JobsInv /\ LinesInv' /\ TrieInv'
    BY DEF IInv
  <1>3. PICK slot \in Nat : Fetched(slot, "A", ngram)
    BY <1>1, <1>2, FetchEffect
  <1>4. /\ Versioned(trie, version) /\ version \in Nat /\ dynamic \in BOOLEAN
        /\ (~dynamic => Marked(trie) = {}) /\ version + 1 < NotDeleted /\ ngram \in Paths
    <2>1. read < MaxLines
      BY <1>3 DEF Fetched
    <2> QED
      BY <1>2, <2>1, Constants DEF TrieInv, Versioned
  <1>5. CASE dynamic
    <2>1. /\ View(trie', version') = View(trie, version) \cup {ngram}
          /\ \A old \in 0 .. version : View(trie', old) = View(trie, old) \ {ngram}
      BY <1>1, <1>4, <1>5, InsertView
    <2>2. ASSUME NEW i \in 1 .. Len(job)
          PROVE  Answer(job[i])' = Answer(job[i])
      <3>1. job[i].version \in 1 .. version /\ job[i].version \in 0 .. version
        BY <1>2, <1>3, <1>4, JobsAfterFetch
      <3>2. ngram \notin View(trie, job[i].version)
        BY <1>1, <1>2, <3>1, UnseenBefore
      <3>3. View(trie', job[i].version) = View(trie, job[i].version)
        <4> DEFINE v == job[i].version
        <4>1. View(trie', v) = View(trie, v) \ {ngram}
          BY <2>1, <3>1
        <4>2. ngram \notin View(trie, v)
          BY <3>2
        <4> HIDE DEF v
        <4>3. View(trie', v) = View(trie, v)
          BY <4>1, <4>2
        <4> QED
          BY <4>3 DEF v
      <3>4. line'[job[i].slot] = line[job[i].slot] /\ job[i].slot \in DOMAIN line'
        BY <1>2, <1>3, JobsAfterFetch
      <3> QED
        BY <1>1, <1>2, <1>5, <3>3, <3>4, SameAnswer
    <2>3. Asked' = Asked
      BY <1>1, <1>2, <2>2, SameAsked
    <2> QED
      BY <1>1, <1>5, <2>1, <2>3 DEF Store!Insert, Asked
  <1>6. CASE ~dynamic
    <2>1. View(trie', version') = View(trie, version)
      BY <1>1, <1>4, <1>6, NextVersion
    <2>2. ASSUME NEW i \in 1 .. Len(job)
          PROVE  Answer(job[i])' = Answer(job[i])
      <3>1. line'[job[i].slot] = line[job[i].slot] /\ job[i].slot \in DOMAIN line'
        BY <1>2, <1>3, JobsAfterFetch
      <3> QED
        BY <1>1, <1>2, <1>6, <3>1, SameAnswer
    <2>3. Asked' = Asked
      BY <1>1, <1>2, <2>2, SameAsked
    <2> QED
      BY <1>1, <2>1, <2>3 DEF Store!vars, Asked
  <1> QED
    BY <1>5, <1>6

\* A "D" line is a deletion although the nodes stay, or nothing in a static trie.
LEMMA DeleteRefines ==
  ASSUME Disciplined, IInv, IInv', NEW ngram \in NGrams, ReadDelete(ngram)
  PROVE  Store!Delete(ngram) \/ UNCHANGED Store!vars
  <1>1. /\ ngram \notin DeleteLines
        /\ Fetch("D", ngram) /\ version' = version + 1
        /\ trie' = IF dynamic THEN TrieMarkDeleted(trie, ngram, version + 1) ELSE trie
        /\ UNCHANGED <<dynamic, job, printed>>
    BY DEF ReadDelete
  <1>2. LinesInv /\ TrieInv /\ JobsInv /\ LinesInv' /\ TrieInv'
    BY DEF IInv
  <1>3. PICK slot \in Nat : Fetched(slot, "D", ngram)
    BY <1>1, <1>2, FetchEffect
  <1>4. /\ Versioned(trie, version) /\ version \in Nat /\ dynamic \in BOOLEAN
        /\ ngram \notin Marked(trie)
        /\ (~dynamic => Marked(trie) = {}) /\ version + 1 < NotDeleted /\ ngram \in Paths
    <2>1. read < MaxLines
      BY <1>3 DEF Fetched
    <2> QED
      BY <1>1, <1>2, <2>1, Constants DEF TrieInv, Versioned
  <1>5. CASE dynamic
    <2>1. /\ View(trie', version') = View(trie, version) \ {ngram}
          /\ \A old \in 0 .. version : View(trie', old) = View(trie, old)
      BY <1>1, <1>4, <1>5, MarkView
    <2>2. ASSUME NEW i \in 1 .. Len(job)
          PROVE  Answer(job[i])' = Answer(job[i])
      <3>1. job[i].version \in 1 .. version /\ job[i].version \in 0 .. version
        BY <1>2, <1>3, <1>4, JobsAfterFetch
      <3>2. View(trie', job[i].version) = View(trie, job[i].version)
        BY <2>1, <3>1
      <3>3. line'[job[i].slot] = line[job[i].slot] /\ job[i].slot \in DOMAIN line'
        BY <1>2, <1>3, JobsAfterFetch
      <3> QED
        BY <1>1, <1>2, <1>5, <3>2, <3>3, SameAnswer
    <2>3. Asked' = Asked
      BY <1>1, <1>2, <2>2, SameAsked
    <2> QED
      BY <1>1, <1>5, <2>1, <2>3 DEF Store!Delete, Asked
  <1>6. CASE ~dynamic
    <2>1. View(trie', version') = View(trie, version)
      BY <1>1, <1>4, <1>6, NextVersion
    <2>2. ASSUME NEW i \in 1 .. Len(job)
          PROVE  Answer(job[i])' = Answer(job[i])
      <3>1. line'[job[i].slot] = line[job[i].slot] /\ job[i].slot \in DOMAIN line'
        BY <1>2, <1>3, JobsAfterFetch
      <3> QED
        BY <1>1, <1>2, <1>6, <3>1, SameAnswer
    <2>3. Asked' = Asked
      BY <1>1, <1>2, <2>2, SameAsked
    <2> QED
      BY <1>1, <2>1, <2>3 DEF Store!vars, Asked
  <1> QED
    BY <1>5, <1>6

\* A "Q" line is a query with the answer that its job gives later.
LEMMA QueryRefines ==
  ASSUME IInv, IInv', NEW text \in Texts, ReadQuery(text)
  PROVE  Store!Query(text)
  <1> DEFINE task == [slot |-> Slot, result |-> Len(results), version |-> version]
  <1>1. /\ Fetch("Q", text) /\ job' = Append(job, task)
        /\ UNCHANGED <<version, trie, dynamic, printed>>
    BY DEF ReadQuery, rm_get_result
  <1>2. LinesInv /\ TrieInv /\ JobsInv /\ LinesInv' /\ TrieInv' /\ JobsInv'
    BY DEF IInv
  <1>3. PICK slot \in Nat : Fetched(slot, "Q", text)
    BY <1>1, <1>2, FetchEffect
  <1>4. /\ task.slot = slot /\ task.version = version
        /\ line'[slot].words = text /\ slot \in DOMAIN line'
    BY <1>3 DEF Fetched, LineOf
  <1>5. PICK n \in Nat : n = Len(job)
    BY <1>2, JobsAre
  <1>6. /\ n \in Nat /\ DOMAIN job = 1 .. n /\ DOMAIN job' = 1 .. n + 1
        /\ job'[n + 1] = task /\ \A i \in 1 .. n : job'[i] = job[i]
    <2>1. job \in Seq([slot : Nat, result : Nat, version : Nat]) /\ n \in Nat
      BY <1>2 DEF JobsInv
    <2> QED
      BY <1>1, <1>5, <2>1
  <1> HIDE DEF task
  <1>7. ASSUME NEW i \in 1 .. n
        PROVE  Answer(job[i])' = Answer(job[i])
    <2>1. line'[job[i].slot] = line[job[i].slot] /\ job[i].slot \in DOMAIN line'
      BY <1>2, <1>3, <1>5, JobsAfterFetch
    <2>2. job'[i] = job[i] /\ i \in 1 .. Len(job)
      BY <1>6, <1>5
    <2> QED
      BY <1>1, <1>2, <2>1, <2>2, SameAnswer
  <1>8. Answer(job[n + 1])' = View(trie, version) \cap SubSeqs(text)
    <2>1. PICK last : last = task
      OBVIOUS
    <2>2. Answer(last)' = Seen(last)'
      BY <1>2, <1>4, <2>1, AnswerSeenNext
    <2>3. Seen(last)' = (IF dynamic THEN View(trie, version) ELSE Finals(trie)) \cap SubSeqs(text)
      BY <1>1, <1>4, <2>1 DEF Seen
    <2>4. ~dynamic => Finals(trie) = View(trie, version)
      BY <1>2, ViewOfUnmarked DEF TrieInv
    <2>5. Answer(last)' = Answer(job[n + 1])'
      BY <1>6, <2>1 DEF Answer
    <2> QED
      BY <2>2, <2>3, <2>4, <2>5
  <1>9. Asked' = Append(Asked, View(trie, version) \cap SubSeqs(text))
    <2> DEFINE new == View(trie, version) \cap SubSeqs(text)
               all == [i \in 1 .. n + 1 |-> Answer(job[i])']
               some == [i \in 1 .. n |-> Answer(job[i])]
    <2>1. Asked' = all /\ Asked = some
      BY <1>6 DEF Asked
    <2>2. \A i \in 1 .. n : all[i] = some[i]
      BY <1>6, <1>7
    <2>3. all[n + 1] = new
      BY <1>6, <1>8
    <2>4. /\ all = [i \in 1 .. n + 1 |-> all[i]]
          /\ some = [i \in 1 .. n |-> some[i]]
      OBVIOUS
    <2> HIDE DEF all, some, new
    <2> DEFINE S == {all[i] : i \in 1 .. n + 1}
    <2>5. (\A i \in 1 .. n : some[i] \in S) /\ new \in S /\ \A i \in 1 .. n + 1 : all[i] \in S
      <3>1. n + 1 \in 1 .. n + 1 /\ \A i \in 1 .. n : i \in 1 .. n + 1
        BY <1>6
      <3> QED
        BY <2>2, <2>3, <3>1
    <2> HIDE DEF S
    <2>6. all \in Seq(S) /\ Len(all) = n + 1
      BY <1>6, <2>4, <2>5
    <2>7. some \in Seq(S) /\ Len(some) = n /\ new \in S
      BY <1>6, <2>4, <2>5
    <2>8. /\ Append(some, new) \in Seq(S) /\ Len(Append(some, new)) = n + 1
          /\ Append(some, new)[n + 1] = new
          /\ \A i \in 1 .. n : Append(some, new)[i] = some[i]
      BY <2>7, AppendProperties
    <2>9. all = Append(some, new)
      <3>1. \A i \in 1 .. n + 1 : all[i] = Append(some, new)[i]
        BY <1>6, <2>2, <2>3, <2>8
      <3> QED
        BY <2>6, <2>8, <3>1, SeqEqual
    <2> QED
      BY <2>1, <2>9 DEF new
  <1> QED
    BY <1>1, <1>9, SameSubSeqs DEF Store!Query, Store!Answer, Asked

\* The end of a batch is the flush: the removals show in no answer.
LEMMA FinishRefines ==
  ASSUME Disciplined, IInv, IInv', FinishBatch
  PROVE  Store!Flush
  <1>1. /\ queue \subseteq done /\ phase = "run" /\ printed' = results /\ job' = <<>>
        /\ UNCHANGED dynamic
    BY DEF FinishBatch, Scheduler!Return
  <1>2. View(trie', version') = View(trie, version)
    BY FinishInv
  <1>3. /\ Len(job) \in Nat /\ DOMAIN job = 1 .. Len(job) /\ earlier \in Nat
        /\ results \in Seq(SUBSET NGrams) /\ Len(results) = Len(job)
    BY JobsAre DEF IInv, JobsInv
  <1>4. \A i \in 1 .. Len(job) : results[i] = Answer(job[i])
    <2> SUFFICES ASSUME NEW i \in 1 .. Len(job)
                 PROVE  results[i] = Answer(job[i])
      OBVIOUS
    <2>1. earlier + i \in queue
      <3>1. queue = earlier + 1 .. earlier + Len(job)
        BY <1>1 DEF IInv, SchedulerInv
      <3> QED
        BY <1>3, <3>1
    <2> QED
      BY <1>1, <2>1 DEF IInv, AnswersInv
  <1>5. results = Asked
    <2>1. results = [i \in 1 .. Len(job) |-> results[i]]
      BY <1>3
    <2> QED
      BY <1>3, <1>4, <2>1 DEF Asked
  <1>6. Asked' = <<>>
    <2>1. DOMAIN job' = {}
      BY <1>1
    <2>2. <<>> = [i \in {} |-> Answer(job[i])']
      OBVIOUS
    <2> QED
      BY <2>1, <2>2 DEF Asked
  <1> QED
    BY <1>1, <1>2, <1>5, <1>6 DEF Store!Flush, Asked

\* The other steps change neither the store nor the answers.
LEMMA QuietRefines ==
  ASSUME IInv, IInv', UNCHANGED <<version, trie, dynamic, job, printed>>,
         \A i \in 1 .. Len(job) : line'[job[i].slot] = line[job[i].slot]
  PROVE  UNCHANGED Store!vars
  <1>1. \A i \in 1 .. Len(job) : Answer(job[i])' = Answer(job[i])
    BY DEF Answer
  <1>2. Asked' = Asked
    BY <1>1, SameAsked DEF IInv
  <1> QED
    BY <1>2 DEF Store!vars, Asked

\* Every step of a disciplined batch is a step of the store or a stutter.
LEMMA StepRefines ==
  ASSUME Disciplined, IInv, IInv', [Next]_vars
  PROVE  [Store!Next]_Store!vars
  <1>1. CASE \E text \in Texts : ReadQuery(text)
    BY <1>1, QueryRefines DEF Store!Next
  <1>2. CASE \E ngram \in NGrams : ReadInsert(ngram)
    BY <1>2, InsertRefines DEF Store!Next
  <1>3. CASE \E ngram \in NGrams : ReadDelete(ngram)
    BY <1>3, DeleteRefines DEF Store!Next
  <1>4. CASE ReadF
    <2>1. Fetch("F", <<>>) /\ UNCHANGED <<version, trie, dynamic, job, printed>>
      BY <1>4 DEF ReadF
    <2>2. LinesInv /\ JobsInv
      BY DEF IInv
    <2>3. PICK slot \in Nat : Fetched(slot, "F", <<>>)
      BY <2>1, <2>2, FetchEffect
    <2>4. \A i \in 1 .. Len(job) : line'[job[i].slot] = line[job[i].slot]
      BY <2>2, <2>3, FetchKeeps
    <2> QED
      BY <2>1, <2>4, QuietRefines
  <1>5. CASE FinishBatch
    BY <1>5, FinishRefines DEF Store!Next
  <1>6. CASE \/ \E j \in 1 .. MaxLines : StartSearch(j) \/ Search(j)
             \/ EndOfFile \/ UNCHANGED vars
    <2>1. UNCHANGED <<line, version, trie, dynamic, job, printed>>
      BY <1>6 DEF StartSearch, Search, EndOfFile, vars, mainVars
    <2> QED
      BY <2>1, QuietRefines
  <1> QED
    BY <1>1, <1>2, <1>3, <1>4, <1>5, <1>6 DEF Next, Terminated

\* Deferred searches with versions and deferred deletions answer every query as if every
\* line had taken effect when it was read, for any n-grams and texts, any number of lines
\* and any order in which the jobs of a batch run (README.md:20-25).
THEOREM Implements ==
  ASSUME Disciplined
  PROVE  Spec => ImplementsNGramStore
  <1>1. Init => Store!Init
    <2> SUFFICES ASSUME Init
                 PROVE  Store!Init
      OBVIOUS
    <2>1. TrieInv /\ dynamic \in BOOLEAN
      BY InitInv DEF IInv, TrieInv
    <2>2. View(trie, version) \in SUBSET NGrams
      BY <2>1 DEF TrieInv, View, Visible, Finals
    <2>3. job = <<>> /\ printed = <<>>
      BY DEF Init
    <2>4. Asked = <<>>
      <3>1. DOMAIN job = {}
        BY <2>3
      <3>2. <<>> = [i \in {} |-> Answer(job[i])]
        OBVIOUS
      <3> QED
        BY <3>1, <3>2 DEF Asked
    <2> QED
      BY <2>1, <2>2, <2>3, <2>4 DEF Store!Init, Asked
  <1>2. IInv /\ IInv' /\ [Next]_vars => [Store!Next]_Store!vars
    BY StepRefines
  <1> QED
    BY <1>1, <1>2, Invariant, PTL DEF Spec, Store!Spec, ImplementsNGramStore
=============================================================================
