------------------------- MODULE AltSchedulerProofs -------------------------
(* The safety properties of AltScheduler, for any number of workers and     *)
(* jobs and any initial capacity of the rows.  All but the types assume     *)
(* SettledStart; no assumption is made on the timing of the batches, on     *)
(* empty batches or on spurious wake-ups of Main.                           *)
EXTENDS AltScheduler, DataLemmas

---------------------------------------------------------------------------
(* The inductive invariant.                                                 *)

Dealing == mpc \in {"load", "idle"} \/ InBatch
Quiet == {"idle", "broadcast", "reset", "fin_broadcast"}
Ended == {"fin_broadcast", "join", "destroyed"}

\* The workers that have not counted themselves since they were created or woken.
Away == {w \in Threads : wpc[w] \in {"woken", "exec", "job", "top", "count"}}

\* Dealing round robin puts the jobs of a batch in this order: slot 0 of every row,
\* slot 1 of every row, and so on.
Pos(w, i) == i * T + w

\* The job in slot i of the row of w.
JobAt(w, i) == submitted - total_tasks + Pos(w, i) + 1

\* How many jobs of its row a worker has executed in the current batch.
Progress(w) == IF mpc \in {"load", "idle", "broadcast"} \/ wpc[w] = "woken" THEN 0
               ELSE IF wpc[w] \in {"exec", "job"} THEN next[w]
               ELSE num_of_jobs[w]

\* A worker holds mtx in these places and no others, and what it loaded is current.
MutexInv ==
    /\ \A w \in Threads : wpc[w] \in {"count", "block"} <=> mtx = w
    /\ \A w \in Threads : wpc[w] = "count" => reg = inactive_workers

\* Which places of the workers go with which places of Main.
PlaceInv ==
    /\ mpc \in Quiet => AllAt("asleep")
    /\ mpc = "load" => \A w \in Threads : wpc[w] \in {"top", "count", "block", "asleep"}
    /\ InBatch => \A w \in Threads : wpc[w] # "exit"
    /\ mpc \in {"join", "destroyed"} => \A w \in Threads : wpc[w] \in {"woken", "exit"}
    /\ run <=> mpc \notin Ended

\* The count on which the wait of alt_execute_jobs rests.
CountInv ==
    /\ mpc = "broadcast" => inactive_workers = 0
    /\ mpc \in {"lock", "asleep", "woken"} => inactive_workers + Cardinality(Away) = T

\* The rows share out the batch, the last total_tasks jobs submitted, round robin.
DealInv == Dealing =>
    /\ mpc = "load" => total_tasks = 0
    /\ total_tasks <= submitted
    /\ \A w \in Threads, i \in Nat : i < num_of_jobs[w] <=> Pos(w, i) < total_tasks
    /\ \A w \in Threads : \A i \in RowSlots(w) : tasks[w][i] = JobAt(w, i)
    /\ \A w \in Threads : num_of_jobs[w] <= job_arr_size[w]

\* A worker has executed the first jobs of its row, and the earlier batches are done.
ProgressInv ==
    /\ done \subseteq 1 .. submitted
    /\ mpc = "reset" => 1 .. submitted \subseteq done
    /\ Dealing =>
          /\ 1 .. submitted - total_tasks \subseteq done
          /\ \A w \in Threads : /\ Progress(w) <= num_of_jobs[w]
                                /\ wpc[w] = "job" => Progress(w) < num_of_jobs[w]
          /\ \A w \in Threads : \A i \in RowSlots(w) :
                JobAt(w, i) \in done <=> i < Progress(w)

IInv == TypeOK /\ MutexInv /\ PlaceInv /\ CountInv /\ DealInv /\ ProgressInv

---------------------------------------------------------------------------
(* Facts about the dealing order and the set Away.                          *)

\* Worker w's slots are numbered upwards and without bound, T apart.
LEMMA PosOrder ==
  ASSUME NEW w \in Threads, NEW i \in Nat, NEW k \in Nat
  PROVE  /\ Pos(w, i) \in Nat /\ i <= Pos(w, i)
         /\ i < k <=> Pos(w, i) < Pos(w, k)
  <1>1. i * T \in Nat /\ k * T \in Nat /\ i <= i * T
    BY TAssumption, TimesMonotone
  <1>2. i < k => i * T < k * T
    <2>1. i + 1 <= k => (i + 1) * T <= k * T
      BY TAssumption, TimesMonotone
    <2>2. (i + 1) * T = i * T + T
      BY TAssumption
    <2> QED
      BY <1>1, <2>1, <2>2, TAssumption
  <1>3. k <= i => k * T <= i * T
    BY TAssumption, TimesMonotone
  <1> QED
    BY <1>1, <1>2, <1>3, TAssumption DEF Pos, Threads

\* Two slots with the same number are one slot.
LEMMA PosInjective ==
  ASSUME NEW v \in Threads, NEW w \in Threads, NEW i \in Nat, NEW k \in Nat,
         Pos(v, i) = Pos(w, k)
  PROVE  v = w /\ i = k
  BY TAssumption, DivModUnique DEF Pos, Threads

\* Slot k of any row comes before slot k + 1 of any other.
LEMMA PosNextRow ==
  ASSUME NEW v \in Threads, NEW w \in Threads, NEW k \in Nat
  PROVE  Pos(w, k) < Pos(v, k + 1)
  <1>1. (k + 1) * T = k * T + T /\ k * T \in Nat
    BY TAssumption
  <1> QED
    BY <1>1, TAssumption DEF Pos, Threads

\* The row that alt_submit_job computes is the one of slot number total_tasks.
LEMMA PosOfTotal ==
  ASSUME NEW a \in Nat
  PROVE  a % T \in Threads /\ a \div T \in Nat /\ Pos(a % T, a \div T) = a
  BY TAssumption, DivMod DEF Pos, Threads

\* There is a worker, mtx can be free, and the set of workers is finite.
LEMMA Workers ==
  /\ 0 \in Threads /\ Free \notin Threads
  /\ IsFiniteSet(Threads) /\ Cardinality(Threads) = T
  <1>1. IsFiniteSet(Threads) /\ Cardinality(Threads) = T
    BY TAssumption, FS_Interval DEF Threads
  <1> QED
    BY <1>1, TAssumption DEF Threads, Free

\* The workers that are away can be counted, and the count is 0 when there is none.
LEMMA AwayFinite ==
  IsFiniteSet(Away) /\ Cardinality(Away) \in Nat /\ (Cardinality(Away) = 0 <=> Away = {})
  <1>1. Away \in SUBSET Threads
    BY DEF Away
  <1> QED
    BY <1>1, Workers, FS_Subset, FS_CardinalityType, FS_EmptySet

---------------------------------------------------------------------------
(* Types are inductive by themselves.                                       *)

\* The initial values of alt_scheduler_init are of their types.
LEMMA TypeInit == Init => TypeOK
  BY TAssumption, MaxJobsAssumption, InitSizeAssumption, RegimeAssumption
  DEF Init, TypeOK, Slots, Job, NoJob

\* Changing one value of a function to one of its range keeps its type.
LEMMA UpdateType ==
  ASSUME NEW S, NEW V, NEW f \in [S -> V], NEW x, NEW y \in V
  PROVE  [f EXCEPT ![x] = y] \in [S -> V]
  OBVIOUS

\* pthread_cond_broadcast wakes the sleepers and moves nobody else.
LEMMA WakeAllEffect ==
  ASSUME TypeOK, WakeAll
  PROVE  /\ wpc' \in [Threads -> {"top", "count", "block", "asleep", "woken", "exec",
                                  "job", "exit"}]
         /\ \A w \in Threads : wpc'[w] = IF wpc[w] = "asleep" THEN "woken" ELSE wpc[w]
  <1>1. \A w \in Threads :
           (IF wpc[w] = "asleep" THEN "woken" ELSE wpc[w]) \in
           {"top", "count", "block", "asleep", "woken", "exec", "job", "exit"}
    BY DEF TypeOK
  <1>2. wpc' = [w \in Threads |-> IF wpc[w] = "asleep" THEN "woken" ELSE wpc[w]]
    BY DEF WakeAll, At
  <1> QED
    BY <1>1, <1>2, Zenon

\* Every step, under any timing, keeps the types.
LEMMA TypeStep == TypeOK /\ [Next]_vars => TypeOK'
  <1> SUFFICES ASSUME TypeOK, [Next]_vars
               PROVE  TypeOK'
    OBVIOUS
  <1> USE MaxJobsAssumption, InitSizeAssumption, TAssumption
      DEF TypeOK, rows, At, Goto, Slots, Job, NoJob
  <1>1. ASSUME NEW w \in Threads, WorkerStep(w)
        PROVE  TypeOK'
    <2>1. CASE Lock(w) \/ Wait(w)
      BY <2>1 DEF Lock, Wait, Free
    <2>2. CASE Arrive(w)
      <3>1. mpc' = mpc \/ mpc' = "woken"
        BY <2>2 DEF Arrive
      <3> QED
        BY <2>2, <3>1 DEF Arrive
    <2>3. CASE WakeUp(w)
      <3>1. wpc' = [wpc EXCEPT ![w] = "exec"] \/ wpc' = [wpc EXCEPT ![w] = "exit"]
        BY <2>3, Zenon DEF WakeUp
      <3>2. next' = [next EXCEPT ![w] = 0]
        BY <2>3 DEF WakeUp
      <3>3. wpc' \in [Threads -> {"top", "count", "block", "asleep", "woken", "exec",
                                  "job", "exit"}] /\ next' \in [Threads -> Nat]
        BY <3>1, <3>2
      <3> QED
        BY <2>3, <3>3 DEF WakeUp
    <2>4. CASE StartJob(w) \/ RowDone(w)
      BY <2>4 DEF StartJob, RowDone
    <2>5. CASE FinishJob(w)
      <3>1. JobOf(w) \in Job \union {NoJob}
        BY DEF JobOf
      <3>2. next[w] + 1 \in Nat
        OBVIOUS
      <3> QED
        BY <2>5, <3>1, <3>2 DEF FinishJob
    <2> QED
      BY <1>1, <2>1, <2>2, <2>3, <2>4, <2>5 DEF WorkerStep
  <1>2. ASSUME MainStep
        PROVE  TypeOK'
    <2>1. CASE Loaded
      BY <2>1 DEF Loaded
    <2>5. CASE ResetTotal
      BY <2>5 DEF ResetTotal
    <2>6. CASE Join
      BY <2>6 DEF Join
    <2>4. CASE Barrier
      <3>1. mpc' = "asleep" \/ mpc' = "reset"
        BY <2>4 DEF Barrier
      <3> QED
        BY <2>4, <3>1 DEF Barrier
    <2>2. CASE ResetRow
      BY <2>2 DEF ResetRow
    <2>3. CASE Broadcast \/ FinBroadcast
      BY <2>3, WakeAllEffect DEF Broadcast, FinBroadcast
    <2> QED
      BY <1>2, <2>1, <2>2, <2>3, <2>4, <2>5, <2>6 DEF MainStep
  <1>3. CASE alt_submit_job
    <2> DEFINE row == total_tasks % T
    <2>1. row \in Threads
      BY PosOfTotal
    <2>2. submitted' \in 0 .. MaxJobs /\ total_tasks' \in Nat
      BY <1>3 DEF alt_submit_job
    <2>3. submitted + 1 \in Job \union {NoJob}
      BY <1>3 DEF alt_submit_job
    <2> HIDE DEF Slots, Job, row
    <2>4. [tasks[row] EXCEPT ![num_of_jobs[row]] = submitted + 1]
             \in [Slots -> Job \union {NoJob}]
      BY <2>1, <2>3
    <2>5. tasks' = [tasks EXCEPT ![row] =
                       [tasks[row] EXCEPT ![num_of_jobs[row]] = submitted + 1]]
      BY <1>3 DEF alt_submit_job, row
    <2>6. tasks' \in [Threads -> [Slots -> Job \union {NoJob}]]
      BY <2>4, <2>5
    <2>7. num_of_jobs' \in [Threads -> Nat]
      <3>1. num_of_jobs' = [num_of_jobs EXCEPT ![row] = num_of_jobs[row] + 1]
        BY <1>3 DEF alt_submit_job, row
      <3>2. num_of_jobs[row] + 1 \in Nat
        BY <2>1
      <3> QED
        BY <3>1, <3>2, UpdateType
    <2>8. job_arr_size' \in [Threads -> Nat \ {0}]
      <3> DEFINE size == IF job_arr_size[row] = num_of_jobs[row]
                         THEN 2 * job_arr_size[row] ELSE job_arr_size[row]
      <3>1. job_arr_size' = [job_arr_size EXCEPT ![row] = size]
        BY <1>3 DEF alt_submit_job, row
      <3>2. size \in Nat \ {0}
        BY <2>1
      <3> HIDE DEF size
      <3> QED
        BY <3>1, <3>2, UpdateType
    <2> QED
      BY <1>3, <2>2, <2>6, <2>7, <2>8 DEF alt_submit_job
  <1>4. CASE alt_execute_jobs
    BY <1>4 DEF alt_execute_jobs
  <1>7. CASE alt_scheduler_fin
    BY <1>7 DEF alt_scheduler_fin
  <1>5. CASE SpuriousMain
    BY <1>5, RegimeAssumption DEF SpuriousMain
  <1>6. CASE UNCHANGED vars
    BY <1>6 DEF vars
  <1> QED
    BY <1>1, <1>2, <1>3, <1>4, <1>5, <1>6, <1>7 DEF Next, Terminated

\* The type invariant holds whether or not the workers settle before the first job.
THEOREM TypeCorrect == Spec => []TypeOK
  <1> QED
    BY TypeInit, TypeStep, PTL DEF Spec

---------------------------------------------------------------------------
(* The inductive invariant holds initially and each action preserves it.     *)

\* The inductive invariant holds when Main starts to load the trie.
LEMMA InvInit == Init => IInv
  <1> SUFFICES ASSUME Init
               PROVE  IInv
    OBVIOUS
  <1>1. TypeOK
    BY TypeInit
  <1>2. MutexInv /\ PlaceInv /\ CountInv
    BY Workers DEF Init, MutexInv, PlaceInv, CountInv, InBatch, AllAt, Quiet, Ended
  <1>3. DealInv
    <2>1. \A w \in Threads, i \in Nat : i < num_of_jobs[w] <=> Pos(w, i) < total_tasks
      BY PosOrder DEF Init
    <2> QED
      BY <2>1, InitSizeAssumption DEF Init, DealInv, RowSlots
  <1>4. ProgressInv
    BY DEF Init, ProgressInv, Progress, RowSlots
  <1> QED
    BY <1>1, <1>2, <1>3, <1>4 DEF IInv

\* A step that only moves one worker between places of the same group, and changes
\* neither the rows nor the batch.
LEMMA SameDeal ==
  ASSUME IInv, Dealing' = Dealing, UNCHANGED <<rows, total_tasks, submitted>>,
         mpc' = "load" => mpc = "load"
  PROVE  DealInv'
  BY DEF IInv, DealInv, rows, JobAt, RowSlots

\* The same for the workers' progress: such a step leaves the count of arrivals right.
LEMMA SameProgress ==
  ASSUME IInv, Dealing' = Dealing, UNCHANGED <<rows, total_tasks, submitted, done>>,
         mpc' = "reset" => mpc = "reset",
         \A v \in Threads : Progress(v)' = Progress(v) /\ (wpc'[v] = "job" => wpc[v] = "job")
  PROVE  ProgressInv'
  BY DEF IInv, ProgressInv, rows, JobAt, RowSlots

\* mtx is taken.
LEMMA LockInv ==
  ASSUME IInv, TypeOK', NEW w \in Threads, Lock(w)
  PROVE  IInv'
  <1> USE DEF IInv, TypeOK, Lock, At, Goto
  <1>1. MutexInv'
    BY Workers DEF MutexInv
  <1>2. PlaceInv'
    BY DEF PlaceInv, InBatch, AllAt, Quiet, Ended
  <1>3. CountInv'
    <2>1. Away' = Away
      BY DEF Away
    <2> QED
      BY <2>1 DEF CountInv
  <1>4. Dealing' = Dealing
    BY DEF Dealing, InBatch
  <1>5. \A v \in Threads : Progress(v)' = Progress(v) /\ (wpc'[v] = "job" => wpc[v] = "job")
    BY DEF Progress, rows
  <1> QED
    BY <1>1, <1>2, <1>3, <1>4, <1>5, SameDeal, SameProgress

\* inactive_workers++ moves a worker from those away to the counted ones.
LEMMA ArriveInv ==
  ASSUME IInv, TypeOK', NEW w \in Threads, Arrive(w)
  PROVE  IInv'
  <1> USE DEF IInv, TypeOK, Arrive, At, Goto
  <1>1. mtx = w /\ reg = inactive_workers
    BY DEF MutexInv
  <1>2. MutexInv'
    BY <1>1 DEF MutexInv
  <1>3. PlaceInv'
    BY DEF PlaceInv, InBatch, AllAt, Quiet, Ended
  <1>4. CountInv'
    <2>1. w \in Away /\ Away' = Away \ {w}
      BY DEF Away
    <2>2. Cardinality(Away') = Cardinality(Away) - 1
      BY <2>1, AwayFinite, FS_RemoveElement
    <2> QED
      BY <1>1, <2>2, AwayFinite, TAssumption DEF CountInv, PlaceInv, AllAt, Quiet
  <1>5. Dealing' = Dealing
    BY DEF Dealing, InBatch
  <1>6. \A v \in Threads : Progress(v)' = Progress(v) /\ (wpc'[v] = "job" => wpc[v] = "job")
    BY DEF Progress, rows
  <1> QED
    BY <1>2, <1>3, <1>4, <1>5, <1>6, SameDeal, SameProgress

\* A worker sleeps and releases mtx.
LEMMA WaitInv ==
  ASSUME IInv, TypeOK', NEW w \in Threads, Wait(w)
  PROVE  IInv'
  <1> USE DEF IInv, TypeOK, Wait, At, Goto
  <1>1. MutexInv'
    BY Workers DEF MutexInv
  <1>2. PlaceInv'
    BY DEF PlaceInv, InBatch, AllAt, Quiet, Ended
  <1>3. CountInv'
    <2>1. Away' = Away
      BY DEF Away
    <2> QED
      BY <2>1 DEF CountInv
  <1>4. Dealing' = Dealing
    BY DEF Dealing, InBatch
  <1>5. \A v \in Threads : Progress(v)' = Progress(v) /\ (wpc'[v] = "job" => wpc[v] = "job")
    BY DEF Progress, rows
  <1> QED
    BY <1>1, <1>2, <1>3, <1>4, <1>5, SameDeal, SameProgress

\* A woken worker starts at slot 0 of its row, or exits when run was cleared.
LEMMA WakeUpInv ==
  ASSUME IInv, TypeOK', NEW w \in Threads, WakeUp(w)
  PROVE  IInv'
  <1> USE DEF IInv, TypeOK, WakeUp, At, Goto
  <1>1. MutexInv'
    BY Workers DEF MutexInv
  <1>2. \/ mpc \in {"lock", "asleep", "woken"} /\ run
        \/ mpc \in {"join", "destroyed"} /\ ~run
    <2>1. mpc \notin Quiet
      BY DEF PlaceInv, AllAt
    <2>2. mpc # "load"
      BY DEF PlaceInv
    <2> QED
      BY <2>1, <2>2 DEF PlaceInv, Quiet, Ended
  <1>3. wpc' = [wpc EXCEPT ![w] = IF run THEN "exec" ELSE "exit"]
    BY Zenon
  <1>4. Dealing' = Dealing
    BY DEF Dealing, InBatch
  <1>5. CASE mpc \in {"lock", "asleep", "woken"} /\ run
    <2>1. wpc' = [wpc EXCEPT ![w] = "exec"]
      BY <1>3, <1>5
    <2>2. PlaceInv'
      BY <1>5, <2>1 DEF PlaceInv, InBatch, AllAt, Quiet, Ended
    <2>3. CountInv'
      <3>1. Away' = Away
        BY <2>1 DEF Away
      <3> QED
        BY <3>1 DEF CountInv
    <2>4. \A v \in Threads : Progress(v)' = Progress(v) /\ (wpc'[v] = "job" => wpc[v] = "job")
      BY <1>5, <2>1 DEF Progress, rows
    <2> QED
      BY <1>1, <1>4, <2>2, <2>3, <2>4, SameDeal, SameProgress
  <1>6. CASE mpc \in {"join", "destroyed"} /\ ~run
    <2>1. wpc' = [wpc EXCEPT ![w] = "exit"]
      BY <1>3, <1>6
    <2>2. PlaceInv'
      BY <1>6, <2>1 DEF PlaceInv, InBatch, AllAt, Quiet, Ended
    <2> QED
      BY <1>1, <1>6, <2>2 DEF CountInv, DealInv, ProgressInv, Dealing, InBatch
  <1> QED
    BY <1>2, <1>5, <1>6

\* While its row lasts, a worker is sent to execute the job at its slot.
LEMMA StartJobInv ==
  ASSUME IInv, TypeOK', NEW w \in Threads, StartJob(w)
  PROVE  IInv'
  <1> USE DEF IInv, TypeOK, StartJob, At, Goto
  <1>1. MutexInv'
    BY DEF MutexInv
  <1>2. mpc \in {"lock", "asleep", "woken"}
    <2>1. mpc \notin Quiet
      BY DEF PlaceInv, AllAt
    <2> QED
      BY <2>1 DEF PlaceInv, Quiet
  <1>3. PlaceInv'
    BY <1>2 DEF PlaceInv, InBatch, AllAt, Quiet, Ended
  <1>4. CountInv'
    <2>1. Away' = Away
      BY DEF Away
    <2> QED
      BY <2>1 DEF CountInv
  <1>5. Dealing' = Dealing
    BY DEF Dealing, InBatch
  <1>6. DealInv'
    BY <1>5, SameDeal
  <1>7. ProgressInv'
    <2>1. Dealing
      BY <1>2 DEF Dealing, InBatch
    <2>2. \A v \in Threads : Progress(v)' = Progress(v)
      BY <1>2 DEF Progress, rows
    <2>3. Progress(w) < num_of_jobs[w]
      BY <1>2 DEF Progress
    <2> HIDE DEF Progress
    <2> QED
      BY <1>2, <2>1, <2>2, <2>3 DEF ProgressInv, rows, JobAt, RowSlots
  <1> QED
    BY <1>1, <1>3, <1>4, <1>6, <1>7

\* The slot of a worker that executes a job, or goes to, holds a job of the batch that
\* nobody has executed.
LEMMA RunningSlot ==
  ASSUME IInv, NEW w \in Threads,
         wpc[w] = "job" \/ (wpc[w] = "exec" /\ next[w] < num_of_jobs[w])
  PROVE  /\ mpc \in {"lock", "asleep", "woken"}
         /\ Progress(w) = next[w] /\ next[w] \in RowSlots(w)
         /\ JobOf(w) = JobAt(w, next[w])
         /\ JobOf(w) \in 1 .. submitted /\ JobOf(w) \notin done
  <1> USE DEF IInv, TypeOK
  <1>1. mpc \in {"lock", "asleep", "woken"}
    <2>1. mpc \notin Quiet
      BY DEF PlaceInv, AllAt
    <2> QED
      BY <2>1 DEF PlaceInv, Quiet
  <1>2. Dealing
    BY <1>1 DEF Dealing, InBatch
  <1>3. Progress(w) = next[w]
    BY <1>1 DEF Progress
  <1>4. next[w] \in RowSlots(w)
    BY <1>2, <1>3 DEF ProgressInv, RowSlots
  <1>5. Pos(w, next[w]) \in 0 .. total_tasks - 1 /\ next[w] <= Pos(w, next[w])
    BY <1>2, <1>4, PosOrder DEF DealInv, RowSlots
  <1>6. next[w] \in Slots /\ total_tasks <= submitted
    BY <1>2, <1>5, MaxJobsAssumption DEF DealInv, Slots
  <1>7. JobOf(w) = JobAt(w, next[w])
    BY <1>2, <1>4, <1>6 DEF DealInv, JobOf
  <1>8. JobAt(w, next[w]) \in 1 .. submitted
    BY <1>5, <1>6 DEF JobAt
  <1>9. JobAt(w, next[w]) \notin done
    BY <1>2, <1>3, <1>4 DEF ProgressInv
  <1> QED
    BY <1>1, <1>3, <1>4, <1>7, <1>8, <1>9

\* Two slots of the batch hold different jobs.
LEMMA JobAtInjective ==
  ASSUME TypeOK, NEW v \in Threads, NEW w \in Threads, NEW i \in Nat, NEW k \in Nat,
         JobAt(v, i) = JobAt(w, k)
  PROVE  v = w /\ i = k
  <1>1. Pos(v, i) \in Nat /\ Pos(w, k) \in Nat
    BY PosOrder
  <1>2. submitted \in Nat /\ total_tasks \in Nat
    BY MaxJobsAssumption DEF TypeOK
  <1>3. submitted - total_tasks + Pos(v, i) + 1 = submitted - total_tasks + Pos(w, k) + 1
    BY DEF JobAt
  <1>4. Pos(v, i) = Pos(w, k)
    BY ONLY <1>1, <1>2, <1>3
  <1> QED
    BY <1>4, PosInjective

\* The end of execute_job adds the job of the slot to those done.
LEMMA FinishJobInv ==
  ASSUME IInv, TypeOK', NEW w \in Threads, FinishJob(w)
  PROVE  IInv'
  <1> USE DEF IInv, TypeOK, FinishJob, At, Goto
  <1>1. MutexInv'
    BY DEF MutexInv
  <1>2. /\ mpc \in {"lock", "asleep", "woken"} /\ Progress(w) = next[w]
        /\ next[w] \in RowSlots(w) /\ JobOf(w) = JobAt(w, next[w])
        /\ JobOf(w) \in 1 .. submitted
    BY RunningSlot
  <1>3. PlaceInv'
    BY <1>2 DEF PlaceInv, InBatch, AllAt, Quiet, Ended
  <1>4. CountInv'
    <2>1. Away' = Away
      BY DEF Away
    <2> QED
      BY <2>1 DEF CountInv
  <1>5. Dealing /\ Dealing'
    BY <1>2 DEF Dealing, InBatch
  <1>6. DealInv'
    BY <1>5, SameDeal
  <1>7. ProgressInv'
    <2>1. Progress(w)' = next[w] + 1 /\ next[w] \in Nat
      BY <1>2 DEF Progress
    <2>2. \A v \in Threads \ {w} : Progress(v)' = Progress(v) /\ wpc'[v] = wpc[v]
      BY <1>2 DEF Progress, rows
    <2>3. done' = done \union {JobAt(w, next[w])}
      BY <1>2
    <2>4. /\ \A v \in Threads, i \in Nat : JobAt(v, i)' = JobAt(v, i)
          /\ \A v \in Threads : RowSlots(v)' = RowSlots(v) /\ num_of_jobs'[v] = num_of_jobs[v]
      BY DEF JobAt, RowSlots, rows
    <2>5. wpc'[w] = "exec"
      OBVIOUS
    <2> HIDE DEF Progress
    <2>6. ASSUME NEW v \in Threads, NEW i \in RowSlots(v)
          PROVE  JobAt(v, i) \in done' <=> i < Progress(v)'
      <3>1. i \in Nat
        BY DEF RowSlots
      <3>2. JobAt(v, i) \in done <=> i < Progress(v)
        BY <1>5 DEF ProgressInv
      <3>3. CASE v = w /\ i = next[w]
        BY <2>1, <2>3, <3>3
      <3>4. CASE ~(v = w /\ i = next[w])
        <4>1. JobAt(v, i) # JobAt(w, next[w])
          BY <2>1, <3>1, <3>4, JobAtInjective
        <4>2. JobAt(v, i) \in done' <=> i < Progress(v)
          BY <2>3, <3>2, <4>1
        <4>3. CASE v = w
          <5>3. i # next[w]
            BY <3>4, <4>3
          <5>1. i < next[w] + 1 <=> i < next[w]
            BY ONLY <2>1, <3>1, <5>3
          <5>2. Progress(v)' = next[w] + 1 /\ Progress(v) = next[w]
            BY <1>2, <2>1, <4>3
          <5> QED
            BY <4>2, <5>1, <5>2
        <4> QED
          BY <2>2, <4>2, <4>3
      <3> QED
        BY <3>3, <3>4
    <2>7. \A v \in Threads : /\ Progress(v)' <= num_of_jobs[v]
                             /\ wpc'[v] = "job" => Progress(v)' < num_of_jobs[v]
      BY <1>2, <1>5, <2>1, <2>2, <2>5 DEF ProgressInv, RowSlots
    <2>8. done' \subseteq 1 .. submitted /\ 1 .. submitted - total_tasks \subseteq done'
      BY <1>2, <1>5 DEF ProgressInv
    <2>9. \A v \in Threads : \A i \in RowSlots(v)' :
             JobAt(v, i)' \in done' <=> i < Progress(v)'
      BY <2>4, <2>6 DEF RowSlots
    <2> QED
      BY <1>2, <2>4, <2>7, <2>8, <2>9 DEF ProgressInv
  <1> QED
    BY <1>1, <1>3, <1>4, <1>6, <1>7

\* At the end of its row a worker has executed all of it.
LEMMA RowDoneInv ==
  ASSUME IInv, TypeOK', NEW w \in Threads, RowDone(w)
  PROVE  IInv'
  <1> USE DEF IInv, TypeOK, RowDone, At, Goto
  <1>1. MutexInv'
    BY DEF MutexInv
  <1>2. mpc \in {"lock", "asleep", "woken"}
    <2>1. mpc \notin Quiet
      BY DEF PlaceInv, AllAt
    <2> QED
      BY <2>1 DEF PlaceInv, Quiet
  <1>3. PlaceInv'
    BY <1>2 DEF PlaceInv, InBatch, AllAt, Quiet, Ended
  <1>4. CountInv'
    <2>1. Away' = Away
      BY DEF Away
    <2> QED
      BY <2>1 DEF CountInv
  <1>5. Dealing /\ Dealing'
    BY <1>2 DEF Dealing, InBatch
  <1>6. \A v \in Threads : Progress(v)' = Progress(v) /\ (wpc'[v] = "job" => wpc[v] = "job")
    <2>1. Progress(w) = next[w] /\ Progress(w)' = num_of_jobs[w]
      BY <1>2 DEF Progress, rows
    <2>2. Progress(w) = num_of_jobs[w]
      <3>1. Progress(w) <= num_of_jobs[w]
        BY <1>5 DEF ProgressInv
      <3>2. next[w] \in Nat /\ num_of_jobs[w] \in Nat /\ next[w] >= num_of_jobs[w]
        OBVIOUS
      <3> QED
        BY ONLY <2>1, <3>1, <3>2
    <2>3. \A v \in Threads \ {w} : Progress(v)' = Progress(v)
      BY <1>2 DEF Progress, rows
    <2> QED
      BY <2>1, <2>2, <2>3
  <1> QED
    BY <1>1, <1>3, <1>4, <1>5, <1>6, SameDeal, SameProgress

\* The first job is submitted when every worker waits.
LEMMA LoadedInv ==
  ASSUME SettledStart, IInv, TypeOK', Loaded
  PROVE  IInv'
  <1> USE DEF IInv, TypeOK, Loaded
  <1>1. MutexInv' /\ CountInv'
    BY DEF MutexInv, CountInv
  <1>2. PlaceInv'
    BY DEF PlaceInv, InBatch, AllAt, Quiet, Ended
  <1>3. Dealing /\ Dealing' /\ \A v \in Threads : Progress(v)' = Progress(v)
    BY DEF Dealing, Progress
  <1> QED
    BY <1>1, <1>2, <1>3, SameDeal, SameProgress

\* A submitted job goes to the end of the row whose turn it is.
LEMMA SubmitInv ==
  ASSUME IInv, TypeOK', alt_submit_job
  PROVE  IInv'
  <1> DEFINE row == total_tasks % T
             slot == total_tasks \div T
  <1> USE MaxJobsAssumption DEF IInv, TypeOK
  <1>1. /\ mpc = "idle" /\ submitted < MaxJobs
        /\ tasks' = [tasks EXCEPT ![row][num_of_jobs[row]] = submitted + 1]
        /\ num_of_jobs' = [num_of_jobs EXCEPT ![row] = num_of_jobs[row] + 1]
        /\ total_tasks' = total_tasks + 1 /\ submitted' = submitted + 1
        /\ UNCHANGED <<inactive_workers, run, mtx, reg, wpc, next, mpc, done, spurious>>
    BY DEF alt_submit_job
  <1>2. job_arr_size' = [job_arr_size EXCEPT ![row] = IF job_arr_size[row] = num_of_jobs[row]
                                                      THEN 2 * job_arr_size[row]
                                                      ELSE job_arr_size[row]]
    BY DEF alt_submit_job
  <1>3. row \in Threads /\ slot \in Nat /\ Pos(row, slot) = total_tasks
    BY PosOfTotal
  <1> HIDE DEF row, slot
  <1>4. Dealing /\ Dealing'
    BY <1>1 DEF Dealing, InBatch
  <1>5. num_of_jobs[row] = slot
    <2>3. num_of_jobs[row] \in Nat
      BY <1>3
    <2>1. /\ slot < num_of_jobs[row] <=> total_tasks < total_tasks
          /\ \A k \in Nat : k < num_of_jobs[row] <=> Pos(row, k) < total_tasks
      BY <1>3, <1>4 DEF DealInv
    <2>2. slot > num_of_jobs[row] => FALSE
      <3> SUFFICES ASSUME slot > num_of_jobs[row]
                   PROVE  FALSE
        OBVIOUS
      <3>1. Pos(row, num_of_jobs[row]) < total_tasks
        BY <1>3, PosOrder
      <3> QED
        BY <1>3, <2>1, <3>1
    <2> QED
      BY ONLY <1>3, <2>1, <2>2, <2>3, total_tasks \in Nat
  <1>6. slot <= total_tasks /\ total_tasks <= submitted /\ slot \in Slots
    BY <1>1, <1>3, <1>4, PosOrder DEF DealInv, Slots
  <1>7. \A v \in Threads, i \in Nat : JobAt(v, i)' = JobAt(v, i)
    BY <1>1, PosOrder DEF JobAt
  <1>8. JobAt(row, slot) = submitted + 1
    BY <1>3, <1>6 DEF JobAt
  <1>9. \A v \in Threads : RowSlots(v)' = IF v = row THEN RowSlots(v) \union {slot}
                                          ELSE RowSlots(v)
    <2>1. ASSUME NEW v \in Threads, v # row
          PROVE  RowSlots(v)' = RowSlots(v)
      BY <1>1, <2>1 DEF RowSlots
    <2>2. num_of_jobs'[row] = slot + 1
      BY <1>1, <1>3, <1>5
    <2>3. 0 .. (slot + 1) - 1 = (0 .. slot - 1) \union {slot}
      BY ONLY <1>3
    <2>4. ASSUME NEW v \in Threads, v = row
          PROVE  RowSlots(v)' = RowSlots(v) \union {slot}
      BY <1>5, <2>2, <2>3, <2>4 DEF RowSlots
    <2> QED
      BY <2>1, <2>4
  <1>10. MutexInv' /\ PlaceInv' /\ CountInv'
    BY <1>1 DEF MutexInv, PlaceInv, CountInv, InBatch, AllAt, Quiet, Ended
  <1>11. DealInv'
    <2>1. ASSUME NEW v \in Threads, NEW i \in Nat
          PROVE  i < num_of_jobs'[v] <=> Pos(v, i) < total_tasks + 1
      <3>1. i < num_of_jobs[v] <=> Pos(v, i) < total_tasks
        BY <1>4 DEF DealInv
      <3>2. Pos(v, i) = total_tasks => v = row /\ i = slot
        BY <1>3, PosInjective
      <3>3. Pos(v, i) \in Nat
        BY PosOrder
      <3>4. CASE v = row
        <4>1. num_of_jobs'[v] = slot + 1 /\ num_of_jobs[v] = slot
          BY <1>1, <1>3, <1>5, <3>4
        <4>2. i = slot => Pos(v, i) = total_tasks
          BY <1>3, <3>4
        <4> QED
          BY ONLY <1>3, <3>1, <3>2, <3>3, <4>1, <4>2, total_tasks \in Nat
      <3>5. CASE v # row
        <4>1. num_of_jobs'[v] = num_of_jobs[v]
          BY <1>1, <3>5
        <4>2. Pos(v, i) # total_tasks
          BY <3>2, <3>5
        <4> QED
          BY ONLY <3>1, <3>3, <4>1, <4>2, total_tasks \in Nat
      <3> QED
        BY <3>4, <3>5
    <2>2. ASSUME NEW v \in Threads, NEW i \in RowSlots(v)'
          PROVE  tasks'[v][i] = JobAt(v, i)
      <3>1. CASE v = row /\ i = slot
        BY <1>1, <1>3, <1>5, <1>6, <1>8, <3>1
      <3>2. CASE ~(v = row /\ i = slot)
        <4>1. i \in RowSlots(v)
          BY <1>9, <3>2
        <4>2. tasks'[v][i] = tasks[v][i]
          BY <1>1, <1>3, <1>5, <3>2
        <4> QED
          BY <1>4, <4>1, <4>2 DEF DealInv
      <3> QED
        BY <3>1, <3>2
    <2>3. ASSUME NEW v \in Threads
          PROVE  num_of_jobs'[v] <= job_arr_size'[v]
      <3>1. num_of_jobs[v] <= job_arr_size[v] /\ job_arr_size[v] \in Nat \ {0}
        BY <1>4 DEF DealInv
      <3>2. CASE v = row
        <4>1. num_of_jobs'[v] = num_of_jobs[v] + 1 /\ num_of_jobs[v] \in Nat
          BY <1>1, <3>2
        <4>2. job_arr_size'[v] = IF job_arr_size[v] = num_of_jobs[v]
                                 THEN 2 * job_arr_size[v] ELSE job_arr_size[v]
          BY <1>2, <3>2
        <4> QED
          BY ONLY <3>1, <4>1, <4>2
      <3>3. CASE v # row
        BY <1>1, <1>2, <3>1, <3>3
      <3> QED
        BY <3>2, <3>3
    <2>4. \A v \in Threads, i \in Nat : i \in RowSlots(v)' => tasks'[v][i] = JobAt(v, i)'
      BY <1>7, <2>2
    <2>5. \A v \in Threads : RowSlots(v)' \subseteq Nat
      BY DEF RowSlots
    <2> QED
      BY <1>1, <1>6, <2>1, <2>3, <2>4, <2>5 DEF DealInv
  <1>12. ProgressInv'
    <2>1. \A v \in Threads : Progress(v) = 0 /\ Progress(v)' = 0
      BY <1>1 DEF Progress
    <2>2. \A v \in Threads : \A i \in RowSlots(v) : JobAt(v, i) \notin done
      BY <1>4, <2>1 DEF ProgressInv, RowSlots
    <2>3. submitted + 1 \notin done
      BY <1>4 DEF ProgressInv
    <2>4. \A v \in Threads : \A i \in RowSlots(v)' : JobAt(v, i) \notin done
      BY <1>8, <1>9, <2>2, <2>3
    <2>5. \A v \in Threads : \A i \in RowSlots(v)' : i \in Nat /\ ~(i < 0)
      BY DEF RowSlots
    <2>6. \A v \in Threads : wpc'[v] # "job"
      BY <1>1 DEF PlaceInv, AllAt, Quiet
    <2>7. done' \subseteq 1 .. submitted' /\ 1 .. submitted' - total_tasks' \subseteq done'
      BY <1>1, <1>4 DEF ProgressInv
    <2>8. \A v \in Threads : 0 <= num_of_jobs'[v]
      OBVIOUS
    <2> QED
      BY <1>1, <1>7, <2>1, <2>4, <2>5, <2>6, <2>7, <2>8 DEF ProgressInv
  <1> QED
    BY <1>10, <1>11, <1>12

\* inactive_workers is cleared while every worker waits.
LEMMA ExecuteInv ==
  ASSUME IInv, TypeOK', alt_execute_jobs
  PROVE  IInv'
  <1> USE DEF IInv, TypeOK, alt_execute_jobs
  <1>1. MutexInv'
    BY DEF MutexInv, PlaceInv, AllAt, Quiet
  <1>2. PlaceInv' /\ CountInv'
    BY DEF PlaceInv, CountInv, InBatch, AllAt, Quiet, Ended
  <1>3. Dealing /\ Dealing' /\ \A v \in Threads : Progress(v)' = Progress(v)
    BY DEF Dealing, InBatch, Progress
  <1> QED
    BY <1>1, <1>2, <1>3, SameDeal, SameProgress

\* The broadcast of a batch finds every worker waiting, so that every worker is woken.
LEMMA BroadcastInv ==
  ASSUME IInv, TypeOK', Broadcast
  PROVE  IInv'
  <1> USE DEF IInv, TypeOK, Broadcast
  <1>1. \A v \in Threads : wpc[v] = "asleep" /\ wpc'[v] = "woken"
    BY WakeAllEffect DEF PlaceInv, AllAt, Quiet
  <1>2. MutexInv'
    BY <1>1 DEF MutexInv
  <1>3. PlaceInv'
    BY <1>1 DEF PlaceInv, InBatch, Quiet, Ended
  <1>4. CountInv'
    <2>1. Away' = Threads
      BY <1>1 DEF Away
    <2> QED
      BY <2>1, Workers, TAssumption DEF CountInv
  <1>5. Dealing /\ Dealing' /\ \A v \in Threads : Progress(v)' = Progress(v)
    BY <1>1 DEF Dealing, InBatch, Progress
  <1> QED
    BY <1>1, <1>2, <1>3, <1>4, <1>5, SameDeal, SameProgress

\* The wait of alt_execute_jobs ends only when every worker waits, and then every row
\* has been executed.
LEMMA BarrierInv ==
  ASSUME IInv, TypeOK', Barrier
  PROVE  IInv'
  <1> USE DEF IInv, TypeOK, Barrier
  <1>1. MutexInv'
    BY DEF MutexInv
  <1>2. Dealing
    BY DEF Dealing, InBatch
  <1>3. CASE inactive_workers # T
    <2>1. mpc \in {"lock", "woken"} /\ mpc' = "asleep"
      BY <1>3
    <2>2. PlaceInv'
      BY <2>1 DEF PlaceInv, InBatch, AllAt, Quiet, Ended
    <2>3. CountInv'
      <3>1. Away' = Away
        BY DEF Away
      <3> QED
        BY <2>1, <3>1 DEF CountInv
    <2>4. Dealing'
      BY <2>1 DEF InBatch, Dealing
    <2>5. \A v \in Threads : Progress(v)' = Progress(v)
      <3>1. UNCHANGED <<wpc, next, num_of_jobs>>
        BY DEF rows
      <3>2. /\ mpc \notin {"load", "idle", "broadcast"}
            /\ mpc' \notin {"load", "idle", "broadcast"}
        BY <2>1
      <3> QED
        BY <3>1, <3>2, Zenon DEF Progress
    <2>6. \A v \in Threads : wpc'[v] = wpc[v]
      OBVIOUS
    <2> QED
      BY <1>1, <1>2, <2>1, <2>2, <2>3, <2>4, <2>5, <2>6, SameDeal, SameProgress
  <1>4. CASE inactive_workers = T
    <2>1. mpc' = "reset"
      BY <1>4
    <2>2. Away = {}
      <3>1. inactive_workers + Cardinality(Away) = T
        BY DEF CountInv
      <3>2. Cardinality(Away) = 0
        BY ONLY <1>4, <3>1, AwayFinite, TAssumption
      <3> QED
        BY <3>2, AwayFinite
    <2>3. AllAt("asleep")
      <3>1. \A v \in Threads : wpc[v] # "block"
        BY Workers DEF MutexInv
      <3>2. \A v \in Threads : wpc[v] # "exit"
        BY DEF PlaceInv, InBatch
      <3>3. \A v \in Threads : wpc[v] \notin {"woken", "exec", "job", "top", "count"}
        BY <2>2 DEF Away
      <3> QED
        BY <3>1, <3>2, <3>3 DEF AllAt
    <2>4. PlaceInv' /\ CountInv'
      BY <2>1, <2>3 DEF PlaceInv, CountInv, InBatch, AllAt, Quiet, Ended
    <2>5. 1 .. submitted \subseteq done
      <3> SUFFICES ASSUME NEW j \in 1 .. submitted, j \notin done
                   PROVE  FALSE
        OBVIOUS
      <3>1. submitted \in Nat /\ total_tasks \in Nat /\ total_tasks <= submitted
        BY <1>2, MaxJobsAssumption DEF DealInv
      <3> DEFINE a == j - 1 - (submitted - total_tasks)
                 v == a % T
                 i == a \div T
      <3>2. j \notin 1 .. submitted - total_tasks
        BY <1>2 DEF ProgressInv
      <3>3. a \in Nat /\ a < total_tasks
        BY ONLY <3>1, <3>2, j \in 1 .. submitted
      <3>4. v \in Threads /\ i \in Nat /\ Pos(v, i) = a
        BY <3>3, PosOfTotal
      <3>5. JobAt(v, i) = j
        BY <3>1, <3>4 DEF JobAt
      <3> HIDE DEF a, v, i
      <3>6. i \in RowSlots(v)
        BY <1>2, <3>3, <3>4 DEF DealInv, RowSlots
      <3>7. Progress(v) = num_of_jobs[v]
        BY <2>3, <3>4 DEF Progress, AllAt
      <3>8. i < Progress(v)
        BY <3>4, <3>6, <3>7 DEF RowSlots
      <3> QED
        BY <1>2, <3>4, <3>5, <3>6, <3>8 DEF ProgressInv
    <2> QED
      BY <1>1, <2>1, <2>4, <2>5 DEF DealInv, ProgressInv, Dealing, InBatch
  <1> QED
    BY <1>3, <1>4

\* The rows are emptied and total_tasks cleared when all jobs are done.
LEMMA ResetInv ==
  ASSUME IInv, TypeOK', ResetRow \/ ResetTotal
  PROVE  IInv'
  <1> USE DEF IInv, TypeOK
  <1>1. CASE ResetRow
    BY <1>1 DEF ResetRow, MutexInv, PlaceInv, CountInv, DealInv, ProgressInv, Dealing,
       InBatch, AllAt, Quiet, Ended
  <1>2. CASE ResetTotal
    <2> USE <1>2 DEF ResetTotal, rows
    <2>1. MutexInv' /\ PlaceInv' /\ CountInv'
      BY DEF MutexInv, PlaceInv, CountInv, InBatch, AllAt, Quiet, Ended
    <2>2. \A v \in Threads : num_of_jobs'[v] = 0 /\ RowSlots(v)' = {}
      BY DEF RowSlots
    <2>3. DealInv'
      <3>1. \A v \in Threads, i \in Nat : ~(i < 0) /\ ~(Pos(v, i) < 0)
        BY PosOrder
      <3>2. 0 <= submitted /\ \A v \in Threads : 0 <= job_arr_size[v]
        OBVIOUS
      <3> QED
        BY <2>2, <3>1, <3>2 DEF DealInv
    <2>4. ProgressInv'
      <3>1. \A v \in Threads : Progress(v)' = 0 /\ wpc'[v] # "job"
        BY DEF Progress, PlaceInv, AllAt, Quiet
      <3>2. 1 .. submitted \subseteq done /\ done \subseteq 1 .. submitted
        BY DEF ProgressInv
      <3>3. submitted - 0 = submitted
        BY MaxJobsAssumption
      <3> QED
        BY <2>2, <3>1, <3>2, <3>3 DEF ProgressInv
    <2> QED
      BY <2>1, <2>3, <2>4
  <1> QED
    BY <1>1, <1>2

\* The end of the work file; the workers leave only then.
LEMMA FinInv ==
  ASSUME IInv, TypeOK', alt_scheduler_fin \/ FinBroadcast \/ Join
  PROVE  IInv'
  <1> USE DEF IInv, TypeOK
  <1>1. CASE alt_scheduler_fin
    BY <1>1 DEF alt_scheduler_fin, MutexInv, PlaceInv, CountInv, DealInv, ProgressInv,
       Dealing, InBatch, AllAt, Quiet, Ended
  <1>2. CASE FinBroadcast
    <2> USE <1>2 DEF FinBroadcast
    <2>1. \A v \in Threads : wpc[v] = "asleep" /\ wpc'[v] = "woken"
      BY WakeAllEffect DEF PlaceInv, AllAt, Quiet
    <2> QED
      BY <2>1 DEF MutexInv, PlaceInv, CountInv, DealInv, ProgressInv, Dealing, InBatch,
         Quiet, Ended
  <1>3. CASE Join
    BY <1>3 DEF Join, MutexInv, PlaceInv, CountInv, DealInv, ProgressInv, Dealing,
       InBatch, Quiet, Ended
  <1> QED
    BY <1>1, <1>2, <1>3

\* The wait of Main may return without a signal.
LEMMA SpuriousMainInv ==
  ASSUME IInv, TypeOK', SpuriousMain
  PROVE  IInv'
  <1> USE DEF IInv, TypeOK, SpuriousMain
  <1>1. mpc = "asleep" /\ mpc' = "woken"
    OBVIOUS
  <1>2. MutexInv' /\ PlaceInv'
    BY DEF MutexInv, PlaceInv, InBatch, AllAt, Quiet, Ended
  <1>3. CountInv'
    <2>1. Away' = Away
      BY DEF Away
    <2> QED
      BY <1>1, <2>1 DEF CountInv
  <1>4. Dealing /\ Dealing'
    BY <1>1 DEF Dealing, InBatch
  <1>5. \A v \in Threads : Progress(v)' = Progress(v) /\ wpc'[v] = wpc[v]
    <2>1. UNCHANGED <<wpc, next, num_of_jobs>>
      BY DEF rows
    <2>2. mpc \notin {"load", "idle", "broadcast"} /\ mpc' \notin {"load", "idle", "broadcast"}
      BY <1>1
    <2> QED
      BY <2>1, <2>2, Zenon DEF Progress
  <1> QED
    BY <1>1, <1>2, <1>3, <1>4, <1>5, SameDeal, SameProgress

\* The inductive invariant holds in every reachable state.
THEOREM Invariant == ASSUME SettledStart PROVE Spec => []IInv
  <1>1. IInv /\ [Next]_vars => IInv'
    <2> SUFFICES ASSUME IInv, [Next]_vars
                 PROVE  IInv'
      OBVIOUS
    <2>1. TypeOK'
      BY TypeStep DEF IInv
    <2>2. ASSUME NEW w \in Threads, WorkerStep(w)
          PROVE  IInv'
      BY <2>1, <2>2, LockInv, ArriveInv, WaitInv, WakeUpInv, StartJobInv, FinishJobInv,
         RowDoneInv DEF WorkerStep
    <2>3. CASE MainStep
      BY <2>1, <2>3, LoadedInv, BroadcastInv, BarrierInv, ResetInv, FinInv DEF MainStep
    <2>4. CASE SpuriousMain \/ alt_submit_job \/ alt_execute_jobs \/ alt_scheduler_fin
      BY <2>1, <2>4, SpuriousMainInv, SubmitInv, ExecuteInv, FinInv
    <2>5. CASE UNCHANGED vars
      <3>1. MutexInv' /\ PlaceInv' /\ CountInv'
        BY <2>5 DEF vars, IInv, MutexInv, PlaceInv, CountInv, InBatch, AllAt, Away
      <3>2. Dealing' = Dealing /\ \A v \in Threads : Progress(v)' = Progress(v)
        BY <2>5 DEF vars, rows, Dealing, InBatch, Progress
      <3> QED
        BY <2>1, <2>5, <3>1, <3>2, SameDeal, SameProgress DEF vars, IInv
    <2> QED
      BY <2>2, <2>3, <2>4, <2>5 DEF Next, Terminated
  <1> QED
    BY InvInit, <1>1, PTL DEF Spec

---------------------------------------------------------------------------
(* The safety properties.                                                   *)

\* alt_scheduler.h:26, "Returns when all jobs are done": inactive_workers counts each
\* worker once per batch, so it reaches T only when every row has been executed.
THEOREM BarrierWaits == ASSUME SettledStart PROVE Spec => []BatchBarrier
  <1>1. IInv => BatchBarrier
    BY DEF IInv, ProgressInv, BatchBarrier
  <1> QED
    BY Invariant, <1>1, PTL

\* Nobody executes jobs while Main deals or clears the rows or changes the trie.
THEOREM QuietOutsideBatch == ASSUME SettledStart PROVE Spec => []NoJobOutsideBatch
  <1>1. IInv => NoJobOutsideBatch
    <2> SUFFICES ASSUME IInv, NEW w \in Threads, wpc[w] \in {"exec", "job"}
                 PROVE  InBatch
      BY DEF NoJobOutsideBatch
    <2>1. mpc \notin Quiet /\ mpc # "load" /\ mpc \notin {"join", "destroyed"}
      BY DEF IInv, PlaceInv, AllAt
    <2> QED
      BY <2>1 DEF IInv, TypeOK, Quiet, InBatch
  <1> QED
    BY Invariant, <1>1, PTL

\* The jobs of the batch, the last ones submitted.
LEMMA QueueOfBatch == IInv /\ Dealing => Queued = submitted - total_tasks + 1 .. submitted
  <1> SUFFICES ASSUME IInv, Dealing
               PROVE  Queued = submitted - total_tasks + 1 .. submitted
    OBVIOUS
  <1> USE MaxJobsAssumption DEF IInv, TypeOK
  <1>1. ASSUME NEW w \in Threads, NEW i \in RowSlots(w)
        PROVE  tasks[w][i] \in submitted - total_tasks + 1 .. submitted
    <2>1. i \in Nat /\ i < num_of_jobs[w]
      BY DEF RowSlots
    <2>2. Pos(w, i) \in Nat /\ Pos(w, i) < total_tasks
      BY <2>1, PosOrder DEF DealInv
    <2>3. tasks[w][i] = JobAt(w, i)
      BY DEF DealInv
    <2> QED
      BY <2>2, <2>3 DEF JobAt
  <1>2. ASSUME NEW j \in submitted - total_tasks + 1 .. submitted
        PROVE  \E w \in Threads : \E i \in RowSlots(w) : tasks[w][i] = j
    <2> DEFINE a == j - 1 - (submitted - total_tasks)
    <2>1. a \in Nat /\ a < total_tasks
      OBVIOUS
    <2>2. PICK w \in Threads, i \in Nat : Pos(w, i) = a
      BY <2>1, PosOfTotal
    <2>3. JobAt(w, i) = j
      BY <2>2 DEF JobAt
    <2> HIDE DEF a
    <2>4. i \in RowSlots(w)
      BY <2>1, <2>2 DEF DealInv, RowSlots
    <2> QED
      BY <2>3, <2>4 DEF DealInv
  <1> QED
    BY <1>1, <1>2 DEF Queued

\* The rows hold exactly the jobs of the batch, in the order of their submission and
\* dealt round robin; they differ by one job at most and fit their allocation.
THEOREM SharedOut == ASSUME SettledStart PROVE Spec => []DealtOut
  <1>1. IInv => DealtOut
    <2> SUFFICES ASSUME IInv, mpc = "idle" \/ InBatch
                 PROVE  DealtOut
      BY DEF DealtOut
    <2> USE DEF IInv
    <2>1. Dealing
      BY DEF Dealing
    <2>2. ASSUME NEW v \in Threads, NEW w \in Threads, num_of_jobs[v] - num_of_jobs[w] > 1
          PROVE  FALSE
      <3> DEFINE k == num_of_jobs[w]
      <3>1. k \in Nat /\ num_of_jobs[v] \in Nat /\ total_tasks \in Nat
        BY DEF TypeOK
      <3>2. k + 1 < num_of_jobs[v]
        BY <2>2, <3>1
      <3>3. Pos(v, k + 1) < total_tasks /\ ~(Pos(w, k) < total_tasks)
        BY <2>1, <3>1, <3>2 DEF DealInv
      <3>4. Pos(w, k) < Pos(v, k + 1) /\ Pos(w, k) \in Nat /\ Pos(v, k + 1) \in Nat
        BY <3>1, PosNextRow, PosOrder
      <3> QED
        BY ONLY <3>1, <3>3, <3>4
    <2>3. /\ submitted \in Nat /\ total_tasks \in Nat /\ total_tasks <= submitted
          /\ \A v, w \in Threads : num_of_jobs[v] \in Nat /\ num_of_jobs[w] \in Nat
      BY <2>1, MaxJobsAssumption DEF TypeOK, DealInv
    <2>4. Queued = submitted - total_tasks + 1 .. submitted
      BY <2>1, QueueOfBatch
    <2>5. (1 .. submitted) \ done \subseteq Queued
      <3>1. 1 .. submitted - total_tasks \subseteq done
        BY <2>1 DEF ProgressInv
      <3> QED
        BY <2>3, <2>4, <3>1
    <2>6. ASSUME mpc = "idle", NEW j \in Queued, j \in done
          PROVE  FALSE
      <3>1. PICK w \in Threads : \E i \in RowSlots(w) : j = tasks[w][i]
        BY DEF Queued
      <3>2. PICK i \in RowSlots(w) : j = tasks[w][i]
        BY <3>1
      <3>3. JobAt(w, i) \in done
        BY <2>1, <2>6, <3>2 DEF DealInv
      <3>4. i < Progress(w) /\ i \in Nat
        BY <2>1, <3>3 DEF ProgressInv, RowSlots
      <3>5. Progress(w) = 0
        BY <2>6 DEF Progress
      <3> QED
        BY <3>4, <3>5
    <2>7. ASSUME NEW w \in Threads, NEW i \in RowSlots(w)
          PROVE  tasks[w][i] = submitted - total_tasks + i * T + w + 1
      <3>1. /\ i \in Nat /\ T \in Nat /\ w \in Nat
            /\ tasks[w][i] = submitted - total_tasks + (i * T + w) + 1
        BY <2>1, TAssumption DEF DealInv, JobAt, Pos, RowSlots, Threads
      <3>2. PICK p \in Nat : p = i * T
        BY <3>1
      <3> QED
        BY <2>3, <3>1, <3>2
    <2>8. \A v, w \in Threads : num_of_jobs[v] - num_of_jobs[w] <= 1
      BY <2>2, <2>3
    <2>9. \A w \in Threads : num_of_jobs[w] <= job_arr_size[w]
      BY <2>1 DEF DealInv
    <2> HIDE DEF IInv
    <2> QED
      BY <2>4, <2>5, <2>6, <2>7, <2>8, <2>9 DEF DealtOut
  <1> QED
    BY Invariant, <1>1, PTL

---------------------------------------------------------------------------
(* The scheduler implements JobBatch.                                       *)

BatchQueue == IF run /\ (mpc = "idle" \/ InBatch) THEN Queued ELSE {}
BatchRunning == {JobOf(w) : w \in Running}

\* The initial state is one of JobBatch.
LEMMA BatchInit == Init => JB!Init
  <1> SUFFICES ASSUME Init
               PROVE  JB!Init
    OBVIOUS
  <1>1. Running = {}
    BY DEF Init, Running, At
  <1> QED
    BY <1>1 DEF Init, JB!Init, phase, InBatch

\* Two executing workers with the same job are one.
LEMMA RunningDiffer ==
  ASSUME IInv, NEW v \in Running, NEW w \in Running, JobOf(v) = JobOf(w)
  PROVE  v = w
  <1>1. /\ v \in Threads /\ w \in Threads
        /\ JobAt(v, next[v]) = JobAt(w, next[w])
    BY RunningSlot DEF Running, At
  <1> QED
    BY <1>1, JobAtInjective DEF IInv, TypeOK

\* A worker at its slot starts a job of the batch that was not started before.
LEMMA BatchStartJob ==
  ASSUME IInv, TypeOK', NEW w \in Threads, StartJob(w)
  PROVE  JB!Next
  <1> USE DEF StartJob, At, Goto
  <1>1. UNCHANGED <<rows, next, run, mpc, done>>
    OBVIOUS
  <1>2. /\ mpc \in {"lock", "asleep", "woken"} /\ run
        /\ JobOf(w) \in Job /\ JobOf(w) \in Queued /\ JobOf(w) \notin done
    <2>1. /\ mpc \in {"lock", "asleep", "woken"} /\ next[w] \in RowSlots(w)
          /\ JobOf(w) = JobAt(w, next[w])
          /\ JobOf(w) \in 1 .. submitted /\ JobOf(w) \notin done
      BY RunningSlot
    <2>2. JobOf(w) = tasks[w][next[w]]
      BY <2>1 DEF IInv, DealInv, Dealing, InBatch
    <2>3. JobOf(w) \in Queued
      BY <2>1, <2>2 DEF Queued
    <2>4. JobOf(w) \in Job
      BY <2>1, MaxJobsAssumption DEF Job, IInv, TypeOK
    <2>5. run
      BY <2>1 DEF IInv, PlaceInv, Ended
    <2> QED
      BY <2>1, <2>3, <2>4, <2>5
  <1>3. w \notin Running /\ Running' = Running \union {w}
    BY DEF Running, IInv, TypeOK
  <1>4. \A v \in Threads : JobOf(v)' = JobOf(v)
    BY <1>1 DEF JobOf, rows
  <1>5. BatchRunning' = BatchRunning \union {JobOf(w)}
    BY <1>3, <1>4 DEF BatchRunning, Running
  <1>6. JobOf(w) \notin BatchRunning
    <2> SUFFICES ASSUME NEW v \in Running, JobOf(v) = JobOf(w)
                 PROVE  FALSE
      BY DEF BatchRunning
    <2>1. v \in Threads /\ wpc[v] = "job"
      BY DEF Running
    <2>2. next[v] \in Nat /\ next[w] \in Nat /\ JobAt(v, next[v]) = JobAt(w, next[w])
      BY <2>1, RunningSlot DEF RowSlots
    <2>3. v = w
      BY <2>1, <2>2, JobAtInjective DEF IInv
    <2> QED
      BY <1>3, <2>3
  <1>7. phase = "run" /\ phase' = "run" /\ BatchQueue = Queued /\ BatchQueue' = BatchQueue
    BY <1>1, <1>2 DEF phase, BatchQueue, InBatch, Queued, RowSlots, rows
  <1>8. JB!Start(JobOf(w))
    BY <1>1, <1>2, <1>5, <1>6, <1>7 DEF JB!Start, BatchQueue, BatchRunning
  <1> QED
    BY <1>2, <1>8 DEF JB!Next

\* The end of execute_job finishes a running job.
LEMMA BatchFinishJob ==
  ASSUME IInv, NEW w \in Threads, FinishJob(w)
  PROVE  JB!Next
  <1> USE DEF FinishJob, At, Goto
  <1>1. phase' = phase /\ BatchQueue' = BatchQueue /\ done' = done \union {JobOf(w)}
    BY DEF phase, BatchQueue, InBatch, Queued, RowSlots, rows
  <1>2. w \in Running /\ Running' = Running \ {w}
    BY DEF Running, IInv, TypeOK
  <1>3. \A v \in Threads \ {w} : JobOf(v)' = JobOf(v)
    BY DEF JobOf, rows, IInv, TypeOK
  <1>4. BatchRunning' = BatchRunning \ {JobOf(w)}
    BY <1>2, <1>3, RunningDiffer DEF BatchRunning, Running
  <1>5. JobOf(w) \in Job
    BY RunningSlot, MaxJobsAssumption DEF Job, IInv, TypeOK
  <1>6. JB!Finish(JobOf(w))
    BY <1>1, <1>2, <1>4 DEF JB!Finish, BatchQueue, BatchRunning
  <1> QED
    BY <1>5, <1>6 DEF JB!Next

\* The other actions of a worker are invisible.
LEMMA BatchWorker ==
  ASSUME IInv, NEW w \in Threads, Lock(w) \/ Arrive(w) \/ Wait(w) \/ WakeUp(w) \/ RowDone(w)
  PROVE  UNCHANGED JB!vars
  <1> USE DEF At, Goto
  <1>1. /\ Running' = Running /\ UNCHANGED <<rows, run, done>>
        /\ \A v \in Running : next'[v] = next[v]
    <2>1. CASE Lock(w) \/ Arrive(w) \/ Wait(w) \/ RowDone(w)
      BY <2>1 DEF Lock, Arrive, Wait, RowDone, Running, IInv, TypeOK
    <2>2. CASE WakeUp(w)
      <3>1. wpc' = [wpc EXCEPT ![w] = "exec"] \/ wpc' = [wpc EXCEPT ![w] = "exit"]
        BY <2>2, Zenon DEF WakeUp
      <3> QED
        BY <2>2, <3>1 DEF WakeUp, Running, IInv, TypeOK
    <2> QED
      BY <2>1, <2>2
  <1>2. \A v \in Running : JobOf(v)' = JobOf(v)
    BY <1>1 DEF JobOf, rows
  <1>3. BatchRunning' = BatchRunning
    BY <1>1, <1>2 DEF BatchRunning
  <1>4. InBatch' = InBatch /\ (mpc = "idle")' = (mpc = "idle")
    BY DEF Lock, Arrive, Wait, WakeUp, RowDone, InBatch
  <1>5. phase' = phase
    BY <1>1, <1>4 DEF phase
  <1>6. BatchQueue' = BatchQueue
    BY <1>1, <1>4 DEF BatchQueue, Queued, RowSlots, rows
  <1> QED
    BY <1>1, <1>3, <1>5, <1>6 DEF JB!vars, BatchQueue, BatchRunning

\* alt_submit_job submits a job that is new to JobBatch.
LEMMA BatchSubmit ==
  ASSUME IInv, TypeOK', alt_submit_job
  PROVE  JB!Next
  <1> USE MaxJobsAssumption DEF IInv, TypeOK
  <1>1. /\ mpc = "idle" /\ mpc' = "idle" /\ submitted < MaxJobs
        /\ total_tasks' = total_tasks + 1 /\ submitted' = submitted + 1
        /\ UNCHANGED <<run, wpc, done>>
    BY DEF alt_submit_job
  <1>2. Dealing /\ Dealing'
    BY <1>1 DEF Dealing
  <1>3. IInv'
    BY SubmitInv
  <1>11. submitted \in Nat /\ total_tasks \in Nat
    OBVIOUS
  <1> HIDE DEF IInv
  <1>4. Queued = submitted - total_tasks + 1 .. submitted
    BY <1>2, QueueOfBatch
  <1>5. (Queued = submitted - total_tasks + 1 .. submitted)'
    <2>1. (IInv /\ Dealing => Queued = submitted - total_tasks + 1 .. submitted)'
      BY QueueOfBatch, PTL
    <2> QED
      BY <1>2, <1>3, <2>1
  <1>6. total_tasks <= submitted /\ done \subseteq 1 .. submitted /\ run
    BY <1>1, <1>2 DEF IInv, DealInv, ProgressInv, PlaceInv, Ended
  <1>7. Queued' = Queued \union {submitted + 1}
    <2>1. Queued' = submitted - total_tasks + 1 .. submitted + 1
      BY <1>1, <1>5, <1>6, <1>11
    <2> QED
      BY <1>4, <1>6, <1>11, <2>1
  <1>8. submitted + 1 \in Job /\ submitted + 1 \notin Queued \union done
    BY <1>1, <1>4, <1>6, <1>11 DEF Job
  <1>9. Running = {} /\ Running' = {}
    BY <1>1 DEF IInv, PlaceInv, Quiet, AllAt, Running, At
  <1>10. JB!Submit(submitted + 1)
    BY <1>1, <1>6, <1>7, <1>8, <1>9 DEF JB!Submit, phase, InBatch
  <1> QED
    BY <1>8, <1>10 DEF JB!Next

\* The other steps of Main start, end or close the batch, or are invisible.
LEMMA BatchMain ==
  ASSUME IInv, MainStep \/ alt_execute_jobs \/ alt_scheduler_fin \/ SpuriousMain
  PROVE  [JB!Next]_(JB!vars)
  <1> USE DEF IInv, TypeOK
  <1>1. CASE Barrier
    <2> USE <1>1 DEF Barrier
    <2>1. /\ done' = done /\ Running' = Running /\ Queued' = Queued /\ run' = run
          /\ \A v \in Threads : JobOf(v)' = JobOf(v)
      BY DEF Running, Queued, RowSlots, rows, JobOf, At
    <2>2. BatchRunning' = BatchRunning
      BY <2>1 DEF BatchRunning, Running
    <2>3. run /\ phase = "run" /\ BatchQueue = Queued /\ Dealing
      BY DEF PlaceInv, Ended, phase, BatchQueue, InBatch, Dealing
    <2>4. CASE mpc' = "asleep"
      <3>1. InBatch'
        BY <2>4 DEF InBatch
      <3>2. phase' = phase /\ BatchQueue' = BatchQueue
        BY <2>1, <2>3, <3>1 DEF phase, BatchQueue
      <3> QED
        BY <2>1, <2>2, <3>2 DEF JB!vars, BatchRunning, BatchQueue
    <2>5. CASE mpc' = "reset"
      <3>1. BatchQueue' = {} /\ phase' = "collect"
        BY <2>1, <2>3, <2>5 DEF BatchQueue, phase, InBatch
      <3>2. Queued \subseteq done
        <4>1. IInv /\ TypeOK'
          BY DEF Barrier, rows
        <4>2. IInv'
          BY <4>1, BarrierInv
        <4>3. 1 .. submitted \subseteq done
          BY <2>5, <4>2 DEF ProgressInv
        <4>4. total_tasks <= submitted /\ submitted \in Nat /\ total_tasks \in Nat
          BY <2>3, MaxJobsAssumption DEF DealInv
        <4> QED
          BY <2>3, <4>3, <4>4, QueueOfBatch
      <3>3. JB!Return
        BY <2>1, <2>2, <2>3, <3>1, <3>2 DEF JB!Return, BatchRunning, BatchQueue
      <3> QED
        BY <3>3 DEF JB!Next
    <2> QED
      BY <2>4, <2>5
  <1>2. CASE alt_execute_jobs
    <2> USE <1>2 DEF alt_execute_jobs
    <2>1. Running = {} /\ Running' = {} /\ run
      BY DEF PlaceInv, Quiet, Ended, AllAt, Running, At
    <2>2. Queued' = Queued
      BY DEF Queued, RowSlots, rows
    <2>3. JB!Execute
      BY <2>1, <2>2 DEF JB!Execute, phase, InBatch
    <2> QED
      BY <2>3 DEF JB!Next
  <1>3. CASE alt_scheduler_fin
    <2>1. Running = {} /\ Running' = {} /\ run
      BY <1>3 DEF alt_scheduler_fin, PlaceInv, Quiet, Ended, AllAt, Running, At
    <2>2. JB!Close
      BY <1>3, <2>1 DEF alt_scheduler_fin, JB!Close, phase, InBatch
    <2> QED
      BY <2>2 DEF JB!Next
  <1>4. CASE Broadcast \/ SpuriousMain
    <2>1. /\ UNCHANGED <<rows, run, next, done>> /\ InBatch /\ InBatch'
          /\ \A v \in Threads : wpc'[v] = "job" <=> wpc[v] = "job"
      <3>1. CASE Broadcast
        BY <3>1, WakeAllEffect DEF Broadcast, InBatch
      <3>2. CASE SpuriousMain
        BY <3>2 DEF SpuriousMain, InBatch
      <3> QED
        BY <1>4, <3>1, <3>2
    <2>2. Running' = Running /\ \A v \in Threads : JobOf(v)' = JobOf(v)
      BY <2>1 DEF Running, At, JobOf, rows
    <2>3. BatchRunning' = BatchRunning
      BY <2>2 DEF BatchRunning, Running
    <2>4. BatchQueue' = BatchQueue /\ phase' = phase
      BY <2>1 DEF BatchQueue, phase, Queued, RowSlots, rows
    <2> QED
      BY <2>1, <2>3, <2>4 DEF JB!vars, BatchQueue, BatchRunning
  <1>5. CASE Loaded \/ ResetRow \/ ResetTotal \/ FinBroadcast \/ Join
    <2>1. /\ UNCHANGED <<run, done>> /\ ~InBatch /\ ~InBatch'
      BY <1>5 DEF Loaded, ResetRow, ResetTotal, FinBroadcast, Join, InBatch
    <2>2. Running = {} /\ Running' = {}
      <3>1. \A v \in Threads : wpc[v] # "job"
        BY <2>1, RunningSlot DEF InBatch
      <3>2. CASE FinBroadcast
        BY <3>1, <3>2, WakeAllEffect DEF FinBroadcast, Running, At
      <3>3. CASE Loaded \/ ResetRow \/ ResetTotal \/ Join
        BY <3>1, <3>3 DEF Loaded, ResetRow, ResetTotal, Join, Running, At
      <3> QED
        BY <1>5, <3>2, <3>3
    <2>3. BatchQueue = {} /\ BatchQueue' = {}
      <3>1. CASE Loaded
        <4>1. total_tasks = 0 /\ Dealing
          BY <3>1 DEF Loaded, DealInv, Dealing
        <4>2. Queued = {}
          BY <4>1, QueueOfBatch, MaxJobsAssumption
        <4>3. Queued' = Queued
          BY <3>1 DEF Loaded, Queued, RowSlots, rows
        <4> QED
          BY <4>2, <4>3 DEF BatchQueue
      <3>2. CASE ResetTotal
        <4>1. \A v \in Threads : RowSlots(v)' = {}
          BY <3>2 DEF ResetTotal, RowSlots, rows
        <4>2. Queued' = {}
          BY <4>1 DEF Queued
        <4>3. mpc # "idle"
          BY <3>2 DEF ResetTotal
        <4> QED
          BY <2>1, <4>2, <4>3 DEF BatchQueue
      <3>3. CASE ResetRow \/ FinBroadcast \/ Join
        BY <2>1, <3>3 DEF ResetRow, FinBroadcast, Join, BatchQueue
      <3> QED
        BY <1>5, <3>1, <3>2, <3>3
    <2>4. phase' = phase
      BY <2>1 DEF phase
    <2> QED
      BY <2>1, <2>2, <2>3, <2>4 DEF JB!vars, BatchQueue
  <1> QED
    BY <1>1, <1>2, <1>3, <1>4, <1>5 DEF MainStep

\* This scheduler keeps the promise of alt_scheduler.h:26 as JobBatch states it: jobs
\* start only while their batch runs and once, and a batch ends with all of them done.
THEOREM Implements == ASSUME SettledStart PROVE Spec => ImplementsJobBatch
  <1>1. IInv /\ [Next]_vars => [JB!Next]_(JB!vars)
    <2> SUFFICES ASSUME IInv, [Next]_vars
                 PROVE  [JB!Next]_(JB!vars)
      OBVIOUS
    <2>1. TypeOK'
      BY TypeStep DEF IInv
    <2>2. ASSUME NEW w \in Threads, WorkerStep(w)
          PROVE  [JB!Next]_(JB!vars)
      BY <2>1, <2>2, BatchStartJob, BatchFinishJob, BatchWorker DEF WorkerStep
    <2>3. CASE MainStep \/ alt_execute_jobs \/ alt_scheduler_fin \/ SpuriousMain
      BY <2>3, BatchMain
    <2>4. CASE alt_submit_job
      BY <2>1, <2>4, BatchSubmit
    <2>5. CASE UNCHANGED vars
      BY <2>5 DEF vars, rows, JB!vars, phase, InBatch, Queued, RowSlots, Running, JobOf, At
    <2> QED
      BY <2>2, <2>3, <2>4, <2>5 DEF Next, Terminated
  <1> QED
    BY Invariant, BatchInit, <1>1, PTL DEF Spec, ImplementsJobBatch, JB!Spec
=============================================================================
