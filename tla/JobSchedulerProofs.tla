------------------------- MODULE JobSchedulerProofs -------------------------
(* The safety properties of JobScheduler, for any pool of workers, any      *)
(* number of jobs and any initial capacity, under the named assumption      *)
(* Regime on the timing of the workers.                                     *)
EXTENDS JobScheduler, FiniteSetTheorems, TLAPS

\* The workers wait when the first job comes.  Between two batches either they are woken
\* in time, or there is a single one (THREADS 1 of control_panel.h), no batch is empty
\* and no wait returns without a signal.
Regime == /\ SettledStart
          /\ PromptWake \/ (N = 1 /\ ~EmptyBatches /\ MaxSpurious = 0)

---------------------------------------------------------------------------
(* The inductive invariant.                                                 *)

Quiet == {"idle", "reset_next", "reset_cs", "fin_next", "fin_num", "fin_broadcast"}
Ended == {"fin_next", "fin_num", "fin_broadcast", "join", "destroyed"}
Counting == {"load", "idle", "lock", "asleep", "woken", "reset_num"}

\* The workers that have not counted themselves since they were created or took a job.
Busy == {w \in Threads : wpc[w] \in {"top", "count", "exec"}}

\* The job in slot i of the current batch.
JobIn(i) == submitted - num_of_jobs + i + 1

\* A worker holds mtx in these places and no others, and what it loaded is current.
MutexInv ==
    /\ \A w \in Threads : wpc[w] \in {"count", "check", "block", "take"} <=> mtx = w
    /\ \A w \in Threads : wpc[w] = "count" => reg = thread_in_cs
    /\ \A w \in Threads : wpc[w] = "take" => reg = next_job

\* Which places of the workers go with which places of Main.
PlaceInv ==
    /\ mpc \in Quiet => AllAt({"asleep"})
    /\ mpc = "load" => AllAt({"top", "count", "check", "block", "asleep"})
    /\ mpc = "reset_num" => AllAt({"check", "block", "asleep", "woken"})
    /\ InBatch => \A w \in Threads : wpc[w] # "exit"
    /\ mpc \in {"join", "destroyed"} =>
          AllAt({"woken", "check", "take", "block", "asleep", "exit"})
    /\ run <=> mpc \notin Ended

\* The count on which the wait of js_execute_jobs rests.
CountInv ==
    /\ mpc \in Counting => thread_in_cs + Cardinality(Busy) = N + next_job
    /\ mpc \in Counting => next_job <= num_of_jobs
    /\ mpc \in {"load", "idle", "reset_cs"} => next_job = 0
    /\ mpc = "load" => num_of_jobs = 0 /\ submitted = 0
    /\ mpc = "reset_num" => next_job = num_of_jobs
    /\ mpc \in {"reset_next", "reset_cs"} => num_of_jobs = 0
    /\ InBatch => \A w \in Threads : wpc[w] = "take" => next_job < num_of_jobs

\* The array holds the jobs of the current batch, the last num_of_jobs submitted.
SlotInv == mpc \notin Ended =>
    /\ num_of_jobs <= submitted /\ num_of_jobs <= job_arr_size
    /\ \A i \in 0 .. num_of_jobs - 1 : tasks[i] = JobIn(i)

\* Executing workers hold different slots that were taken, and a submitted job is
\* unfinished exactly when its slot is untaken or held by such a worker.
ProgressInv == mpc \notin Ended =>
    /\ \A w \in Running : task[w] < next_job
    /\ \A v, w \in Running : task[v] = task[w] => v = w
    /\ done \subseteq 1 .. submitted
    /\ 1 .. submitted - num_of_jobs \subseteq done
    /\ \A i \in 0 .. num_of_jobs - 1 :
          JobIn(i) \notin done <=> i >= next_job \/ \E w \in Running : task[w] = i

\* Without PromptWake, the single worker is either not yet woken or has taken a job.
WakeInv == ~PromptWake =>
    /\ InBatch => num_of_jobs > 0
    /\ InBatch => \A w \in Threads : wpc[w] = "woken" => next_job = 0
    /\ mpc = "reset_num" => AllAt({"asleep"})

IInv == TypeOK /\ MutexInv /\ PlaceInv /\ CountInv /\ SlotInv /\ ProgressInv /\ WakeInv

---------------------------------------------------------------------------
(* Facts about the pool and the set Busy.                                   *)

\* The pool has a positive, finite number of workers.
LEMMA PoolSize == N \in Nat \ {0}
  BY ThreadsAssumption, FS_CardinalityType, FS_EmptySet DEF N

\* The busy workers can be counted, and the count is 0 when there is none.
LEMMA BusyFinite ==
  IsFiniteSet(Busy) /\ Cardinality(Busy) \in Nat /\ (Cardinality(Busy) = 0 <=> Busy = {})
  <1>1. Busy \in SUBSET Threads
    BY DEF Busy
  <1> QED
    BY <1>1, ThreadsAssumption, FS_Subset, FS_CardinalityType, FS_EmptySet

\* With THREADS 1 there is one worker.
LEMMA SingleWorker ==
  ASSUME N = 1, NEW v \in Threads, NEW w \in Threads
  PROVE  v = w
  BY ThreadsAssumption, FS_Singleton DEF N

---------------------------------------------------------------------------
(* Types are inductive by themselves.                                       *)

\* The initial values of job_scheduler_init are of their types.
LEMMA TypeInit == Init => TypeOK
  BY MaxJobsAssumption, InitSizeAssumption, RegimeAssumption DEF Init, TypeOK, Slots, Job, NoJob

\* Changing one value of a function to one of its range keeps its type.
LEMMA UpdateType ==
  ASSUME NEW S, NEW T, NEW f \in [S -> T], NEW x, NEW y \in T
  PROVE  [f EXCEPT ![x] = y] \in [S -> T]
  OBVIOUS

\* pthread_cond_broadcast wakes the sleepers and moves nobody else.
LEMMA WakeAllEffect ==
  ASSUME TypeOK, WakeAll
  PROVE  /\ wpc' \in [Threads -> {"top", "count", "check", "block", "take", "asleep",
                                  "woken", "exec", "exit"}]
         /\ \A w \in Threads : wpc'[w] = IF wpc[w] = "asleep" THEN "woken" ELSE wpc[w]
  <1>1. \A w \in Threads :
           (IF wpc[w] = "asleep" THEN "woken" ELSE wpc[w]) \in
           {"top", "count", "check", "block", "take", "asleep", "woken", "exec", "exit"}
    BY DEF TypeOK
  <1>2. wpc' = [w \in Threads |-> IF wpc[w] = "asleep" THEN "woken" ELSE wpc[w]]
    BY DEF WakeAll, At
  <1> QED
    BY <1>1, <1>2, Zenon

\* Every step, under any timing, keeps the types.
LEMMA TypeStep == TypeOK /\ [Next]_vars => TypeOK'
  <1> SUFFICES ASSUME TypeOK, [Next]_vars
               PROVE  TypeOK'
    OBVIOUS
  <1> USE MaxJobsAssumption, InitSizeAssumption, PoolSize
      DEF TypeOK, shared, array, At, Goto, Slots, Job, NoJob
  <1>1. ASSUME NEW w \in Threads, WorkerStep(w) \/ Spurious(w)
        PROVE  TypeOK'
    <2>1. CASE Lock(w)
      BY <2>1 DEF Lock
    <2>5. CASE Arrive(w)
      <3>1. mpc' = mpc \/ mpc' = "woken"
        BY <2>5 DEF Arrive
      <3> QED
        BY <2>5, <3>1 DEF Arrive
    <2>2. CASE CheckPending(w) \/ Wait(w) \/ Reacquire(w)
      BY <2>2 DEF CheckPending, Wait, Reacquire
    <2>6. CASE Spurious(w)
      BY <2>6, RegimeAssumption DEF Spurious
    <2>3. CASE Take(w)
      BY <2>3 DEF Take
    <2>4. CASE ExecuteJob(w)
      <3>1. JobOf(w) \in Job \union {NoJob}
        BY DEF JobOf
      <3> QED
        BY <2>4, <3>1 DEF ExecuteJob
    <2> QED
      BY <1>1, <2>1, <2>2, <2>3, <2>4, <2>5, <2>6 DEF WorkerStep
  <1>2. ASSUME MainStep
        PROVE  TypeOK'
    <2>1. CASE Loaded \/ Barrier \/ Join
      BY <2>1 DEF Loaded, Barrier, Join
    <2>2. CASE ResetNum
      BY <2>2 DEF ResetNum
    <2>7. CASE ResetNext
      BY <2>7 DEF ResetNext
    <2>3. CASE ResetCs
      BY <2>3 DEF ResetCs
    <2>5. CASE FinNext
      BY <2>5 DEF FinNext
    <2>6. CASE FinNum
      BY <2>6 DEF FinNum
    <2>4. CASE FinBroadcast
      BY <2>4, WakeAllEffect DEF FinBroadcast
    <2> QED
      BY <1>2, <2>1, <2>2, <2>3, <2>4, <2>5, <2>6, <2>7 DEF MainStep
  <1>3. CASE js_submit_job
    <2>1. tasks' \in [Slots -> Job \union {NoJob}]
      <3>1. submitted + 1 \in Job \union {NoJob}
        BY <1>3 DEF js_submit_job
      <3> HIDE DEF Slots, Job
      <3> QED
        BY <1>3, <3>1, UpdateType DEF js_submit_job
    <2>2. job_arr_size' \in Nat \ {0}
      BY <1>3 DEF js_submit_job
    <2> QED
      BY <1>3, <2>1, <2>2 DEF js_submit_job
  <1>4. CASE js_execute_jobs
    BY <1>4, WakeAllEffect DEF js_execute_jobs
  <1>5. CASE job_scheduler_fin
    BY <1>5 DEF job_scheduler_fin
  <1>6. CASE SpuriousMain
    BY <1>6, RegimeAssumption DEF SpuriousMain
  <1>7. CASE UNCHANGED vars
    BY <1>7 DEF vars
  <1> QED
    BY <1>1, <1>2, <1>3, <1>4, <1>5, <1>6, <1>7 DEF Next, Terminated

\* The type invariant holds in every regime, the racy ones included.
THEOREM TypeCorrect == Spec => []TypeOK
  <1> QED
    BY TypeInit, TypeStep, PTL DEF Spec

---------------------------------------------------------------------------
(* The inductive invariant holds initially and each action preserves it.     *)

\* The inductive invariant holds when Main starts to load the trie.
LEMMA InvInit == Init => IInv
  <1> SUFFICES ASSUME Init
               PROVE  IInv
    OBVIOUS
  <1>1. Busy = Threads /\ Running = {}
    BY DEF Init, Busy, Running, At
  <1>2. TypeOK
    BY TypeInit
  <1>3. CountInv
    BY <1>1, PoolSize DEF CountInv, Init, N, InBatch, AllAt
  <1>4. MutexInv /\ PlaceInv /\ WakeInv
    BY ThreadsAssumption DEF Init, MutexInv, PlaceInv, WakeInv, InBatch, AllAt, Quiet, Ended
  <1>5. SlotInv /\ ProgressInv
    BY <1>1, InitSizeAssumption DEF Init, SlotInv, ProgressInv
  <1> QED
    BY <1>2, <1>3, <1>4, <1>5 DEF IInv

\* Worker actions that only move the worker, with mtx taken or released.
LEMMA LockInv ==
  ASSUME IInv, TypeOK', NEW w \in Threads, Lock(w)
  PROVE  IInv'
  <1> USE DEF IInv, TypeOK, Lock, At, Goto, shared, array
  <1>1. Busy' = Busy /\ Running' = Running
    BY DEF Busy, Running
  <1>2. MutexInv'
    BY ThreadsAssumption DEF MutexInv
  <1>3. PlaceInv'
    BY DEF PlaceInv, InBatch, AllAt, Quiet, Ended
  <1>4. CountInv'
    BY <1>1 DEF CountInv, InBatch, Counting
  <1>5. SlotInv' /\ ProgressInv'
    BY <1>1 DEF SlotInv, ProgressInv, JobIn
  <1>6. WakeInv'
    BY DEF WakeInv, InBatch, AllAt
  <1> QED
    BY <1>2, <1>3, <1>4, <1>5, <1>6

\* thread_in_cs++ moves a worker from the busy ones to the counted ones.
LEMMA ArriveInv ==
  ASSUME IInv, TypeOK', NEW w \in Threads, Arrive(w)
  PROVE  IInv'
  <1> USE DEF IInv, TypeOK, Arrive, At, Goto, shared, array
  <1>1. w \in Busy /\ Busy' = Busy \ {w} /\ Running' = Running
    BY DEF Busy, Running
  <1>2. Cardinality(Busy') = Cardinality(Busy) - 1
    BY <1>1, BusyFinite, FS_RemoveElement
  <1>3. mtx = w /\ reg = thread_in_cs
    BY DEF MutexInv
  <1>4. MutexInv'
    BY <1>3 DEF MutexInv
  <1>5. PlaceInv'
    BY DEF PlaceInv, InBatch, AllAt, Quiet, Ended
  <1>6. CountInv'
    BY <1>2, <1>3, PoolSize, BusyFinite DEF CountInv, PlaceInv, InBatch, Counting, AllAt
  <1>7. SlotInv' /\ ProgressInv'
    BY <1>1 DEF SlotInv, ProgressInv, JobIn, Ended
  <1>8. WakeInv'
    BY DEF WakeInv, InBatch, AllAt
  <1> QED
    BY <1>4, <1>5, <1>6, <1>7, <1>8

\* The loop condition of line 79 sends a worker to take a job only if one is left.
LEMMA CheckPendingInv ==
  ASSUME IInv, TypeOK', NEW w \in Threads, CheckPending(w)
  PROVE  IInv'
  <1> USE DEF IInv, TypeOK, CheckPending, At, Goto, shared, array
  <1>1. Busy' = Busy /\ Running' = Running
    BY DEF Busy, Running
  <1>2. MutexInv'
    BY DEF MutexInv
  <1>3. PlaceInv'
    BY DEF PlaceInv, CountInv, InBatch, AllAt, Quiet, Ended
  <1>4. CountInv'
    BY <1>1 DEF CountInv, InBatch, Counting
  <1>5. SlotInv' /\ ProgressInv'
    BY <1>1 DEF SlotInv, ProgressInv, JobIn
  <1>6. WakeInv'
    BY DEF WakeInv, InBatch, AllAt
  <1> QED
    BY <1>2, <1>3, <1>4, <1>5, <1>6

\* A worker that found no job sleeps and releases mtx.
LEMMA WaitInv ==
  ASSUME IInv, TypeOK', NEW w \in Threads, Wait(w)
  PROVE  IInv'
  <1> USE DEF IInv, TypeOK, Wait, At, Goto, shared, array
  <1>1. Busy' = Busy /\ Running' = Running
    BY DEF Busy, Running
  <1>2. MutexInv'
    BY ThreadsAssumption DEF MutexInv
  <1>3. PlaceInv'
    BY DEF PlaceInv, InBatch, AllAt, Quiet, Ended
  <1>4. CountInv'
    BY <1>1 DEF CountInv, InBatch, Counting
  <1>5. SlotInv' /\ ProgressInv'
    BY <1>1 DEF SlotInv, ProgressInv, JobIn
  <1>6. WakeInv'
    BY DEF WakeInv, InBatch, AllAt
  <1> QED
    BY <1>2, <1>3, <1>4, <1>5, <1>6

\* A woken worker that gets mtx only tests the loop condition again.
LEMMA ReacquireInv ==
  ASSUME IInv, TypeOK', NEW w \in Threads, Reacquire(w)
  PROVE  IInv'
  <1> USE DEF IInv, TypeOK, Reacquire, At, Goto, shared, array
  <1>1. Busy' = Busy /\ Running' = Running
    BY DEF Busy, Running
  <1>2. MutexInv'
    BY ThreadsAssumption DEF MutexInv
  <1>3. PlaceInv'
    BY DEF PlaceInv, InBatch, AllAt, Quiet, Ended
  <1>4. CountInv'
    BY <1>1 DEF CountInv, InBatch, Counting
  <1>5. SlotInv' /\ ProgressInv'
    BY <1>1 DEF SlotInv, ProgressInv, JobIn
  <1>6. WakeInv'
    BY DEF WakeInv, InBatch, AllAt
  <1> QED
    BY <1>2, <1>3, <1>4, <1>5, <1>6

\* With PromptWake a worker may also wake without a signal.
LEMMA SpuriousInv ==
  ASSUME Regime, IInv, TypeOK', NEW w \in Threads, Spurious(w)
  PROVE  IInv'
  <1> USE DEF IInv, TypeOK, Spurious, At, Goto, shared, array
  <1>1. Busy' = Busy /\ Running' = Running
    BY DEF Busy, Running
  <1>2. MutexInv'
    BY ThreadsAssumption DEF MutexInv
  <1>3. PlaceInv'
    BY DEF PlaceInv, InBatch, AllAt, Quiet, Ended
  <1>4. CountInv'
    BY <1>1 DEF CountInv, InBatch, Counting
  <1>5. SlotInv' /\ ProgressInv'
    BY <1>1 DEF SlotInv, ProgressInv, JobIn
  <1>6. WakeInv'
    BY DEF WakeInv, Regime
  <1> QED
    BY <1>2, <1>3, <1>4, <1>5, <1>6

\* A worker that takes the next slot becomes busy, which balances the count.
LEMMA TakeInv ==
  ASSUME Regime, IInv, TypeOK', NEW w \in Threads, Take(w)
  PROVE  IInv'
  <1> USE DEF IInv, TypeOK, Take, At, Goto, shared, array
  <1>1. mtx = w /\ reg = next_job
    BY DEF MutexInv
  <1>2. InBatch \/ mpc \in {"join", "destroyed"}
    BY DEF PlaceInv, AllAt, InBatch, Quiet
  <1>3. MutexInv'
    BY <1>1, ThreadsAssumption DEF MutexInv
  <1>4. PlaceInv'
    BY <1>2 DEF PlaceInv, InBatch, AllAt, Quiet, Ended
  <1>5. CASE InBatch
    <2>1. run /\ next_job < num_of_jobs
      BY <1>5 DEF PlaceInv, CountInv, InBatch, Ended
    <2>2. w \notin Busy /\ Busy' = Busy \union {w}
      BY <2>1 DEF Busy
    <2>3. Cardinality(Busy') = Cardinality(Busy) + 1
      BY <2>2, BusyFinite, FS_AddElement
    <2>4. w \notin Running /\ Running' = Running \union {w}
      BY <2>1 DEF Running
    <2>5. CountInv'
      BY <1>1, <1>5, <2>1, <2>3, PoolSize, BusyFinite DEF CountInv, InBatch, Counting, MutexInv
    <2>6. SlotInv'
      BY DEF SlotInv, JobIn
    <2>7. ProgressInv'
      BY <1>1, <1>5, <2>1, <2>4 DEF ProgressInv, JobIn, Running, InBatch, Ended, SlotInv
    <2>8. WakeInv'
      BY <1>5, SingleWorker DEF WakeInv, InBatch, AllAt, Regime
    <2> QED
      BY <1>3, <1>4, <2>5, <2>6, <2>7, <2>8
  <1>6. CASE mpc \in {"join", "destroyed"}
    BY <1>3, <1>4, <1>6 DEF CountInv, SlotInv, ProgressInv, WakeInv, Counting, InBatch, Ended
  <1> QED
    BY <1>2, <1>5, <1>6

\* The end of execute_job adds the job of the slot to those done.
LEMMA ExecuteJobInv ==
  ASSUME IInv, TypeOK', NEW w \in Threads, ExecuteJob(w)
  PROVE  IInv'
  <1> USE DEF IInv, TypeOK, ExecuteJob, At, Goto, shared, array
  <1>1. InBatch
    BY DEF PlaceInv, AllAt, InBatch, Quiet
  <1>2. w \in Running /\ Running' = Running \ {w} /\ Busy' = Busy
    BY DEF Running, Busy
  <1>3. task[w] \in 0 .. num_of_jobs - 1
    BY <1>1, <1>2 DEF ProgressInv, CountInv, InBatch, Counting, Ended
  <1>4. JobOf(w) = JobIn(task[w])
    BY <1>1, <1>3, MaxJobsAssumption DEF JobOf, SlotInv, Slots, InBatch, Ended
  <1>5. MutexInv'
    BY DEF MutexInv
  <1>6. PlaceInv'
    BY <1>1 DEF PlaceInv, InBatch, AllAt, Quiet, Ended
  <1>7. CountInv'
    BY <1>2 DEF CountInv, InBatch, Counting
  <1>8. SlotInv'
    BY DEF SlotInv, JobIn
  <1>9. ProgressInv'
    BY <1>1, <1>2, <1>3, <1>4 DEF ProgressInv, SlotInv, JobIn, Running, InBatch, Ended
  <1>10. WakeInv'
    BY <1>1 DEF WakeInv, InBatch, AllAt
  <1> QED
    BY <1>5, <1>6, <1>7, <1>8, <1>9, <1>10

\* The actions of Main.
LEMMA LoadedInv ==
  ASSUME Regime, IInv, TypeOK', Loaded
  PROVE  IInv'
  <1> USE DEF IInv, TypeOK, Loaded, shared, array
  <1>1. AllAt({"asleep"}) /\ Busy = {} /\ Busy' = Busy /\ Running' = Running
    BY DEF Regime, AllAt, Busy, Running, At
  <1>2. MutexInv' /\ PlaceInv'
    BY <1>1 DEF MutexInv, PlaceInv, InBatch, AllAt, Quiet, Ended
  <1>3. CountInv'
    BY <1>1 DEF CountInv, InBatch, Counting
  <1>4. SlotInv' /\ ProgressInv'
    BY <1>1 DEF SlotInv, ProgressInv, JobIn, Ended
  <1>5. WakeInv'
    BY DEF WakeInv, InBatch
  <1> QED
    BY <1>2, <1>3, <1>4, <1>5

\* js_submit_job adds the next job behind those of the batch.
LEMMA SubmitInv ==
  ASSUME IInv, TypeOK', js_submit_job
  PROVE  IInv'
  <1> USE DEF IInv, TypeOK, js_submit_job
  <1>1. AllAt({"asleep"}) /\ Busy' = Busy /\ Running' = Running /\ Running = {}
    BY DEF PlaceInv, Quiet, AllAt, Busy, Running, At
  <1>2. MutexInv' /\ PlaceInv'
    BY <1>1 DEF MutexInv, PlaceInv, InBatch, AllAt, Quiet, Ended
  <1>3. CountInv'
    BY <1>1 DEF CountInv, InBatch, Counting
  <1>4. num_of_jobs \in Slots /\ num_of_jobs' <= submitted'
    BY MaxJobsAssumption DEF SlotInv, Ended, Slots
  <1>5. num_of_jobs' <= job_arr_size'
    BY DEF SlotInv, Ended
  <1>6. ASSUME NEW i \in 0 .. num_of_jobs' - 1
        PROVE  tasks'[i] = JobIn(i)'
    <2>1. JobIn(i)' = JobIn(i)
      BY DEF JobIn
    <2>2. i = num_of_jobs \/ i \in 0 .. num_of_jobs - 1
      BY <1>6
    <2>3. CASE i = num_of_jobs
      BY <1>4, <2>1, <2>3 DEF JobIn
    <2>4. CASE i # num_of_jobs
      <3>1. i \in 0 .. num_of_jobs - 1 /\ tasks'[i] = tasks[i]
        BY <1>4, <2>2, <2>4, MaxJobsAssumption DEF Slots
      <3> QED
        BY <2>1, <3>1 DEF SlotInv, Ended
    <2> QED
      BY <2>3, <2>4
  <1>7. SlotInv'
    BY <1>4, <1>5, <1>6 DEF SlotInv
  <1>8. ProgressInv'
    <2>1. submitted - num_of_jobs = submitted' - num_of_jobs' /\ \A i : JobIn(i)' = JobIn(i)
      BY DEF JobIn
    <2>2. JobIn(num_of_jobs) \notin done /\ num_of_jobs >= next_job
      BY DEF JobIn, ProgressInv, CountInv, Ended
    <2>3. ASSUME NEW i \in 0 .. num_of_jobs' - 1
          PROVE  JobIn(i) \notin done <=> i >= next_job
      <3>1. i = num_of_jobs \/ i \in 0 .. num_of_jobs - 1
        BY <2>3
      <3> QED
        BY <1>1, <2>2, <3>1 DEF ProgressInv, Ended
    <2>4. done \subseteq 1 .. submitted'
      BY DEF ProgressInv, Ended
    <2> QED
      BY <1>1, <2>1, <2>3, <2>4 DEF ProgressInv, Ended
  <1>9. WakeInv'
    BY DEF WakeInv, InBatch
  <1> QED
    BY <1>2, <1>3, <1>7, <1>8, <1>9

\* The broadcast of js_execute_jobs wakes the workers into the batch.
LEMMA ExecuteInv ==
  ASSUME Regime, IInv, TypeOK', js_execute_jobs
  PROVE  IInv'
  <1> USE DEF IInv, TypeOK, js_execute_jobs, shared, array
  <1>1. AllAt({"asleep"}) /\ Busy = {} /\ Running = {}
    BY DEF PlaceInv, Quiet, AllAt, Busy, Running, At
  <1>2. \A w \in Threads : wpc'[w] = "woken"
    BY <1>1, WakeAllEffect DEF AllAt
  <1>3. Busy' = {} /\ Running' = {}
    BY <1>2 DEF Busy, Running, At
  <1>4. MutexInv' /\ PlaceInv'
    BY <1>1, <1>2 DEF MutexInv, PlaceInv, InBatch, AllAt, Quiet, Ended
  <1>5. CountInv'
    BY <1>1, <1>2, <1>3 DEF CountInv, InBatch, Counting
  <1>6. SlotInv' /\ ProgressInv'
    BY <1>1, <1>3 DEF SlotInv, ProgressInv, JobIn, Ended
  <1>7. WakeInv'
    BY DEF WakeInv, InBatch, Regime, CountInv
  <1> QED
    BY <1>4, <1>5, <1>6, <1>7

\* Main passes the wait only when no worker is busy and every slot was taken.
LEMMA BarrierInv ==
  ASSUME Regime, IInv, TypeOK', Barrier
  PROVE  IInv'
  <1> USE DEF IInv, TypeOK, Barrier, shared, array
  <1>1. Busy' = Busy /\ Running' = Running /\ Running \subseteq Busy
    BY DEF Busy, Running, At
  <1>2. MutexInv'
    BY DEF MutexInv
  <1>3. SlotInv' /\ ProgressInv'
    BY <1>1 DEF SlotInv, ProgressInv, JobIn, Ended
  <1>4. CASE thread_in_cs - N # num_of_jobs
    <2>1. mpc' = "asleep"
      BY <1>4
    <2> QED
      BY <1>1, <1>2, <1>3, <2>1
         DEF PlaceInv, CountInv, WakeInv, InBatch, Counting, Quiet, Ended, AllAt
  <1>5. CASE thread_in_cs - N = num_of_jobs
    <2>1. mpc' = "reset_num"
      BY <1>5
    <2>2. Cardinality(Busy) = 0 /\ next_job = num_of_jobs
      BY <1>5, PoolSize, BusyFinite DEF CountInv, Counting
    <2>3. Busy = {}
      BY <2>2, BusyFinite
    <2>4. AllAt({"asleep", "woken"})
      BY <2>3, ThreadsAssumption DEF Busy, MutexInv, PlaceInv, InBatch, AllAt
    <2>5. PlaceInv'
      BY <2>1, <2>4 DEF PlaceInv, InBatch, AllAt, Quiet, Ended
    <2>6. CountInv'
      BY <1>1, <2>1, <2>2 DEF CountInv, InBatch, Counting
    <2>7. WakeInv'
      BY <2>1, <2>2, <2>4 DEF WakeInv, InBatch, AllAt
    <2> QED
      BY <1>2, <1>3, <2>5, <2>6, <2>7
  <1> QED
    BY <1>4, <1>5

\* When Main has passed the wait, every slot was taken and nobody holds one.
LEMMA AllDone ==
  ASSUME IInv, mpc = "reset_num"
  PROVE  1 .. submitted \subseteq done
  <1> SUFFICES ASSUME NEW j \in 1 .. submitted
               PROVE  j \in done
    OBVIOUS
  <1> USE DEF IInv, TypeOK
  <1>1. Running = {} /\ next_job = num_of_jobs
    BY DEF PlaceInv, CountInv, AllAt, Running, At
  <1>2. CASE j \in 1 .. submitted - num_of_jobs
    BY <1>2 DEF ProgressInv, Ended
  <1>3. CASE j > submitted - num_of_jobs
    <2> DEFINE i == j - (submitted - num_of_jobs) - 1
    <2>1. i \in 0 .. num_of_jobs - 1 /\ JobIn(i) = j
      BY <1>3 DEF JobIn
    <2> HIDE DEF i
    <2> QED
      BY <1>1, <2>1 DEF ProgressInv, Ended
  <1> QED
    BY <1>2, <1>3

\* After num_of_jobs = 0 there are workers asleep only (this needs Regime).
LEMMA ResetNumInv ==
  ASSUME IInv, TypeOK', ResetNum
  PROVE  IInv'
  <1> USE DEF IInv, TypeOK, ResetNum, shared, array
  <1>1. AllAt({"asleep"}) /\ Running = {} /\ Running' = {}
    BY DEF WakeInv, AllAt, Running, At
  <1>2. MutexInv' /\ PlaceInv'
    BY <1>1 DEF MutexInv, PlaceInv, InBatch, AllAt, Quiet, Ended
  <1>3. CountInv'
    BY DEF CountInv, InBatch, Counting
  <1>4. SlotInv'
    BY DEF SlotInv, Ended
  <1>5. 1 .. submitted \subseteq done
    BY AllDone
  <1>6. ProgressInv'
    BY <1>1, <1>5 DEF ProgressInv, Ended
  <1>7. WakeInv'
    BY DEF WakeInv, InBatch
  <1> QED
    BY <1>2, <1>3, <1>4, <1>6, <1>7

\* After next_job = 0 no slot is left to take.
LEMMA ResetNextInv ==
  ASSUME IInv, TypeOK', ResetNext
  PROVE  IInv'
  <1> USE DEF IInv, TypeOK, ResetNext, shared, array
  <1>1. AllAt({"asleep"}) /\ Running = {} /\ Running' = {}
    BY DEF PlaceInv, Quiet, AllAt, Running, At
  <1>2. MutexInv' /\ PlaceInv' /\ WakeInv'
    BY <1>1 DEF MutexInv, PlaceInv, WakeInv, InBatch, AllAt, Quiet, Ended
  <1>3. CountInv' /\ SlotInv' /\ ProgressInv'
    BY <1>1 DEF CountInv, SlotInv, ProgressInv, InBatch, Counting, Ended
  <1> QED
    BY <1>2, <1>3

\* thread_in_cs is set to the number of workers asleep.
LEMMA ResetCsInv ==
  ASSUME IInv, TypeOK', ResetCs
  PROVE  IInv'
  <1> USE DEF IInv, TypeOK, ResetCs, shared, array
  <1>1. AllAt({"asleep"}) /\ Running = {} /\ Running' = {} /\ Busy' = {}
    BY DEF PlaceInv, Quiet, AllAt, Busy, Running, At
  <1>2. MutexInv' /\ PlaceInv' /\ WakeInv'
    BY <1>1 DEF MutexInv, PlaceInv, WakeInv, InBatch, AllAt, Quiet, Ended
  <1>3. CountInv'
    BY <1>1, PoolSize, FS_EmptySet DEF CountInv, InBatch, Counting
  <1>4. SlotInv' /\ ProgressInv'
    BY <1>1 DEF CountInv, SlotInv, ProgressInv, InBatch, Counting, Ended
  <1> QED
    BY <1>2, <1>3, <1>4

\* From job_scheduler_fin on no worker executes a job.
LEMMA FinInv ==
  ASSUME IInv, TypeOK', job_scheduler_fin \/ FinNext \/ FinNum \/ FinBroadcast \/ Join
  PROVE  IInv'
  <1> USE DEF IInv, TypeOK, shared, array
  <1>1. CountInv' /\ SlotInv' /\ ProgressInv' /\ WakeInv'
    BY DEF CountInv, SlotInv, ProgressInv, WakeInv, InBatch, Counting, Ended,
           job_scheduler_fin, FinNext, FinNum, FinBroadcast, Join
  <1>2. CASE job_scheduler_fin
    BY <1>1, <1>2 DEF job_scheduler_fin, MutexInv, PlaceInv, InBatch, AllAt, Quiet, Ended
  <1>3. CASE FinNext \/ FinNum
    BY <1>1, <1>3 DEF FinNext, FinNum, MutexInv, PlaceInv, InBatch, AllAt, Quiet, Ended
  <1>4. CASE FinBroadcast
    <2>1. \A w \in Threads : wpc[w] = "asleep" /\ wpc'[w] = "woken"
      BY <1>4, WakeAllEffect DEF FinBroadcast, PlaceInv, Quiet, AllAt
    <2> QED
      BY <1>1, <1>4, <2>1
         DEF FinBroadcast, MutexInv, PlaceInv, InBatch, AllAt, Quiet, Ended
  <1>5. CASE Join
    BY <1>1, <1>5 DEF Join, MutexInv, PlaceInv, InBatch, AllAt, Quiet, Ended
  <1> QED
    BY <1>2, <1>3, <1>4, <1>5

\* A spurious wake-up of Main only makes it test the condition again.
LEMMA SpuriousMainInv ==
  ASSUME IInv, TypeOK', SpuriousMain
  PROVE  IInv'
  <1> USE DEF IInv, TypeOK, SpuriousMain, shared, array
  <1>1. Busy' = Busy /\ Running' = Running
    BY DEF Busy, Running, At
  <1>2. MutexInv' /\ PlaceInv' /\ CountInv' /\ WakeInv'
    BY <1>1 DEF MutexInv, PlaceInv, CountInv, WakeInv, InBatch, Counting, AllAt, Quiet, Ended
  <1>3. SlotInv' /\ ProgressInv'
    BY <1>1 DEF SlotInv, ProgressInv, JobIn, Ended
  <1> QED
    BY <1>2, <1>3

\* Every action preserves the inductive invariant.
LEMMA InvStep ==
  ASSUME Regime, IInv, [Next]_vars
  PROVE  IInv'
  <1>1. TypeOK'
    BY TypeStep DEF IInv
  <1>2. ASSUME NEW w \in Threads, WorkerStep(w) \/ Spurious(w)
        PROVE  IInv'
    BY <1>1, <1>2, LockInv, ArriveInv, CheckPendingInv, WaitInv, ReacquireInv, TakeInv,
       ExecuteJobInv, SpuriousInv DEF WorkerStep
  <1>3. CASE MainStep
    BY <1>1, <1>3, LoadedInv, BarrierInv, ResetNumInv, ResetNextInv, ResetCsInv, FinInv
       DEF MainStep
  <1>4. CASE js_submit_job \/ js_execute_jobs \/ job_scheduler_fin
    BY <1>1, <1>4, SubmitInv, ExecuteInv, FinInv
  <1>5. CASE UNCHANGED vars
    BY <1>1, <1>5 DEF vars, shared, array, IInv, MutexInv, PlaceInv, CountInv, SlotInv,
       ProgressInv, WakeInv, InBatch, AllAt, Busy, Running, JobIn, At
  <1>6. CASE SpuriousMain
    BY <1>1, <1>6, SpuriousMainInv
  <1> QED
    BY <1>2, <1>3, <1>4, <1>5, <1>6 DEF Next, Terminated

---------------------------------------------------------------------------
(* The theorems.                                                            *)

\* IInv holds in every reachable state of the regime.
THEOREM Invariant == ASSUME Regime PROVE Spec => []IInv
  <1>1. IInv /\ [Next]_vars => IInv'
    BY InvStep
  <1> QED
    BY InvInit, <1>1, PTL DEF Spec

\* No worker is inside execute_job while Main is outside js_execute_jobs.
LEMMA NoJobOutsideBatchHolds == IInv => NoJobOutsideBatch
  BY DEF IInv, TypeOK, PlaceInv, AllAt, NoJobOutsideBatch, Running, At, InBatch, Quiet

\* js_execute_jobs returns only when all submitted jobs are done (jobscheduler.h:38):
\* the count of arrivals reaches threads + num_of_jobs only after the last job.
THEOREM BarrierCorrect == ASSUME Regime PROVE Spec => []BatchBarrier
  <1>1. IInv => BatchBarrier
    BY AllDone DEF BatchBarrier
  <1> QED
    BY Invariant, <1>1, PTL

\* While Main changes the trie, the lines and the results, no worker reads them.
THEOREM NoOverlap == ASSUME Regime PROVE Spec => []NoJobOutsideBatch
  <1> QED
    BY Invariant, NoJobOutsideBatchHolds, PTL

\* What an executing worker holds.
LEMMA RunningSlot ==
  ASSUME IInv, NEW w \in Running
  PROVE  /\ InBatch
         /\ task[w] \in 0 .. num_of_jobs - 1 /\ JobOf(w) = JobIn(task[w])
         /\ JobOf(w) \in 1 .. submitted /\ JobOf(w) \notin done
  <1> USE DEF IInv, TypeOK
  <1>1. InBatch
    BY NoJobOutsideBatchHolds DEF NoJobOutsideBatch
  <1>2. task[w] \in 0 .. num_of_jobs - 1
    BY <1>1 DEF ProgressInv, CountInv, InBatch, Counting, Ended, Running
  <1>3. task[w] \in Slots
    BY <1>1, <1>2, MaxJobsAssumption DEF SlotInv, Slots, InBatch, Ended
  <1>4. JobOf(w) = JobIn(task[w])
    BY <1>1, <1>2, <1>3 DEF JobOf, SlotInv, InBatch, Ended
  <1>5. JobIn(task[w]) \notin done
    BY <1>1, <1>2 DEF ProgressInv, InBatch, Ended
  <1>6. JobIn(task[w]) \in 1 .. submitted
    BY <1>1, <1>2 DEF SlotInv, InBatch, Ended, JobIn
  <1> QED
    BY <1>1, <1>2, <1>4, <1>5, <1>6

\* Two executing workers with the same job are one.
LEMMA RunningDiffer ==
  ASSUME IInv, NEW v \in Running, NEW w \in Running, JobOf(v) = JobOf(w)
  PROVE  v = w
  <1>1. InBatch /\ task[v] = task[w]
    BY RunningSlot DEF JobIn, IInv, TypeOK
  <1> QED
    BY <1>1 DEF IInv, ProgressInv, InBatch, Ended

\* A job is taken by one worker and executed once, and no other slot is read.
THEOREM ExactlyOnce == ASSUME Regime PROVE Spec => []EachJobOnce
  <1>1. IInv => EachJobOnce
    BY RunningSlot, RunningDiffer DEF EachJobOnce, NoJob, IInv, TypeOK
  <1> QED
    BY Invariant, <1>1, PTL

\* The array is grown before a job is written past its end.
THEOREM ArrayBounds == ASSUME Regime PROVE Spec => []InArray
  <1>1. IInv => InArray
    BY NoJobOutsideBatchHolds DEF NoJobOutsideBatch, IInv, TypeOK, InArray, SlotInv,
       ProgressInv, CountInv, Counting, InBatch, Ended, Running
  <1> QED
    BY Invariant, <1>1, PTL

---------------------------------------------------------------------------
(* The scheduler implements JobBatch.                                       *)

BatchQueue == IF mpc \in {"load", "idle"} \/ InBatch THEN Queued ELSE {}
BatchRunning == {JobOf(w) : w \in Running}

\* The initial state is one of JobBatch.
LEMMA BatchInit == Init => JB!Init
  <1> SUFFICES ASSUME Init
               PROVE  JB!Init
    OBVIOUS
  <1>1. Queued = {} /\ Running = {}
    BY DEF Init, Queued, Running, At
  <1> QED
    BY <1>1 DEF Init, JB!Init, phase, InBatch

\* The jobs of the batch, as JobBatch sees them.
LEMMA QueueOfBatch ==
  ASSUME IInv, mpc \notin Ended
  PROVE  Queued = submitted - num_of_jobs + 1 .. submitted
  <1> USE DEF IInv, TypeOK
  <1>1. ASSUME NEW j \in Queued
        PROVE  j \in submitted - num_of_jobs + 1 .. submitted
    BY <1>1 DEF Queued, SlotInv, JobIn
  <1>2. ASSUME NEW j \in submitted - num_of_jobs + 1 .. submitted
        PROVE  j \in Queued
    <2> DEFINE i == j - (submitted - num_of_jobs) - 1
    <2>1. i \in 0 .. num_of_jobs - 1 /\ JobIn(i) = j
      BY <1>2 DEF JobIn
    <2> HIDE DEF i
    <2> QED
      BY <2>1 DEF Queued, SlotInv
  <1> QED
    BY <1>1, <1>2

\* Taking a slot starts a job of the batch that was not started before.
LEMMA BatchTake ==
  ASSUME Regime, IInv, NEW w \in Threads, Take(w)
  PROVE  [JB!Next]_(JB!vars)
  <1> USE DEF Take, At, Goto, shared, array, IInv, TypeOK
  <1>1. phase' = phase /\ BatchQueue' = BatchQueue /\ done' = done
    BY DEF phase, BatchQueue, InBatch, Queued
  <1>2. w \notin Running /\ \A v \in Running : JobOf(v)' = JobOf(v)
    BY DEF Running, JobOf
  <1>3. CASE InBatch
    <2>1. mtx = w /\ reg = next_job /\ next_job < num_of_jobs /\ run
      BY <1>3 DEF MutexInv, CountInv, PlaceInv, InBatch, Ended
    <2>2. Running' = Running \union {w}
      BY <2>1 DEF Running
    <2>3. next_job \in Slots /\ JobOf(w)' = JobIn(next_job)
      BY <1>3, <2>1, MaxJobsAssumption DEF JobOf, SlotInv, Slots, InBatch, Ended
    <2>4. BatchRunning' = BatchRunning \union {JobIn(next_job)}
      BY <1>2, <2>2, <2>3 DEF BatchRunning
    <2>5. JobIn(next_job) \notin BatchRunning
      <3> SUFFICES ASSUME NEW v \in Running, JobOf(v) = JobIn(next_job)
                   PROVE  FALSE
        BY DEF BatchRunning
      <3>1. task[v] = next_job /\ task[v] < next_job
        BY <1>3, RunningSlot DEF JobIn, ProgressInv, InBatch, Ended
      <3> QED
        BY <3>1
    <2>6. JobIn(next_job) \notin done
      BY <1>3, <2>1 DEF ProgressInv, InBatch, Ended
    <2>7. JobIn(next_job) \in Queued
      BY <1>3, <2>1, QueueOfBatch DEF JobIn, InBatch, Ended, SlotInv
    <2>8. JobIn(next_job) \in Job
      BY <1>3, <2>1, MaxJobsAssumption DEF JobIn, InBatch, Ended, SlotInv, Job
    <2>9. phase = "run" /\ BatchQueue = Queued
      BY <1>3 DEF phase, BatchQueue, InBatch
    <2>10. JB!Start(JobIn(next_job))
      BY <1>1, <2>4, <2>5, <2>6, <2>7, <2>9 DEF JB!Start, BatchQueue, BatchRunning
    <2> QED
      BY <2>8, <2>10 DEF JB!Next
  <1>4. CASE ~InBatch
    <2>1. ~run
      BY <1>4 DEF PlaceInv, InBatch, Quiet, Ended, AllAt
    <2>2. Running' = Running
      BY <2>1 DEF Running
    <2>3. BatchRunning' = BatchRunning
      BY <1>2, <2>2 DEF BatchRunning
    <2> QED
      BY <1>1, <2>3 DEF JB!vars, BatchQueue, BatchRunning
  <1> QED
    BY <1>3, <1>4

\* The end of execute_job finishes a running job.
LEMMA BatchExecuteJob ==
  ASSUME IInv, NEW w \in Threads, ExecuteJob(w)
  PROVE  JB!Next
  <1> USE DEF ExecuteJob, At, Goto, shared, array
  <1>1. phase' = phase /\ BatchQueue' = BatchQueue
    BY DEF phase, BatchQueue, InBatch, Queued
  <1>2. w \in Running /\ Running' = Running \ {w}
    BY DEF Running, IInv, TypeOK
  <1>3. \A v \in Threads : JobOf(v)' = JobOf(v)
    BY DEF JobOf
  <1>4. BatchRunning' = BatchRunning \ {JobOf(w)}
    BY <1>2, <1>3, RunningDiffer DEF BatchRunning, Running
  <1>5. JobOf(w) \in Job
    BY <1>2, RunningSlot, MaxJobsAssumption DEF Job, IInv, TypeOK
  <1>6. JB!Finish(JobOf(w))
    BY <1>1, <1>2, <1>4 DEF JB!Finish, BatchQueue, BatchRunning
  <1> QED
    BY <1>5, <1>6 DEF JB!Next

\* The other actions of a worker are invisible.
LEMMA BatchWorker ==
  ASSUME IInv, NEW w \in Threads,
         \/ Lock(w) \/ Arrive(w) \/ CheckPending(w) \/ Wait(w) \/ Reacquire(w)
         \/ Spurious(w)
  PROVE  UNCHANGED JB!vars
  <1> USE DEF Lock, Arrive, CheckPending, Wait, Reacquire, Spurious, At, Goto, shared,
              array
  <1>1. Running' = Running /\ done' = done
    BY DEF Running, IInv, TypeOK
  <1>2. \A v \in Threads : JobOf(v)' = JobOf(v)
    BY DEF JobOf
  <1>3. BatchRunning' = BatchRunning
    BY <1>1, <1>2 DEF BatchRunning, Running
  <1>4. /\ phase' = phase /\ InBatch' = InBatch
        /\ (mpc \in {"load", "idle"})' = (mpc \in {"load", "idle"})
    BY DEF phase, InBatch
  <1>5. BatchQueue' = BatchQueue
    BY <1>4 DEF BatchQueue, Queued
  <1> QED
    BY <1>1, <1>3, <1>4, <1>5 DEF JB!vars, BatchQueue, BatchRunning

\* js_submit_job submits a job that is new to JobBatch.
LEMMA BatchSubmit ==
  ASSUME IInv, js_submit_job
  PROVE  JB!Next
  <1> USE DEF IInv, TypeOK, js_submit_job
  <1>1. Queued = submitted - num_of_jobs + 1 .. submitted
    BY QueueOfBatch DEF Ended
  <1>2. submitted + 1 \in Job /\ submitted + 1 \notin Queued \union done
    BY <1>1, MaxJobsAssumption DEF Job, ProgressInv, Ended
  <1>3. num_of_jobs \in Slots
    BY MaxJobsAssumption DEF Slots, SlotInv, Ended
  <1>4. Queued' = Queued \union {submitted + 1}
    <2>1. \A i \in Slots \ {num_of_jobs} : tasks'[i] = tasks[i]
      BY DEF Slots
    <2>2. 0 .. num_of_jobs - 1 \subseteq Slots \ {num_of_jobs}
      BY <1>3, MaxJobsAssumption DEF Slots
    <2>3. tasks'[num_of_jobs] = submitted + 1
      BY <1>3
    <2>4. 0 .. num_of_jobs' - 1 = (0 .. num_of_jobs - 1) \union {num_of_jobs}
      OBVIOUS
    <2> QED
      BY <2>1, <2>2, <2>3, <2>4 DEF Queued
  <1>5. Running = {} /\ Running' = {}
    BY DEF PlaceInv, Quiet, AllAt, Running, At
  <1>6. JB!Submit(submitted + 1)
    BY <1>2, <1>4, <1>5 DEF JB!Submit, phase, InBatch
  <1> QED
    BY <1>2, <1>6 DEF JB!Next

\* The other steps of Main start, end or close the batch, or are invisible.
LEMMA BatchMain ==
  ASSUME Regime, IInv, MainStep \/ js_execute_jobs \/ job_scheduler_fin
  PROVE  [JB!Next]_(JB!vars)
  <1> USE DEF IInv, TypeOK
  <1>1. CASE Barrier
    <2> USE <1>1 DEF Barrier, shared, array
    <2>1. /\ done' = done /\ Running' = Running /\ Queued' = Queued
          /\ \A v \in Threads : JobOf(v)' = JobOf(v)
      BY DEF Running, Queued, JobOf, At
    <2>2. BatchRunning' = BatchRunning
      BY <2>1 DEF BatchRunning, Running
    <2>3. CASE mpc' = "asleep"
      BY <2>1, <2>2, <2>3 DEF JB!vars, phase, InBatch, BatchRunning
    <2>4. CASE mpc' = "reset_num"
      <3>1. thread_in_cs - N = num_of_jobs
        BY <2>4
      <3>2. Cardinality(Busy) = 0 /\ next_job = num_of_jobs
        BY <3>1, PoolSize, BusyFinite DEF CountInv, Counting
      <3>3. Running = {}
        BY <3>2, BusyFinite DEF Busy, Running, At
      <3>4. Queued \subseteq done
        <4> SUFFICES ASSUME NEW i \in 0 .. num_of_jobs - 1
                     PROVE  tasks[i] \in done
          BY DEF Queued
        <4> QED
          BY <3>2, <3>3 DEF ProgressInv, SlotInv, Ended
      <3>5. JB!Return
        BY <2>1, <2>2, <2>4, <3>4 DEF JB!Return, phase, InBatch, BatchRunning
      <3> QED
        BY <3>5 DEF JB!Next
    <2> QED
      BY <2>3, <2>4
  <1>2. CASE js_execute_jobs
    <2> USE <1>2 DEF js_execute_jobs, shared, array
    <2>1. Running = {} /\ Running' = {}
      BY WakeAllEffect DEF PlaceInv, Quiet, AllAt, Running, At
    <2>2. Queued' = Queued
      BY DEF Queued
    <2>3. JB!Execute
      BY <2>1, <2>2 DEF JB!Execute, phase, InBatch
    <2> QED
      BY <2>3 DEF JB!Next
  <1>3. CASE job_scheduler_fin
    <2>1. Running = {} /\ Running' = {}
      BY <1>3 DEF job_scheduler_fin, PlaceInv, Quiet, AllAt, Running, At
    <2>2. JB!Close
      BY <1>3, <2>1 DEF job_scheduler_fin, JB!Close, phase, InBatch
    <2> QED
      BY <2>2 DEF JB!Next
  <1>4. CASE \/ Loaded \/ ResetNum \/ ResetNext \/ ResetCs
             \/ FinNext \/ FinNum \/ FinBroadcast \/ Join
    <2> USE DEF Loaded, ResetNum, ResetNext, ResetCs, FinNext, FinNum, FinBroadcast, Join,
                shared, array
    <2>1. done' = done /\ phase' = phase /\ ~InBatch /\ ~InBatch'
      BY <1>4 DEF phase, InBatch
    <2>2. Running = {} /\ Running' = {}
      <3>1. Running = {}
        BY <2>1, NoJobOutsideBatchHolds DEF NoJobOutsideBatch
      <3>2. CASE FinBroadcast
        BY <3>1, <3>2, WakeAllEffect DEF Running, At
      <3> QED
        BY <1>4, <3>1, <3>2 DEF Running, At
    <2>3. BatchQueue = {} /\ BatchQueue' = {}
      <3>1. CASE Loaded
        BY <3>1 DEF BatchQueue, Queued, CountInv
      <3>2. CASE ResetCs
        BY <3>2 DEF BatchQueue, Queued, CountInv, InBatch
      <3> QED
        BY <1>4, <3>1, <3>2 DEF BatchQueue, InBatch
    <2> QED
      BY <2>1, <2>2, <2>3 DEF JB!vars, BatchQueue
  <1> QED
    BY <1>1, <1>2, <1>3, <1>4 DEF MainStep

\* The scheduler keeps the promise of jobscheduler.h:38 as JobBatch states it: jobs
\* start only while their batch runs and once, and a batch ends with all of them done.
THEOREM Implements == ASSUME Regime PROVE Spec => ImplementsJobBatch
  <1>1. IInv /\ [Next]_vars => [JB!Next]_(JB!vars)
    <2> SUFFICES ASSUME IInv, [Next]_vars
                 PROVE  [JB!Next]_(JB!vars)
      OBVIOUS
    <2>1. ASSUME NEW w \in Threads, WorkerStep(w) \/ Spurious(w)
          PROVE  [JB!Next]_(JB!vars)
      BY <2>1, BatchTake, BatchExecuteJob, BatchWorker DEF WorkerStep
    <2>2. CASE MainStep \/ js_execute_jobs \/ job_scheduler_fin
      BY <2>2, BatchMain
    <2>3. CASE js_submit_job
      BY <2>3, BatchSubmit
    <2>4. CASE UNCHANGED vars
      BY <2>4 DEF vars, shared, array, JB!vars, phase, InBatch, Queued, Running, JobOf, At
    <2>5. CASE SpuriousMain
      BY <2>5 DEF SpuriousMain, shared, array, JB!vars, phase, InBatch, Queued, Running,
         JobOf, At
    <2> QED
      BY <2>1, <2>2, <2>3, <2>4, <2>5 DEF Next, Terminated
  <1> QED
    BY Invariant, BatchInit, <1>1, PTL DEF Spec, ImplementsJobBatch, JB!Spec
=============================================================================
