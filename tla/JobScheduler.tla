---------------------------- MODULE JobScheduler ----------------------------
(***************************************************************************)
(* The job scheduler of job_scheduler/jobscheduler.c: Main (main.c)        *)
(* collects jobs and starts them with js_execute_jobs, a pool of workers   *)
(* takes them one by one under the mutex mtx.                              *)
(*                                                                         *)
(* Main writes next_job, num_of_jobs, thread_in_cs and run, and broadcasts *)
(* job_pending, WITHOUT holding mtx, so each of these writes is a step of  *)
(* its own, in program order.  What a worker does with mtx held is split   *)
(* where such a write can come in between: after the load of thread_in_cs  *)
(* (line 76), after the loop condition (79), and between the condition and *)
(* the wait (80) or the take (82-84).  "reg" is the value the owner of mtx *)
(* has loaded and will write back.  As the compiled code does at -O2, the  *)
(* take uses the next_job that the loop condition loaded.                  *)
(*                                                                         *)
(* pthread_cond_wait releases mtx and sleeps in one step, a signal moves a *)
(* sleeper to "woken", and a woken thread continues when it gets mtx.      *)
(*                                                                         *)
(* Four constants name what the environment and the input may do:          *)
(*   SettledStart     every worker waits before main.c submits a job (it   *)
(*                    reads the whole init file first)                     *)
(*   PromptWake       a worker woken by a broadcast gets mtx and either    *)
(*                    takes a job or waits again before Main has left      *)
(*                    js_execute_jobs                                      *)
(*   EmptyBatches     main.c executes a batch that has no query            *)
(*   MaxSpurious      how often pthread_cond_wait returns without a signal *)
(*                    while Main is in js_execute_jobs                     *)
(***************************************************************************)
EXTENDS Integers, FiniteSets

CONSTANTS Threads,         \* the worker threads
          Free,            \* the owner of mtx when no worker owns it
          MaxJobs,         \* bound: jobs submitted in the life of the program
          INIT_ARR_SIZE,   \* initial capacity of the array of tasks
          SettledStart, PromptWake, EmptyBatches, MaxSpurious

ASSUME ThreadsAssumption == IsFiniteSet(Threads) /\ Threads # {} /\ Free \notin Threads
ASSUME MaxJobsAssumption == MaxJobs \in Nat
ASSUME InitSizeAssumption == INIT_ARR_SIZE \in Nat \ {0}
ASSUME RegimeAssumption == /\ {SettledStart, PromptWake, EmptyBatches} \subseteq BOOLEAN
                           /\ MaxSpurious \in Nat

N == Cardinality(Threads)

Job == 1 .. MaxJobs       \* the n-th job that main.c submits
NoJob == 0                \* what an unwritten slot of the array holds

VARIABLES
    next_job, num_of_jobs, thread_in_cs, run,   \* fields of job_scheduler
    tasks,                 \* slot -> job; stale entries stay
    job_arr_size,          \* allocated slots of tasks
    mtx,                   \* the worker that owns the mutex, or Free
    reg,                   \* value loaded by the owner of mtx
    wpc,                   \* where each worker is
    task,                  \* worker -> slot its pointer "task" refers to
    mpc,                   \* where Main is
    submitted,             \* history: number of jobs submitted so far
    done,                  \* history: jobs whose execute_job has returned
    spurious               \* number of spurious wake-ups so far

shared == <<next_job, num_of_jobs, thread_in_cs, run>>
array == <<tasks, job_arr_size>>
vars == <<shared, array, mtx, reg, wpc, task, mpc, submitted, done, spurious>>

Slots == 0 .. MaxJobs - 1

\* job_scheduler_init, then the worker threads are created; Main loads the trie.
Init == /\ next_job = 0 /\ num_of_jobs = 0 /\ thread_in_cs = 0 /\ run = TRUE
        /\ tasks = [i \in Slots |-> NoJob] /\ job_arr_size = INIT_ARR_SIZE
        /\ mtx = Free /\ reg = 0
        /\ wpc = [w \in Threads |-> "top"] /\ task = [w \in Threads |-> 0]
        /\ mpc = "load"
        /\ submitted = 0 /\ done = {} /\ spurious = 0

At(w, label) == wpc[w] = label
Goto(w, label) == wpc' = [wpc EXCEPT ![w] = label]
InBatch == mpc \in {"lock", "asleep", "woken"}   \* in js_execute_jobs
AllAt(labels) == \A w \in Threads : wpc[w] \in labels

\* pthread_cond_broadcast(&job_pending)
WakeAll == wpc' = [w \in Threads |-> IF At(w, "asleep") THEN "woken" ELSE wpc[w]]

---------------------------------------------------------------------------
\* The workers

\* Mutant: the worker does not take the mutex before it counts itself.
LockWithoutMutex(w) == /\ At(w, "top")
                       /\ mtx' = w
                       /\ reg' = thread_in_cs
                       /\ Goto(w, "count")
                       /\ UNCHANGED <<shared, array, task, mpc, submitted, done,
                                      spurious>>

Lock(w) == /\ At(w, "top") /\ mtx = Free
           /\ mtx' = w
           /\ reg' = thread_in_cs
           /\ Goto(w, "count")
           /\ UNCHANGED <<shared, array, task, mpc, submitted, done, spurious>>

\* Mutants: the counter goes the other way; job_done is not signalled.
ArriveDown(w) == /\ At(w, "count")
                 /\ thread_in_cs' = reg - 1
                 /\ mpc' = IF mpc = "asleep" THEN "woken" ELSE mpc
                 /\ Goto(w, "check")
                 /\ UNCHANGED <<next_job, num_of_jobs, run, array, mtx, reg, task,
                                submitted, done, spurious>>

ArriveSilent(w) == /\ At(w, "count")
                   /\ thread_in_cs' = reg + 1
                   /\ Goto(w, "check")
                   /\ UNCHANGED <<next_job, num_of_jobs, run, array, mtx, reg, task,
                                  mpc, submitted, done, spurious>>

\* thread_in_cs++ and pthread_cond_signal(&job_done)
Arrive(w) == /\ At(w, "count")
             /\ thread_in_cs' = reg + 1
             /\ mpc' = IF mpc = "asleep" THEN "woken" ELSE mpc
             /\ Goto(w, "check")
             /\ UNCHANGED <<next_job, num_of_jobs, run, array, mtx, reg, task,
                            submitted, done, spurious>>

CheckPending(w) == /\ At(w, "check")
                   /\ reg' = next_job
                   /\ Goto(w, IF next_job = num_of_jobs THEN "block" ELSE "take")
                   /\ UNCHANGED <<shared, array, mtx, task, mpc, submitted, done,
                                  spurious>>

Wait(w) == /\ At(w, "block")
           /\ mtx' = Free
           /\ Goto(w, "asleep")
           /\ UNCHANGED <<shared, array, reg, task, mpc, submitted, done, spurious>>

Reacquire(w) == /\ At(w, "woken") /\ mtx = Free
                /\ mtx' = w
                /\ Goto(w, "check")
                /\ UNCHANGED <<shared, array, reg, task, mpc, submitted, done,
                               spurious>>

\* The task is taken by its slot; a worker that read run = false exits with it.
Take(w) == /\ At(w, "take")
           /\ task' = [task EXCEPT ![w] = reg]
           /\ next_job' = reg + 1
           /\ mtx' = Free
           /\ Goto(w, IF run THEN "exec" ELSE "exit")
           /\ UNCHANGED <<num_of_jobs, thread_in_cs, run, array, reg, mpc, submitted,
                          done, spurious>>

JobOf(w) == IF task[w] \in Slots THEN tasks[task[w]] ELSE NoJob

ExecuteJob(w) == /\ At(w, "exec")
                 /\ done' = done \union {JobOf(w)}
                 /\ Goto(w, "top")
                 /\ UNCHANGED <<shared, array, mtx, reg, task, mpc, submitted,
                                spurious>>

Spurious(w) == /\ InBatch /\ spurious < MaxSpurious
               /\ At(w, "asleep")
               /\ Goto(w, "woken")
               /\ spurious' = spurious + 1
               /\ UNCHANGED <<shared, array, mtx, reg, task, mpc, submitted, done>>

WorkerStep(w) == \/ Lock(w) \/ Arrive(w) \/ CheckPending(w) \/ Wait(w)
                 \/ Reacquire(w) \/ Take(w) \/ ExecuteJob(w)

---------------------------------------------------------------------------
\* Main

Loaded == /\ mpc = "load"
          /\ SettledStart => AllAt({"asleep"})
          /\ mpc' = "idle"
          /\ UNCHANGED <<shared, array, mtx, reg, wpc, task, submitted, done, spurious>>

\* Mutant: the array grows one job too late.
SubmitLateGrowth ==
    /\ mpc = "idle" /\ submitted < MaxJobs
    /\ job_arr_size' = IF job_arr_size < num_of_jobs THEN 2 * job_arr_size
                                                     ELSE job_arr_size
    /\ tasks' = [tasks EXCEPT ![num_of_jobs] = submitted + 1]
    /\ num_of_jobs' = num_of_jobs + 1
    /\ submitted' = submitted + 1
    /\ UNCHANGED <<next_job, thread_in_cs, run, mtx, reg, wpc, task, mpc, done,
                   spurious>>

js_submit_job ==
    /\ mpc = "idle" /\ submitted < MaxJobs
    /\ job_arr_size' = IF job_arr_size = num_of_jobs THEN 2 * job_arr_size
                                                     ELSE job_arr_size
    /\ tasks' = [tasks EXCEPT ![num_of_jobs] = submitted + 1]
    /\ num_of_jobs' = num_of_jobs + 1
    /\ submitted' = submitted + 1
    /\ UNCHANGED <<next_job, thread_in_cs, run, mtx, reg, wpc, task, mpc, done,
                   spurious>>

js_execute_jobs ==
    /\ mpc = "idle"
    /\ EmptyBatches \/ num_of_jobs > 0
    /\ WakeAll
    /\ mpc' = "lock"
    /\ UNCHANGED <<shared, array, mtx, reg, task, submitted, done, spurious>>

\* Mutants: "if" instead of "while"; the workers are not subtracted.
BarrierIf == /\ mpc \in {"lock", "woken"} /\ mtx = Free
             /\ mpc' = IF mpc = "lock" /\ thread_in_cs - N # num_of_jobs
                       THEN "asleep" ELSE "reset_num"
             /\ UNCHANGED <<shared, array, mtx, reg, wpc, task, submitted, done,
                            spurious>>

BarrierAllArrivals ==
    /\ mpc \in {"lock", "woken"} /\ mtx = Free
    /\ mpc' = IF thread_in_cs # num_of_jobs THEN "asleep" ELSE "reset_num"
    /\ UNCHANGED <<shared, array, mtx, reg, wpc, task, submitted, done, spurious>>

\* Main gets mtx and evaluates the loop condition of lines 59-61; nobody else
\* writes thread_in_cs or num_of_jobs until it waits or unlocks.
Barrier == /\ mpc \in {"lock", "woken"} /\ mtx = Free
           /\ mpc' = IF thread_in_cs - N # num_of_jobs THEN "asleep" ELSE "reset_num"
           /\ UNCHANGED <<shared, array, mtx, reg, wpc, task, submitted, done,
                          spurious>>

ResetNum == /\ mpc = "reset_num"
            /\ PromptWake => AllAt({"asleep"})
            /\ num_of_jobs' = 0
            /\ mpc' = "reset_next"
            /\ UNCHANGED <<next_job, thread_in_cs, run, array, mtx, reg, wpc, task,
                           submitted, done, spurious>>

\* Mutants of the two resets: the counter keeps its value.
NoResetNext == /\ mpc = "reset_next"
               /\ mpc' = "reset_cs"
               /\ UNCHANGED <<shared, array, mtx, reg, wpc, task, submitted, done,
                              spurious>>

NoResetCs == /\ mpc = "reset_cs"
             /\ mpc' = "idle"
             /\ UNCHANGED <<shared, array, mtx, reg, wpc, task, submitted, done,
                            spurious>>

ResetNext == /\ mpc = "reset_next"
             /\ next_job' = 0
             /\ mpc' = "reset_cs"
             /\ UNCHANGED <<num_of_jobs, thread_in_cs, run, array, mtx, reg, wpc, task,
                            submitted, done, spurious>>

ResetCs == /\ mpc = "reset_cs"
           /\ thread_in_cs' = N
           /\ mpc' = "idle"
           /\ UNCHANGED <<next_job, num_of_jobs, run, array, mtx, reg, wpc, task,
                          submitted, done, spurious>>

\* job_scheduler_fin: the end of the work file, wherever it comes.
job_scheduler_fin == /\ mpc = "idle"
                     /\ run' = FALSE
                     /\ mpc' = "fin_next"
                     /\ UNCHANGED <<next_job, num_of_jobs, thread_in_cs, array, mtx,
                                    reg, wpc, task, submitted, done, spurious>>

FinNext == /\ mpc = "fin_next"
           /\ next_job' = 0
           /\ mpc' = "fin_num"
           /\ UNCHANGED <<num_of_jobs, thread_in_cs, run, array, mtx, reg, wpc, task,
                          submitted, done, spurious>>

\* Mutant: one slot to take for all the workers.
FinOneSlot == /\ mpc = "fin_num"
              /\ num_of_jobs' = 1
              /\ mpc' = "fin_broadcast"
              /\ UNCHANGED <<next_job, thread_in_cs, run, array, mtx, reg, wpc, task,
                             submitted, done, spurious>>

FinNum == /\ mpc = "fin_num"
          /\ num_of_jobs' = N
          /\ mpc' = "fin_broadcast"
          /\ UNCHANGED <<next_job, thread_in_cs, run, array, mtx, reg, wpc, task,
                         submitted, done, spurious>>

FinBroadcast == /\ mpc = "fin_broadcast"
                /\ WakeAll
                /\ mpc' = "join"
                /\ UNCHANGED <<shared, array, mtx, reg, task, submitted, done,
                               spurious>>

Join == /\ mpc = "join"
        /\ AllAt({"exit"})
        /\ mpc' = "destroyed"
        /\ UNCHANGED <<shared, array, mtx, reg, wpc, task, submitted, done, spurious>>

SpuriousMain == /\ mpc = "asleep" /\ spurious < MaxSpurious
                /\ mpc' = "woken"
                /\ spurious' = spurious + 1
                /\ UNCHANGED <<shared, array, mtx, reg, wpc, task, submitted, done>>

\* The steps Main takes without asking for more input.
MainStep == \/ Loaded \/ Barrier \/ ResetNum \/ ResetNext \/ ResetCs
            \/ FinNext \/ FinNum \/ FinBroadcast \/ Join

Terminated == mpc = "destroyed" /\ UNCHANGED vars

Next == \/ \E w \in Threads : WorkerStep(w) \/ Spurious(w)
        \/ MainStep \/ SpuriousMain \/ js_submit_job \/ js_execute_jobs \/ job_scheduler_fin
        \/ Terminated

Spec == Init /\ [][Next]_vars

\* Threads that can run do run; how the work file goes on is up to the input.
Fairness == WF_vars(MainStep) /\ \A w \in Threads : WF_vars(WorkerStep(w))

FairSpec == Spec /\ Fairness
---------------------------------------------------------------------------
\* Properties

Running == {w \in Threads : At(w, "exec")}
Queued == {tasks[i] : i \in 0 .. num_of_jobs - 1}

\* Types of all variables.
TypeOK ==
    /\ next_job \in Nat /\ num_of_jobs \in Nat /\ thread_in_cs \in Nat
    /\ run \in BOOLEAN
    /\ tasks \in [Slots -> Job \union {NoJob}] /\ job_arr_size \in Nat \ {0}
    /\ mtx \in Threads \union {Free} /\ reg \in Nat
    /\ wpc \in [Threads -> {"top", "count", "check", "block", "take", "asleep",
                            "woken", "exec", "exit"}]
    /\ task \in [Threads -> Nat]
    /\ mpc \in {"load", "idle", "lock", "asleep", "woken", "reset_num", "reset_next",
                "reset_cs", "fin_next", "fin_num", "fin_broadcast", "join", "destroyed"}
    /\ submitted \in 0 .. MaxJobs /\ done \subseteq Job \union {NoJob}
    /\ spurious \in 0 .. MaxSpurious

\* jobscheduler.h:38, "Returns when all jobs are done": when Main passes the wait of
\* js_execute_jobs every submitted job has been executed, although the condition it
\* tests only counts how often workers came back for more (line 59).
BatchBarrier == mpc = "reset_num" => 1 .. submitted \subseteq done

\* main.c changes the trie, the lines and the results between two batches with
\* functions that trie.h:25 calls not thread safe: no worker executes a job then.
NoJobOutsideBatch == Running # {} => InBatch

\* Two workers never execute the same job, no job is executed twice, and no worker
\* reads a slot that holds no job (the reset of the counters, lines 63-65, leaves the
\* old jobs in the array).
EachJobOnce ==
    /\ \A w \in Running : JobOf(w) # NoJob /\ JobOf(w) \notin done
    /\ \A v, w \in Running : JobOf(v) = JobOf(w) => v = w

\* The array never holds more jobs than it has slots, and a worker's pointer stays
\* inside it: js_submit_job grows the array before it writes.
InArray == /\ mpc \in {"load", "idle"} \/ InBatch => num_of_jobs <= job_arr_size
           /\ \A w \in Running : task[w] < job_arr_size

\* js_execute_jobs always returns (lines 59-61): no wake-up is lost.
ExecuteReturns == InBatch ~> mpc = "idle"

\* job_scheduler_fin always returns: every worker sees run = false and exits.
FinReturns == ~run ~> mpc = "destroyed"

\* The scheduler implements what its header promises.
phase == CASE mpc \in {"fin_next", "fin_num", "fin_broadcast", "join", "destroyed"} -> "closed"
           [] InBatch -> "run"
           [] OTHER -> "collect"

JB == INSTANCE JobBatch WITH
          Jobs <- Job,
          queue <- IF mpc \in {"load", "idle"} \/ InBatch THEN Queued ELSE {},
          running <- {JobOf(w) : w \in Running}

\* Every step of the scheduler is a step of JobBatch or changes nothing there.
ImplementsJobBatch == JB!Spec
=============================================================================
