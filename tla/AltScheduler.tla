---------------------------- MODULE AltScheduler ----------------------------
(***************************************************************************)
(* The scheduler of job_scheduler/alt_scheduler.c, chosen by ALT_SCHEDULER *)
(* in control_panel.h: the jobs are dealt round robin, every worker has a  *)
(* row of its own, and a batch ends when every worker came back.           *)
(*                                                                         *)
(* As in JobScheduler, Main writes the shared fields and broadcasts        *)
(* without mtx, so that each write is a step; "reg" is the value of        *)
(* inactive_workers that the owner of mtx has loaded.  A worker waits for  *)
(* job_pending without any condition (line 114).                           *)
(*   SettledStart     every worker waits before main.c submits a job; the  *)
(*                    barrier that would ensure it is commented out        *)
(*                    (lines 39-43)                                        *)
(*   MaxSpurious      how often the wait of Main returns without a signal; *)
(*                    the wait of a worker, which has no loop, is assumed  *)
(*                    never to                                             *)
(***************************************************************************)
EXTENDS Integers

CONSTANTS T,               \* number of worker threads
          MaxJobs,         \* bound: jobs submitted in the life of the program
          INIT_ARR_SIZE,   \* initial capacity of a row
          SettledStart, MaxSpurious

ASSUME TAssumption == T \in Nat \ {0}
ASSUME MaxJobsAssumption == MaxJobs \in Nat
ASSUME InitSizeAssumption == INIT_ARR_SIZE \in Nat \ {0}
ASSUME RegimeAssumption == SettledStart \in BOOLEAN /\ MaxSpurious \in Nat

Threads == 0 .. T - 1     \* a worker finds its index in tids (lines 99-108)
Free == T                 \* the value of mtx when no worker owns it
Job == 1 .. MaxJobs       \* the n-th job that main.c submits
NoJob == 0                \* what an unwritten slot of a row holds
Slots == 0 .. MaxJobs - 1

VARIABLES
    tasks,                 \* worker -> its row: slot -> job; stale entries stay
    num_of_jobs,           \* worker -> jobs in its row
    job_arr_size,          \* worker -> allocated slots of its row
    total_tasks, inactive_workers, run,        \* fields of alt_scheduler
    mtx, reg,
    wpc,                   \* where each worker is
    next,                  \* worker -> the slot it is at (i of line 119)
    mpc,                   \* where Main is
    submitted, done,       \* history: jobs submitted so far, jobs executed
    spurious               \* number of spurious wake-ups so far

rows == <<tasks, num_of_jobs, job_arr_size>>
vars == <<rows, total_tasks, inactive_workers, run, mtx, reg, wpc, next, mpc,
          submitted, done, spurious>>

\* alt_scheduler_init, then the worker threads are created; Main loads the trie.
Init == /\ tasks = [w \in Threads |-> [i \in Slots |-> NoJob]]
        /\ num_of_jobs = [w \in Threads |-> 0]
        /\ job_arr_size = [w \in Threads |-> INIT_ARR_SIZE]
        /\ total_tasks = 0 /\ inactive_workers = 0 /\ run = TRUE
        /\ mtx = Free /\ reg = 0
        /\ wpc = [w \in Threads |-> "top"] /\ next = [w \in Threads |-> 0]
        /\ mpc = "load"
        /\ submitted = 0 /\ done = {} /\ spurious = 0

At(w, label) == wpc[w] = label
Goto(w, label) == wpc' = [wpc EXCEPT ![w] = label]
AllAt(label) == \A w \in Threads : wpc[w] = label

\* pthread_cond_broadcast(&job_pending)
WakeAll == wpc' = [w \in Threads |-> IF At(w, "asleep") THEN "woken" ELSE wpc[w]]

---------------------------------------------------------------------------
\* The workers

Lock(w) == /\ At(w, "top") /\ mtx = Free
           /\ mtx' = w
           /\ reg' = inactive_workers
           /\ Goto(w, "count")
           /\ UNCHANGED <<rows, total_tasks, inactive_workers, run, next, mpc,
                          submitted, done, spurious>>

\* Mutants: the counter goes the other way; job_done is not signalled.
ArriveDown(w) == /\ At(w, "count")
                 /\ inactive_workers' = reg - 1
                 /\ mpc' = IF mpc = "asleep" THEN "woken" ELSE mpc
                 /\ Goto(w, "block")
                 /\ UNCHANGED <<rows, total_tasks, run, mtx, reg, next, submitted, done,
                                spurious>>

ArriveSilent(w) == /\ At(w, "count")
                   /\ inactive_workers' = reg + 1
                   /\ Goto(w, "block")
                   /\ UNCHANGED <<rows, total_tasks, run, mtx, reg, next, mpc,
                                  submitted, done, spurious>>

\* inactive_workers++ and pthread_cond_signal(&job_done)
Arrive(w) == /\ At(w, "count")
             /\ inactive_workers' = reg + 1
             /\ mpc' = IF mpc = "asleep" THEN "woken" ELSE mpc
             /\ Goto(w, "block")
             /\ UNCHANGED <<rows, total_tasks, run, mtx, reg, next, submitted, done,
                            spurious>>

Wait(w) == /\ At(w, "block")
           /\ mtx' = Free
           /\ Goto(w, "asleep")
           /\ UNCHANGED <<rows, total_tasks, inactive_workers, run, reg, next, mpc,
                          submitted, done, spurious>>

\* The wait returns with mtx, run is read, mtx is released.
WakeUp(w) == /\ At(w, "woken") /\ mtx = Free
             /\ Goto(w, IF run THEN "exec" ELSE "exit")
             /\ next' = [next EXCEPT ![w] = 0]
             /\ UNCHANGED <<rows, total_tasks, inactive_workers, run, mtx, reg, mpc,
                            submitted, done, spurious>>

\* The loop of line 119: its test, and the call of execute_job.  The test reads
\* num_of_jobs again each time, without mtx.
StartJob(w) == /\ At(w, "exec") /\ next[w] < num_of_jobs[w]
               /\ Goto(w, "job")
               /\ UNCHANGED <<rows, total_tasks, inactive_workers, run, mtx, reg, next,
                              mpc, submitted, done, spurious>>

JobOf(w) == IF next[w] \in Slots THEN tasks[w][next[w]] ELSE NoJob

\* Mutant: the loop skips a slot.
FinishJobSkipping(w) ==
    /\ At(w, "job")
    /\ done' = done \union {JobOf(w)}
    /\ next' = [next EXCEPT ![w] = @ + 2]
    /\ Goto(w, "exec")
    /\ UNCHANGED <<rows, total_tasks, inactive_workers, run, mtx, reg, mpc, submitted,
                   spurious>>

FinishJob(w) == /\ At(w, "job")
                /\ done' = done \union {JobOf(w)}
                /\ next' = [next EXCEPT ![w] = @ + 1]
                /\ Goto(w, "exec")
                /\ UNCHANGED <<rows, total_tasks, inactive_workers, run, mtx, reg, mpc,
                               submitted, spurious>>

RowDone(w) == /\ At(w, "exec") /\ next[w] >= num_of_jobs[w]
              /\ Goto(w, "top")
              /\ UNCHANGED <<rows, total_tasks, inactive_workers, run, mtx, reg, next,
                             mpc, submitted, done, spurious>>

WorkerStep(w) == \/ Lock(w) \/ Arrive(w) \/ Wait(w) \/ WakeUp(w)
                 \/ StartJob(w) \/ FinishJob(w) \/ RowDone(w)

---------------------------------------------------------------------------
\* Main

Loaded == /\ mpc = "load"
          /\ SettledStart => AllAt("asleep")
          /\ mpc' = "idle"
          /\ UNCHANGED <<rows, total_tasks, inactive_workers, run, mtx, reg, wpc, next,
                         submitted, done, spurious>>

\* Mutant: total_tasks is not incremented.
SubmitSameRow ==
    LET row == total_tasks % T IN
    /\ mpc = "idle" /\ submitted < MaxJobs
    /\ job_arr_size' = [job_arr_size EXCEPT ![row] = IF @ = num_of_jobs[row] THEN 2 * @
                                                                             ELSE @]
    /\ tasks' = [tasks EXCEPT ![row][num_of_jobs[row]] = submitted + 1]
    /\ num_of_jobs' = [num_of_jobs EXCEPT ![row] = @ + 1]
    /\ submitted' = submitted + 1
    /\ UNCHANGED <<total_tasks, inactive_workers, run, mtx, reg, wpc, next, mpc, done,
                   spurious>>

alt_submit_job ==
    LET row == total_tasks % T IN
    /\ mpc = "idle" /\ submitted < MaxJobs
    /\ job_arr_size' = [job_arr_size EXCEPT ![row] = IF @ = num_of_jobs[row] THEN 2 * @
                                                                             ELSE @]
    /\ tasks' = [tasks EXCEPT ![row][num_of_jobs[row]] = submitted + 1]
    /\ num_of_jobs' = [num_of_jobs EXCEPT ![row] = @ + 1]
    /\ total_tasks' = total_tasks + 1
    /\ submitted' = submitted + 1
    /\ UNCHANGED <<inactive_workers, run, mtx, reg, wpc, next, mpc, done, spurious>>

\* Mutant: the count of the previous batch is not cleared.
ExecuteStaleCount ==
    /\ mpc = "idle"
    /\ mpc' = "broadcast"
    /\ UNCHANGED <<rows, total_tasks, inactive_workers, run, mtx, reg, wpc, next,
                   submitted, done, spurious>>

alt_execute_jobs ==
    /\ mpc = "idle"
    /\ inactive_workers' = 0
    /\ mpc' = "broadcast"
    /\ UNCHANGED <<rows, total_tasks, run, mtx, reg, wpc, next, submitted, done,
                   spurious>>

Broadcast == /\ mpc = "broadcast"
             /\ WakeAll
             /\ mpc' = "lock"
             /\ UNCHANGED <<rows, total_tasks, inactive_workers, run, mtx, reg, next,
                            submitted, done, spurious>>

\* Mutant: "if" instead of "while".
BarrierIf == /\ mpc \in {"lock", "woken"} /\ mtx = Free
             /\ mpc' = IF mpc = "lock" /\ inactive_workers # T THEN "asleep" ELSE "reset"
             /\ UNCHANGED <<rows, total_tasks, inactive_workers, run, mtx, reg, wpc,
                            next, submitted, done, spurious>>

Barrier == /\ mpc \in {"lock", "woken"} /\ mtx = Free
           /\ mpc' = IF inactive_workers # T THEN "asleep" ELSE "reset"
           /\ UNCHANGED <<rows, total_tasks, inactive_workers, run, mtx, reg, wpc, next,
                          submitted, done, spurious>>

\* The loop of line 92: the rows are emptied one after the other.
ResetRow == /\ mpc = "reset"
            /\ \E w \in Threads :
                  /\ num_of_jobs[w] # 0 /\ \A v \in 0 .. w - 1 : num_of_jobs[v] = 0
                  /\ num_of_jobs' = [num_of_jobs EXCEPT ![w] = 0]
            /\ UNCHANGED <<tasks, job_arr_size, total_tasks, inactive_workers, run, mtx,
                           reg, wpc, next, mpc, submitted, done, spurious>>

ResetTotal == /\ mpc = "reset"
              /\ \A w \in Threads : num_of_jobs[w] = 0
              /\ total_tasks' = 0
              /\ mpc' = "idle"
              /\ UNCHANGED <<rows, inactive_workers, run, mtx, reg, wpc, next,
                             submitted, done, spurious>>

\* alt_scheduler_fin: the end of the work file, wherever it comes.
alt_scheduler_fin == /\ mpc = "idle"
                     /\ run' = FALSE
                     /\ mpc' = "fin_broadcast"
                     /\ UNCHANGED <<rows, total_tasks, inactive_workers, mtx, reg, wpc,
                                    next, submitted, done, spurious>>

\* Mutant: a signal, which wakes one worker.
FinSignal == /\ mpc = "fin_broadcast"
             /\ \E w \in Threads : At(w, "asleep") /\ Goto(w, "woken")
             /\ mpc' = "join"
             /\ UNCHANGED <<rows, total_tasks, inactive_workers, run, mtx, reg, next,
                            submitted, done, spurious>>

FinBroadcast == /\ mpc = "fin_broadcast"
                /\ WakeAll
                /\ mpc' = "join"
                /\ UNCHANGED <<rows, total_tasks, inactive_workers, run, mtx, reg, next,
                               submitted, done, spurious>>

Join == /\ mpc = "join"
        /\ AllAt("exit")
        /\ mpc' = "destroyed"
        /\ UNCHANGED <<rows, total_tasks, inactive_workers, run, mtx, reg, wpc, next,
                       submitted, done, spurious>>

SpuriousMain == /\ mpc = "asleep" /\ spurious < MaxSpurious
                /\ mpc' = "woken"
                /\ spurious' = spurious + 1
                /\ UNCHANGED <<rows, total_tasks, inactive_workers, run, mtx, reg, wpc,
                               next, submitted, done>>

\* The steps Main takes without asking for more input.
MainStep == \/ Loaded \/ Broadcast \/ Barrier \/ ResetRow \/ ResetTotal
            \/ FinBroadcast \/ Join

Terminated == mpc = "destroyed" /\ UNCHANGED vars

Next == \/ \E w \in Threads : WorkerStep(w)
        \/ MainStep \/ SpuriousMain \/ alt_submit_job \/ alt_execute_jobs \/ alt_scheduler_fin
        \/ Terminated

Spec == Init /\ [][Next]_vars

\* Threads that can run do run; how the work file goes on is up to the input.
Fairness == WF_vars(MainStep) /\ \A w \in Threads : WF_vars(WorkerStep(w))

FairSpec == Spec /\ Fairness
---------------------------------------------------------------------------
\* Properties

Running == {w \in Threads : At(w, "job")}
RowSlots(w) == 0 .. num_of_jobs[w] - 1
Queued == UNION {{tasks[w][i] : i \in RowSlots(w)} : w \in Threads}
InBatch == mpc \in {"broadcast", "lock", "asleep", "woken"}

\* Types of all variables.
TypeOK ==
    /\ tasks \in [Threads -> [Slots -> Job \union {NoJob}]]
    /\ num_of_jobs \in [Threads -> Nat] /\ job_arr_size \in [Threads -> Nat \ {0}]
    /\ total_tasks \in Nat /\ inactive_workers \in Nat /\ run \in BOOLEAN
    /\ mtx \in Threads \union {Free} /\ reg \in Nat
    /\ wpc \in [Threads -> {"top", "count", "block", "asleep", "woken", "exec", "job",
                            "exit"}]
    /\ next \in [Threads -> Nat]
    /\ mpc \in {"load", "idle", "broadcast", "lock", "asleep", "woken", "reset",
                "fin_broadcast", "join", "destroyed"}
    /\ submitted \in 0 .. MaxJobs /\ done \subseteq Job \union {NoJob}
    /\ spurious \in 0 .. MaxSpurious

\* alt_scheduler.h:26, "Returns when all jobs are done": when Main has passed the wait
\* of alt_execute_jobs every submitted job has been executed, although the condition
\* only says that as many workers came back as there are (line 86).
BatchBarrier == mpc = "reset" => 1 .. submitted \subseteq done

\* A worker reads its row, and the trie, only while Main waits for the batch: Main
\* deals and clears the rows and changes the trie without mtx.
NoJobOutsideBatch == \A w \in Threads : wpc[w] \in {"exec", "job"} => InBatch

\* Round robin dealing (line 63) shares the batch out.  The rows hold the last total_tasks
\* jobs submitted and nothing else, no job of an earlier batch and every one that is not
\* done; the jobs are in the order of their submission, one in each row before a row gets
\* its next, so that no job is in two slots; no worker gets two jobs more than another,
\* and a row never exceeds its allocation.
DealtOut ==
    mpc = "idle" \/ InBatch =>
        /\ Queued = submitted - total_tasks + 1 .. submitted
        /\ (1 .. submitted) \ done \subseteq Queued
        /\ mpc = "idle" => Queued \intersect done = {}
        /\ \A w \in Threads : \A i \in RowSlots(w) :
              tasks[w][i] = submitted - total_tasks + i * T + w + 1
        /\ \A v, w \in Threads : num_of_jobs[v] - num_of_jobs[w] <= 1
        /\ \A w \in Threads : num_of_jobs[w] <= job_arr_size[w]

\* alt_execute_jobs always returns: every worker hears the broadcast.
ExecuteReturns == InBatch ~> mpc = "idle"

\* alt_scheduler_fin always returns.
FinReturns == ~run ~> mpc = "destroyed"

\* This scheduler implements the same promise as the first one.
phase == CASE ~run -> "closed"
           [] run /\ InBatch -> "run"
           [] OTHER -> "collect"

JB == INSTANCE JobBatch WITH
          Jobs <- Job,
          queue <- IF run /\ (mpc = "idle" \/ InBatch) THEN Queued ELSE {},
          running <- {JobOf(w) : w \in Running}

\* Every step of this scheduler is a step of JobBatch or changes nothing there.
ImplementsJobBatch == JB!Spec
=============================================================================
