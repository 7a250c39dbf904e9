------------------------------ MODULE JobBatch ------------------------------
(***************************************************************************)
(* What both schedulers of the program promise to main.c, as it is stated  *)
(* in jobscheduler.h and alt_scheduler.h: jobs are collected by submit,    *)
(* "execute" signals the workers to process them and "returns when all     *)
(* jobs are done", and nothing runs between two batches, when main.c       *)
(* changes the trie with functions that trie.h calls not thread safe.      *)
(*                                                                         *)
(* JobScheduler and AltScheduler are checked to implement this module.     *)
(***************************************************************************)
CONSTANT Jobs            \* identities of the jobs; a job is submitted once

VARIABLES phase,         \* "collect", "run" or "closed"
          queue,         \* jobs of the current batch
          running,       \* jobs that a worker is executing
          done           \* jobs executed since the start of the program

vars == <<phase, queue, running, done>>

Init == /\ phase = "collect"
        /\ queue = {}
        /\ running = {}
        /\ done = {}

Submit(j) == /\ phase = "collect"
             /\ j \notin queue \union done
             /\ queue' = queue \union {j}
             /\ UNCHANGED <<phase, running, done>>

Execute == /\ phase = "collect"
           /\ phase' = "run"
           /\ UNCHANGED <<queue, running, done>>

\* A job is started only while its batch runs, and only once.
Start(j) == /\ phase = "run"
            /\ j \in queue \ (running \union done)
            /\ running' = running \union {j}
            /\ UNCHANGED <<phase, queue, done>>

Finish(j) == /\ j \in running
             /\ running' = running \ {j}
             /\ done' = done \union {j}
             /\ UNCHANGED <<phase, queue>>

Return == /\ phase = "run"
          /\ queue \subseteq done
          /\ phase' = "collect"
          /\ queue' = {}
          /\ UNCHANGED <<running, done>>

\* Jobs that were submitted and never executed are dropped.
Close == /\ phase = "collect"
         /\ phase' = "closed"
         /\ queue' = {}
         /\ UNCHANGED <<running, done>>

Next == \/ \E j \in Jobs : Submit(j) \/ Start(j) \/ Finish(j)
        \/ Execute \/ Return \/ Close

Spec == Init /\ [][Next]_vars
=============================================================================
