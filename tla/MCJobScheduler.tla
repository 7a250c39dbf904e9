--------------------------- MODULE MCJobScheduler ---------------------------
(* Small instances of JobScheduler for TLC; the cfg files give the values.  *)
EXTENDS JobScheduler
CONSTANTS w1, w2, w3

OneWorker == {w1}
TwoWorkers == {w1, w2}
ThreeWorkers == {w1, w2, w3}

\* Bound of the run JobScheduler_emptybatch, where a worker that wakes late can take
\* slots that hold no job for as long as Main is not scheduled.
CountersBounded == next_job <= 3 /\ thread_in_cs <= 4
=============================================================================
