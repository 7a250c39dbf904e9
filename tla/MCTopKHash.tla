----------------------------- MODULE MCTopKHash -----------------------------
(* An instance of TopKHash in which two n-grams share a bucket and the      *)
(* order of the buckets is not the alphabetical one.                        *)
EXTENDS TopKHash

ThreeWords == 1 .. 3
TwoBuckets == [word \in ThreeWords |-> <<1, 0, 1>>[word]]
=============================================================================
