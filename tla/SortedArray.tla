---------------------------- MODULE SortedArray ----------------------------
(***************************************************************************)
(* The binary search that trie_node.c, topk_hash.c and the pointer sets    *)
(* each write out: on a sorted array it stops at the element, or at the    *)
(* index where the element belongs.  Indices start from 0 as in C.         *)
(***************************************************************************)
EXTENDS Integers, SequencesExt

Locate(arr, x) ==
    LET search[range \in (0 .. Len(arr)) \X (-1 .. Len(arr) - 1)] ==
            LET lower == range[1]
                upper == range[2]
                middle == (lower + upper) \div 2
            IN  IF lower > upper THEN lower
                ELSE CASE arr[middle + 1] < x -> search[<<middle + 1, upper>>]
                       [] arr[middle + 1] > x -> search[<<lower, middle - 1>>]
                       [] OTHER               -> middle
    IN  search[<<0, Len(arr) - 1>>]

Holds(arr, x) == LET i == Locate(arr, x) + 1
                 IN  i <= Len(arr) /\ arr[i] = x

\* Every element from the index on moves up by one (memmove).
InsertAtIndex(arr, index, x) == InsertAt(arr, index + 1, x)
=============================================================================
