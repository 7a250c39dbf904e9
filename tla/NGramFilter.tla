---------------------------- MODULE NGramFilter ----------------------------
(***************************************************************************)
(* The three sets of addresses with which a search drops the n-grams it    *)
(* has reported: a sorted array of pointers (pointer_set.c), a table of    *)
(* them (hash_pointer_set.c) and a growing row of bloom filters            *)
(* (bloom_filter.c).  filter_manager.h selects one at compile time.        *)
(*                                                                         *)
(* An append returns the filter and whether the address was new.  The      *)
(* hash values of half_avalanche and murmur3 are constants.                *)
(***************************************************************************)
EXTENDS SortedArray

CONSTANTS FILTER_INIT_SIZE,   \* n-grams expected per query
          PSET_INIT,          \* capacity of a bucket's pointer set at first
          CAPACITY,           \* addresses that one bloom filter takes
          Avalanche,          \* address -> half_avalanche of it
          Bits                \* address -> the OPT_K bits of f_hash

ASSUME FilterSizes == /\ {FILTER_INIT_SIZE, PSET_INIT, CAPACITY} \subseteq Nat \ {0}
                      /\ CAPACITY <= FILTER_INIT_SIZE

Answer(filter, unique) == [filter |-> filter, unique |-> unique]

-----------------------------------------------------------------------------
(* pointer_set.c: First_Available_Slot is the length of Array.             *)

pointer_set_init(init_size) == [Array |-> <<>>, Size |-> init_size]

ps_reuse(set) == [set EXCEPT !.Array = <<>>]

ps_append(set, ptr) ==
    IF Holds(set.Array, ptr) THEN Answer(set, FALSE)
    ELSE Answer([Array |-> InsertAtIndex(set.Array, Locate(set.Array, ptr), ptr),
                 Size  |-> IF set.Size = Len(set.Array) THEN 2 * set.Size ELSE set.Size],
                TRUE)

-----------------------------------------------------------------------------
(* hash_pointer_set.c: the size is doubled from 1 until the n-grams fit,   *)
(* so that mask = size - 1 takes the hash value modulo the size.           *)

PsetSize ==
    LET size[n \in 0 .. FILTER_INIT_SIZE] ==
            IF n = 0 THEN 1
            ELSE IF size[n - 1] < FILTER_INIT_SIZE THEN 2 * size[n - 1] ELSE size[n - 1]
    IN  size[FILTER_INIT_SIZE]

hash_pset_init == [res \in 0 .. PsetSize - 1 |-> pointer_set_init(PSET_INIT)]

hash_pset_reuse(table) == [res \in DOMAIN table |-> ps_reuse(table[res])]

hash_pset_append(table, ptr) ==
    LET res == Avalanche[ptr] % PsetSize
        appended == ps_append(table[res], ptr)
    IN  Answer([table EXCEPT ![res] = appended.filter], appended.unique)

-----------------------------------------------------------------------------
(* bloom_filter.c: filters 0 .. in_use have been written to.               *)

bf_init == [bit_vector |-> {}, inserted |-> 0]

bf_insert(bloom, bits) == [bit_vector |-> bloom.bit_vector \union bits,
                           inserted   |-> bloom.inserted + 1]

bf_lookup(bloom, bits) == bits \subseteq bloom.bit_vector

bf_full(bloom) == bloom.inserted >= CAPACITY

filter_init == [arr |-> [i \in 0 .. FILTER_INIT_SIZE \div CAPACITY - 1 |-> bf_init],
                in_use |-> 0]

\* Mutant: the filter that is written to is not cleared.
f_reuse_below(filter) ==
    [arr    |-> [i \in DOMAIN filter.arr |->
                    IF i < filter.in_use THEN bf_init ELSE filter.arr[i]],
     in_use |-> 0]

f_reuse(filter) ==
    [arr    |-> [i \in DOMAIN filter.arr |->
                    IF i <= filter.in_use THEN bf_init ELSE filter.arr[i]],
     in_use |-> 0]

\* The next filter when the one in use is full, with twice as many when it was the last.
WithRoom(filter) ==
    LET size == Cardinality(DOMAIN filter.arr)
        next == filter.in_use + 1
    IN  IF ~bf_full(filter.arr[filter.in_use]) THEN filter
        ELSE [arr    |-> IF next < size THEN filter.arr
                         ELSE [i \in 0 .. 2 * size - 1 |->
                                  IF i < size THEN filter.arr[i] ELSE bf_init],
              in_use |-> next]

f_append(filter, input) ==
    LET room == WithRoom(filter)
    IN  IF \E i \in 0 .. filter.in_use : bf_lookup(filter.arr[i], Bits[input])
        THEN Answer(filter, FALSE)
        ELSE Answer([room EXCEPT !.arr[room.in_use] = bf_insert(@, Bits[input])], TRUE)

-----------------------------------------------------------------------------
(* The selected filter: WHICH_FILTER of control_panel.h.                   *)

WHICH_FILTER == {"hash_pset", "pointer_set", "bloom"}

FilterInit(which) == CASE which = "bloom"       -> filter_init
                       [] which = "pointer_set" -> pointer_set_init(FILTER_INIT_SIZE)
                       [] which = "hash_pset"   -> hash_pset_init

reuse_filter(which, filter) == CASE which = "bloom"       -> f_reuse(filter)
                                 [] which = "pointer_set" -> ps_reuse(filter)
                                 [] which = "hash_pset"   -> hash_pset_reuse(filter)

ngram_unique(which, filter, input) ==
    CASE which = "bloom"       -> f_append(filter, input)
      [] which = "pointer_set" -> ps_append(filter, input)
      [] which = "hash_pset"   -> hash_pset_append(filter, input)
=============================================================================
