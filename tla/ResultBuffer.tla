---------------------------- MODULE ResultBuffer ----------------------------
(***************************************************************************)
(* The buffer of one query's result (string_utils.c): the n-grams that the *)
(* search detects are appended with a NUL after each, fetched one by one   *)
(* for top k, and joined by BAR when the result is printed.  A word is one *)
(* character, and so is "-1".                                              *)
(***************************************************************************)
EXTENDS Integers, SequencesExt

CONSTANT INIT_SIZE_BUF
ASSUME BufferAssumption == INIT_SIZE_BUF \in Nat \ {0, 1}

NUL == "NUL"
SPACE == "SPACE"
BAR == "BAR"               \* |
NONE == "NONE"             \* -1
JUNK == "JUNK"             \* what malloc and realloc leave in new memory

result_init == [output_buffer |-> [i \in 0 .. INIT_SIZE_BUF - 1 |-> JUNK],
                first_available_slot |-> 0]

Bufsize(r) == Cardinality(DOMAIN r.output_buffer)

\* The buffer is doubled when there is no slot for the next character.
Doubled(r) == IF r.first_available_slot < Bufsize(r) THEN r
              ELSE [r EXCEPT !.output_buffer =
                                [i \in 0 .. 2 * Bufsize(r) - 1 |->
                                    IF i < Bufsize(r) THEN @[i] ELSE JUNK]]

Put(r, char) ==
    LET room == Doubled(r)
    IN  [output_buffer |-> [room.output_buffer EXCEPT ![r.first_available_slot] = char],
         first_available_slot |-> r.first_available_slot + 1]

\* The words of an n-gram with single spaces between them.
Spaced(words) == [i \in 1 .. 2 * Len(words) - 1 |->
                     IF i % 2 = 1 THEN words[(i + 1) \div 2] ELSE SPACE]

result_ngram_detected(r, words) ==
    LET chars == Append(Spaced(words), NUL)
        after[n \in 0 .. Len(chars)] == IF n = 0 THEN r ELSE Put(after[n - 1], chars[n])
    IN  after[Len(chars)]

\* Mutant: the result of an earlier query stays in a buffer that gets none.
CompletedSilently(r) == r

result_completed(r) ==
    [r EXCEPT !.output_buffer =
        IF r.first_available_slot = 0
        THEN [@ EXCEPT ![0] = NONE, ![1] = NUL]
        ELSE [@ EXCEPT ![r.first_available_slot - 1] = NUL]]

\* The C string that starts at the index.
StringAt(r, start) ==
    LET end == Min({i \in DOMAIN r.output_buffer : i >= start /\ r.output_buffer[i] = NUL}
                       \union {Bufsize(r)})
    IN  [i \in 1 .. end - start |-> r.output_buffer[start + i - 1]]

\* What the calls of result_fetch_ngram return, from the first to the one that finds no
\* NUL before the first available slot and sets start_ngram back to 0.
Fetched(r) ==
    LET from[start \in 0 .. r.first_available_slot] ==
            LET ends == {i \in start .. r.first_available_slot - 1 :
                            r.output_buffer[i] = NUL}
            IN  IF ends = {} THEN <<>>
                ELSE <<StringAt(r, start)>> \o from[Min(ends) + 1]
    IN  from[0]

\* Every NUL but the last becomes a separator, a NUL ends the buffer, and the result is
\* free for the next batch.
result_format(r) ==
    LET room == Doubled(r)
        fas == r.first_available_slot
    IN  [output_buffer |-> [i \in DOMAIN room.output_buffer |->
                               CASE fas > 0 /\ i = fas -> NUL
                                 [] i < fas - 1 /\ r.output_buffer[i] = NUL -> BAR
                                 [] OTHER -> room.output_buffer[i]],
         first_available_slot |-> 0]
=============================================================================
