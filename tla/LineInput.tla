----------------------------- MODULE LineInput -----------------------------
(***************************************************************************)
(* One line of the line manager (string_utils.c), which is filled from an  *)
(* init file or a work file again and again: the characters come in pieces *)
(* from fgets, the buffer is doubled until it holds the newline, line_parse*)
(* cuts it into words, and the trie takes the words one by one.            *)
(*                                                                         *)
(* Which line of the manager is filled next is the subject of NGramBatch.  *)
(***************************************************************************)
EXTENDS Integers, SequencesExt

CONSTANTS INIT_SIZE_BUF,
          Files            \* the files: lm_status is "I" or "Q", text is characters

ASSUME BufferAssumption == INIT_SIZE_BUF \in Nat /\ INIT_SIZE_BUF >= 4

NUL == "NUL"
NEWLINE == "NEWLINE"
SPACE == "SPACE"
JUNK == "JUNK"             \* what malloc and realloc leave in new memory
NULL == -1                 \* for pointers into the buffer, which are indices here

DynamicLine == <<"D", "Y", "N", "A", "M", "I", "C", NEWLINE>>
StaticLine == <<"S", "T", "A", "T", "I", "C", NEWLINE>>
Headers == {DynamicLine, StaticLine}

\* The newlines behind the first m characters of a file, and its line there, which ends
\* with the first of them.
Newlines(f, m) == {i \in m + 1 .. Len(f.text) : f.text[i] = NEWLINE}
FullLine(f, m) == SubSeq(f.text, m + 1, Min(Newlines(f, m)))

\* Files are text, without NUL, and only the first line of an init file is a header.
ASSUME FilesAssumption ==
    \A f \in Files :
        /\ f \in [lm_status : {"I", "Q"}, text : Seq(STRING \ {NUL, JUNK})]
        /\ f.lm_status = "I" => \A m \in Newlines(f, 0) :
                                  Newlines(f, m) # {} => FullLine(f, m) \notin Headers

VARIABLES
    file,                  \* the file that is read
    input,                 \* its characters that are not read yet
    header,                \* the header that this fetch has passed: "none", "D" or "S"
    file_status,           \* line_manager: S, D, or whatever was in memory
    line,                  \* the line, see Line
    words,                 \* the words of the line that line_fetch_word has returned
    taken,                 \* what was taken from the line so far, see Given
    given,                 \* history: the lines given to the program, see Given
    pc

vars == <<file, input, header, file_status, line, words, taken, given, pc>>

Indices == 0 .. INIT_SIZE_BUF - 1

\* line_init leaves all but the size of the buffer undefined.
Init == /\ file \in Files
        /\ input = file.text
        /\ header = "none"
        /\ file_status \in (IF file.lm_status = "I" THEN {"S", "D", JUNK} ELSE {JUNK})
        /\ \E position \in Indices, start \in {NULL, 0} :
              line = [buffer |-> [i \in Indices |-> JUNK], bufsize |-> INIT_SIZE_BUF,
                      line_status |-> JUNK, k |-> -1, line_end |-> 0, n_gram_position |-> 0,
                      word_position |-> position, word_start |-> start]
        /\ words = <<>> /\ taken = <<>> /\ given = <<>>
        /\ pc = "fetch"

-----------------------------------------------------------------------------
(* Strings in the buffer.                                                  *)

Bufsize == line.bufsize

\* The least of the indices, Bufsize if there is none.
First(indices) == Min(indices \union {Bufsize})

\* The end of the word or string at i.
End(i) == First({j \in i .. Bufsize - 1 : line.buffer[j] = NUL})

Word(i) == [n \in 1 .. End(i) - i |-> line.buffer[i + n - 1]]

\* while(buffer[i]=='\0' && i<line_end) i++
SkipNUL(i) == First({j \in i .. Bufsize - 1 : j >= line.line_end \/ line.buffer[j] # NUL})

\* Mutant: a string shorter than the buffer is taken for a line.
shorter_phrase == End(0) < Bufsize - 1 \/ \E i \in 0 .. End(0) - 1 : line.buffer[i] = NEWLINE

complete_phrase == \E i \in 0 .. End(0) - 1 : line.buffer[i] = NEWLINE

-----------------------------------------------------------------------------
(* Reading a line.                                                         *)

\* fgets(&buffer[at], size, input): at most size - 1 characters, the first newline
\* included, and a NUL behind them.
Chunk(size) ==
    SubSeq(input, 1, Min({size - 1, Len(input)}
                            \union {i \in DOMAIN input : input[i] = NEWLINE}))

fgets(buffer, bufsize, at, size) ==
    LET to == at + Len(Chunk(size))
    IN  /\ input' = SubSeq(input, Len(Chunk(size)) + 1, Len(input))
        /\ line' = [line EXCEPT
                       !.buffer = [i \in DOMAIN buffer \union at .. to |->
                                      IF i = to THEN NUL
                                      ELSE IF i \in at .. to THEN Chunk(size)[i - at + 1]
                                      ELSE buffer[i]],
                       !.bufsize = bufsize]

\* Mutant: the two characters in front are not subtracted.
FetchFirstWide ==
    /\ pc = "fetch" /\ input # <<>>
    /\ IF file.lm_status = "I"
       THEN fgets([line.buffer EXCEPT ![0] = "A", ![1] = SPACE], Bufsize, 2, Bufsize)
       ELSE fgets(line.buffer, Bufsize, 0, Bufsize)
    /\ pc' = "phrase"
    /\ UNCHANGED <<file, header, file_status, words, taken, given>>

\* A line of an init file is read behind "A ".
FetchFirst ==
    /\ pc = "fetch" /\ input # <<>>
    /\ IF file.lm_status = "I"
       THEN fgets([line.buffer EXCEPT ![0] = "A", ![1] = SPACE], Bufsize, 2, Bufsize - 2)
       ELSE fgets(line.buffer, Bufsize, 0, Bufsize)
    /\ pc' = "phrase"
    /\ UNCHANGED <<file, header, file_status, words, taken, given>>

\* The first fgets finds the end of the file: -1.
EndOfFile == /\ pc = "fetch" /\ input = <<>>
             /\ pc' = "closed"
             /\ UNCHANGED <<file, input, header, file_status, line, words, taken, given>>

Doubled == [i \in 0 .. 2 * Bufsize - 1 |-> IF i < Bufsize THEN line.buffer[i] ELSE JUNK]

\* Mutant: the rest of the line is put behind the NUL of the first part.
GrowBehindNUL == /\ pc = "phrase" /\ ~complete_phrase /\ input # <<>>
                 /\ fgets(Doubled, 2 * Bufsize, Bufsize, Bufsize)
                 /\ UNCHANGED <<file, header, file_status, words, taken, given, pc>>

\* As long as there is no newline: realloc, and the next fgets begins at the NUL.
Grow == /\ pc = "phrase" /\ ~complete_phrase /\ input # <<>>
        /\ fgets(Doubled, 2 * Bufsize, Bufsize - 1, Bufsize + 1)
        /\ UNCHANGED <<file, header, file_status, words, taken, given, pc>>

\* The end of the file inside a line: Qline_fetch returns -1, Iline_fetch returns false,
\* which is 0, "a line was read", and line_parse gets a string without a newline.
EndInsideLine ==
    /\ pc = "phrase" /\ ~complete_phrase /\ input = <<>>
    /\ line' = [line EXCEPT !.buffer = Doubled, !.bufsize = 2 * Bufsize]
    /\ pc' = IF file.lm_status = "I" THEN "parse" ELSE "closed"
    /\ UNCHANGED <<file, input, header, file_status, words, taken, given>>

\* Mutant: the status is kept only when the file is STATIC.
HeaderStatic ==
    LET status == IF Word(2) = DynamicLine THEN "D" ELSE "S"
        accepted == header = "none" \/ (header = "D" /\ status = "S")
    IN  /\ pc = "phrase" /\ complete_phrase /\ file.lm_status = "I"
        /\ Word(2) \in Headers
        /\ header' = IF accepted THEN status ELSE header
        /\ file_status' = IF accepted /\ status = "S" THEN status ELSE file_status
        /\ pc' = IF accepted THEN "fetch" ELSE "closed"
        /\ UNCHANGED <<file, input, line, words, taken, given>>

\* A header sets the status and the next line is fetched in the same call: after DYNAMIC
\* it may be STATIC; any other second header is taken for the end of the file.
Header ==
    LET status == IF Word(2) = DynamicLine THEN "D" ELSE "S"
        accepted == header = "none" \/ (header = "D" /\ status = "S")
    IN  /\ pc = "phrase" /\ complete_phrase /\ file.lm_status = "I"
        /\ Word(2) \in Headers
        /\ header' = IF accepted THEN status ELSE header
        /\ file_status' = IF accepted THEN status ELSE file_status
        /\ pc' = IF accepted THEN "fetch" ELSE "closed"
        /\ UNCHANGED <<file, input, line, words, taken, given>>

InitLine == /\ pc = "phrase" /\ complete_phrase /\ file.lm_status = "I"
            /\ Word(2) \notin Headers
            /\ line' = [line EXCEPT !.line_status = "A"]
            /\ pc' = "parse"
            /\ UNCHANGED <<file, input, header, file_status, words, taken, given>>

ValidTask == \/ line.buffer[0] = "F"
             \/ line.buffer[0] \in {"A", "D", "Q"} /\ line.buffer[1] = SPACE

\* strtol of numbers of one digit, 0 when there is none; -1 for "F" alone.
Digit == [d \in {"1", "2", "3"} |-> IF d = "1" THEN 1 ELSE IF d = "2" THEN 2 ELSE 3]
KOf == LET i == First({j \in 2 .. Bufsize - 1 : line.buffer[j] # SPACE})
       IN  IF line.buffer[1] # SPACE THEN -1
           ELSE IF line.buffer[i] \in DOMAIN Digit THEN Digit[line.buffer[i]] ELSE 0

\* A query is parsed by its search, any other line at once.
WorkLine ==
    /\ pc = "phrase" /\ complete_phrase /\ file.lm_status = "Q"
    /\ IF ValidTask
       THEN /\ line' = [line EXCEPT !.line_status = line.buffer[0],
                                    !.k = IF line.buffer[0] = "F" THEN KOf ELSE @]
            /\ pc' = "parse"
       ELSE /\ pc' = "closed"
            /\ UNCHANGED line
    /\ UNCHANGED <<file, input, header, file_status, words, taken, given>>

\* What the program does with the line: main.c:66 inserts what comes from an init file
\* whatever its line_status, which a line that the file ends inside does not set.
Operation == IF file.lm_status = "I" THEN "A" ELSE line.line_status

\* Spaces and the first newline become NUL.  The loop does not stop at a NUL: behind a
\* string without a newline it goes through what earlier strings left in the buffer.  When
\* there is no newline either, it reads what was never written, JUNK, and on behind the
\* buffer; what happens then is undefined: the model stops there.
line_parse ==
    LET end == First({i \in DOMAIN line.buffer : line.buffer[i] = NEWLINE})
        cut(i) == i = end \/ i = Bufsize - 1 \/ (i < end /\ line.buffer[i] = SPACE)
    IN  /\ pc = "parse"
        /\ IF end = Bufsize THEN pc' = "overrun" /\ UNCHANGED line
           ELSE /\ line' = [line EXCEPT
                               !.buffer = [i \in DOMAIN line.buffer |->
                                              IF cut(i) THEN NUL ELSE line.buffer[i]],
                               !.line_end = end, !.n_gram_position = 0]
                /\ pc' = IF Operation = "F" THEN "taken" ELSE "ngram"
        /\ UNCHANGED <<file, input, header, file_status, words, taken, given>>

-----------------------------------------------------------------------------
(* Taking the words of the line.                                           *)

\* The index of the next word behind n_gram_position, NULL if there is none.
NextNGram == LET from == End(line.n_gram_position)
                 next == SkipNUL(from)
             IN  IF from < line.line_end /\ next < line.line_end THEN next ELSE NULL

\* line_fetch_ngram; when it finds nothing, word_position keeps its value.
WithNGram ==
    IF NextNGram # NULL
    THEN [line EXCEPT !.n_gram_position = NextNGram, !.word_start = NULL,
                      !.word_position = NextNGram]
    ELSE [line EXCEPT !.n_gram_position = IF End(line.n_gram_position) < line.line_end
                                             THEN line.line_end ELSE @,
                      !.word_start = NULL]

\* Insertion and deletion fetch one n-gram and do not look at what is returned.  (On a
\* static trie they return before they take a word; the words play no part there.)
line_fetch_ngram ==
    /\ pc = "ngram" /\ Operation \in {"A", "D"}
    /\ line' = WithNGram
    /\ pc' = "word"
    /\ UNCHANGED <<file, input, header, file_status, words, taken, given>>

\* The first call after line_fetch_ngram returns the word at word_position, the others
\* the one behind it.
NextWord == IF line.word_start = NULL /\ line.buffer[line.word_position] # NUL
            THEN line.word_position
            ELSE LET next == SkipNUL(End(line.word_position))
                 IN  IF next < line.line_end THEN next ELSE NULL

line_fetch_word ==
    /\ pc = "word" /\ NextWord # NULL
    /\ line' = [line EXCEPT !.word_start = NextWord, !.word_position = NextWord]
    /\ words' = Append(words, Word(NextWord))
    /\ UNCHANGED <<file, input, header, file_status, taken, given, pc>>

\* No word is left.  The words of a deletion are taken twice, by trie_mark_deleted and
\* at the end of the batch by trie_delete, which resets n_gram_position.
LastWord ==
    LET twice == Operation = "D" /\ taken = <<>>
    IN  /\ pc = "word" /\ NextWord = NULL
        /\ line' = [line EXCEPT !.word_start = NULL, !.word_position = 0,
                                !.n_gram_position = IF twice THEN 0 ELSE @]
        /\ taken' = Append(taken, words)
        /\ words' = <<>>
        /\ pc' = IF twice THEN "ngram" ELSE "taken"
        /\ UNCHANGED <<file, input, header, file_status, given>>

\* The words from i to the end of the line, as a search that finds every word goes
\* through them (current_word).
WordsFrom(i) ==
    LET from[j \in 0 .. Bufsize] == IF j >= line.line_end THEN <<>>
                                    ELSE <<Word(j)>> \o from[SkipNUL(End(j))]
    IN  from[i]

\* A search begins a walk at each n-gram that line_fetch_ngram returns.
NextWalk == /\ pc = "ngram" /\ Operation = "Q"
            /\ line' = WithNGram
            /\ taken' = IF NextNGram = NULL THEN taken
                        ELSE Append(taken, WordsFrom(NextNGram))
            /\ pc' = IF NextNGram = NULL THEN "taken" ELSE pc
            /\ UNCHANGED <<file, input, header, file_status, words, given>>

\* The program is through with the line: what it did, the k of "F", and the words taken,
\* once for "A", twice for "D", from each walk for "Q".
Given(status, k, lists) == [status |-> status, k |-> k, taken |-> lists]

LineDone == /\ pc = "taken"
            /\ given' = Append(given, Given(Operation, IF Operation = "F" THEN line.k ELSE -1, taken))
            /\ taken' = <<>>
            /\ header' = "none"
            /\ pc' = "fetch"
            /\ UNCHANGED <<file, input, file_status, line, words>>

Stopped == pc \in {"closed", "overrun"} /\ UNCHANGED vars

Next == \/ FetchFirst \/ EndOfFile \/ Grow \/ EndInsideLine
        \/ Header \/ InitLine \/ WorkLine \/ line_parse
        \/ line_fetch_ngram \/ line_fetch_word \/ LastWord \/ NextWalk
        \/ LineDone
        \/ Stopped

Spec == Init /\ [][Next]_vars

-----------------------------------------------------------------------------
(* What a file says, read in one go.                                       *)

\* The first index from i on where there is no space, where there is one; behind the text
\* if there is none.
FirstOfWord(text, i) == Min({j \in i .. Len(text) : text[j] # SPACE} \union {Len(text) + 1})
FirstSpace(text, i) == Min({j \in i .. Len(text) : text[j] = SPACE} \union {Len(text) + 1})

\* The words of a text, from each index on.
Words(text) ==
    LET from[i \in 1 .. Len(text) + 1] ==
            LET start == FirstOfWord(text, i)
                end == FirstSpace(text, start)
            IN  IF start > Len(text) THEN <<>>
                ELSE <<SubSeq(text, start, end - 1)>> \o from[end]
    IN  from

FromEach(seq) == [i \in DOMAIN seq |-> SubSeq(seq, i, Len(seq))]

\* What a line asks for; its first character is the task.
Valid(text) == /\ text # <<>>
               /\ \/ text[1] = "F"
                  \/ text[1] \in {"A", "D", "Q"} /\ Len(text) > 1 /\ text[2] = SPACE

Task(text) ==
    LET ws == Words(text)[2]
        number == IF ws # <<>> /\ ws[1][1] \in DOMAIN Digit THEN Digit[ws[1][1]] ELSE 0
    IN  CASE text[1] = "F" -> Given("F", IF Len(text) > 1 /\ text[2] = SPACE THEN number ELSE -1,
                                    <<>>)
          [] text[1] = "Q" -> Given("Q", -1, FromEach(ws))
          [] text[1] = "A" -> Given("A", -1, <<ws>>)
          [] text[1] = "D" -> Given("D", -1, <<ws, ws>>)

HasHeader(f) == f.lm_status = "I" /\ Newlines(f, 0) # {} /\ FullLine(f, 0) \in Headers

\* The line behind the first m characters.  One of an init file asks for an insertion.
Whole(f, text) == IF f.lm_status = "I" THEN <<"A", SPACE>> \o text ELSE text
LineBehind(f, m) == Whole(f, SubSeq(f.text, m + 1, Min(Newlines(f, m)) - 1))

\* What the lines behind the first m characters ask for: all lines of an init file but the
\* header, and the lines of a work file before an invalid one.
LinesBehind(f) ==
    LET behind[m \in 0 .. Len(f.text)] ==
            IF Newlines(f, m) = {} \/ ~Valid(LineBehind(f, m)) THEN <<>>
            ELSE (IF m = 0 /\ HasHeader(f) THEN <<>> ELSE <<Task(LineBehind(f, m))>>)
                     \o behind[Min(Newlines(f, m))]
    IN  behind

Expected(f) == LinesBehind(f)[0]

Unfinished(f) == f.text # <<>> /\ Last(f.text) # NEWLINE

HeaderOf(f) == IF ~HasHeader(f) THEN "none" ELSE IF FullLine(f, 0) = DynamicLine THEN "D" ELSE "S"

\* The newline of the header is still in the buffer when the file ends inside a line: no
\* line behind the header, the unfinished one included, was long enough to reach it.
LineLength(f, m) == Min(Newlines(f, m) \union {Len(f.text)}) - m
HeaderEndRemains(f) == /\ HasHeader(f) /\ Unfinished(f)
                       /\ \A m \in Newlines(f, 0) : LineLength(f, m) < Min(Newlines(f, 0)) - 1

-----------------------------------------------------------------------------
(* Properties.                                                             *)

\* Types; nothing is written outside the buffer, and the positions stay inside of it.
TypeOK == /\ DOMAIN line.buffer = 0 .. Bufsize - 1
          /\ {line.line_end, line.n_gram_position, line.word_position} \subseteq
                 0 .. Bufsize - 1
          /\ line.word_start \in {NULL} \union 0 .. Bufsize - 1
          /\ line.k \in -1 .. 3
          /\ file_status \in {"S", "D", JUNK} /\ header \in {"none", "S", "D"}
          /\ pc \in {"fetch", "phrase", "parse", "ngram", "word", "taken", "closed", "overrun"}

NoWords(g) == g.status \in {"A", "D"} /\ <<>> \in ToSet(g.taken)

\* The program gets the lines of the file in order, none twice and none skipped, each with
\* its task and its words, whatever the pieces in which fgets returned it, the spaces
\* between the words and the line that was in the buffer before; at the end of the file
\* it has got all of them.  It gets a line that the file does not have in one case only:
\* line_parse finds the newline of the header behind a line that the file ends inside.
\* "A" and "D" lines without a word are another matter, see NoNGramsNoWords.
LinesAsWritten ==
    LET expected == Expected(file)
        whole == Len(expected) + IF HeaderEndRemains(file) THEN 1 ELSE 0
    IN  /\ Len(given) <= whole
        /\ \A i \in DOMAIN given \intersect DOMAIN expected :
              /\ given[i].status = expected[i].status /\ given[i].k = expected[i].k
              /\ NoWords(expected[i]) \/ given[i].taken = expected[i].taken
        /\ pc = "closed" => Len(given) = whole

\* The status of the trie is that of the header, if there is one, before the first line
\* is given: main.c:72 compresses the trie when it is S.
StatusOfHeader == given # <<>> /\ HeaderOf(file) # "none" => file_status = HeaderOf(file)

\* line_parse reads what was never written only when an init file ends inside a line and
\* the newline of its header is gone.
OverrunOnlyUnfinished ==
    pc = "overrun" => file.lm_status = "I" /\ Unfinished(file) /\ ~HeaderEndRemains(file)

\* string_utils.c:71, "no ngrams no words": nothing is taken from a line without words.
NoNGramsNoWords ==
    \A i \in DOMAIN given \intersect DOMAIN Expected(file) :
        NoWords(Expected(file)[i]) => given[i].taken = Expected(file)[i].taken
=============================================================================
