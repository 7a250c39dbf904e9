-------------------------- MODULE LineInputProofs --------------------------
(* Theorems about LineInput: for every buffer size and all files, nothing   *)
(* is written outside the buffer, and the program gets the lines of the     *)
(* file in order, each with its words.                                      *)
EXTENDS LineInput, DataLemmas

---------------------------------------------------------------------------
(* What a file says.                                                        *)

\* Where a word begins, and where it ends.
LEMMA FirstOfWordIs ==
  ASSUME NEW X, NEW text \in Seq(X), NEW i \in 1 .. Len(text) + 1
  PROVE  /\ FirstOfWord(text, i) \in i .. Len(text) + 1
         /\ FirstOfWord(text, i) <= Len(text) => text[FirstOfWord(text, i)] # SPACE
         /\ \A j \in i .. FirstOfWord(text, i) - 1 : text[j] = SPACE
  <1> DEFINE n == Len(text) + 1
             S == {j \in i .. Len(text) : text[j] # SPACE}
             first == Min(S \union {n})
  <1>0. Len(text) \in Nat
    OBVIOUS
  <1>1. n \in Nat /\ S \in SUBSET (0 .. n)
    BY <1>0
  <1>2. first \in S \union {n} /\ first \in 0 .. n /\ \A y \in S : first <= y
    <2> HIDE DEF n, S
    <2> QED
      BY <1>1, FirstOrEnd
  <1>3. FirstOfWord(text, i) = first
    BY DEF FirstOfWord
  <1> HIDE DEF first
  <1>4. \A j \in i .. first - 1 : j \in i .. Len(text) /\ ~(first <= j)
    BY <1>0, <1>2
  <1> QED
    BY <1>0, <1>2, <1>3, <1>4

\* The next space of a text, or the place behind its end.
LEMMA FirstSpaceIs ==
  ASSUME NEW X, NEW text \in Seq(X), NEW i \in 1 .. Len(text) + 1
  PROVE  /\ FirstSpace(text, i) \in i .. Len(text) + 1
         /\ FirstSpace(text, i) <= Len(text) => text[FirstSpace(text, i)] = SPACE
         /\ \A j \in i .. FirstSpace(text, i) - 1 : text[j] # SPACE
  <1> DEFINE n == Len(text) + 1
             S == {j \in i .. Len(text) : text[j] = SPACE}
             first == Min(S \union {n})
  <1>0. Len(text) \in Nat
    OBVIOUS
  <1>1. n \in Nat /\ S \in SUBSET (0 .. n)
    BY <1>0
  <1>2. first \in S \union {n} /\ first \in 0 .. n /\ \A y \in S : first <= y
    <2> HIDE DEF n, S
    <2> QED
      BY <1>1, FirstOrEnd
  <1>3. FirstSpace(text, i) = first
    BY DEF FirstSpace
  <1> HIDE DEF first
  <1>4. \A j \in i .. first - 1 : j \in i .. Len(text) /\ ~(first <= j)
    BY <1>0, <1>2
  <1> QED
    BY <1>0, <1>2, <1>3, <1>4

\* The words of a text are its first word and those behind it.
LEMMA WordsUnfold ==
  ASSUME NEW X, NEW text \in Seq(X)
  PROVE  \A i \in 1 .. Len(text) + 1 :
           /\ Words(text)[i] \in Seq(Seq(X))
           /\ Words(text)[i] =
                 IF FirstOfWord(text, i) > Len(text) THEN <<>>
                 ELSE <<SubSeq(text, FirstOfWord(text, i),
                               FirstSpace(text, FirstOfWord(text, i)) - 1)>>
                         \o Words(text)[FirstSpace(text, FirstOfWord(text, i))]
  <1> DEFINE n == Len(text) + 1
             D == 1 .. n
             start(i) == FirstOfWord(text, i)
             end(i) == FirstSpace(text, start(i))
             stop == {i \in D : start(i) > Len(text)}
             row == [i \in D |-> <<SubSeq(text, start(i), end(i) - 1)>>]
             next == [i \in D |-> end(i)]
             from(f) == [i \in D |-> IF start(i) > Len(text) THEN <<>>
                                     ELSE <<SubSeq(text, start(i), end(i) - 1)>> \o f[end(i)]]
  <1>1. n \in Nat /\ D \in SUBSET (0 .. n)
    OBVIOUS
  <1>2. ASSUME NEW i \in D
        PROVE  /\ start(i) \in i .. n /\ end(i) \in start(i) .. n
               /\ start(i) <= Len(text) => text[start(i)] # SPACE
               /\ end(i) <= Len(text) => text[end(i)] = SPACE
    <2>1. start(i) \in i .. n /\ (start(i) <= Len(text) => text[start(i)] # SPACE)
      BY FirstOfWordIs
    <2>2. start(i) \in 1 .. Len(text) + 1
      <3> HIDE DEF start
      <3> QED
        BY <2>1
    <2> HIDE DEF start
    <2>3. FirstSpace(text, start(i)) \in start(i) .. n
          /\ (FirstSpace(text, start(i)) <= Len(text) => text[FirstSpace(text, start(i))] = SPACE)
      BY <2>2, FirstSpaceIs
    <2> QED
      BY <2>1, <2>3
  <1>3. row \in [D -> Seq(Seq(X))]
    <2> SUFFICES ASSUME NEW i \in D
                 PROVE  SubSeq(text, start(i), end(i) - 1) \in Seq(X)
      OBVIOUS
    <2>1. start(i) \in 1 .. n /\ end(i) \in 1 .. n
      <3>1. start(i) \in i .. n /\ end(i) \in start(i) .. n /\ i \in 1 .. n /\ n \in Nat
        BY <1>1, <1>2
      <3> HIDE DEF start, end, n
      <3> QED
        BY <3>1
    <2>2. \A j \in start(i) .. end(i) - 1 : j \in 1 .. Len(text)
      <3> HIDE DEF start, end
      <3> QED
        BY <2>1
    <2>3. \A j \in start(i) .. end(i) - 1 : text[j] \in X
      BY <2>2, ElementOfSeq
    <2>4. start(i) \in Int /\ end(i) - 1 \in Int
      <3> HIDE DEF start, end
      <3> QED
        BY <2>1
    <2> HIDE DEF start, end
    <2> QED
      BY <2>3, <2>4, SubSeqProperties
  <1>4. \A i \in D \ stop : next[i] \in D /\ next[i] > i
    <2> SUFFICES ASSUME NEW i \in D, ~(start(i) > Len(text))
                 PROVE  end(i) \in D /\ end(i) > i
      OBVIOUS
    <2> HIDE DEF start, end
    <2>1. start(i) <= Len(text) /\ start(i) \in i .. n /\ end(i) \in start(i) .. n
      BY <1>2
    <2>2. end(i) # start(i)
      BY <1>2, <2>1
    <2> QED
      BY <2>1, <2>2
  <1>5. PICK f \in [D -> Seq(Seq(X))] : ListFrom(f, D, stop, row, next)
    <2> HIDE DEF n, D, stop, row, next
    <2> QED
      BY <1>1, <1>3, <1>4, ListRecursion
  <1>6. f = from(f)
    <2>1. f = [i \in D |-> IF i \in stop THEN <<>> ELSE row[i] \o f[next[i]]]
      BY <1>5 DEF ListFrom
    <2> HIDE DEF start, end, n, D
    <2> QED
      BY <2>1
  <1>7. Words(text) = CHOOSE g : g = from(g)
    BY Zenon DEF Words
  <1>8. Words(text) = from(Words(text))
    <2> HIDE DEF from
    <2> QED
      BY <1>6, <1>7, Zenon
  <1>9. Words(text) \in [D -> Seq(Seq(X))]
    <2>1. ListFrom(Words(text), D, stop, row, next)
      <3> HIDE DEF start, end, n, D
      <3> QED
        BY <1>8 DEF ListFrom
    <2> HIDE DEF n, D, stop, row, next, from
    <2> QED
      BY <1>1, <1>3, <1>4, <2>1, ListTyped
  <1> QED
    BY <1>8, <1>9, Zenon

\* The characters of a file, and the sequence of its lines.
Char == STRING \ {NUL, JUNK}
Asked(f) == {Task(LineBehind(f, m)) : m \in 0 .. Len(f.text)}

\* A file is a text of characters with one of two kinds of content.
LEMMA FileText ==
  ASSUME NEW f \in Files
  PROVE  /\ f.text \in Seq(Char) /\ Len(f.text) \in Nat
         /\ f.lm_status \in {"I", "Q"}
         /\ \A i \in 1 .. Len(f.text) : f.text[i] \in Char
  <1>1. f \in [lm_status : {"I", "Q"}, text : Seq(Char)]
    BY FilesAssumption DEF Char
  <1>2. f.text \in Seq(Char) /\ f.lm_status \in {"I", "Q"}
    BY <1>1
  <1> QED
    BY <1>2, ElementOfSeq, LenProperties

\* The end of a line.
LEMMA NewlineIs ==
  ASSUME NEW f \in Files, NEW m \in 0 .. Len(f.text), Newlines(f, m) # {}
  PROVE  /\ Min(Newlines(f, m)) \in m + 1 .. Len(f.text)
         /\ f.text[Min(Newlines(f, m))] = NEWLINE
         /\ \A i \in m + 1 .. Min(Newlines(f, m)) - 1 : f.text[i] # NEWLINE
  <1>0. Len(f.text) \in Nat
    BY FileText
  <1>1. Newlines(f, m) \in SUBSET Nat
    BY <1>0 DEF Newlines
  <1> DEFINE n == Min(Newlines(f, m))
  <1>2. n \in Newlines(f, m) /\ \A y \in Newlines(f, m) : n <= y
    BY <1>1, MinOfSet
  <1> HIDE DEF n
  <1>3. n \in m + 1 .. Len(f.text) /\ f.text[n] = NEWLINE
    BY <1>2 DEF Newlines
  <1>4. ASSUME NEW i \in m + 1 .. n - 1
        PROVE  f.text[i] # NEWLINE
    <2>1. i \in m + 1 .. Len(f.text) /\ ~(n <= i)
      BY <1>0, <1>3
    <2> QED
      BY <1>2, <2>1 DEF Newlines
  <1> QED
    BY <1>3, <1>4 DEF n

\* The lines of a file are its first line and those behind it.
LEMMA LinesUnfold ==
  ASSUME NEW f \in Files
  PROVE  \A m \in 0 .. Len(f.text) :
           /\ LinesBehind(f)[m] \in Seq(Asked(f))
           /\ LinesBehind(f)[m] =
                 IF Newlines(f, m) = {} \/ ~Valid(LineBehind(f, m)) THEN <<>>
                 ELSE (IF m = 0 /\ HasHeader(f) THEN <<>> ELSE <<Task(LineBehind(f, m))>>)
                          \o LinesBehind(f)[Min(Newlines(f, m))]
  <1> DEFINE n == Len(f.text)
             D == 0 .. n
             none(m) == Newlines(f, m) = {} \/ ~Valid(LineBehind(f, m))
             item(m) == IF m = 0 /\ HasHeader(f) THEN <<>> ELSE <<Task(LineBehind(f, m))>>
             end(m) == Min(Newlines(f, m))
             stop == {m \in D : none(m)}
             row == [m \in D |-> item(m)]
             next == [m \in D |-> end(m)]
             behind(g) == [m \in D |-> IF none(m) THEN <<>> ELSE item(m) \o g[end(m)]]
  <1>1. n \in Nat /\ D \in SUBSET (0 .. n)
    BY FileText
  <1>2. row \in [D -> Seq(Asked(f))]
    <2>1. ASSUME NEW m \in D
          PROVE  item(m) \in Seq(Asked(f))
      <3>1. Task(LineBehind(f, m)) \in Asked(f)
        BY DEF Asked
      <3> QED
        BY <3>1
    <2> HIDE DEF item
    <2> QED
      BY <2>1
  <1>3. \A m \in D \ stop : next[m] \in D /\ next[m] > m
    <2> SUFFICES ASSUME NEW m \in D, ~none(m)
                 PROVE  end(m) \in D /\ end(m) > m
      OBVIOUS
    <2>1. end(m) \in m + 1 .. n
      BY NewlineIs
    <2> HIDE DEF end
    <2> QED
      BY <1>1, <2>1
  <1>4. PICK g \in [D -> Seq(Asked(f))] : ListFrom(g, D, stop, row, next)
    <2> HIDE DEF n, D, stop, row, next
    <2> QED
      BY <1>1, <1>2, <1>3, ListRecursion
  <1>5. g = behind(g)
    <2>1. g = [m \in D |-> IF m \in stop THEN <<>> ELSE row[m] \o g[next[m]]]
      BY <1>4 DEF ListFrom
    <2> HIDE DEF none, item, end, n, D
    <2> QED
      BY <2>1
  <1>6. LinesBehind(f) = CHOOSE h : h = behind(h)
    BY Zenon DEF LinesBehind
  <1>7. LinesBehind(f) = behind(LinesBehind(f))
    <2> HIDE DEF behind
    <2> QED
      BY <1>5, <1>6, Zenon
  <1>8. LinesBehind(f) \in [D -> Seq(Asked(f))]
    <2>1. ListFrom(LinesBehind(f), D, stop, row, next)
      <3> HIDE DEF none, item, end, n, D
      <3> QED
        BY <1>7 DEF ListFrom
    <2> HIDE DEF n, D, stop, row, next, behind
    <2> QED
      BY <1>1, <1>2, <1>3, <2>1, ListTyped
  <1> QED
    BY <1>7, <1>8, Zenon

---------------------------------------------------------------------------
(* Words in the buffer.                                                     *)

\* What the buffer can hold, and the positions of the model for any buffer b.
Stored == Char \union {NUL, JUNK, "A", SPACE}

EndIn(b, size, i) == Min({j \in i .. size - 1 : b[j] = NUL} \union {size})
SkipIn(b, size, end, i) == Min({j \in i .. size - 1 : j >= end \/ b[j] # NUL} \union {size})
WordIn(b, size, i) == [n \in 1 .. EndIn(b, size, i) - i |-> b[i + n - 1]]
NextIn(b, size, end, i) == SkipIn(b, size, end, EndIn(b, size, i))

\* The word in a buffer ends at the first NUL behind i, or at the end of the buffer.
LEMMA EndInIs ==
  ASSUME NEW b, NEW size \in Nat, NEW i \in 0 .. size
  PROVE  /\ EndIn(b, size, i) \in i .. size
         /\ EndIn(b, size, i) < size => b[EndIn(b, size, i)] = NUL
         /\ \A j \in i .. EndIn(b, size, i) - 1 : b[j] # NUL
  <1> DEFINE S == {j \in i .. size - 1 : b[j] = NUL}
             end == Min(S \union {size})
  <1>1. end \in S \union {size} /\ end \in 0 .. size /\ \A y \in S : end <= y
    <2>1. S \in SUBSET (0 .. size)
      OBVIOUS
    <2> HIDE DEF S
    <2> QED
      BY <2>1, FirstOrEnd
  <1>2. EndIn(b, size, i) = end
    BY DEF EndIn
  <1> HIDE DEF end
  <1>3. \A j \in i .. end - 1 : j \in i .. size - 1 /\ ~(end <= j)
    BY <1>1
  <1> QED
    BY <1>1, <1>2, <1>3

\* The NULs behind i are skipped, but not beyond the end of the line.
LEMMA SkipInIs ==
  ASSUME NEW b, NEW size \in Nat, NEW i \in 0 .. size, NEW end \in 0 .. size
  PROVE  /\ SkipIn(b, size, end, i) \in i .. size
         /\ SkipIn(b, size, end, i) < end => b[SkipIn(b, size, end, i)] # NUL
         /\ i <= end => SkipIn(b, size, end, i) <= end
         /\ \A j \in i .. SkipIn(b, size, end, i) - 1 : j < end /\ b[j] = NUL
  <1> DEFINE S == {j \in i .. size - 1 : j >= end \/ b[j] # NUL}
             skip == Min(S \union {size})
  <1>1. skip \in S \union {size} /\ skip \in 0 .. size /\ \A y \in S : skip <= y
    <2>1. S \in SUBSET (0 .. size)
      OBVIOUS
    <2> HIDE DEF S
    <2> QED
      BY <2>1, FirstOrEnd
  <1>2. SkipIn(b, size, end, i) = skip
    BY DEF SkipIn
  <1> HIDE DEF skip
  <1>3. \A j \in i .. skip - 1 : j \in i .. size - 1 /\ ~(skip <= j)
    BY <1>1
  <1>4. i <= end /\ end < size => end \in S
    OBVIOUS
  <1>5. skip \in i .. size
    BY <1>1
  <1>6. i <= end => skip <= end
    BY <1>1, <1>4, <1>5
  <1>7. skip < end => b[skip] # NUL
    BY <1>1, <1>5
  <1>8. \A j \in i .. skip - 1 : j < end /\ b[j] = NUL
    BY <1>1, <1>3
  <1> QED
    BY <1>2, <1>5, <1>6, <1>7, <1>8

\* The first so many characters of the buffer are the line c, cut into its words.
CutInto(b, size, c) ==
    /\ size \in Nat /\ c \in Seq(Stored) /\ Len(c) < size
    /\ \A i \in 1 .. Len(c) : c[i] # NUL
    /\ \A i \in 0 .. Len(c) - 1 : b[i] = IF c[i + 1] = SPACE THEN NUL ELSE c[i + 1]
    /\ b[Len(c)] = NUL

\* What it is for a buffer to be cut into the words of a line.
LEMMA CutFacts ==
  ASSUME NEW b, NEW size, NEW c, CutInto(b, size, c)
  PROVE  /\ size \in Nat /\ c \in Seq(Stored) /\ Len(c) < size /\ Len(c) \in Nat
         /\ Len(c) \in 0 .. size
         /\ \A j \in 1 .. Len(c) : c[j] # NUL
         /\ \A j \in 0 .. Len(c) - 1 : b[j] = IF c[j + 1] = SPACE THEN NUL ELSE c[j + 1]
         /\ b[Len(c)] = NUL
  <1>1. /\ size \in Nat /\ c \in Seq(Stored) /\ Len(c) < size
        /\ \A j \in 1 .. Len(c) : c[j] # NUL
        /\ \A j \in 0 .. Len(c) - 1 : b[j] = IF c[j + 1] = SPACE THEN NUL ELSE c[j + 1]
        /\ b[Len(c)] = NUL
    BY Zenon DEF CutInto
  <1>2. Len(c) \in Nat
    BY <1>1
  <1>3. Len(c) \in 0 .. size
    BY ONLY <1>1, <1>2
  <1> QED
    BY <1>1, <1>2, <1>3, Zenon

\* Words begin and end in the buffer where they do in the line.
LEMMA CutPlaces ==
  ASSUME NEW b, NEW size, NEW c, CutInto(b, size, c), NEW i \in 0 .. Len(c)
  PROVE  /\ SkipIn(b, size, Len(c), i) = FirstOfWord(c, i + 1) - 1
         /\ EndIn(b, size, i) = FirstSpace(c, i + 1) - 1
  <1>0. /\ size \in Nat /\ c \in Seq(Stored) /\ Len(c) < size /\ Len(c) \in Nat
        /\ \A j \in 1 .. Len(c) : c[j] # NUL
        /\ \A j \in 0 .. Len(c) - 1 : b[j] = IF c[j + 1] = SPACE THEN NUL ELSE c[j + 1]
        /\ b[Len(c)] = NUL
    BY CutFacts
  <1>1. ASSUME NEW j \in 0 .. Len(c) - 1
        PROVE  b[j] = NUL <=> c[j + 1] = SPACE
    <2>1. j + 1 \in 1 .. Len(c)
      BY <1>0
    <2> QED
      BY <1>0, <2>1
  <1>2. i \in 0 .. size /\ Len(c) \in 0 .. size /\ i + 1 \in 1 .. Len(c) + 1
    BY <1>0
  <1> DEFINE skip == SkipIn(b, size, Len(c), i)
             end == EndIn(b, size, i)
             word == FirstOfWord(c, i + 1)
             space == FirstSpace(c, i + 1)
  <1>3. /\ skip \in i .. Len(c) /\ (skip < Len(c) => b[skip] # NUL)
        /\ \A j \in i .. skip - 1 : j < Len(c) /\ b[j] = NUL
    <2>1. /\ skip \in i .. size /\ (skip < Len(c) => b[skip] # NUL)
          /\ (i <= Len(c) => skip <= Len(c))
          /\ \A j \in i .. skip - 1 : j < Len(c) /\ b[j] = NUL
      <3>1. \A n \in 0 .. size :
               LET s == SkipIn(b, size, n, i)
               IN  /\ s \in i .. size /\ (s < n => b[s] # NUL) /\ (i <= n => s <= n)
                   /\ \A j \in i .. s - 1 : j < n /\ b[j] = NUL
        <4> SUFFICES ASSUME NEW n \in 0 .. size
                     PROVE  LET s == SkipIn(b, size, n, i)
                            IN  /\ s \in i .. size /\ (s < n => b[s] # NUL)
                                /\ (i <= n => s <= n)
                                /\ \A j \in i .. s - 1 : j < n /\ b[j] = NUL
          OBVIOUS
        <4>1. i \in 0 .. size /\ size \in Nat
          BY <1>0, <1>2
        <4> QED
          BY <4>1, SkipInIs
      <3> QED
        BY <1>2, <3>1
    <2> HIDE DEF skip
    <2> QED
      BY <1>0, <2>1
  <1>4. /\ word \in i + 1 .. Len(c) + 1 /\ (word <= Len(c) => c[word] # SPACE)
        /\ \A j \in i + 1 .. word - 1 : c[j] = SPACE
    BY <1>0, <1>2, FirstOfWordIs
  <1>5. /\ end \in i .. Len(c) /\ b[end] = NUL
        /\ \A j \in i .. end - 1 : b[j] # NUL
    <2>1. /\ end \in i .. size /\ (end < size => b[end] = NUL)
          /\ \A j \in i .. end - 1 : b[j] # NUL
      BY <1>0, <1>2, EndInIs
    <2> HIDE DEF end
    <2>2. end <= Len(c)
      <3>1. end > Len(c) => Len(c) \in i .. end - 1
        BY <1>0, <2>1
      <3> QED
        BY <1>0, <2>1, <3>1
    <2> QED
      BY <1>0, <2>1, <2>2
  <1>6. /\ space \in i + 1 .. Len(c) + 1 /\ (space <= Len(c) => c[space] = SPACE)
        /\ \A j \in i + 1 .. space - 1 : c[j] # SPACE
    BY <1>0, <1>2, FirstSpaceIs
  <1> HIDE DEF skip, end, word, space
  <1>7. skip = word - 1
    <2>1. ~(skip < word - 1)
      <3>1. SUFFICES ASSUME skip < word - 1
                     PROVE  FALSE
        OBVIOUS
      <3>2. skip \in 0 .. Len(c) - 1 /\ skip + 1 \in i + 1 .. word - 1
        BY <1>0, <1>3, <1>4, <3>1
      <3> QED
        BY <1>1, <1>3, <1>4, <3>2
    <2>2. ~(word - 1 < skip)
      <3>1. SUFFICES ASSUME word - 1 < skip
                     PROVE  FALSE
        OBVIOUS
      <3>2. word - 1 \in i .. skip - 1 /\ word - 1 \in 0 .. Len(c) - 1 /\ word <= Len(c)
            /\ (word - 1) + 1 = word
        BY <1>0, <1>3, <1>4, <3>1
      <3> QED
        BY <1>1, <1>3, <1>4, <3>2
    <2> QED
      BY <1>0, <1>3, <1>4, <2>1, <2>2
  <1>8. end = space - 1
    <2>1. ~(end < space - 1)
      <3>1. SUFFICES ASSUME end < space - 1
                     PROVE  FALSE
        OBVIOUS
      <3>2. end \in 0 .. Len(c) - 1 /\ end + 1 \in i + 1 .. space - 1
        BY <1>0, <1>5, <1>6, <3>1
      <3> QED
        BY <1>1, <1>5, <1>6, <3>2
    <2>2. ~(space - 1 < end)
      <3>1. SUFFICES ASSUME space - 1 < end
                     PROVE  FALSE
        OBVIOUS
      <3>2. space - 1 \in i .. end - 1 /\ space - 1 \in 0 .. Len(c) - 1 /\ space <= Len(c)
            /\ (space - 1) + 1 = space
        BY <1>0, <1>5, <1>6, <3>1
      <3> QED
        BY <1>1, <1>5, <1>6, <3>2
    <2> QED
      BY <1>0, <1>5, <1>6, <2>1, <2>2
  <1> QED
    BY <1>7, <1>8 DEF skip, end, word, space

\* What is at the place where a word begins, or the text ends.
NextWordIs(b, size, c, i, skip) ==
    /\ skip \in i .. Len(c)
    /\ skip = Len(c) => Words(c)[i + 1] = <<>>
    /\ skip < Len(c) =>
          /\ b[skip] # NUL /\ EndIn(b, size, skip) \in skip + 1 .. Len(c)
          /\ WordIn(b, size, skip) \in Seq(Stored)
          /\ Words(c)[i + 1] = <<WordIn(b, size, skip)>> \o Words(c)[EndIn(b, size, skip) + 1]
          /\ Words(c)[skip + 1] = Words(c)[i + 1]

\* From any place of the buffer on, the words of the line are the next word, which the
\* buffer holds, and those behind it.
LEMMA CutWords ==
  ASSUME NEW b, NEW size, NEW c, CutInto(b, size, c), NEW i \in 0 .. Len(c),
         NEW skip, skip = SkipIn(b, size, Len(c), i)
  PROVE  NextWordIs(b, size, c, i, skip)
  <1>0. /\ size \in Nat /\ c \in Seq(Stored) /\ Len(c) < size /\ Len(c) \in Nat
        /\ \A j \in 1 .. Len(c) : c[j] # NUL
        /\ \A j \in 0 .. Len(c) - 1 : b[j] = IF c[j + 1] = SPACE THEN NUL ELSE c[j + 1]
        /\ b[Len(c)] = NUL
    BY CutFacts
  <1>1. i + 1 \in 1 .. Len(c) + 1 /\ i \in 0 .. size /\ Len(c) \in 0 .. size /\ i <= Len(c)
    BY <1>0
  <1>2. skip = FirstOfWord(c, i + 1) - 1
    BY CutPlaces
  <1> DEFINE word == FirstOfWord(c, i + 1)
  <1>3. /\ word \in i + 1 .. Len(c) + 1 /\ (word <= Len(c) => c[word] # SPACE)
    BY <1>0, <1>1, FirstOfWordIs
  <1>4. skip \in i .. Len(c) /\ skip + 1 = word
    <2> HIDE DEF word
    <2> QED
      BY <1>0, <1>2, <1>3 DEF word
  <1>5. Words(c)[i + 1] =
           IF word > Len(c) THEN <<>>
           ELSE <<SubSeq(c, word, FirstSpace(c, word) - 1)>> \o Words(c)[FirstSpace(c, word)]
    BY <1>0, <1>1, WordsUnfold
  <1>6. ASSUME skip = Len(c)
        PROVE  Words(c)[i + 1] = <<>>
    <2> HIDE DEF word
    <2> QED
      BY <1>0, <1>4, <1>5, <1>6
  <1>7. ASSUME skip < Len(c)
        PROVE  /\ b[skip] # NUL /\ EndIn(b, size, skip) \in skip + 1 .. Len(c)
               /\ WordIn(b, size, skip) \in Seq(Stored)
               /\ Words(c)[i + 1] = <<WordIn(b, size, skip)>> \o Words(c)[EndIn(b, size, skip) + 1]
               /\ Words(c)[skip + 1] = Words(c)[i + 1]
    <2> HIDE DEF word
    <2> DEFINE end == FirstSpace(c, word)
    <2>1. word \in 1 .. Len(c) /\ word <= Len(c) /\ c[word] # SPACE /\ skip \in 0 .. Len(c)
      BY <1>0, <1>3, <1>4, <1>7
    <2>2. EndIn(b, size, skip) = end - 1
      BY <1>4, <2>1, CutPlaces
    <2>3. /\ end \in word .. Len(c) + 1 /\ (end <= Len(c) => c[end] = SPACE)
          /\ \A j \in word .. end - 1 : c[j] # SPACE
      <3>1. word \in 1 .. Len(c) + 1
        BY <1>0, <2>1
      <3> QED
        BY <1>0, <3>1, FirstSpaceIs
    <2> HIDE DEF end
    <2>4. end # word
      BY <2>1, <2>3
    <2>5. EndIn(b, size, skip) \in skip + 1 .. Len(c)
      BY <1>0, <1>4, <2>1, <2>2, <2>3, <2>4
    <2>6. b[skip] # NUL
      <3>1. skip \in 0 .. Len(c) - 1
        BY <1>0, <1>7, <2>1
      <3>2. b[skip] = IF c[skip + 1] = SPACE THEN NUL ELSE c[skip + 1]
        BY <1>0, <3>1
      <3> QED
        BY <1>0, <1>4, <2>1, <3>2
    <2>7. /\ SubSeq(c, word, end - 1) \in Seq(Stored)
          /\ Len(SubSeq(c, word, end - 1)) = end - word
          /\ \A n \in 1 .. end - word : SubSeq(c, word, end - 1)[n] = c[word + n - 1]
      <3>1. \A j \in word .. end - 1 : c[j] \in Stored
        <4>1. \A j \in word .. end - 1 : j \in 1 .. Len(c)
          BY <1>0, <2>1, <2>3
        <4> QED
          BY <1>0, <4>1, ElementOfSeq
      <3>2. word \in Int /\ end - 1 \in Int /\ word <= end - 1 /\ (end - 1) - word + 1 = end - word
        BY <1>0, <2>1, <2>3, <2>4
      <3> DEFINE s == SubSeq(c, word, end - 1)
      <3>3. /\ s \in Seq(Stored)
            /\ Len(s) = IF word <= end - 1 THEN (end - 1) - word + 1 ELSE 0
            /\ \A n \in 1 .. (end - 1) - word + 1 : s[n] = c[word + n - 1]
        BY <3>1, <3>2, SubSeqProperties
      <3> HIDE DEF s
      <3> QED
        BY <3>2, <3>3 DEF s
    <2>8. WordIn(b, size, skip) = SubSeq(c, word, end - 1)
      <3> DEFINE s == SubSeq(c, word, end - 1)
      <3>1. WordIn(b, size, skip) = [n \in 1 .. end - word |-> b[skip + n - 1]]
        <4>1. EndIn(b, size, skip) - skip = end - word
          BY <1>0, <1>4, <2>1, <2>2, <2>3
        <4> QED
          BY <4>1 DEF WordIn
      <3>2. ASSUME NEW n \in 1 .. end - word
            PROVE  b[skip + n - 1] = s[n]
        <4>1. skip + n - 1 \in 0 .. Len(c) - 1 /\ (skip + n - 1) + 1 = word + n - 1
              /\ word + n - 1 \in word .. end - 1
          BY <1>0, <1>4, <2>1, <2>3
        <4>2. b[skip + n - 1] = IF c[word + n - 1] = SPACE THEN NUL ELSE c[word + n - 1]
          BY <1>0, <4>1
        <4>3. b[skip + n - 1] = c[word + n - 1]
          BY <2>3, <4>1, <4>2
        <4> QED
          BY <2>7, <4>3
      <3>3. s = [n \in 1 .. end - word |-> s[n]]
        <4>1. DOMAIN s = 1 .. end - word /\ s \in [1 .. end - word -> Stored]
          BY <2>7, LenProperties
        <4> HIDE DEF s
        <4> QED
          BY <4>1
      <3> HIDE DEF s
      <3>4. [n \in 1 .. end - word |-> b[skip + n - 1]] = [n \in 1 .. end - word |-> s[n]]
        BY <3>2
      <3> QED
        BY <3>1, <3>3, <3>4 DEF s
    <2>9. Words(c)[i + 1] = <<WordIn(b, size, skip)>> \o Words(c)[EndIn(b, size, skip) + 1]
      <3>1. EndIn(b, size, skip) + 1 = end
        BY <1>0, <2>2, <2>3, <2>1
      <3>2. ~(word > Len(c))
        BY <1>0, <2>1
      <3> QED
        BY <1>5, <2>8, <3>1, <3>2 DEF end
    <2>10. Words(c)[skip + 1] = Words(c)[i + 1]
      <3>1. word \in 1 .. Len(c) + 1
        BY <1>0, <2>1
      <3>2. FirstOfWord(c, word) = word
        <4>1. /\ FirstOfWord(c, word) \in word .. Len(c) + 1
              /\ \A j \in word .. FirstOfWord(c, word) - 1 : c[j] = SPACE
          BY <1>0, <3>1, FirstOfWordIs
        <4>2. FirstOfWord(c, word) # word => word \in word .. FirstOfWord(c, word) - 1
          BY <1>0, <2>1, <4>1
        <4> QED
          BY <2>1, <4>1, <4>2
      <3>3. Words(c)[word] =
               IF word > Len(c) THEN <<>>
               ELSE <<SubSeq(c, word, FirstSpace(c, word) - 1)>> \o Words(c)[FirstSpace(c, word)]
        BY <1>0, <3>1, <3>2, WordsUnfold
      <3> QED
        BY <1>4, <1>5, <3>3
    <2> QED
      BY <2>5, <2>6, <2>7, <2>8, <2>9, <2>10
  <1> QED
    BY <1>4, <1>6, <1>7 DEF NextWordIs

\* The same facts about positions, by name.
EndOk(b, size, i, end) ==
    /\ end \in i .. size /\ (end < size => b[end] = NUL)
    /\ \A j \in i .. end - 1 : b[j] # NUL
SkipOk(b, size, last, i, skip) ==
    /\ skip \in i .. size /\ (skip < last => b[skip] # NUL) /\ (i <= last => skip <= last)
    /\ \A j \in i .. skip - 1 : j < last /\ b[j] = NUL

\* The recursion that looks for the end of a word finds it.
LEMMA EndStep ==
  ASSUME NEW b, NEW size \in Nat, NEW i \in 0 .. size
  PROVE  EndOk(b, size, i, EndIn(b, size, i))
  BY EndInIs, Zenon DEF EndOk

\* The recursion that skips NULs finds the next word.
LEMMA SkipStep ==
  ASSUME NEW b, NEW size \in Nat, NEW i \in 0 .. size, NEW last \in 0 .. size
  PROVE  SkipOk(b, size, last, i, SkipIn(b, size, last, i))
  BY SkipInIs, Zenon DEF SkipOk

\* In a buffer cut into words the next word of the line begins where the NULs end.
LEMMA WordStep ==
  ASSUME NEW b, NEW size, NEW c, CutInto(b, size, c), NEW i \in 0 .. Len(c)
  PROVE  NextWordIs(b, size, c, i, SkipIn(b, size, Len(c), i))
  BY CutWords, Zenon

\* At a word, skipping stays.
LEMMA CutAtWord ==
  ASSUME NEW b, NEW size, NEW c, CutInto(b, size, c), NEW i \in 0 .. Len(c) - 1, b[i] # NUL
  PROVE  /\ EndIn(b, size, i) \in i + 1 .. Len(c)
         /\ WordIn(b, size, i) \in Seq(Stored)
         /\ Words(c)[i + 1] = <<WordIn(b, size, i)>> \o Words(c)[EndIn(b, size, i) + 1]
  <1>1. /\ size \in Nat /\ Len(c) \in Nat /\ Len(c) \in 0 .. size /\ Len(c) < size
    BY CutFacts
  <1>2. i \in 0 .. Len(c) /\ i \in 0 .. size /\ i < Len(c) /\ i \in Nat
    BY <1>1
  <1> DEFINE skip == SkipIn(b, size, Len(c), i)
  <1>3. NextWordIs(b, size, c, i, skip)
    BY <1>2, WordStep, Zenon
  <1>4. SkipOk(b, size, Len(c), i, skip)
    BY <1>1, <1>2, SkipStep, Zenon
  <1> HIDE DEF skip
  <1>5. skip = i
    <2>1. skip \in i .. Len(c) /\ \A j \in i .. skip - 1 : b[j] = NUL
      BY <1>3, <1>4, Zenon DEF NextWordIs, SkipOk
    <2>2. skip # i => i \in i .. skip - 1
      BY <1>1, <1>2, <2>1
    <2> QED
      BY <2>1, <2>2
  <1> QED
    BY <1>2, <1>3, <1>5, Zenon DEF NextWordIs

\* At the end there is none.
LEMMA CutAtEnd ==
  ASSUME NEW b, NEW size, NEW c, CutInto(b, size, c)
  PROVE  Words(c)[Len(c) + 1] = <<>>
  <1>1. /\ size \in Nat /\ Len(c) \in Nat /\ Len(c) \in 0 .. size /\ Len(c) < size
    BY CutFacts
  <1>2. Len(c) \in 0 .. Len(c)
    BY <1>1
  <1> DEFINE skip == SkipIn(b, size, Len(c), Len(c))
  <1>3. NextWordIs(b, size, c, Len(c), skip)
    BY <1>2, WordStep, Zenon
  <1> HIDE DEF skip
  <1>4. skip \in Len(c) .. Len(c)
    BY <1>3, Zenon DEF NextWordIs
  <1>5. skip = Len(c)
    BY <1>1, <1>4
  <1> QED
    BY <1>3, <1>5, Zenon DEF NextWordIs

\* The loop of a search collects the words of the line.
WalkOf(f, b, size, c) ==
    f = [j \in 0 .. size |-> IF j >= Len(c) THEN <<>>
                             ELSE <<WordIn(b, size, j)>> \o f[NextIn(b, size, Len(c), j)]]

\* The walk through the buffer meets the words of the line, one after the other.
LEMMA CutList ==
  ASSUME NEW b, NEW size, NEW c, CutInto(b, size, c), NEW f, WalkOf(f, b, size, c),
         NEW i \in 0 .. Len(c) - 1, b[i] # NUL
  PROVE  f[i] = Words(c)[i + 1]
  <1>1. /\ size \in Nat /\ Len(c) \in Nat /\ Len(c) \in 0 .. size /\ Len(c) < size
    BY CutFacts
  <1>0. f = [j \in 0 .. size |-> IF j >= Len(c) THEN <<>>
                                  ELSE <<WordIn(b, size, j)>> \o f[NextIn(b, size, Len(c), j)]]
    BY Zenon DEF WalkOf
  <1> DEFINE n == Len(c)
             AtWordOrEnd(j) == j < n => b[j] # NUL
             P == {k \in Nat : \A j \in 0 .. n : n - j < k /\ AtWordOrEnd(j) => f[j] = Words(c)[j + 1]}
  <1>2. 0 \in P
    BY <1>1
  <1>3. ASSUME NEW k \in P
        PROVE  k + 1 \in P
    <2> SUFFICES ASSUME NEW j \in 0 .. n, n - j < k + 1, AtWordOrEnd(j)
                 PROVE  f[j] = Words(c)[j + 1]
      <3>1. k \in Nat
        OBVIOUS
      <3>2. k + 1 \in Nat
        BY <3>1
      <3> HIDE DEF AtWordOrEnd
      <3> QED
        BY <3>2, Zenon
    <2>1. j \in 0 .. size /\ j \in Nat
      BY <1>1
    <2>2. CASE j = n
      <3>1. f[j] = <<>>
        BY <1>0, <1>1, <2>1, <2>2
      <3>2. Words(c)[j + 1] = <<>>
        BY <2>2, CutAtEnd, Zenon
      <3> QED
        BY <3>1, <3>2, Zenon
    <2>3. CASE j # n
      <3>1. j \in 0 .. n - 1 /\ j < n /\ ~(j >= n)
        BY <1>1, <2>3
      <3>2. b[j] # NUL
        BY <3>1
      <3> DEFINE end == EndIn(b, size, j)
                 next == SkipIn(b, size, n, end)
      <3>3. end \in j + 1 .. n /\ Words(c)[j + 1] = <<WordIn(b, size, j)>> \o Words(c)[end + 1]
        BY <3>1, <3>2, CutAtWord
      <3>4. f[j] = <<WordIn(b, size, j)>> \o f[next]
        BY <1>0, <2>1, <3>1 DEF NextIn
      <3>5. end \in 0 .. n
        <4> HIDE DEF end
        <4> QED
          BY <1>1, <2>1, <3>3
      <3>6. NextWordIs(b, size, c, end, next)
        BY <3>5, WordStep, Zenon
      <3> HIDE DEF next, end, P
      <3>61. /\ next \in end .. n
             /\ (next = n => Words(c)[end + 1] = <<>>)
             /\ (next < n => b[next] # NUL /\ Words(c)[next + 1] = Words(c)[end + 1])
        BY <3>6, Zenon DEF NextWordIs
      <3>62. k \in Nat /\ n - j < k + 1
        BY DEF P
      <3>7. next \in 0 .. n /\ n - next < k
        BY <1>1, <2>1, <3>3, <3>5, <3>61, <3>62
      <3>8. f[next] = Words(c)[next + 1]
        BY <3>61, <3>7 DEF P
      <3>9. f[next] = Words(c)[end + 1]
        <4>1. CASE next = n
          <5>1. next \in 0 .. size
            BY <1>1, <3>7
          <5>2. f[next] = <<>>
            BY <1>0, <1>1, <4>1, <5>1
          <5> QED
            BY <3>61, <4>1, <5>2
        <4>2. CASE next # n
          <5>1. next < n
            BY <1>1, <3>7, <4>2
          <5> QED
            BY <3>61, <3>8, <5>1
        <4> QED
          BY <4>1, <4>2
      <3> QED
        BY <3>3, <3>4, <3>9
    <2> QED
      BY <2>2, <2>3
  <1>4. P = Nat
    <2>1. P \in SUBSET Nat
      OBVIOUS
    <2> HIDE DEF P
    <2> QED
      BY <1>2, <1>3, <2>1, Induction
  <1>5. n + 1 \in P
    <2>1. n + 1 \in Nat
      BY <1>1
    <2> HIDE DEF P
    <2> QED
      BY <1>4, <2>1
  <1>6. i \in 0 .. n /\ n - i < n + 1
    BY <1>1
  <1> QED
    BY <1>5, <1>6

\* What a search takes from one n-gram on (current_word): the words from there on.
LEMMA WordsFromIs ==
  ASSUME NEW c, CutInto(line.buffer, line.bufsize, c), line.line_end = Len(c),
         NEW i \in 0 .. Len(c) - 1, line.buffer[i] # NUL
  PROVE  WordsFrom(i) = Words(c)[i + 1]
  <1> DEFINE b == line.buffer
             size == line.bufsize
             n == Len(c)
             D == 0 .. size
             S == {WordIn(b, size, j) : j \in D}
             stop == {j \in D : j >= n}
             row == [j \in D |-> <<WordIn(b, size, j)>>]
             next == [j \in D |-> NextIn(b, size, n, j)]
             from(f) == [j \in D |-> IF j >= n THEN <<>>
                                     ELSE <<WordIn(b, size, j)>> \o f[NextIn(b, size, n, j)]]
  <1>1. /\ size \in Nat /\ Len(c) \in Nat /\ Len(c) \in 0 .. size /\ Len(c) < size
    BY CutFacts
  <1>2. row \in [D -> Seq(S)]
    <2> SUFFICES ASSUME NEW j \in D
                 PROVE  <<WordIn(b, size, j)>> \in Seq(S)
      OBVIOUS
    <2>1. WordIn(b, size, j) \in S
      OBVIOUS
    <2> HIDE DEF S
    <2> QED
      BY <2>1
  <1>3. \A j \in D \ stop : next[j] \in D /\ next[j] > j
    <2> SUFFICES ASSUME NEW j \in D, j < n
                 PROVE  NextIn(b, size, n, j) \in D /\ NextIn(b, size, n, j) > j
      BY <1>1
    <2> DEFINE end == EndIn(b, size, j)
               skip == SkipIn(b, size, n, end)
    <2>0. size \in Nat /\ j \in 0 .. size
      BY <1>1
    <2>1. EndOk(b, size, j, end)
      BY <2>0, EndStep, Zenon
    <2>2. end \in j .. size /\ (end < size => b[end] = NUL)
      <3> HIDE DEF end
      <3> QED
        BY <2>1, Zenon DEF EndOk
    <2>21. end \in 0 .. size
      <3> HIDE DEF end
      <3> QED
        BY <2>0, <2>2
    <2>22. SkipOk(b, size, n, end, skip)
      BY <1>1, <2>0, <2>21, SkipStep, Zenon
    <2>3. skip \in end .. size /\ (skip < n => b[skip] # NUL)
      <3> HIDE DEF skip, end
      <3> QED
        BY <2>22, Zenon DEF SkipOk
    <2>4. NextIn(b, size, n, j) = skip
      BY DEF NextIn
    <2> HIDE DEF skip, end
    <2>5. skip # j
      <3>1. SUFFICES ASSUME skip = j
                     PROVE  FALSE
        OBVIOUS
      <3>2. end = j /\ skip < n /\ end < size
        BY <1>1, <2>2, <2>3, <3>1
      <3> QED
        BY <2>2, <2>3, <3>1, <3>2
    <2> QED
      BY <1>1, <2>2, <2>3, <2>4, <2>5
  <1>4. PICK g \in [D -> Seq(S)] : ListFrom(g, D, stop, row, next)
    <2>1. D \in SUBSET (0 .. size)
      OBVIOUS
    <2> HIDE DEF D, S, stop, row, next
    <2> QED
      BY <1>1, <1>2, <1>3, <2>1, ListRecursion
  <1>5. g = from(g)
    <2>1. g = [j \in D |-> IF j \in stop THEN <<>> ELSE row[j] \o g[next[j]]]
      BY <1>4 DEF ListFrom
    <2> HIDE DEF n, size, D
    <2> QED
      BY <2>1
  <1> DEFINE f == CHOOSE h : h = from(h)
  <1>6. f = from(f)
    <2> HIDE DEF from
    <2> QED
      BY <1>5, Zenon
  <1>7. WordsFrom(i) = f[i]
    <2>1. \A j : WordIn(b, size, j) = Word(j) /\ NextIn(b, size, n, j) = SkipNUL(End(j))
      BY DEF Word, WordIn, NextIn, SkipNUL, SkipIn, End, EndIn, First, Bufsize
    <2> DEFINE step(h) == [j \in 0 .. Bufsize |-> IF j >= line.line_end THEN <<>>
                                               ELSE <<Word(j)>> \o h[SkipNUL(End(j))]]
    <2>2. ASSUME NEW h
          PROVE  from(h) = step(h)
      <3>1. Bufsize = size /\ line.line_end = n
        BY DEF Bufsize
      <3> HIDE DEF n, size, b
      <3> QED
        BY <2>1, <3>1
    <2>3. WordsFrom(i) = (CHOOSE h : h = step(h))[i]
      BY Zenon DEF WordsFrom
    <2> HIDE DEF step, from
    <2>4. f = CHOOSE h : h = step(h)
      BY <2>2, Zenon DEF f
    <2> QED
      BY <2>3, <2>4, Zenon
  <1> HIDE DEF f
  <1>8. f[i] = Words(c)[i + 1]
    <2>1. WalkOf(f, b, size, c)
      BY <1>6, Zenon DEF WalkOf
    <2>2. b[i] # NUL /\ CutInto(b, size, c)
      OBVIOUS
    <2>3. ASSUME NEW b0, NEW size0, NEW f0, CutInto(b0, size0, c), WalkOf(f0, b0, size0, c),
                 b0[i] # NUL
          PROVE  f0[i] = Words(c)[i + 1]
      BY <2>3, CutList
    <2> HIDE DEF b, size
    <2> QED
      BY <2>1, <2>2, <2>3, Zenon
  <1> QED
    BY <1>7, <1>8


---------------------------------------------------------------------------
(* Reading: the input is the rest of the file.                              *)

Read == Len(file.text) - Len(input)

Reading == /\ file \in Files
           /\ Len(input) \in 0 .. Len(file.text)
           /\ input = SubSeq(file.text, Read + 1, Len(file.text))

\* What is not read yet is the rest of the file.
LEMMA InputIs ==
  ASSUME Reading
  PROVE  /\ file \in Files /\ file.text \in Seq(Char) /\ Len(file.text) \in Nat
         /\ input \in Seq(Char) /\ Len(input) \in Nat /\ Read \in 0 .. Len(file.text)
         /\ Len(input) = Len(file.text) - Read
         /\ \A i \in 1 .. Len(input) : input[i] = file.text[Read + i]
         /\ \A i \in 1 .. Len(file.text) : file.text[i] \in Char
  <1>1. /\ file \in Files /\ Len(input) \in 0 .. Len(file.text)
        /\ input = SubSeq(file.text, Read + 1, Len(file.text))
    BY Zenon DEF Reading
  <1>2. /\ file.text \in Seq(Char) /\ Len(file.text) \in Nat
        /\ \A i \in 1 .. Len(file.text) : file.text[i] \in Char
    BY <1>1, FileText, Zenon
  <1> DEFINE text == file.text
             n == Len(text)
             r == Read + 1
             s == SubSeq(text, r, n)
  <1>3. r \in 1 .. n + 1 /\ r \in Int /\ n \in Int /\ Read \in 0 .. n /\ Len(input) = n - Read
    BY <1>1, <1>2 DEF Read
  <1>4. \A i \in r .. n : text[i] \in Char
    BY <1>2, <1>3
  <1>5. s \in Seq(Char) /\ \A i \in 1 .. n - r + 1 : s[i] = text[r + i - 1]
    <2> HIDE DEF text, n, r
    <2> QED
      BY <1>3, <1>4, SubSeqProperties
  <1>6. input = s
    BY <1>1
  <1> HIDE DEF s
  <1>7. \A i \in 1 .. Len(input) : input[i] = file.text[Read + i]
    <2> SUFFICES ASSUME NEW i \in 1 .. Len(input)
                 PROVE  input[i] = file.text[Read + i]
      OBVIOUS
    <2>1. i \in 1 .. n - r + 1 /\ r + i - 1 = Read + i
      BY <1>1, <1>3
    <2> QED
      BY <1>5, <1>6, <2>1
  <1> QED
    BY <1>1, <1>2, <1>3, <1>5, <1>6, <1>7

\* Where the pieces of fgets end: they have at most so many characters, and the first
\* newline is the last of them.
PieceOf(n, size) ==
    /\ n \in 1 .. size - 1 /\ n <= Len(input)
    /\ \A i \in Read + 1 .. Read + n - 1 : file.text[i] # NEWLINE
    /\ n = size - 1 \/ n = Len(input) \/ file.text[Read + n] = NEWLINE

\* What one fgets takes is a piece of the file, up to a newline, its end or the size given.
LEMMA ChunkIs ==
  ASSUME Reading, input # <<>>, NEW size \in Nat, size >= 2
  PROVE  \E n \in Nat : /\ PieceOf(n, size)
                        /\ Chunk(size) = SubSeq(input, 1, n) /\ Len(Chunk(size)) = n
                        /\ \A i \in 1 .. n : Chunk(size)[i] = file.text[Read + i]
  <1>0. /\ file.text \in Seq(Char) /\ Len(file.text) \in Nat
        /\ input \in Seq(Char) /\ Len(input) \in Nat /\ Read \in 0 .. Len(file.text)
        /\ Len(input) = Len(file.text) - Read
        /\ \A i \in 1 .. Len(input) : input[i] = file.text[Read + i]
    BY InputIs
  <1>1. Len(input) > 0
    BY <1>0, EmptySeq
  <1> DEFINE ends == {i \in DOMAIN input : input[i] = NEWLINE}
             S == {size - 1, Len(input)} \union ends
             n == Min(S)
  <1>2. DOMAIN input = 1 .. Len(input)
    BY <1>0, LenProperties
  <1>3. S \in SUBSET Nat /\ S # {} /\ \A i \in S : i >= 1
    BY <1>0, <1>1, <1>2
  <1>4. n \in S /\ \A y \in S : n <= y
    <2> HIDE DEF S
    <2> QED
      BY <1>3, MinOfSet
  <1>5. Chunk(size) = SubSeq(input, 1, n)
    BY Zenon DEF Chunk
  <1> HIDE DEF n
  <1>6. n \in Nat /\ n >= 1 /\ n <= size - 1 /\ n <= Len(input)
    BY <1>3, <1>4
  <1>7. \A i \in Read + 1 .. Read + n - 1 : file.text[i] # NEWLINE
    <2> SUFFICES ASSUME NEW i \in Read + 1 .. Read + n - 1, file.text[i] = NEWLINE
                 PROVE  FALSE
      OBVIOUS
    <2>1. i - Read \in 1 .. Len(input) /\ i - Read < n /\ Read + (i - Read) = i
      BY <1>0, <1>6
    <2>2. input[i - Read] = NEWLINE
      BY <1>0, <2>1
    <2>3. i - Read \in S
      BY <1>2, <2>1, <2>2
    <2> QED
      BY <1>0, <1>4, <1>6, <2>1, <2>3
  <1>8. n = size - 1 \/ n = Len(input) \/ file.text[Read + n] = NEWLINE
    <2>1. n \in ends => n \in 1 .. Len(input) /\ input[n] = NEWLINE
      BY <1>2
    <2> QED
      BY <1>0, <1>4, <2>1
  <1>9. PieceOf(n, size)
    BY <1>6, <1>7, <1>8 DEF PieceOf
  <1>10. /\ Len(SubSeq(input, 1, n)) = n
         /\ \A i \in 1 .. n : SubSeq(input, 1, n)[i] = input[i]
    <2>1. \A i \in 1 .. n : input[i] \in Char
      BY <1>0, <1>6, ElementOfSeq
    <2>2. 1 \in Int /\ n \in Int /\ 1 <= n /\ n - 1 + 1 = n
      BY <1>6
    <2> DEFINE s == SubSeq(input, 1, n)
    <2>3. Len(s) = (IF 1 <= n THEN n - 1 + 1 ELSE 0)
          /\ \A i \in 1 .. n - 1 + 1 : s[i] = input[1 + i - 1]
      BY <2>1, <2>2, SubSeqProperties
    <2>4. \A i \in 1 .. n : 1 + i - 1 = i
      BY <1>6
    <2> HIDE DEF s
    <2> QED
      BY <2>2, <2>3, <2>4 DEF s
  <1>11. \A i \in 1 .. n : Chunk(size)[i] = file.text[Read + i]
    BY <1>0, <1>5, <1>6, <1>10
  <1> QED
    BY <1>5, <1>6, <1>9, <1>10, <1>11

\* The buffer after fgets has stored n characters at position at.
FilledBuffer(buffer, bufsize, at, n) ==
    [i \in 0 .. bufsize - 1 |-> IF i = at + n THEN NUL
                                ELSE IF i \in at .. at + n - 1 THEN file.text[Read + 1 + (i - at)]
                                ELSE buffer[i]]

FgetsIs(buffer, bufsize, at, n) ==
    /\ Read' = Read + n /\ Reading' /\ (n = Len(input) <=> input' = <<>>)
    /\ line' = [line EXCEPT !.buffer = FilledBuffer(buffer, bufsize, at, n), !.bufsize = bufsize]

\* fgets puts that piece into the buffer, with a NUL behind it, and takes it from the file.
LEMMA FgetsStep ==
  ASSUME Reading, input # <<>>, file' = file, NEW buffer, NEW bufsize \in Nat, NEW at \in Nat,
         NEW size \in Nat, size >= 2, at + size <= bufsize, DOMAIN buffer = 0 .. bufsize - 1,
         fgets(buffer, bufsize, at, size)
  PROVE  \E n \in Nat : PieceOf(n, size) /\ FgetsIs(buffer, bufsize, at, n)
  <1>0. /\ file.text \in Seq(Char) /\ Len(file.text) \in Nat /\ file \in Files
        /\ input \in Seq(Char) /\ Len(input) \in Nat /\ Read \in 0 .. Len(file.text)
        /\ Len(input) = Len(file.text) - Read
        /\ input = SubSeq(file.text, Read + 1, Len(file.text))
    BY InputIs DEF Reading
  <1>1. PICK n \in Nat : /\ PieceOf(n, size) /\ Len(Chunk(size)) = n
                         /\ \A i \in 1 .. n : Chunk(size)[i] = file.text[Read + i]
    BY ChunkIs
  <1>2. n >= 1 /\ n <= size - 1 /\ n <= Len(input)
    BY <1>1 DEF PieceOf
  <1>3. input' = SubSeq(input, n + 1, Len(input))
        /\ line' = [line EXCEPT
                       !.buffer = [i \in DOMAIN buffer \union at .. at + n |->
                                      IF i = at + n THEN NUL
                                      ELSE IF i \in at .. at + n THEN Chunk(size)[i - at + 1]
                                      ELSE buffer[i]],
                       !.bufsize = bufsize]
    BY <1>1 DEF fgets
  <1>4. /\ Len(input') = Len(input) - n
        /\ input' = SubSeq(file.text, (Read + n) + 1, Len(file.text))
    <2> DEFINE text == file.text
               N == Len(text)
               r == Read
               k == Len(input)
    <2>1. text \in Seq(Char) /\ N \in Nat /\ r \in 0 .. N /\ k = N - r
          /\ input = SubSeq(text, r + 1, N) /\ k \in Nat /\ input \in Seq(Char)
      BY <1>0
    <2>0. N \in Nat /\ r \in Nat /\ k = N - r /\ k \in Nat /\ n >= 1 /\ n <= k
      BY <1>0, <1>2
    <2>2. CASE n < k
      <3>1. r + 1 \in 1 .. N /\ N \in 1 .. N /\ n + 1 \in 1 .. N - (r + 1) + 1
            /\ k \in 1 .. N - (r + 1) + 1
            /\ (r + 1) + (n + 1) - 1 = r + n + 1 /\ (r + 1) + k - 1 = N
        <4> HIDE DEF text, N, r, k
        <4> QED
          BY <2>0, <2>2
      <3>2. SubSeq(SubSeq(text, r + 1, N), n + 1, k)
               = SubSeq(text, (r + 1) + (n + 1) - 1, (r + 1) + k - 1)
        <4> HIDE DEF text, N, r, k
        <4> QED
          BY <2>1, <3>1, SubSeqOfSubSeq
      <3>3. SubSeq(input, n + 1, k) = SubSeq(text, (r + n) + 1, N)
        <4> HIDE DEF text, N, r, k
        <4> QED
          BY <2>1, <3>1, <3>2
      <3>4. Len(SubSeq(input, n + 1, k)) = k - n
        <4> HIDE DEF text, N, r, k
        <4>1. \A i \in n + 1 .. k : input[i] \in Char
          <5>1. \A i \in n + 1 .. k : i \in 1 .. k
            BY <1>2, <2>1
          <5> QED
            BY <2>1, <5>1, ElementOfSeq DEF k
        <4>2. n + 1 \in Int /\ k \in Int /\ n + 1 <= k /\ k - (n + 1) + 1 = k - n
          BY <2>1, <2>2
        <4> QED
          BY <4>1, <4>2, SubSeqProperties
      <3> QED
        BY <1>3, <3>3, <3>4
    <2>3. CASE n = k
      <3>1. k < n + 1 /\ n + 1 \in Int /\ k \in Int /\ N < (r + n) + 1 /\ (r + n) + 1 \in Int
            /\ N \in Int
        <4> HIDE DEF text, N, r, k
        <4> QED
          BY <2>0, <2>3
      <3>2. SubSeq(input, n + 1, k) = <<>>
        <4> HIDE DEF k, N, r
        <4> QED
          BY <3>1, SubSeqEmpty
      <3>3. SubSeq(text, (r + n) + 1, N) = <<>>
        <4> HIDE DEF text, k, N, r
        <4> QED
          BY <3>1, SubSeqEmpty
      <3>4. input' = <<>>
        BY <1>3, <3>2, Zenon
      <3>5. k - n = 0
        <4> HIDE DEF text, N, r, k
        <4> QED
          BY <2>0, <2>3
      <3>6. Len(input') = 0
        BY <3>4
      <3>7. input' = SubSeq(text, (r + n) + 1, N)
        BY <3>3, <3>4, Zenon
      <3> HIDE DEF text, N, r, k
      <3> QED
        BY <3>5, <3>6, <3>7 DEF text, N, r, k
    <2>4. n < k \/ n = k
      <3> HIDE DEF text, N, r, k
      <3> QED
        BY <2>0
    <2> QED
      BY <2>2, <2>3, <2>4, Zenon
  <1>5. Read' = Read + n
    <2>1. Read' = Len(file.text) - Len(input')
      BY DEF Read
    <2>2. /\ Len(file.text) \in Nat /\ Len(input) = Len(file.text) - Read /\ Read \in Nat
          /\ Len(input') = Len(input) - n /\ n \in Nat
      BY <1>0, <1>4
    <2>3. Len(file.text) - Len(input') = Read + n
      <3> DEFINE L == Len(file.text)
      <3>1. L \in Nat /\ Len(input) = L - Read /\ Read \in Nat /\ Len(input') = Len(input) - n
        BY <2>2
      <3> HIDE DEF L
      <3>2. L - Len(input') = Read + n
        BY <3>1
      <3> QED
        BY <3>2 DEF L
    <2> QED
      BY <2>1, <2>3, Zenon
  <1>6. Reading'
    <2>1. Len(input') \in 0 .. Len(file.text)
      BY <1>0, <1>2, <1>4
    <2> QED
      BY <1>0, <1>4, <1>5, <2>1 DEF Reading
  <1>7. n = Len(input) <=> input' = <<>>
    <2>1. input' \in Seq(Char)
      <3>1. \A i \in n + 1 .. Len(input) : input[i] \in Char
        <4>1. \A i \in n + 1 .. Len(input) : i \in 1 .. Len(input)
          BY <1>0, <1>2
        <4> QED
          BY <1>0, <4>1, ElementOfSeq
      <3>2. n + 1 \in Int /\ Len(input) \in Int
        BY <1>0
      <3>3. SubSeq(input, n + 1, Len(input)) \in Seq(Char)
        BY <3>1, <3>2, SubSeqProperties
      <3> QED
        BY <1>3, <3>3
    <2>2. n = Len(input) => Len(input') = 0
      BY <1>0, <1>2, <1>4
    <2>3. Len(input') = 0 => n = Len(input)
      BY <1>0, <1>2, <1>4
    <2> QED
      BY <2>1, <2>2, <2>3, EmptySeq
  <1>8. [i \in DOMAIN buffer \union at .. at + n |->
           IF i = at + n THEN NUL ELSE IF i \in at .. at + n THEN Chunk(size)[i - at + 1]
           ELSE buffer[i]]
        = FilledBuffer(buffer, bufsize, at, n)
    <2>1. DOMAIN buffer \union at .. at + n = 0 .. bufsize - 1
      BY <1>2
    <2>2. ASSUME NEW i \in 0 .. bufsize - 1
          PROVE  (IF i = at + n THEN NUL ELSE IF i \in at .. at + n THEN Chunk(size)[i - at + 1]
                  ELSE buffer[i])
                 = IF i = at + n THEN NUL
                   ELSE IF i \in at .. at + n - 1 THEN file.text[Read + 1 + (i - at)]
                   ELSE buffer[i]
      <3>1. i # at + n => (i \in at .. at + n <=> i \in at .. at + n - 1)
        OBVIOUS
      <3>2. i \in at .. at + n - 1 => i - at + 1 \in 1 .. n
                                       /\ Read + (i - at + 1) = Read + 1 + (i - at)
        BY <1>0
      <3>3. i \in at .. at + n - 1 => Chunk(size)[i - at + 1] = file.text[Read + 1 + (i - at)]
        BY <1>1, <3>2
      <3> QED
        BY <3>1, <3>3, Zenon
    <2> QED
      BY <2>1, <2>2, Zenon DEF FilledBuffer
  <1> QED
    BY <1>1, <1>3, <1>5, <1>6, <1>7, <1>8 DEF FgetsIs

---------------------------------------------------------------------------
(* Types: nothing is written outside the buffer.                            *)

LineSet(size) ==
    [buffer : [0 .. size - 1 -> Stored], bufsize : {size}, line_status : Stored, k : -1 .. 3,
     line_end : 0 .. size - 1, n_gram_position : 0 .. size - 1,
     word_position : 0 .. size - 1, word_start : {NULL} \union 0 .. size - 1]

LineTyped == line.bufsize \in Nat /\ line.bufsize >= 4 /\ line \in LineSet(line.bufsize)

Typed == /\ LineTyped /\ Reading
         /\ file_status \in {"S", "D", JUNK} /\ header \in {"none", "S", "D"}
         /\ pc \in {"fetch", "phrase", "parse", "ngram", "word", "taken", "closed", "overrun"}

\* The fields of a slot.
LEMMA LineIs ==
  ASSUME LineTyped
  PROVE  /\ line.bufsize \in Nat /\ line.bufsize >= 4 /\ Bufsize = line.bufsize
         /\ line.buffer \in [0 .. line.bufsize - 1 -> Stored]
         /\ line.line_status \in Stored /\ line.k \in -1 .. 3
         /\ line.line_end \in 0 .. line.bufsize - 1
         /\ line.n_gram_position \in 0 .. line.bufsize - 1
         /\ line.word_position \in 0 .. line.bufsize - 1
         /\ line.word_start \in {NULL} \union 0 .. line.bufsize - 1
  BY DEF LineTyped, LineSet, Bufsize

\* The new buffer of fgets.
LEMMA FgetsTyped ==
  ASSUME LineTyped, Reading, NEW n \in Nat, NEW bufsize \in Nat, bufsize >= line.bufsize,
         NEW at \in Nat, NEW size \in Nat, PieceOf(n, size), at + size <= bufsize,
         NEW buffer \in [0 .. bufsize - 1 -> Stored], FgetsIs(buffer, bufsize, at, n)
  PROVE  LineTyped'
  <1> DEFINE new == FilledBuffer(buffer, bufsize, at, n)
  <1>1. line' = [line EXCEPT !.buffer = new, !.bufsize = bufsize]
    BY Zenon DEF FgetsIs
  <1>2. new \in [0 .. bufsize - 1 -> Stored]
    <2> SUFFICES ASSUME NEW i \in 0 .. bufsize - 1, i \in at .. at + n - 1
                 PROVE  file.text[Read + 1 + (i - at)] \in Stored
      BY DEF FilledBuffer, Stored
    <2> DEFINE L == Len(file.text)
    <2>1. n <= Len(input)
      BY DEF PieceOf
    <2>2. L \in Nat /\ Len(input) = L - Read /\ Read \in 0 .. L
          /\ \A j \in 1 .. L : file.text[j] \in Char
      BY InputIs
    <2> HIDE DEF L
    <2>3. Read + 1 + (i - at) \in 1 .. L
      BY <2>1, <2>2
    <2> QED
      BY <2>2, <2>3 DEF Stored
  <1> HIDE DEF new
  <1>3. line \in LineSet(line.bufsize) /\ line.bufsize \in Nat /\ line.bufsize >= 4
    BY DEF LineTyped
  <1>4. line' \in LineSet(bufsize) /\ line'.bufsize = bufsize
    <2>1. line'.bufsize = bufsize
      BY <1>1, <1>3 DEF LineSet
    <2>2. 0 .. line.bufsize - 1 \subseteq 0 .. bufsize - 1
      BY <1>3
    <2> QED
      BY <1>1, <1>2, <1>3, <2>1, <2>2 DEF LineSet
  <1>5. bufsize >= 4
    BY <1>3
  <1> QED
    BY <1>4, <1>5 DEF LineTyped

\* The characters in front of the line in the buffer: "A " in an init file.
Ahead == IF file.lm_status = "I" THEN 2 ELSE 0

FirstBuffer == IF file.lm_status = "I" THEN [line.buffer EXCEPT ![0] = "A", ![1] = SPACE]
               ELSE line.buffer

\* The first fgets reads to the beginning of the buffer, in an init file behind "A ".
LEMMA FetchIs ==
  ASSUME LineTyped, Reading, FetchFirst
  PROVE  /\ FirstBuffer \in [0 .. line.bufsize - 1 -> Stored]
         /\ \E n \in Nat : /\ PieceOf(n, line.bufsize - Ahead)
                           /\ FgetsIs(FirstBuffer, line.bufsize, Ahead, n)
  <1>1. line.bufsize \in Nat /\ line.bufsize >= 4 /\ Bufsize = line.bufsize
        /\ line.buffer \in [0 .. line.bufsize - 1 -> Stored]
    BY LineIs
  <1>2. FirstBuffer \in [0 .. line.bufsize - 1 -> Stored]
    BY <1>1 DEF FirstBuffer, Stored
  <1>3. fgets(FirstBuffer, line.bufsize, Ahead, line.bufsize - Ahead) /\ input # <<>>
        /\ file' = file
    <2>1. CASE file.lm_status = "I"
      BY <1>1, <2>1 DEF FetchFirst, FirstBuffer, Ahead
    <2>2. CASE file.lm_status # "I"
      <3>1. line.bufsize - 0 = line.bufsize
        BY <1>1
      <3> QED
        BY <1>1, <2>2, <3>1 DEF FetchFirst, FirstBuffer, Ahead
    <2> QED
      BY <2>1, <2>2
  <1>4. Ahead \in Nat /\ line.bufsize - Ahead \in Nat /\ line.bufsize - Ahead >= 2
        /\ Ahead + (line.bufsize - Ahead) <= line.bufsize
    BY <1>1 DEF Ahead
  <1>5. DOMAIN FirstBuffer = 0 .. line.bufsize - 1
    BY <1>2
  <1> QED
    BY <1>1, <1>2, <1>3, <1>4, <1>5, FgetsStep

\* The second fgets reads on from the NUL of the first, in a buffer of twice the size.
LEMMA GrowIs ==
  ASSUME LineTyped, Reading, Grow
  PROVE  /\ Doubled \in [0 .. 2 * line.bufsize - 1 -> Stored]
         /\ \E n \in Nat : /\ PieceOf(n, line.bufsize + 1)
                           /\ FgetsIs(Doubled, 2 * line.bufsize, line.bufsize - 1, n)
  <1>1. line.bufsize \in Nat /\ line.bufsize >= 4 /\ Bufsize = line.bufsize
        /\ line.buffer \in [0 .. line.bufsize - 1 -> Stored]
    BY LineIs
  <1>2. Doubled \in [0 .. 2 * line.bufsize - 1 -> Stored]
    BY <1>1 DEF Doubled, Stored
  <1>3. fgets(Doubled, 2 * line.bufsize, line.bufsize - 1, line.bufsize + 1) /\ input # <<>>
        /\ file' = file
    BY <1>1 DEF Grow
  <1>4. /\ line.bufsize - 1 \in Nat /\ line.bufsize + 1 \in Nat /\ line.bufsize + 1 >= 2
        /\ (line.bufsize - 1) + (line.bufsize + 1) <= 2 * line.bufsize
        /\ 2 * line.bufsize \in Nat
    BY <1>1
  <1>5. DOMAIN Doubled = 0 .. 2 * line.bufsize - 1
    BY <1>2
  <1> HIDE DEF fgets
  <1> QED
    BY <1>2, <1>3, <1>4, <1>5, FgetsStep

\* Where the words of a line begin and end.
LEMMA PlacesAre ==
  ASSUME LineTyped
  PROVE  \A i \in 0 .. line.bufsize :
            /\ End(i) = EndIn(line.buffer, line.bufsize, i)
            /\ SkipNUL(i) = SkipIn(line.buffer, line.bufsize, line.line_end, i)
            /\ Word(i) = WordIn(line.buffer, line.bufsize, i)
            /\ EndOk(line.buffer, line.bufsize, i, End(i)) /\ End(i) \in 0 .. line.bufsize
            /\ SkipOk(line.buffer, line.bufsize, line.line_end, i, SkipNUL(i))
            /\ SkipNUL(i) \in 0 .. line.bufsize
  <1> SUFFICES ASSUME NEW i \in 0 .. line.bufsize
               PROVE  /\ End(i) = EndIn(line.buffer, line.bufsize, i)
                      /\ SkipNUL(i) = SkipIn(line.buffer, line.bufsize, line.line_end, i)
                      /\ Word(i) = WordIn(line.buffer, line.bufsize, i)
                      /\ EndOk(line.buffer, line.bufsize, i, End(i))
                      /\ End(i) \in 0 .. line.bufsize
                      /\ SkipOk(line.buffer, line.bufsize, line.line_end, i, SkipNUL(i))
                      /\ SkipNUL(i) \in 0 .. line.bufsize
    BY Zenon
  <1>1. line.bufsize \in Nat /\ line.line_end \in 0 .. line.bufsize - 1
    BY LineIs
  <1>2. line.line_end \in 0 .. line.bufsize
    BY <1>1
  <1>3. End(i) = EndIn(line.buffer, line.bufsize, i)
    BY Zenon DEF End, EndIn, First, Bufsize
  <1>4. SkipNUL(i) = SkipIn(line.buffer, line.bufsize, line.line_end, i)
    BY Zenon DEF SkipNUL, SkipIn, First, Bufsize
  <1>5. Word(i) = WordIn(line.buffer, line.bufsize, i)
    BY <1>3, Zenon DEF Word, WordIn
  <1>6. EndOk(line.buffer, line.bufsize, i, End(i))
    BY <1>1, <1>3, EndStep, Zenon
  <1>7. SkipOk(line.buffer, line.bufsize, line.line_end, i, SkipNUL(i))
    BY <1>1, <1>2, <1>4, SkipStep, Zenon
  <1>8. End(i) \in i .. line.bufsize /\ SkipNUL(i) \in i .. line.bufsize
    BY <1>6, <1>7, Zenon DEF EndOk, SkipOk
  <1>9. End(i) \in 0 .. line.bufsize /\ SkipNUL(i) \in 0 .. line.bufsize
    BY <1>1, <1>8
  <1> QED
    BY <1>3, <1>4, <1>5, <1>6, <1>7, <1>9, Zenon

\* The next n-gram begins inside the line.
LEMMA NextNGramIs ==
  ASSUME LineTyped
  PROVE  NextNGram # NULL => NextNGram \in 0 .. line.bufsize - 1 /\ NextNGram < line.line_end
  <1>1. line.bufsize \in Nat /\ line.line_end \in 0 .. line.bufsize - 1
        /\ line.n_gram_position \in 0 .. line.bufsize
    BY LineIs
  <1> DEFINE from == End(line.n_gram_position)
             next == SkipNUL(from)
  <1>2. from \in 0 .. line.bufsize
    BY <1>1, PlacesAre
  <1>3. next \in 0 .. line.bufsize
    <2> HIDE DEF from
    <2> QED
      BY <1>2, PlacesAre
  <1>4. NextNGram = IF from < line.line_end /\ next < line.line_end THEN next ELSE NULL
    BY DEF NextNGram
  <1> HIDE DEF from, next
  <1> QED
    BY <1>1, <1>3, <1>4

\* The next word begins inside the buffer.
LEMMA NextWordTyped ==
  ASSUME LineTyped
  PROVE  NextWord # NULL => NextWord \in 0 .. line.bufsize - 1
  <1>1. line.bufsize \in Nat /\ line.line_end \in 0 .. line.bufsize - 1
        /\ line.word_position \in 0 .. line.bufsize - 1 /\ line.word_position \in 0 .. line.bufsize
    BY LineIs
  <1> DEFINE from == End(line.word_position)
             next == SkipNUL(from)
  <1>2. from \in 0 .. line.bufsize
    BY <1>1, PlacesAre
  <1>3. next \in 0 .. line.bufsize
    <2> HIDE DEF from
    <2> QED
      BY <1>2, PlacesAre
  <1>4. NextWord = IF line.word_start = NULL /\ line.buffer[line.word_position] # NUL
                   THEN line.word_position
                   ELSE IF next < line.line_end THEN next ELSE NULL
    BY DEF NextWord
  <1> HIDE DEF from, next
  <1> QED
    BY <1>1, <1>3, <1>4

\* A slot with its positions at an n-gram keeps its types.
LEMMA WithNGramTyped ==
  ASSUME LineTyped
  PROVE  WithNGram \in LineSet(line.bufsize)
  <1>1. line.bufsize \in Nat /\ line.line_end \in 0 .. line.bufsize - 1
        /\ line \in LineSet(line.bufsize)
    BY LineIs DEF LineTyped
  <1>2. NextNGram # NULL => NextNGram \in 0 .. line.bufsize - 1
    BY NextNGramIs
  <1> QED
    BY <1>1, <1>2 DEF WithNGram, LineSet

\* The types hold at first.
LEMMA TypedInit ==
  ASSUME Init
  PROVE  Typed
  <1>1. file \in Files /\ input = file.text
    BY DEF Init
  <1>2. file.text \in Seq(Char) /\ Len(file.text) \in Nat
    BY <1>1, FileText
  <1>3. Reading
    <2>1. Read = 0 /\ Len(input) \in 0 .. Len(file.text)
      BY <1>1, <1>2 DEF Read
    <2>2. SubSeq(file.text, 0 + 1, Len(file.text)) = file.text
      BY <1>2, SubSeqFull
    <2> QED
      BY <1>1, <2>1, <2>2 DEF Reading
  <1>4. LineTyped
    <2>1. PICK position \in Indices, start \in {NULL, 0} :
            line = [buffer |-> [i \in Indices |-> JUNK], bufsize |-> INIT_SIZE_BUF,
                    line_status |-> JUNK, k |-> -1, line_end |-> 0, n_gram_position |-> 0,
                    word_position |-> position, word_start |-> start]
      BY DEF Init
    <2>2. line.bufsize = INIT_SIZE_BUF /\ INIT_SIZE_BUF \in Nat /\ INIT_SIZE_BUF >= 4
      BY <2>1, BufferAssumption
    <2>3. line \in LineSet(INIT_SIZE_BUF)
      BY <2>1, <2>2 DEF LineSet, Indices, Stored, NULL
    <2> QED
      BY <2>2, <2>3 DEF LineTyped
  <1> QED
    BY <1>3, <1>4 DEF Typed, Init

\* An action that leaves the file alone.
LEMMA ReadingStays ==
  ASSUME Reading, UNCHANGED <<file, input>>
  PROVE  Reading' /\ Read' = Read
  BY DEF Reading, Read

\* They are kept when the file ends inside a line.
LEMMA TypedEndInsideLine ==
  ASSUME Typed, EndInsideLine
  PROVE  LineTyped'
  <1>1. line.bufsize \in Nat /\ line.bufsize >= 4 /\ Bufsize = line.bufsize
        /\ line.buffer \in [0 .. line.bufsize - 1 -> Stored] /\ line \in LineSet(line.bufsize)
    BY LineIs DEF Typed, LineTyped
  <1>2. Doubled \in [0 .. 2 * line.bufsize - 1 -> Stored]
    BY <1>1 DEF Doubled, Stored
  <1>3. line' = [line EXCEPT !.buffer = Doubled, !.bufsize = 2 * line.bufsize]
    BY <1>1 DEF EndInsideLine
  <1>4. 2 * line.bufsize \in Nat /\ 2 * line.bufsize >= 4
        /\ 0 .. line.bufsize - 1 \subseteq 0 .. 2 * line.bufsize - 1
    BY <1>1
  <1>5. line'.bufsize = 2 * line.bufsize /\ line' \in LineSet(2 * line.bufsize)
    BY <1>1, <1>2, <1>3, <1>4 DEF LineSet
  <1> QED
    BY <1>4, <1>5 DEF LineTyped

\* The k of an "F" line is one of the numbers of the instance, or -1.
LEMMA KOfTyped == KOf \in -1 .. 3
  BY DEF KOf, Digit

\* The types are kept by a line of the work file.
LEMMA TypedWorkLine ==
  ASSUME Typed, WorkLine
  PROVE  LineTyped'
  <1>1. line.bufsize \in Nat /\ line.bufsize >= 4
        /\ line.buffer \in [0 .. line.bufsize - 1 -> Stored] /\ line \in LineSet(line.bufsize)
    BY LineIs DEF Typed, LineTyped
  <1>2. line.buffer[0] \in Stored /\ KOf \in -1 .. 3
    BY <1>1, KOfTyped
  <1>3. line'.bufsize = line.bufsize /\ line' \in LineSet(line.bufsize)
    BY <1>1, <1>2 DEF WorkLine, LineSet
  <1> QED
    BY <1>1, <1>3 DEF LineTyped

\* The newline, or the end of the buffer if there is none.
LineEnd == First({i \in DOMAIN line.buffer : line.buffer[i] = NEWLINE})

\* The parser stops at the first newline, or only behind the buffer if there is none.
LEMMA LineEndIs ==
  ASSUME LineTyped
  PROVE  /\ LineEnd \in 0 .. line.bufsize
         /\ LineEnd # line.bufsize => line.buffer[LineEnd] = NEWLINE
         /\ LineEnd = line.bufsize => \A i \in 0 .. line.bufsize - 1 : line.buffer[i] # NEWLINE
         /\ \A i \in 0 .. LineEnd - 1 : line.buffer[i] # NEWLINE
  <1> DEFINE n == line.bufsize
             S == {i \in 0 .. n - 1 : line.buffer[i] = NEWLINE}
             first == Min(S \union {n})
  <1>1. n \in Nat /\ DOMAIN line.buffer = 0 .. n - 1 /\ Bufsize = n
    BY LineIs
  <1>2. first \in S \union {n} /\ first \in 0 .. n /\ \A y \in S : first <= y
    <2>1. S \in SUBSET (0 .. n)
      BY <1>1
    <2> HIDE DEF S, n
    <2> QED
      BY <1>1, <2>1, FirstOrEnd
  <1>3. LineEnd = first
    BY <1>1 DEF LineEnd, First
  <1> HIDE DEF first, n
  <1>4. \A i \in 0 .. first - 1 : i \in 0 .. n - 1 /\ ~(first <= i)
    BY <1>1, <1>2
  <1>5. \A i \in 0 .. n - 1 : ~(n <= i)
    BY <1>1
  <1> QED
    BY <1>1, <1>2, <1>3, <1>4, <1>5 DEF n

CutBuffer(end) ==
    [i \in 0 .. line.bufsize - 1 |->
        IF i = end \/ i = line.bufsize - 1 \/ (i < end /\ line.buffer[i] = SPACE) THEN NUL
        ELSE line.buffer[i]]

\* line_parse leaves the buffer, or it cuts the line into words up to its newline.
LEMMA ParseIs ==
  ASSUME LineTyped, line_parse
  PROVE  \/ LineEnd = line.bufsize /\ pc' = "overrun" /\ UNCHANGED line
         \/ /\ LineEnd \in 0 .. line.bufsize - 1
            /\ line' = [line EXCEPT !.buffer = CutBuffer(LineEnd), !.line_end = LineEnd,
                                    !.n_gram_position = 0]
            /\ pc' = IF Operation = "F" THEN "taken" ELSE "ngram"
  <1>1. Bufsize = line.bufsize /\ line.bufsize \in Nat /\ DOMAIN line.buffer = 0 .. line.bufsize - 1
    BY LineIs
  <1>2. LineEnd \in 0 .. line.bufsize
    BY LineEndIs
  <1>3. First({i \in DOMAIN line.buffer : line.buffer[i] = NEWLINE}) = LineEnd
    BY Zenon DEF LineEnd
  <1>4. CASE LineEnd = line.bufsize
    BY <1>1, <1>3, <1>4, Zenon DEF line_parse
  <1>5. CASE LineEnd # line.bufsize
    <2>1. LineEnd \in 0 .. line.bufsize - 1
      BY <1>1, <1>2, <1>5
    <2>2. /\ line' = [line EXCEPT
                        !.buffer = [i \in DOMAIN line.buffer |->
                           IF i = LineEnd \/ i = Bufsize - 1
                              \/ (i < LineEnd /\ line.buffer[i] = SPACE)
                           THEN NUL ELSE line.buffer[i]],
                        !.line_end = LineEnd, !.n_gram_position = 0]
          /\ pc' = IF Operation = "F" THEN "taken" ELSE "ngram"
      BY <1>1, <1>3, <1>5, Zenon DEF line_parse
    <2>3. [i \in DOMAIN line.buffer |->
             IF i = LineEnd \/ i = Bufsize - 1 \/ (i < LineEnd /\ line.buffer[i] = SPACE)
             THEN NUL ELSE line.buffer[i]] = CutBuffer(LineEnd)
      BY <1>1, Zenon DEF CutBuffer
    <2> QED
      BY <2>1, <2>2, <2>3, Zenon
  <1> QED
    BY <1>4, <1>5

\* The types are kept by line_parse.
LEMMA TypedParse ==
  ASSUME Typed, line_parse
  PROVE  LineTyped'
  <1>1. line.bufsize \in Nat /\ line.bufsize >= 4
        /\ line.buffer \in [0 .. line.bufsize - 1 -> Stored] /\ line \in LineSet(line.bufsize)
    BY LineIs DEF Typed, LineTyped
  <1>2. CASE UNCHANGED line
    BY <1>2 DEF Typed, LineTyped
  <1>3. CASE /\ LineEnd \in 0 .. line.bufsize - 1
             /\ line' = [line EXCEPT !.buffer = CutBuffer(LineEnd), !.line_end = LineEnd,
                                     !.n_gram_position = 0]
    <2>1. CutBuffer(LineEnd) \in [0 .. line.bufsize - 1 -> Stored]
      BY <1>1 DEF CutBuffer, Stored
    <2>2. 0 \in 0 .. line.bufsize - 1
      BY <1>1
    <2>3. line'.bufsize = line.bufsize /\ line' \in LineSet(line.bufsize)
      BY <1>1, <1>3, <2>1, <2>2 DEF LineSet
    <2> QED
      BY <1>1, <2>3 DEF LineTyped
  <1> QED
    BY <1>2, <1>3, ParseIs DEF Typed

\* Taking words moves the positions.
LEMMA TypedTaking ==
  ASSUME Typed, line_fetch_ngram \/ line_fetch_word \/ LastWord \/ NextWalk
  PROVE  LineTyped'
  <1>1. line.bufsize \in Nat /\ line.bufsize >= 4 /\ line \in LineSet(line.bufsize) /\ LineTyped
    BY LineIs DEF Typed, LineTyped
  <1>2. CASE line_fetch_ngram \/ NextWalk
    <2>1. line' \in LineSet(line.bufsize)
      BY <1>1, <1>2, WithNGramTyped, Zenon DEF line_fetch_ngram, NextWalk
    <2> QED
      BY <1>1, <2>1 DEF LineTyped, LineSet
  <1>3. CASE line_fetch_word
    <2>1. NextWord \in 0 .. line.bufsize - 1
      BY <1>1, <1>3, NextWordTyped DEF line_fetch_word
    <2>2. line' = [line EXCEPT !.word_start = NextWord, !.word_position = NextWord]
      BY <1>3 DEF line_fetch_word
    <2> QED
      BY <1>1, <2>1, <2>2 DEF LineTyped, LineSet
  <1>4. CASE LastWord
    <2>1. 0 \in 0 .. line.bufsize - 1 /\ NULL \in {NULL} \union 0 .. line.bufsize - 1
      BY <1>1
    <2>2. PICK n \in {0, line.n_gram_position} :
             line' = [line EXCEPT !.word_start = NULL, !.word_position = 0,
                                  !.n_gram_position = n]
      BY <1>1, <1>4 DEF LastWord, LineSet
    <2>3. n \in 0 .. line.bufsize - 1
      BY <1>1, <2>1, LineIs
    <2>4. line'.bufsize = line.bufsize /\ line' \in LineSet(line.bufsize)
      BY <1>1, <2>1, <2>2, <2>3 DEF LineSet
    <2> QED
      BY <1>1, <2>4 DEF LineTyped
  <1> QED
    BY <1>2, <1>3, <1>4

\* They are kept by every step.
LEMMA TypedStep ==
  ASSUME Typed, [Next]_vars
  PROVE  Typed'
  <1>0. /\ LineTyped /\ Reading
        /\ file_status \in {"S", "D", JUNK} /\ header \in {"none", "S", "D"}
        /\ pc \in {"fetch", "phrase", "parse", "ngram", "word", "taken", "closed", "overrun"}
    BY Zenon DEF Typed
  <1>1. CASE FetchFirst
    <2>1. PICK n \in Nat : /\ PieceOf(n, line.bufsize - Ahead)
                           /\ FgetsIs(FirstBuffer, line.bufsize, Ahead, n)
      BY <1>0, <1>1, FetchIs
    <2>2. /\ FirstBuffer \in [0 .. line.bufsize - 1 -> Stored] /\ line.bufsize \in Nat
          /\ line.bufsize >= line.bufsize
          /\ Ahead \in Nat /\ line.bufsize - Ahead \in Nat
          /\ Ahead + (line.bufsize - Ahead) <= line.bufsize
      BY <1>0, <1>1, FetchIs, LineIs DEF Ahead
    <2>3. LineTyped'
      BY <1>0, <2>1, <2>2, FgetsTyped
    <2>4. Reading'
      BY <2>1 DEF FgetsIs
    <2> QED
      BY <1>0, <1>1, <2>3, <2>4 DEF Typed, FetchFirst
  <1>2. CASE Grow
    <2>1. PICK n \in Nat : /\ PieceOf(n, line.bufsize + 1)
                           /\ FgetsIs(Doubled, 2 * line.bufsize, line.bufsize - 1, n)
      BY <1>0, <1>2, GrowIs
    <2>2. /\ Doubled \in [0 .. 2 * line.bufsize - 1 -> Stored] /\ 2 * line.bufsize \in Nat
          /\ 2 * line.bufsize >= line.bufsize /\ line.bufsize - 1 \in Nat
          /\ line.bufsize + 1 \in Nat
          /\ (line.bufsize - 1) + (line.bufsize + 1) <= 2 * line.bufsize
      <3>1. line.bufsize \in Nat /\ line.bufsize >= 4
        BY <1>0, LineIs
      <3>2. Doubled \in [0 .. 2 * line.bufsize - 1 -> Stored]
        BY <1>0, <1>2, GrowIs
      <3> QED
        BY <3>1, <3>2
    <2>3. LineTyped'
      BY <1>0, <2>1, <2>2, FgetsTyped
    <2>4. Reading'
      BY <2>1 DEF FgetsIs
    <2> QED
      BY <1>0, <1>2, <2>3, <2>4 DEF Typed, Grow
  <1>3. CASE EndInsideLine
    <2>1. LineTyped' /\ Reading'
      BY <1>0, <1>3, TypedEndInsideLine, ReadingStays DEF EndInsideLine
    <2> QED
      BY <1>0, <1>3, <2>1 DEF Typed, EndInsideLine
  <1>4. CASE Header
    <2>1. LineTyped' /\ Reading'
      BY <1>0, <1>4, ReadingStays DEF Header, LineTyped
    <2> QED
      BY <1>0, <1>4, <2>1 DEF Typed, Header
  <1>5. CASE InitLine
    <2>1. LineTyped'
      BY <1>0, <1>5 DEF InitLine, LineTyped, LineSet, Stored
    <2>2. Reading'
      BY <1>0, <1>5, ReadingStays DEF InitLine
    <2> QED
      BY <1>0, <1>5, <2>1, <2>2 DEF Typed, InitLine
  <1>6. CASE WorkLine
    <2>1. LineTyped' /\ Reading'
      BY <1>0, <1>6, TypedWorkLine, ReadingStays DEF WorkLine
    <2> QED
      BY <1>0, <1>6, <2>1 DEF Typed, WorkLine
  <1>7. CASE line_parse
    <2>1. LineTyped' /\ Reading'
      BY <1>0, <1>7, TypedParse, ReadingStays DEF line_parse
    <2>2. pc' \in {"overrun", "taken", "ngram"}
      BY <1>0, <1>7, ParseIs
    <2> QED
      BY <1>0, <1>7, <2>1, <2>2 DEF Typed, line_parse
  <1>8. CASE line_fetch_ngram \/ line_fetch_word \/ LastWord \/ NextWalk
    <2>1. LineTyped'
      BY <1>8, TypedTaking
    <2>2. UNCHANGED <<file, input, header, file_status>>
          /\ pc' \in {"ngram", "word", "taken"}
      BY <1>8, Zenon DEF line_fetch_ngram, line_fetch_word, LastWord, NextWalk
    <2>3. Reading'
      BY <1>0, <2>2, ReadingStays
    <2> QED
      BY <1>0, <2>1, <2>2, <2>3 DEF Typed
  <1>9. CASE EndOfFile \/ LineDone \/ Stopped \/ UNCHANGED vars
    <2>1. UNCHANGED <<file, input, file_status, line>> /\ header' \in {"none", header}
          /\ pc' \in {"closed", "fetch", pc}
      BY <1>9 DEF EndOfFile, LineDone, Stopped, vars
    <2>2. LineTyped' /\ Reading'
      BY <1>0, <2>1, ReadingStays DEF LineTyped
    <2> QED
      BY <1>0, <2>1, <2>2 DEF Typed
  <1> QED
    BY <1>1, <1>2, <1>3, <1>4, <1>5, <1>6, <1>7, <1>8, <1>9 DEF Next

\* They hold in every reachable state.
LEMMA TypedInvariant == Spec => []Typed
  <1>1. Init => Typed
    BY TypedInit
  <1>2. Typed /\ [Next]_vars => Typed'
    BY TypedStep
  <1> QED
    BY <1>1, <1>2, PTL DEF Spec

\* Types of LineInput: nothing is written outside the buffer (string_utils.c:247), and the
\* positions of the n-gram and of the word stay inside of it.
THEOREM LineInputTypes == Spec => []TypeOK
  <1>1. Typed => TypeOK
    BY LineIs DEF Typed, TypeOK
  <1> QED
    BY <1>1, TypedInvariant, PTL

---------------------------------------------------------------------------
(* The inductive invariant: what the line, the words taken and the lines    *)
(* given have to do with the part of the file that was read.                *)

\* The line that begins behind the first m characters, without its newline.
Line(m) == Whole(file, SubSeq(file.text, m + 1, Read - 1))

\* How many characters of it are in the buffer.
Length(m) == Ahead + Read - m

\* The character at index i of the buffer.
CharAt(m, i) == IF i < Ahead THEN IF i = 0 THEN "A" ELSE SPACE
                ELSE file.text[m + i + 1 - Ahead]

\* A line begins behind the first m characters, and it was read up to Read.
Begins(m) == /\ m \in 0 .. Read
             /\ m > 0 => file.text[m] = NEWLINE
             /\ \A i \in m + 1 .. Read - 1 : file.text[i] # NEWLINE

(* The lines given so far, and the status.                                  *)

SameLine(got, line_expected) ==
    /\ got.status = line_expected.status /\ got.k = line_expected.k
    /\ NoWords(line_expected) \/ got.taken = line_expected.taken

\* The lines given are the first ones of the file.
GivenInOrder == /\ \E S : given \in Seq(S)
                /\ Len(given) <= Len(Expected(file))
                /\ \A i \in 1 .. Len(given) : SameLine(given[i], Expected(file)[i])

\* The lines given are those in front of position m.
Agree(m) == /\ GivenInOrder
            /\ LinesBehind(file)[m] = SubSeq(Expected(file), Len(given) + 1, Len(Expected(file)))

StatusKnown == HeaderOf(file) # "none" => file_status = HeaderOf(file)

(* The newline of the header, which stays in the buffer behind shorter lines.              *)

HeaderEnd == Min(Newlines(file, 0))

\* In the first n characters of the file no line behind the header reaches the index where
\* the header has its newline.
OldEndLeft(n) ==
    /\ HasHeader(file) /\ HeaderEnd <= n
    /\ \A m \in Newlines(file, 0) : \A p \in m + 1 .. n :
          (\A q \in m + 1 .. p - 1 : file.text[q] # NEWLINE) => p - m < HeaderEnd - 1

OldEnds(n) == IF OldEndLeft(n) THEN {HeaderEnd + 1} ELSE {}

\* A buffer with no other newline than that of the header.
OnlyOld(buffer, bufsize) ==
    /\ OldEnds(Read) \subseteq 0 .. bufsize - 2
    /\ \A i \in 0 .. bufsize - 1 : buffer[i] = NEWLINE <=> i \in OldEnds(Read)

(* The line, at each place of the program.                                  *)

\* The buffer holds what was read of the line and a NUL; the only newlines in it are at the
\* end of the line and where that of the header was left.
Filled(m) == /\ Length(m) < Bufsize
             /\ \A i \in 0 .. Length(m) - 1 : line.buffer[i] = CharAt(m, i)
             /\ line.buffer[Length(m)] = NUL
             /\ OldEnds(Read) \subseteq 0 .. Bufsize - 2
             /\ \A i \in 0 .. Bufsize - 1 :
                   line.buffer[i] = NEWLINE <=> \/ i = Length(m) - 1 /\ file.text[Read] = NEWLINE
                                                \/ i \in OldEnds(Read)

NewLine == words = <<>> /\ taken = <<>>

AtFetch == /\ NewLine /\ Begins(Read) /\ Agree(Read)
           /\ header # "none" => Read > 0
           /\ Read > 0 => StatusKnown
           /\ OnlyOld(line.buffer, Bufsize)

AtPhrase(m) == /\ NewLine /\ Begins(m) /\ m < Read /\ Agree(m)
               /\ header # "none" => m > 0
               /\ m > 0 => StatusKnown
               /\ Filled(m)
               /\ file.text[Read] = NEWLINE \/ Length(m) = Bufsize - 1 \/ input = <<>>

\* The line is complete, and the program knows what it asks for.
Complete(m) == /\ Begins(m) /\ m < Read /\ Agree(m) /\ StatusKnown
               /\ file.text[Read] = NEWLINE /\ ~(m = 0 /\ HasHeader(file))
               /\ LinesBehind(file)[m] = <<Task(Line(m))>> \o LinesBehind(file)[Read]
               /\ Valid(Line(m))
               /\ line.line_status = Line(m)[1]
               /\ line.line_status = "F" => line.k = Task(Line(m)).k

\* An init file has ended inside the line, and all lines in front of it were given.
CutOff == /\ file.lm_status = "I" /\ Unfinished(file) /\ input = <<>>
          /\ GivenInOrder /\ Len(given) = Len(Expected(file)) /\ StatusKnown

AtParse == /\ NewLine
           /\ \/ \E m \in 0 .. Read : Complete(m) /\ Filled(m)
              \/ CutOff /\ OnlyOld(line.buffer, Bufsize)

\* The line is cut into words.
Cut(m) == /\ line.line_end = Len(Line(m)) /\ line.line_end < Bufsize
          /\ \A i \in 0 .. line.line_end - 1 :
                line.buffer[i] = IF Line(m)[i + 1] = SPACE THEN NUL ELSE Line(m)[i + 1]
          /\ line.buffer[line.line_end] = NUL
          /\ line.buffer[Bufsize - 1] = NUL
          /\ OnlyOld(line.buffer, Bufsize)

\* The words of the line, and those behind index i of the buffer.
WordsIn(m) == Words(Line(m))[2]
Behind(m, i) == Words(Line(m))[i + 1]

\* The lists of a search: one from each word, of which the first k were taken.
WalksTaken(m) ==
    /\ line.n_gram_position <= line.line_end
    /\ \E k \in 0 .. Len(WordsIn(m)) :
          /\ taken = [i \in 1 .. k |-> SubSeq(WordsIn(m), i, Len(WordsIn(m)))]
          /\ Behind(m, End(line.n_gram_position)) = SubSeq(WordsIn(m), k + 1, Len(WordsIn(m)))

\* The list of an insertion, or the two of a deletion, of which one may have been taken.
ListTaken(m) == \/ taken = <<>>
                \/ /\ line.line_status = "D" /\ taken # <<>>
                   /\ WordsIn(m) # <<>> => taken = <<WordsIn(m)>>

AtNGram(m) == /\ words = <<>>
              /\ line.line_status \in {"A", "D", "Q"}
              /\ line.line_status = "Q" => WalksTaken(m)
              /\ line.line_status # "Q" => line.n_gram_position = 0 /\ ListTaken(m)

\* line_fetch_word has returned some of the words, or none yet.
Returned(m) ==
    /\ line.word_position \in 0 .. line.line_end - 1
    /\ line.buffer[line.word_position] # NUL
    /\ IF line.word_start = NULL
       THEN words = <<>> /\ Behind(m, line.word_position) = WordsIn(m)
       ELSE /\ words \in Seq(Seq(Stored))
            /\ words \o Behind(m, End(line.word_position)) = WordsIn(m)

AtWord(m) == /\ line.line_status \in {"A", "D"}
             /\ ListTaken(m)
             /\ WordsIn(m) # <<>> => Returned(m)

AtTaken(m) == /\ words = <<>>
              /\ NoWords(Task(Line(m))) \/ taken = Task(Line(m)).taken

AtLine(m) == /\ Complete(m) /\ Cut(m)
             /\ pc = "ngram" => AtNGram(m)
             /\ pc = "word" => AtWord(m)
             /\ pc = "taken" => AtTaken(m)

\* The line that the parser has found in front of the newline of the header.
AtExtra == CutOff /\ HeaderEndRemains(file)

\* It has been given, behind all lines of the file.
AfterExtra == /\ input = <<>> /\ StatusOfHeader /\ HeaderEndRemains(file)
              /\ \E S : given \in Seq(S)
              /\ Len(given) = Len(Expected(file)) + 1
              /\ \A i \in 1 .. Len(Expected(file)) : SameLine(given[i], Expected(file)[i])

\* The program has got all lines of the file, and there is no line of that kind.
AtClosed == /\ GivenInOrder /\ Len(given) = Len(Expected(file))
            /\ StatusOfHeader /\ ~HeaderEndRemains(file)

Progress == /\ pc = "fetch" => AtFetch \/ AfterExtra
            /\ pc = "phrase" => (\E m \in 0 .. Read : AtPhrase(m))
            /\ pc = "parse" => AtParse
            /\ pc \in {"ngram", "word", "taken"} => (\E m \in 0 .. Read : AtLine(m)) \/ AtExtra
            /\ pc = "closed" => AtClosed \/ AfterExtra
            /\ pc = "overrun" => CutOff /\ ~HeaderEndRemains(file)

IInv == Typed /\ Progress

---------------------------------------------------------------------------
(* The line in the file.                                                    *)

LEMMA AheadIs ==
  ASSUME Reading
  PROVE  /\ file.lm_status = "I" => Ahead = 2
         /\ file.lm_status = "Q" => Ahead = 0
         /\ file.lm_status \in {"I", "Q"} /\ Ahead \in {0, 2}
  BY FileText DEF Ahead, Reading

\* The characters of the line.
LEMMA LineText ==
  ASSUME Reading, NEW m \in Nat, m < Read
  PROVE  /\ Length(m) \in Nat /\ Length(m) >= 1 + Ahead
         /\ Line(m) \in Seq(Stored) /\ Len(Line(m)) = Length(m) - 1
         /\ \A i \in 0 .. Length(m) - 2 : Line(m)[i + 1] = CharAt(m, i)
         /\ \A i \in 0 .. Length(m) - 1 : CharAt(m, i) \in Char \union {"A", SPACE}
         /\ CharAt(m, Length(m) - 1) = file.text[Read]
  <1> DEFINE text == file.text
             L == Len(text)
             r == Read
             s == SubSeq(text, m + 1, r - 1)
             front == Ahead
  <1>0. /\ L \in Nat /\ r \in 0 .. L /\ \A i \in 1 .. L : text[i] \in Char
        /\ front \in {0, 2} /\ (file.lm_status = "I" <=> front = 2)
    BY InputIs, AheadIs
  <1>1. /\ s \in Seq(Stored) /\ Len(s) = r - 1 - m
        /\ \A i \in 1 .. r - 1 - m : s[i] = text[m + i]
    <2> HIDE DEF text, L, r
    <2>1. \A i \in m + 1 .. r - 1 : text[i] \in Stored
      BY <1>0 DEF Stored
    <2>2. m + 1 \in Int /\ r - 1 \in Int /\ (r - 1) - (m + 1) + 1 = r - 1 - m
          /\ (m + 1 <= r - 1 => r - 1 - m >= 1) /\ (~(m + 1 <= r - 1) => r - 1 - m = 0)
      BY <1>0 DEF r
    <2>3. /\ s \in Seq(Stored) /\ Len(s) = (IF m + 1 <= r - 1 THEN (r - 1) - (m + 1) + 1 ELSE 0)
          /\ \A i \in 1 .. (r - 1) - (m + 1) + 1 : s[i] = text[(m + 1) + i - 1]
      BY <2>1, <2>2, SubSeqProperties
    <2> HIDE DEF s
    <2>4. \A i \in 1 .. r - 1 - m : (m + 1) + i - 1 = m + i
      BY <2>2
    <2> QED
      BY <2>2, <2>3, <2>4
  <1> HIDE DEF s
  <1>2. /\ Line(m) \in Seq(Stored) /\ Len(Line(m)) = front + Len(s)
        /\ \A i \in 1 .. front + Len(s) : Line(m)[i] = IF i <= front THEN IF i = 1 THEN "A" ELSE SPACE
                                                    ELSE s[i - front]
    <2>1. CASE file.lm_status = "I"
      <3> DEFINE pair == <<"A", SPACE>>
      <3>1. pair \in Seq(Stored) /\ Len(pair) = 2 /\ pair[1] = "A" /\ pair[2] = SPACE
        BY DEF Stored
      <3>2. Line(m) = pair \o s
        BY <2>1 DEF Line, Whole, s
      <3>3. front = 2
        BY <1>0, <2>1
      <3> HIDE DEF pair, front
      <3>4. /\ pair \o s \in Seq(Stored) /\ Len(pair \o s) = Len(pair) + Len(s)
            /\ \A i \in 1 .. Len(pair) + Len(s) :
                  (pair \o s)[i] = IF i <= Len(pair) THEN pair[i] ELSE s[i - Len(pair)]
        BY <1>1, <3>1, ConcatProperties
      <3> QED
        BY <3>1, <3>2, <3>3, <3>4
    <2>2. CASE file.lm_status # "I"
      <3>1. Line(m) = s
        BY <2>2 DEF Line, Whole, s
      <3>2. front = 0
        BY <1>0, <2>2
      <3>3. Len(s) \in Nat
        BY <1>1
      <3> HIDE DEF front
      <3>4. \A i \in 1 .. front + Len(s) : ~(i <= front) /\ i - front = i
        BY <3>2, <3>3
      <3> QED
        BY <1>1, <3>1, <3>2, <3>3, <3>4
    <2> QED
      BY <2>1, <2>2
  <1>3. Length(m) = front + r - m
    BY DEF Length
  <1>4. \A i : CharAt(m, i) = IF i < front THEN IF i = 0 THEN "A" ELSE SPACE
                              ELSE text[m + i + 1 - front]
    BY Zenon DEF CharAt
  <1>5. r \in Nat /\ m < r
    BY <1>0
  <1> HIDE DEF text, r, front, L
  <1>6. Length(m) \in Nat /\ Length(m) >= 1 + front /\ Len(Line(m)) = Length(m) - 1
    BY <1>0, <1>1, <1>2, <1>3, <1>5
  <1>7. ASSUME NEW i \in 0 .. Length(m) - 2
        PROVE  Line(m)[i + 1] = CharAt(m, i)
    <2>1. i + 1 \in 1 .. front + Len(s) /\ (i + 1 <= front <=> i < front) /\ (i + 1 = 1 <=> i = 0)
      BY <1>0, <1>1, <1>3, <1>5
    <2>3. CASE i < front
      <3>1. Line(m)[i + 1] = IF i = 0 THEN "A" ELSE SPACE
        BY <1>2, <2>1, <2>3
      <3>2. CharAt(m, i) = IF i = 0 THEN "A" ELSE SPACE
        BY <1>4, <2>3
      <3> QED
        BY <3>1, <3>2
    <2>4. CASE ~(i < front)
      <3>0. (i + 1) - front \in 1 .. r - 1 - m /\ m + ((i + 1) - front) = m + i + 1 - front
        <4>1. i \in Nat /\ Length(m) = front + r - m /\ i <= Length(m) - 2 /\ front \in {0, 2}
          BY <1>0, <1>3, <1>6
        <4> QED
          BY <1>5, <2>4, <4>1
      <3> DEFINE j == i + 1
                 k == j - front
      <3>1. j \in 1 .. front + Len(s) /\ ~(j <= front)
        BY <2>1, <2>4
      <3>2. k \in 1 .. r - 1 - m /\ m + k = m + i + 1 - front
        BY <3>0
      <3>3. Line(m)[j] = s[k]
        <4> HIDE DEF j
        <4> QED
          BY <1>2, <3>1
      <3>4. s[k] = text[m + k]
        <4> HIDE DEF j, k
        <4> QED
          BY <1>1, <3>2
      <3>5. CharAt(m, i) = text[m + i + 1 - front]
        BY <1>4, <2>4
      <3> HIDE DEF k
      <3> QED
        BY <3>2, <3>3, <3>4, <3>5
    <2> QED
      BY <2>3, <2>4, Zenon
  <1>8. ASSUME NEW i \in 0 .. Length(m) - 1
        PROVE  CharAt(m, i) \in Char \union {"A", SPACE}
    <2>1. ~(i < front) => m + i + 1 - front \in 1 .. L
      BY <1>0, <1>3, <1>5
    <2> QED
      BY <1>0, <1>4, <2>1
  <1>9. CharAt(m, Length(m) - 1) = text[r]
    <2>1. ~(Length(m) - 1 < front) /\ m + (Length(m) - 1) + 1 - front = r
      BY <1>0, <1>3, <1>5
    <2> QED
      BY <1>4, <2>1
  <1> QED
    BY <1>2, <1>6, <1>7, <1>8, <1>9 DEF front, text, r

\* The end of the line in the file, and what the file says of the line.
LEMMA LineEnds ==
  ASSUME Reading, NEW m \in Nat, Begins(m), m < Read, file.text[Read] = NEWLINE
  PROVE  /\ Newlines(file, m) # {} /\ Min(Newlines(file, m)) = Read
         /\ LineBehind(file, m) = Line(m)
         /\ \A i \in 0 .. Length(m) - 2 : CharAt(m, i) # NEWLINE
         /\ m \in 0 .. Len(file.text) /\ Read \in 0 .. Len(file.text)
  <1> DEFINE text == file.text
             L == Len(text)
             N == Newlines(file, m)
             n == Min(N)
  <1>0. /\ L \in Nat /\ Read \in 0 .. L /\ file \in Files /\ Ahead \in {0, 2}
        /\ \A i \in m + 1 .. Read - 1 : text[i] # NEWLINE
    BY InputIs, AheadIs DEF Begins
  <1>1. m \in 0 .. L /\ Read \in m + 1 .. L
    <2> HIDE DEF L
    <2> QED
      BY <1>0
  <1>2. Read \in N
    BY <1>1 DEF Newlines
  <1>3. n \in m + 1 .. L /\ text[n] = NEWLINE /\ \A i \in m + 1 .. n - 1 : text[i] # NEWLINE
    BY <1>0, <1>1, <1>2, NewlineIs
  <1> HIDE DEF n, N
  <1>4. n = Read
    <2> HIDE DEF L
    <2>1. n < Read => n \in m + 1 .. Read - 1
      BY <1>0, <1>1, <1>3
    <2>2. Read < n => Read \in m + 1 .. n - 1
      BY <1>0, <1>1, <1>3
    <2> HIDE DEF text
    <2> QED
      BY <1>0, <1>1, <1>3, <2>1, <2>2 DEF text
  <1>5. LineBehind(file, m) = Line(m)
    BY <1>4 DEF LineBehind, Line, n, N
  <1>6. ASSUME NEW i \in 0 .. Length(m) - 2
        PROVE  CharAt(m, i) # NEWLINE
    <2>1. ~(i < Ahead) => m + i + 1 - Ahead \in m + 1 .. Read - 1
      <3>1. Length(m) = Ahead + Read - m
        BY DEF Length
      <3> QED
        BY <1>0, <3>1
    <2>2. CharAt(m, i) = IF i < Ahead THEN IF i = 0 THEN "A" ELSE SPACE
                         ELSE text[m + i + 1 - Ahead]
      BY Zenon DEF CharAt
    <2> QED
      BY <1>0, <2>1, <2>2 DEF NEWLINE, SPACE
  <1> QED
    BY <1>0, <1>1, <1>2, <1>4, <1>5, <1>6 DEF n, N

\* No line begins where no newline is left.
LEMMA NoLine ==
  ASSUME Reading, NEW m \in Nat, m \in 0 .. Read, input = <<>>,
         \A i \in m + 1 .. Len(file.text) : file.text[i] # NEWLINE
  PROVE  LinesBehind(file)[m] = <<>>
  <1>1. Newlines(file, m) = {}
    BY DEF Newlines
  <1>2. file \in Files /\ m \in 0 .. Len(file.text)
    <2> DEFINE L == Len(file.text)
    <2>1. file \in Files /\ Read \in 0 .. L /\ L \in Nat
      BY InputIs
    <2> HIDE DEF L
    <2>2. m \in 0 .. L
      BY <2>1
    <2> QED
      BY <2>1, <2>2 DEF L
  <1> QED
    BY <1>1, <1>2, LinesUnfold

\* What the lines behind m ask for: the line there and those behind it.
LEMMA ThisLine ==
  ASSUME Reading, NEW m \in Nat, Begins(m), m < Read, file.text[Read] = NEWLINE
  PROVE  /\ ~Valid(Line(m)) => LinesBehind(file)[m] = <<>>
         /\ Valid(Line(m)) /\ m = 0 /\ HasHeader(file)
               => LinesBehind(file)[m] = LinesBehind(file)[Read]
         /\ Valid(Line(m)) /\ ~(m = 0 /\ HasHeader(file))
               => LinesBehind(file)[m] = <<Task(Line(m))>> \o LinesBehind(file)[Read]
         /\ LinesBehind(file)[m] \in Seq(Asked(file))
         /\ LinesBehind(file)[Read] \in Seq(Asked(file))
         /\ Task(Line(m)) \in Asked(file)
  <1>0. /\ Newlines(file, m) # {} /\ Min(Newlines(file, m)) = Read
        /\ LineBehind(file, m) = Line(m) /\ file \in Files
        /\ m \in 0 .. Len(file.text) /\ Read \in 0 .. Len(file.text)
    BY LineEnds, InputIs
  <1>1. LinesBehind(file)[m] =
           IF Newlines(file, m) = {} \/ ~Valid(LineBehind(file, m)) THEN <<>>
           ELSE (IF m = 0 /\ HasHeader(file) THEN <<>> ELSE <<Task(LineBehind(file, m))>>)
                    \o LinesBehind(file)[Min(Newlines(file, m))]
    BY <1>0, LinesUnfold, Zenon
  <1>2. LinesBehind(file)[m] \in Seq(Asked(file)) /\ LinesBehind(file)[Read] \in Seq(Asked(file))
    BY <1>0, LinesUnfold, Zenon
  <1>3. <<>> \o LinesBehind(file)[Read] = LinesBehind(file)[Read]
    BY <1>2, ConcatEmptySeq, Zenon
  <1>4. Task(Line(m)) \in Asked(file)
    BY <1>0 DEF Asked
  <1> QED
    BY <1>0, <1>1, <1>2, <1>3, <1>4, Zenon

\* A line of an init file is an insertion.
LEMMA InitLineValid ==
  ASSUME Reading, NEW m \in Nat, m < Read, file.lm_status = "I"
  PROVE  Valid(Line(m)) /\ Line(m)[1] = "A"
  <1>1. /\ Length(m) \in Nat /\ Length(m) >= 1 + Ahead
        /\ Line(m) \in Seq(Stored) /\ Len(Line(m)) = Length(m) - 1
        /\ \A i \in 0 .. Length(m) - 2 : Line(m)[i + 1] = CharAt(m, i)
        /\ Ahead = 2
    BY LineText, AheadIs
  <1>2. 0 \in 0 .. Length(m) - 2 /\ 1 \in 0 .. Length(m) - 2 /\ Len(Line(m)) > 1
    BY <1>1
  <1>3. CharAt(m, 0) = "A" /\ CharAt(m, 1) = SPACE
    BY <1>1 DEF CharAt
  <1>4. Line(m)[0 + 1] = "A" /\ Line(m)[1 + 1] = SPACE
    BY <1>1, <1>2, <1>3
  <1>5. 0 + 1 = 1 /\ 1 + 1 = 2
    OBVIOUS
  <1>6. Line(m) # <<>>
    BY <1>2
  <1> QED
    BY <1>2, <1>4, <1>5, <1>6 DEF Valid

---------------------------------------------------------------------------
(* What an action leaves alone.                                             *)

LEMMA FileStays ==
  ASSUME UNCHANGED <<file, input>>, NEW m
  PROVE  /\ Read' = Read /\ Ahead' = Ahead
         /\ Line(m)' = Line(m) /\ Length(m)' = Length(m)
         /\ Begins(m)' = Begins(m)
         /\ \A i : CharAt(m, i)' = CharAt(m, i)
         /\ OldEnds(Read)' = OldEnds(Read)
  <1>1. Read' = Read
    BY DEF Read
  <1>2. Ahead' = Ahead
    BY DEF Ahead
  <1>3. OldEnds(Read)' = OldEnds(Read)
    BY <1>1 DEF OldEnds, OldEndLeft, HeaderEnd
  <1> QED
    BY <1>1, <1>2, <1>3 DEF Line, Length, Begins, CharAt

\* What was given is not changed by a step that gives nothing.
LEMMA GivenStays ==
  ASSUME UNCHANGED <<file, given>>, NEW m
  PROVE  GivenInOrder' = GivenInOrder /\ Agree(m)' = Agree(m)
  BY DEF GivenInOrder, Agree

\* The status is not changed by a step that does not set it.
LEMMA StatusStays ==
  ASSUME UNCHANGED <<file, file_status>>
  PROVE  StatusKnown' = StatusKnown
  BY DEF StatusKnown

---------------------------------------------------------------------------
(* The lines given.                                                         *)

LEMMA ExpectedIs ==
  ASSUME Reading
  PROVE  Expected(file) \in Seq(Asked(file)) /\ Len(Expected(file)) \in Nat
         /\ Expected(file) = LinesBehind(file)[0]
  <1>1. file \in Files /\ 0 \in 0 .. Len(file.text)
    <2>1. file \in Files /\ Len(file.text) \in Nat
      BY InputIs
    <2> QED
      BY <2>1
  <1>2. LinesBehind(file)[0] \in Seq(Asked(file))
    BY <1>1, LinesUnfold, Zenon
  <1> QED
    BY <1>2 DEF Expected

\* The lines given are numbered from 1.
LEMMA GivenIs ==
  ASSUME GivenInOrder
  PROVE  Len(given) \in Nat /\ DOMAIN given = 1 .. Len(given) /\ (given = <<>> <=> Len(given) = 0)
  <1>1. PICK S : given \in Seq(S)
    BY DEF GivenInOrder
  <1> QED
    BY <1>1, EmptySeq, LenProperties

\* How many lines are behind m.
LEMMA AgreeLength ==
  ASSUME Reading, NEW m, Agree(m)
  PROVE  Len(LinesBehind(file)[m]) = Len(Expected(file)) - Len(given)
  <1> DEFINE e == Expected(file)
             g == Len(given)
             n == Len(e)
  <1>1. e \in Seq(Asked(file)) /\ n \in Nat /\ g \in Nat /\ g <= n
    BY ExpectedIs, GivenIs DEF Agree, GivenInOrder
  <1>2. LinesBehind(file)[m] = SubSeq(e, g + 1, n)
    BY DEF Agree
  <1> HIDE DEF g, n
  <1>3. \A i \in g + 1 .. n : i \in 1 .. n
    BY <1>1
  <1>4. \A i \in g + 1 .. n : e[i] \in Asked(file)
    BY <1>1, <1>3, ElementOfSeq DEF n
  <1>5. g + 1 \in Int /\ n \in Int
    BY <1>1
  <1>6. Len(SubSeq(e, g + 1, n)) = IF g + 1 <= n THEN n - (g + 1) + 1 ELSE 0
    <2> HIDE DEF e
    <2> QED
      BY <1>4, <1>5, SubSeqProperties
  <1>7. Len(SubSeq(e, g + 1, n)) = n - g
    <2> HIDE DEF e
    <2> QED
      BY <1>1, <1>6
  <1> QED
    BY <1>2, <1>7 DEF g, n

\* No line is behind m.
LEMMA AllGiven ==
  ASSUME Reading, NEW m, Agree(m), LinesBehind(file)[m] = <<>>
  PROVE  GivenInOrder /\ Len(given) = Len(Expected(file))
  <1>1. Len(LinesBehind(file)[m]) = Len(Expected(file)) - Len(given)
    BY AgreeLength
  <1>2. Len(LinesBehind(file)[m]) = 0
    OBVIOUS
  <1>3. GivenInOrder
    BY DEF Agree
  <1>4. Len(Expected(file)) \in Nat /\ Len(given) \in Nat
    BY <1>3, ExpectedIs, GivenIs
  <1> QED
    BY <1>1, <1>2, <1>3, <1>4

\* In front of the first line none was given.
LEMMA AtStart ==
  ASSUME Reading, Agree(0)
  PROVE  given = <<>>
  <1>1. Len(LinesBehind(file)[0]) = Len(Expected(file)) - Len(given)
    BY AgreeLength
  <1>2. Expected(file) = LinesBehind(file)[0] /\ Len(Expected(file)) \in Nat
    BY ExpectedIs
  <1>3. GivenInOrder /\ Len(given) \in Nat
    BY GivenIs DEF Agree
  <1>4. Len(given) = 0
    BY <1>1, <1>2, <1>3
  <1> QED
    BY <1>3, <1>4, GivenIs

\* When the header has been passed the status is that of the header.
LEMMA StatusSoFar ==
  ASSUME Reading, NEW m \in Nat, Agree(m), m > 0 => StatusKnown
  PROVE  StatusOfHeader
  <1>1. CASE m = 0
    BY <1>1, AtStart DEF StatusOfHeader
  <1>2. CASE m # 0
    BY <1>2 DEF StatusOfHeader, StatusKnown
  <1> QED
    BY <1>1, <1>2

\* A work file has no header.
LEMMA NoHeader ==
  ASSUME Reading, file.lm_status = "Q"
  PROVE  HeaderOf(file) = "none" /\ StatusKnown /\ StatusOfHeader /\ ~HeaderEndRemains(file)
  BY DEF HeaderOf, HasHeader, StatusKnown, StatusOfHeader, HeaderEndRemains

---------------------------------------------------------------------------
(* The newline of the header.                                               *)

\* Where the header ends, and the lines behind it begin.
LEMMA HeaderEndIs ==
  ASSUME Reading, HasHeader(file)
  PROVE  /\ Len(file.text) \in Nat /\ file.lm_status = "I" /\ Ahead = 2
         /\ HeaderEnd \in 1 .. Len(file.text) /\ file.text[HeaderEnd] = NEWLINE
         /\ \A i \in 1 .. HeaderEnd - 1 : file.text[i] # NEWLINE
         /\ \A i \in 1 .. Len(file.text) : i \in Newlines(file, 0) <=> file.text[i] = NEWLINE
         /\ \A m \in Newlines(file, 0) : /\ m \in HeaderEnd .. Len(file.text)
                                        /\ m \in Nat /\ file.text[m] = NEWLINE
  <1>1. file \in Files /\ Len(file.text) \in Nat /\ file.lm_status = "I" /\ Ahead = 2
    BY InputIs, AheadIs DEF HasHeader
  <1>2. Newlines(file, 0) # {} /\ 0 \in 0 .. Len(file.text)
    BY <1>1 DEF HasHeader
  <1>3. /\ HeaderEnd \in 0 + 1 .. Len(file.text) /\ file.text[HeaderEnd] = NEWLINE
        /\ \A i \in 0 + 1 .. HeaderEnd - 1 : file.text[i] # NEWLINE
    BY <1>1, <1>2, NewlineIs DEF HeaderEnd
  <1>4. \A i \in 0 + 1 .. Len(file.text) : i \in Newlines(file, 0) <=> file.text[i] = NEWLINE
    BY DEF Newlines
  <1>5. ASSUME NEW m \in Newlines(file, 0)
        PROVE  m \in HeaderEnd .. Len(file.text) /\ m \in Nat /\ file.text[m] = NEWLINE
    <2>1. m \in 0 + 1 .. Len(file.text) /\ file.text[m] = NEWLINE
      BY DEF Newlines
    <2>2. ~(m < HeaderEnd)
      BY <1>1, <1>3, <2>1
    <2> QED
      BY <1>1, <1>3, <2>1, <2>2
  <1>6. 0 + 1 = 1
    OBVIOUS
  <1> QED
    BY <1>1, <1>3, <1>4, <1>5, <1>6

\* In front of the end of the header nothing was left.
LEMMA NothingLeft ==
  ASSUME Reading, NEW n \in Nat, ~HasHeader(file) \/ n < HeaderEnd
  PROVE  OldEnds(n) = {}
  <1>1. CASE ~HasHeader(file)
    BY <1>1 DEF OldEnds, OldEndLeft
  <1>2. CASE HasHeader(file)
    <2>1. HeaderEnd \in Nat
      BY <1>2, HeaderEndIs
    <2>2. ~(HeaderEnd <= n)
      BY <1>2, <2>1
    <2> QED
      BY <2>2 DEF OldEnds, OldEndLeft
  <1> QED
    BY <1>1, <1>2

\* When a line behind the header goes on, the newline of the header stays only if the line
\* does not reach it.
LEMMA OldEndStays ==
  ASSUME Reading, HasHeader(file), NEW m \in Nat, m > 0, NEW r \in Nat, m <= r,
         NEW e \in Nat, r < e, e <= Len(file.text), file.text[m] = NEWLINE,
         \A i \in m + 1 .. e - 1 : file.text[i] # NEWLINE
  PROVE  OldEndLeft(e) <=> OldEndLeft(r) /\ e - m < HeaderEnd - 1
  <1> DEFINE text == file.text
             L == Len(text)
             H == HeaderEnd
             N == Newlines(file, 0)
             through(k, p) == \A q \in k + 1 .. p - 1 : text[q] # NEWLINE
             left(x) == \A k \in N : \A p \in k + 1 .. x : through(k, p) => p - k < H - 1
  <1>1. /\ L \in Nat /\ H \in 1 .. L
        /\ \A i \in 1 .. L : i \in N <=> text[i] = NEWLINE
        /\ \A k \in N : k \in H .. L /\ k \in Nat /\ text[k] = NEWLINE
    BY HeaderEndIs
  <1>2. \A x : OldEndLeft(x) <=> H <= x /\ left(x)
    BY Zenon DEF OldEndLeft
  <1>3. \A i \in m + 1 .. e - 1 : text[i] # NEWLINE
    OBVIOUS
  <1>4. e <= L /\ text[m] = NEWLINE
    OBVIOUS
  <1> HIDE DEF text, L, H, N, through, left
  <1>5. m \in N /\ H <= m /\ H <= r /\ H <= e
    <2>1. m \in 1 .. L
      BY <1>1, <1>4
    <2>2. m \in N
      BY <1>1, <1>4, <2>1
    <2> QED
      BY <1>1, <2>2
  <1>6. ASSUME left(e)
        PROVE  left(r) /\ e - m < H - 1
    <2>1. e \in m + 1 .. e
      OBVIOUS
    <2>2. through(m, e)
      BY <1>3 DEF through
    <2>3. e - m < H - 1
      BY <1>5, <1>6, <2>1, <2>2 DEF left
    <2>4. \A k \in N : \A p \in k + 1 .. r : p \in k + 1 .. e
      BY <1>1
    <2>5. left(r)
      BY <1>6, <2>4 DEF left
    <2> QED
      BY <2>3, <2>5
  <1>7. ASSUME left(r), e - m < H - 1
        PROVE  left(e)
    <2> SUFFICES ASSUME NEW k \in N, NEW p \in k + 1 .. e, through(k, p)
                 PROVE  p - k < H - 1
      BY DEF left
    <2>1. k \in Nat /\ p \in Nat /\ k \in H .. L /\ H \in Nat /\ text[k] = NEWLINE
      BY <1>1
    <2>2. CASE p <= r
      <3>1. p \in k + 1 .. r
        BY <2>1, <2>2
      <3> QED
        BY <1>7, <3>1 DEF left
    <2>3. CASE p > r /\ k < m
      <3>1. m \in k + 1 .. p - 1
        BY <2>1, <2>3
      <3> QED
        BY <1>4, <3>1 DEF through
    <2>4. CASE p > r /\ k > m
      <3>1. k \in m + 1 .. e - 1
        BY <2>1, <2>4
      <3> QED
        BY <1>3, <2>1, <3>1
    <2>5. CASE p > r /\ k = m
      BY <1>7, <2>1, <2>5
    <2> QED
      BY <2>1, <2>2, <2>3, <2>4, <2>5
  <1> QED
    BY <1>2, <1>5, <1>6, <1>7 DEF H

\* The newlines left when a line was read on from r to e.
OldEndsFrom(m, r, e) ==
    \A i \in Nat : i \in OldEnds(e) <=>
        \/ i \in OldEnds(r) /\ i > Ahead + e - m
        \/ /\ m = 0 /\ HasHeader(file) /\ file.text[e] = NEWLINE
           /\ i = Ahead + e - m - 1

\* What reading on does to the newline of the header: it comes with the header, and a line
\* that goes on overwrites it when it reaches it.
LEMMA OldEndsGrow ==
  ASSUME Reading, NEW m \in Nat, NEW r \in Nat, m <= r,
         NEW e \in Nat, r < e, e <= Len(file.text), m > 0 => file.text[m] = NEWLINE,
         \A i \in m + 1 .. e - 1 : file.text[i] # NEWLINE
  PROVE  OldEndsFrom(m, r, e)
  <1>1. CASE ~HasHeader(file)
    <2>1. OldEnds(r) = {} /\ OldEnds(e) = {}
      BY <1>1 DEF OldEnds, OldEndLeft
    <2> QED
      BY <1>1, <2>1 DEF OldEndsFrom
  <1>2. CASE HasHeader(file) /\ m = 0
    <2> DEFINE text == file.text
               L == Len(text)
               H == HeaderEnd
    <2>1. /\ L \in Nat /\ Ahead = 2 /\ H \in 1 .. L /\ text[H] = NEWLINE
          /\ \A i \in 1 .. H - 1 : text[i] # NEWLINE
          /\ \A k \in Newlines(file, 0) : k \in H .. L /\ k \in Nat
      BY <1>2, HeaderEndIs
    <2>2. \A i \in 1 .. e - 1 : text[i] # NEWLINE
      BY <1>2
    <2>3. e <= L
      OBVIOUS
    <2> HIDE DEF text, L, H
    <2>4. ~(H < e)
      <3>1. H < e => H \in 1 .. e - 1
        BY <2>1
      <3> QED
        BY <2>1, <2>2, <3>1
    <2>5. r < H
      BY <2>1, <2>4
    <2>6. OldEnds(r) = {}
      BY <2>5, NothingLeft DEF H
    <2>7. CASE e < H
      <3>1. OldEnds(e) = {}
        BY <2>7, NothingLeft DEF H
      <3>2. e \in 1 .. H - 1
        BY <2>1, <2>7
      <3>3. text[e] # NEWLINE
        BY <2>1, <3>2
      <3> QED
        BY <2>6, <3>1, <3>3 DEF text, OldEndsFrom
    <2>8. CASE ~(e < H)
      <3>1. e = H
        BY <2>1, <2>4, <2>8
      <3>2. \A k \in Newlines(file, 0) : \A p \in k + 1 .. H : FALSE
        BY <2>1
      <3>3. H <= H
        BY <2>1
      <3>4. OldEndLeft(H)
        BY <1>2, <3>2, <3>3 DEF OldEndLeft, H
      <3>5. OldEnds(e) = {H + 1}
        BY <3>1, <3>4 DEF OldEnds, H
      <3>6. H + 1 = Ahead + e - m - 1
        BY <1>2, <2>1, <3>1
      <3>7. text[e] = NEWLINE
        BY <2>1, <3>1
      <3> QED
        BY <1>2, <2>6, <3>5, <3>6, <3>7 DEF text, OldEndsFrom
    <2> QED
      BY <2>7, <2>8
  <1>3. CASE HasHeader(file) /\ m # 0
    <2>1. HeaderEnd \in Nat /\ Ahead = 2 /\ Len(file.text) \in Nat
      BY <1>3, HeaderEndIs
    <2>2. OldEndLeft(e) <=> OldEndLeft(r) /\ e - m < HeaderEnd - 1
      <3>1. m > 0 /\ file.text[m] = NEWLINE
        BY <1>3
      <3> QED
        BY <1>3, <3>1, OldEndStays
    <2>3. HeaderEnd + 1 > Ahead + e - m <=> e - m < HeaderEnd - 1
      BY <2>1
    <2> QED
      BY <1>3, <2>2, <2>3 DEF OldEnds, OldEndsFrom
  <1> QED
    BY <1>1, <1>2, <1>3

\* Behind a line other than the header: its newline and the NUL are in front of that of the
\* header.
LEMMA OldEndsBehind ==
  ASSUME Reading, NEW m \in Nat, Begins(m), m < Read
  PROVE  /\ ~(m = 0 /\ HasHeader(file)) => \A i \in OldEnds(Read) : i > Length(m)
         /\ m = 0 /\ HasHeader(file) /\ file.text[Read] = NEWLINE
               => OldEnds(Read) = {Length(m) - 1}
         /\ \A i \in OldEnds(Read) : i \in Nat /\ i >= Length(m) - 1
         /\ file.text[Read] # NEWLINE => \A i \in OldEnds(Read) : i > Length(m)
  <1>1. /\ Read \in Nat /\ Read <= Len(file.text) /\ Ahead \in {0, 2}
        /\ Len(file.text) \in Nat
    <2>1. Read \in 0 .. Len(file.text) /\ Len(file.text) \in Nat
      BY InputIs
    <2> QED
      BY <2>1, AheadIs
  <1>2. PICK r \in Nat : r = Read
    BY <1>1
  <1>3. m <= m /\ m < r /\ r <= Len(file.text)
    BY <1>1, <1>2
  <1>4. m > 0 => file.text[m] = NEWLINE
    BY DEF Begins
  <1>5. \A i \in m + 1 .. r - 1 : file.text[i] # NEWLINE
    BY <1>2 DEF Begins
  <1>6. OldEndsFrom(m, m, r)
    BY <1>3, <1>4, <1>5, OldEndsGrow
  <1>7. Length(m) = Ahead + r - m /\ Length(m) \in Nat /\ Length(m) >= 1
    BY <1>1, <1>2, <1>3 DEF Length
  <1>8. m = 0 => OldEnds(m) = {}
    <2>1. HasHeader(file) => 0 < HeaderEnd
      <3>1. HasHeader(file) => HeaderEnd \in 1 .. Len(file.text)
        BY HeaderEndIs
      <3> QED
        BY <1>1, <3>1
    <2> QED
      BY <2>1, NothingLeft
  <1>9. \A i \in OldEnds(r) : i \in Nat
    <2>1. HasHeader(file) => HeaderEnd \in Nat
      BY HeaderEndIs
    <2> QED
      BY <2>1 DEF OldEnds, OldEndLeft
  <1>10. \A i \in Nat : i \in OldEnds(r) <=>
            \/ i \in OldEnds(m) /\ i > Length(m)
            \/ m = 0 /\ HasHeader(file) /\ file.text[r] = NEWLINE /\ i = Length(m) - 1
    BY <1>1, <1>6, <1>7 DEF OldEndsFrom
  <1>11. m = 0 /\ HasHeader(file) /\ file.text[r] = NEWLINE => OldEnds(r) = {Length(m) - 1}
    <2> SUFFICES ASSUME m = 0, HasHeader(file), file.text[r] = NEWLINE
                 PROVE  OldEnds(r) = {Length(m) - 1}
      OBVIOUS
    <2> DEFINE i0 == Length(m) - 1
    <2>1. i0 \in Nat /\ \A i \in Nat : i \in OldEnds(r) <=> i = i0
      BY <1>7, <1>8, <1>10
    <2> HIDE DEF i0
    <2>2. OldEnds(r) = {i0}
      BY <1>9, <2>1
    <2> QED
      BY <2>2 DEF i0
  <1>12. \A i \in OldEnds(r) : i \in Nat /\ i >= Length(m) - 1
    BY <1>7, <1>9, <1>10
  <1> QED
    BY <1>2, <1>10, <1>11, <1>12

\* At the end of a file that ends inside a line, the newline of the header is in the buffer
\* exactly when the file says so.
LEMMA RemainsIs ==
  ASSUME Reading, Read = Len(file.text), Unfinished(file)
  PROVE  HeaderEndRemains(file) <=> OldEnds(Read) # {}
  <1>1. CASE ~HasHeader(file)
    BY <1>1 DEF HeaderEndRemains, OldEnds, OldEndLeft
  <1>2. CASE HasHeader(file)
    <2> DEFINE text == file.text
               L == Len(text)
               H == HeaderEnd
               N == Newlines(file, 0)
               End2(k) == Min(Newlines(file, k) \union {L})
               through(k, p) == \A q \in k + 1 .. p - 1 : text[q] # NEWLINE
    <2>1. /\ L \in Nat /\ H \in 1 .. L
          /\ \A k \in N : k \in H .. L /\ k \in Nat /\ text[k] = NEWLINE
      BY <1>2, HeaderEndIs
    <2>2. L > 0 /\ text[L] # NEWLINE
      <3>1. text # <<>> /\ text[L] # NEWLINE
        BY DEF Unfinished, Last
      <3>2. text \in Seq(Char)
        BY FileText DEF Reading
      <3>3. L # 0
        BY <3>1, <3>2, EmptySeq
      <3> HIDE DEF L, text
      <3> QED
        BY <2>1, <3>1, <3>3
    <2>3. OldEnds(Read) # {} <=> \A k \in N : \A p \in k + 1 .. L : through(k, p) => p - k < H - 1
      <3>1. H <= L
        BY <2>1
      <3> QED
        BY <1>2, <3>1, Zenon DEF OldEnds, OldEndLeft
    <2>4. HeaderEndRemains(file) <=> \A k \in N : End2(k) - k < H - 1
      BY <1>2, Zenon DEF HeaderEndRemains, LineLength, HeaderEnd
    <2>5. ASSUME NEW k \in N
          PROVE  /\ k \in Nat /\ End2(k) \in k + 1 .. L /\ through(k, End2(k))
                 /\ End2(k) < L => text[End2(k)] = NEWLINE
      <3> DEFINE S == Newlines(file, k) \union {L}
      <3>1. k \in Nat /\ k < L
        <4>1. k \in Nat /\ k \in H .. L /\ k # L
          BY <2>1, <2>2
        <4> HIDE DEF L, H
        <4> QED
          BY <2>1, <4>1
      <3>2. S \in SUBSET Nat /\ S # {} /\ L \in S
        BY <2>1, <3>1 DEF Newlines
      <3>3. End2(k) \in S /\ \A y \in S : End2(k) <= y
        <4> HIDE DEF S
        <4>1. Min(S) \in S /\ \A y \in S : Min(S) <= y
          BY <3>2, MinOfSet
        <4> QED
          BY <4>1 DEF S
      <3> HIDE DEF End2
      <3>4. \A i : i \in S <=> (i \in k + 1 .. L /\ text[i] = NEWLINE) \/ i = L
        BY DEF Newlines
      <3> HIDE DEF S, text, L, H, N
      <3>5. End2(k) \in k + 1 .. L
        BY <2>1, <3>1, <3>3, <3>4
      <3>6. through(k, End2(k))
        <4> SUFFICES ASSUME NEW q \in k + 1 .. End2(k) - 1
                     PROVE  text[q] # NEWLINE
          OBVIOUS
        <4>1. q \in k + 1 .. L /\ ~(End2(k) <= q)
          BY <2>1, <3>1, <3>5
        <4> QED
          BY <3>3, <3>4, <4>1
      <3>7. End2(k) < L => text[End2(k)] = NEWLINE
        BY <2>1, <3>3, <3>4, <3>5
      <3> QED
        BY <3>1, <3>5, <3>6, <3>7
    <2> HIDE DEF text, L, H, N, End2
    <2>6. ASSUME \A k \in N : \A p \in k + 1 .. L : through(k, p) => p - k < H - 1, NEW k \in N
          PROVE  End2(k) - k < H - 1
      BY <2>5, <2>6
    <2>7. ASSUME \A k \in N : End2(k) - k < H - 1,
                 NEW k \in N, NEW p \in k + 1 .. L, through(k, p)
          PROVE  p - k < H - 1
      <3> DEFINE e == End2(k)
      <3>1. k \in Nat /\ e \in k + 1 .. L /\ (e < L => text[e] = NEWLINE) /\ e - k < H - 1
        BY <2>5, <2>7
      <3> HIDE DEF e
      <3>2. ~(e < p)
        <4>1. e < p => e \in k + 1 .. p - 1 /\ e < L
          BY <2>1, <3>1
        <4> QED
          BY <2>7, <3>1, <4>1
      <3> QED
        BY <2>1, <3>1, <3>2
    <2> QED
      BY <2>3, <2>4, <2>6, <2>7
  <1> QED
    BY <1>1, <1>2

---------------------------------------------------------------------------
(* Filling the buffer.                                                      *)

\* A line that is not complete has no newline.
LEMMA OpenLine ==
  ASSUME Reading, NEW m \in Nat, m < Read, Begins(m), file.text[Read] # NEWLINE
  PROVE  \A i \in 0 .. Length(m) - 1 : CharAt(m, i) # NEWLINE
  <1> SUFFICES ASSUME NEW i \in 0 .. Length(m) - 1
               PROVE  CharAt(m, i) # NEWLINE
    OBVIOUS
  <1>1. Read \in Nat /\ Ahead \in {0, 2} /\ Length(m) = Ahead + Read - m
    BY InputIs, AheadIs DEF Length
  <1>2. CharAt(m, i) = IF i < Ahead THEN IF i = 0 THEN "A" ELSE SPACE
                       ELSE file.text[m + i + 1 - Ahead]
    BY Zenon DEF CharAt
  <1>3. ~(i < Ahead) => \/ m + i + 1 - Ahead = Read
                        \/ m + i + 1 - Ahead \in m + 1 .. Read - 1
    BY <1>1
  <1>4. \A j \in m + 1 .. Read - 1 : file.text[j] # NEWLINE
    BY DEF Begins
  <1> QED
    BY <1>2, <1>3, <1>4 DEF NEWLINE, SPACE

\* The line is complete when its newline was read.
LEMMA PhraseIs ==
  ASSUME LineTyped, Reading, NEW m \in Nat, m < Read, Begins(m), Filled(m)
  PROVE  /\ complete_phrase <=> file.text[Read] = NEWLINE
         /\ ~complete_phrase => OnlyOld(line.buffer, line.bufsize)
  <1> DEFINE k == Length(m)
             b == line.buffer
             size == line.bufsize
  <1>1. /\ k \in Nat /\ k >= 1 /\ size \in Nat /\ k < size /\ Bufsize = size
        /\ \A i \in 0 .. k - 1 : b[i] = CharAt(m, i) /\ CharAt(m, i) \in Char \union {"A", SPACE}
        /\ b[k] = NUL /\ CharAt(m, k - 1) = file.text[Read]
    <2>1. /\ k < Bufsize /\ \A i \in 0 .. k - 1 : b[i] = CharAt(m, i)
          /\ b[k] = NUL
      BY Zenon DEF Filled
    <2>2. Bufsize = size /\ size \in Nat
      BY LineIs
    <2>3. /\ k \in Nat /\ k >= 1 + Ahead /\ CharAt(m, k - 1) = file.text[Read]
          /\ \A i \in 0 .. k - 1 : CharAt(m, i) \in Char \union {"A", SPACE}
      BY LineText
    <2>4. k >= 1
      BY <2>3, AheadIs
    <2> HIDE DEF k, b, size
    <2> QED
      BY <2>1, <2>2, <2>3, <2>4
  <1>2. \A i \in 0 .. k - 1 : b[i] # NUL
    BY <1>1 DEF Char, NUL, SPACE
  <1>3. End(0) = k
    <2> DEFINE end == End(0)
    <2>1. EndOk(b, size, 0, end)
      <3>1. 0 \in 0 .. size
        BY <1>1
      <3> QED
        BY <3>1, PlacesAre
    <2> HIDE DEF end, k, b, size
    <2>2. end \in 0 .. size /\ (end < size => b[end] = NUL) /\ \A j \in 0 .. end - 1 : b[j] # NUL
      BY <2>1 DEF EndOk
    <2>3. ~(k < end)
      BY <1>1, <2>2
    <2>4. ~(end < k)
      BY <1>1, <1>2, <2>2
    <2> QED
      BY <1>1, <2>2, <2>3, <2>4 DEF end
  <1>4. complete_phrase <=> \E i \in 0 .. k - 1 : b[i] = NEWLINE
    BY <1>3 DEF complete_phrase
  <1> HIDE DEF k, b, size
  <1>5. k - 1 \in 0 .. k - 1
    BY <1>1
  <1>6. b[k - 1] = file.text[Read]
    BY <1>1, <1>5
  <1>7. complete_phrase <=> file.text[Read] = NEWLINE
    <2>1. file.text[Read] # NEWLINE => \A i \in 0 .. k - 1 : b[i] # NEWLINE
      <3>1. file.text[Read] # NEWLINE => \A i \in 0 .. k - 1 : CharAt(m, i) # NEWLINE
        BY OpenLine DEF k
      <3> QED
        BY <1>1, <3>1
    <2> QED
      BY <1>4, <1>5, <1>6, <2>1
  <1>8. file.text[Read] # NEWLINE => OnlyOld(b, size)
    BY <1>1, Zenon DEF Filled, OnlyOld, b
  <1> QED
    BY <1>7, <1>8 DEF b, size

\* The line behind m goes on at position at of the buffer.
GoesOn(m, buffer, bufsize, at) ==
    /\ m <= Read /\ at = Length(m)
    /\ m > 0 => file.text[m] = NEWLINE
    /\ \A i \in m + 1 .. Read : file.text[i] # NEWLINE
    /\ \A i \in 0 .. at - 1 : buffer[i] = CharAt(m, i)
    /\ OnlyOld(buffer, bufsize)

\* fgets goes on where the line ends so far.
LEMMA FillStep ==
  ASSUME LineTyped, Reading, file' = file, NEW m \in Nat,
         NEW buffer, NEW bufsize \in Nat, NEW size \in Nat, NEW n \in Nat, NEW at \in Nat,
         GoesOn(m, buffer, bufsize, at), at + size <= bufsize, PieceOf(n, size),
         FgetsIs(buffer, bufsize, at, n)
  PROVE  /\ Filled(m)' /\ Begins(m)' /\ m < Read' /\ Length(m)' = at + n
         /\ line'.bufsize = bufsize
  <1> DEFINE text == file.text
             r == Read
             front == Ahead
             new == FilledBuffer(buffer, bufsize, at, n)
  <1>. /\ m <= Read /\ at = Length(m)
       /\ m > 0 => file.text[m] = NEWLINE
       /\ \A i \in m + 1 .. Read : file.text[i] # NEWLINE
       /\ \A i \in 0 .. at - 1 : buffer[i] = CharAt(m, i)
       /\ OldEnds(r) \subseteq 0 .. bufsize - 2
       /\ \A i \in 0 .. bufsize - 1 : buffer[i] = NEWLINE <=> i \in OldEnds(r)
    BY DEF GoesOn, OnlyOld
  <1>0. r \in Nat /\ front \in {0, 2} /\ at = front + r - m
    BY InputIs, AheadIs DEF Length
  <1>1. /\ n >= 1 /\ n <= size - 1 /\ \A i \in r + 1 .. r + n - 1 : text[i] # NEWLINE
    BY DEF PieceOf
  <1>2. Read' = r + n /\ Ahead' = front
    BY DEF FgetsIs, Ahead
  <1>3. Length(m)' = at + n
    <2>1. Length(m)' = Ahead' + Read' - m
      BY DEF Length
    <2> HIDE DEF r, front
    <2> QED
      BY <1>0, <1>2, <2>1
  <1>4. line'.buffer = new /\ line'.bufsize = bufsize
    BY DEF FgetsIs, LineTyped, LineSet
  <1>5. ASSUME NEW i \in Nat
        PROVE  CharAt(m, i)' = CharAt(m, i)
    BY <1>2 DEF CharAt
  <1>6. \A i : CharAt(m, i) = IF i < front THEN IF i = 0 THEN "A" ELSE SPACE
                              ELSE text[m + i + 1 - front]
    BY Zenon DEF CharAt
  <1>7. Begins(m)' /\ m < Read'
    <2>1. \A i \in m + 1 .. r : text[i] # NEWLINE
      OBVIOUS
    <2>2. \A i \in m + 1 .. (r + n) - 1 : text[i] # NEWLINE
      <3> HIDE DEF text, r
      <3> QED
        BY <1>0, <1>1, <2>1
    <2>3. m \in 0 .. r + n /\ m < r + n
      <3>1. m <= r
        OBVIOUS
      <3> HIDE DEF r
      <3> QED
        BY <1>0, <1>1, <3>1
    <2> QED
      BY <1>2, <2>2, <2>3 DEF Begins
  <1> HIDE DEF text, r, front
  <1>8. \A i \in 0 .. bufsize - 1 :
            new[i] = IF i = at + n THEN NUL
                     ELSE IF i \in at .. at + n - 1 THEN text[r + 1 + (i - at)]
                     ELSE buffer[i]
    BY DEF FilledBuffer, text, r
  <1> HIDE DEF new
  <1>9. at + n < bufsize /\ at + n \in Nat
    BY <1>1
  <1>10. new[at + n] = NUL
    BY <1>8, <1>9
  <1>11. ASSUME NEW i \in 0 .. at + n - 1
         PROVE  new[i] = CharAt(m, i)
    <2>1. i \in 0 .. bufsize - 1 /\ i # at + n /\ i \in Nat
      BY <1>9
    <2>2. CASE i < at
      <3>1. i \in 0 .. at - 1 /\ i \notin at .. at + n - 1
        BY <2>1, <2>2
      <3> QED
        BY <1>8, <2>1, <3>1
    <2>3. CASE ~(i < at)
      <3>1. i \in at .. at + n - 1
        BY <2>1, <2>3
      <3>2. ~(i < front)
        BY <1>0, <2>3, m <= r DEF r
      <3>3. m + i + 1 - front = r + 1 + (i - at)
        BY <1>0, <2>1
      <3>4. new[i] = text[r + 1 + (i - at)]
        BY <1>8, <2>1, <3>1
      <3>5. CharAt(m, i) = text[m + i + 1 - front]
        BY <1>6, <3>2
      <3> QED
        BY <3>3, <3>4, <3>5
    <2> QED
      BY <2>2, <2>3
  <1>12. \A i \in Nat : i \in OldEnds(r + n) <=>
             \/ i \in OldEnds(r) /\ i > at + n
             \/ m = 0 /\ HasHeader(file) /\ text[r + n] = NEWLINE /\ i = at + n - 1
    <2> DEFINE e == r + n
    <2>1. /\ e \in Nat /\ r < e /\ e <= Len(file.text)
          /\ \A i \in m + 1 .. e - 1 : file.text[i] # NEWLINE
      <3>1. \A i \in m + 1 .. r : text[i] # NEWLINE
        BY DEF r, text
      <3>2. e \in Nat /\ r < e /\ \A i \in m + 1 .. e - 1 : text[i] # NEWLINE
        BY <1>0, <1>1, <3>1
      <3>3. r + n <= Len(file.text)
        <4>1. n <= Len(input) /\ Len(input) = Len(file.text) - r /\ Len(file.text) \in Nat
          BY InputIs DEF PieceOf, r, Read
        <4> QED
          BY <1>0, <4>1
      <3> QED
        BY <3>2, <3>3 DEF text
    <2>2. at + n = Ahead + e - m
      BY <1>0 DEF front
    <2>3. m <= r
      BY DEF r
    <2> HIDE DEF e
    <2>4. OldEndsFrom(m, r, e)
      <3>1. r \in Nat /\ (m > 0 => file.text[m] = NEWLINE)
        BY <1>0
      <3> QED
        BY <2>1, <2>3, <3>1, OldEndsGrow, Zenon
    <2>5. Ahead + e - m - 1 = at + n - 1
      <3>1. Ahead \in {0, 2} /\ e \in Nat
        BY <1>0, <2>1 DEF front
      <3> QED
        BY <2>2, <3>1
    <2> QED
      BY <2>2, <2>4, <2>5 DEF OldEndsFrom, e, text
  <1>13. \A i \in OldEnds(r + n) : i \in Nat
    <2>1. HasHeader(file) => HeaderEnd \in Nat
      BY HeaderEndIs
    <2> QED
      BY <2>1 DEF OldEnds, OldEndLeft
  <1>14. ASSUME NEW i \in 0 .. bufsize - 1
         PROVE  new[i] = NEWLINE <=> \/ i = at + n - 1 /\ text[r + n] = NEWLINE
                                     \/ i \in OldEnds(r + n)
    <2>1. i \in Nat
      OBVIOUS
    <2>2. CASE i = at + n
      <3>1. new[i] # NEWLINE
        BY <1>10, <2>2 DEF NUL, NEWLINE
      <3> QED
        BY <1>12, <2>1, <2>2, <3>1
    <2>3. CASE i = at + n - 1
      <3>1. i \in at .. at + n - 1 /\ i # at + n /\ r + 1 + (i - at) = r + n
        BY <1>0, <1>1, <2>3
      <3>2. new[i] = text[r + n]
        BY <1>8, <3>1
      <3>3. ~(i > at + n)
        BY <2>3
      <3> QED
        BY <1>12, <2>1, <2>3, <3>2, <3>3
    <2>4. CASE i < at + n - 1
      <3>1. new[i] # NEWLINE
        <4>1. CASE i \in at .. at + n - 1
          <5>1. new[i] = text[r + 1 + (i - at)]
            BY <1>8, <2>4, <4>1
          <5>2. r + 1 + (i - at) \in r + 1 .. r + n - 1
            BY <1>0, <2>4, <4>1
          <5> QED
            BY <1>1, <5>1, <5>2
        <4>2. CASE i \notin at .. at + n - 1
          <5>1. i < at /\ i \in 0 .. at + n - 1
            BY <1>1, <2>4, <4>2
          <5>2. new[i] = CharAt(m, i)
            BY <1>11, <5>1
          <5>3. ~(i < front) => m + i + 1 - front \in m + 1 .. r
            BY <1>0, <5>1
          <5>4. \A j \in m + 1 .. r : text[j] # NEWLINE
            BY DEF r, text
          <5> QED
            BY <1>6, <5>2, <5>3, <5>4 DEF NEWLINE, SPACE
        <4> QED
          BY <4>1, <4>2
      <3>2. ~(i > at + n) /\ i # at + n - 1
        BY <2>4
      <3> QED
        BY <1>12, <2>1, <3>1, <3>2
    <2>5. CASE i > at + n
      <3>1. i \notin at .. at + n - 1 /\ i # at + n /\ i # at + n - 1
        BY <2>5
      <3>2. new[i] = buffer[i]
        BY <1>8, <3>1
      <3>3. buffer[i] = NEWLINE <=> i \in OldEnds(r)
        OBVIOUS
      <3> QED
        BY <1>12, <2>1, <2>5, <3>1, <3>2, <3>3
    <2> QED
      BY <2>1, <2>2, <2>3, <2>4, <2>5
  <1>15. OldEnds(r + n) \subseteq 0 .. bufsize - 2
    <2> SUFFICES ASSUME NEW i \in OldEnds(r + n)
                 PROVE  i \in 0 .. bufsize - 2
      OBVIOUS
    <2>1. i \in Nat /\ (i \in OldEnds(r) \/ i = at + n - 1)
      BY <1>12, <1>13
    <2>2. i = at + n - 1 => i \in 0 .. bufsize - 2
      BY <1>9, <2>1
    <2> QED
      BY <2>1, <2>2
  <1>16. Filled(m)'
    <2>1. Bufsize' = bufsize
      BY <1>4 DEF Bufsize
    <2>2. \A i \in 0 .. at + n - 1 : new[i] = CharAt(m, i)'
      <3>1. \A i \in 0 .. at + n - 1 : i \in Nat
        OBVIOUS
      <3> QED
        BY <1>5, <1>11, <3>1
    <2>3. OldEnds(Read)' = OldEnds(r + n) /\ file'.text[Read'] = text[r + n]
      BY <1>2 DEF OldEnds, OldEndLeft, HeaderEnd, text
    <2> QED
      BY <1>3, <1>4, <1>9, <1>10, <1>14, <1>15, <2>1, <2>2, <2>3 DEF Filled
  <1> QED
    BY <1>3, <1>4, <1>7, <1>16

---------------------------------------------------------------------------
(* The invariant, while a line is read.                                     *)

LEMMA ProgressInit ==
  ASSUME Init, Typed
  PROVE  Progress
  <1>1. /\ file \in Files /\ input = file.text /\ header = "none" /\ pc = "fetch"
        /\ words = <<>> /\ taken = <<>> /\ given = <<>>
    BY DEF Init
  <1>2. Read = 0 /\ Reading
    BY <1>1, FileText DEF Read, Typed
  <1>3. Begins(Read)
    BY <1>2 DEF Begins
  <1>4. Agree(Read)
    <2>1. /\ Expected(file) \in Seq(Asked(file)) /\ Len(Expected(file)) \in Nat
          /\ Expected(file) = LinesBehind(file)[0]
      BY <1>2, ExpectedIs
    <2>2. given \in Seq({}) /\ Len(given) = 0
      BY <1>1
    <2>3. SubSeq(Expected(file), 0 + 1, Len(Expected(file))) = Expected(file)
      BY <2>1, SubSeqFull
    <2> QED
      BY <1>2, <2>1, <2>2, <2>3 DEF Agree, GivenInOrder
  <1>5. \A i \in 0 .. Bufsize - 1 : line.buffer[i] # NEWLINE
    <2>1. PICK position \in Indices, start \in {NULL, 0} :
            line = [buffer |-> [i \in Indices |-> JUNK], bufsize |-> INIT_SIZE_BUF,
                    line_status |-> JUNK, k |-> -1, line_end |-> 0, n_gram_position |-> 0,
                    word_position |-> position, word_start |-> start]
      BY DEF Init
    <2>2. Bufsize = INIT_SIZE_BUF /\ \A i \in 0 .. INIT_SIZE_BUF - 1 : line.buffer[i] = JUNK
      BY <2>1 DEF Bufsize, Indices
    <2> QED
      BY <2>2 DEF JUNK, NEWLINE
  <1>6. OnlyOld(line.buffer, Bufsize)
    <2>1. HasHeader(file) => 0 < HeaderEnd
      <3>1. HasHeader(file) => HeaderEnd \in 1 .. Len(file.text)
        BY <1>2, HeaderEndIs
      <3> QED
        BY <3>1
    <2>2. OldEnds(0) = {}
      BY <1>2, <2>1, NothingLeft
    <2> QED
      BY <1>2, <1>5, <2>2 DEF OnlyOld
  <1>7. AtFetch
    BY <1>1, <1>2, <1>3, <1>4, <1>6 DEF AtFetch, NewLine
  <1> QED
    BY <1>1, <1>7 DEF Progress

\* The first fgets keeps the invariant: the buffer holds what is read of the line.
LEMMA FetchFirstKeeps ==
  ASSUME Typed, Progress, FetchFirst, Typed'
  PROVE  Progress'
  <1>0. /\ LineTyped /\ Reading /\ AtFetch
        /\ file' = file /\ pc' = "phrase"
        /\ UNCHANGED <<header, file_status, words, taken, given>>
    BY DEF Typed, Progress, FetchFirst, AfterExtra
  <1>1. PICK m \in Nat : m = Read
    BY <1>0, InputIs
  <1>2. PICK n \in Nat : /\ PieceOf(n, line.bufsize - Ahead)
                         /\ FgetsIs(FirstBuffer, line.bufsize, Ahead, n)
    BY <1>0, FetchIs
  <1>3. /\ line.bufsize \in Nat /\ line.bufsize >= 4 /\ Bufsize = line.bufsize
        /\ line.buffer \in [0 .. line.bufsize - 1 -> Stored] /\ Ahead \in {0, 2}
    BY <1>0, LineIs, AheadIs
  <1>4. m \in 0 .. Read /\ (m > 0 => file.text[m] = NEWLINE)
    BY <1>0, <1>1 DEF AtFetch, Begins
  <1>5. \A i \in m + 1 .. Read : file.text[i] # NEWLINE
    BY <1>1
  <1>6. Ahead = Length(m)
    BY <1>1, <1>3 DEF Length
  <1>7. \A i \in 0 .. Ahead - 1 : FirstBuffer[i] = CharAt(m, i)
    <2>1. CASE file.lm_status = "I"
      BY <1>3, <2>1 DEF FirstBuffer, Ahead, CharAt
    <2>2. CASE file.lm_status # "I"
      BY <2>2 DEF Ahead
    <2> QED
      BY <2>1, <2>2
  <1>8. OnlyOld(FirstBuffer, line.bufsize)
    <2>1. OnlyOld(line.buffer, line.bufsize)
      BY <1>0, <1>3 DEF AtFetch
    <2>2. \A i \in OldEnds(Read) : file.lm_status = "I" => i # 0 /\ i # 1
      <3>1. HasHeader(file) => HeaderEnd \in Nat /\ HeaderEnd >= 1
        BY <1>0, HeaderEndIs
      <3> QED
        BY <3>1 DEF OldEnds, OldEndLeft
    <2> SUFFICES ASSUME NEW i \in 0 .. line.bufsize - 1
                 PROVE  FirstBuffer[i] = NEWLINE <=> i \in OldEnds(Read)
      BY <2>1 DEF OnlyOld
    <2>3. line.buffer[i] = NEWLINE <=> i \in OldEnds(Read)
      BY <2>1 DEF OnlyOld
    <2>4. CASE file.lm_status = "I" /\ i \in {0, 1}
      <3>1. FirstBuffer[i] # NEWLINE
        BY <1>3, <2>4 DEF FirstBuffer, NEWLINE, SPACE
      <3> QED
        BY <2>2, <2>4, <3>1
    <2>5. CASE ~(file.lm_status = "I" /\ i \in {0, 1})
      <3>1. FirstBuffer[i] = line.buffer[i]
        BY <1>3, <2>5 DEF FirstBuffer
      <3> QED
        BY <2>3, <3>1
    <2> QED
      BY <2>4, <2>5
  <1> DEFINE size == line.bufsize - Ahead
  <1>9. /\ size \in Nat /\ Ahead \in Nat /\ Ahead + size <= line.bufsize /\ m <= Read
    BY <1>1, <1>3
  <1>10. /\ Filled(m)' /\ Begins(m)' /\ m < Read' /\ Length(m)' = Ahead + n
         /\ line'.bufsize = line.bufsize
    <2>1. PieceOf(n, size)
      BY <1>2
    <2>2. GoesOn(m, FirstBuffer, line.bufsize, Ahead)
      BY <1>4, <1>5, <1>6, <1>7, <1>8, <1>9, Zenon DEF GoesOn
    <2> HIDE DEF size
    <2> QED
      BY <1>0, <1>2, <1>3, <1>9, <2>1, <2>2, FillStep, Zenon
  <1>11. file'.text[Read'] = NEWLINE \/ Length(m)' = Bufsize' - 1 \/ input' = <<>>
    <2>1. n = size \/ n = size - 1 \/ n = Len(input) \/ file.text[Read + n] = NEWLINE
      BY <1>2 DEF PieceOf
    <2>2. n = size - 1 => Ahead + n = line.bufsize - 1
      BY <1>3
    <2>3. Bufsize' = line.bufsize
      BY <1>10 DEF Bufsize
    <2>4. Read' = Read + n /\ (n = Len(input) => input' = <<>>)
      BY <1>2 DEF FgetsIs
    <2>5. n # size
      BY <1>2, <1>9 DEF PieceOf
    <2> QED
      BY <1>0, <1>10, <2>1, <2>2, <2>3, <2>4, <2>5
  <1>12. Agree(m)' /\ (m > 0 => StatusKnown') /\ (header' # "none" => m > 0) /\ NewLine'
    <2>1. Agree(m) /\ (m > 0 => StatusKnown) /\ (header # "none" => m > 0) /\ NewLine
      BY <1>0, <1>1 DEF AtFetch
    <2> QED
      BY <1>0, <2>1, GivenStays, StatusStays DEF NewLine
  <1>13. AtPhrase(m)'
    BY <1>10, <1>11, <1>12 DEF AtPhrase
  <1>14. m \in 0 .. Read'
    BY <1>10 DEF Begins
  <1> QED
    BY <1>0, <1>13, <1>14 DEF Progress

\* At the end of the file all its lines have been given.
LEMMA EndOfFileKeeps ==
  ASSUME Typed, Progress, EndOfFile
  PROVE  Progress'
  <1>0. /\ Reading /\ pc = "fetch" /\ input = <<>> /\ pc' = "closed"
        /\ UNCHANGED <<file, input, header, file_status, line, words, taken, given>>
    BY DEF Typed, EndOfFile
  <1>1. CASE AtFetch
    <2>1. PICK m \in Nat : m = Read
      BY <1>0, InputIs
    <2>2. Agree(m) /\ (m > 0 => StatusKnown) /\ (m > 0 => file.text[m] = NEWLINE)
      BY <1>1, <2>1 DEF AtFetch, Begins
    <2>3. m = Len(file.text)
      <3>1. Len(input) = 0
        BY <1>0
      <3> QED
        BY <1>0, <2>1, <3>1, InputIs DEF Read
    <2>4. m \in 0 .. Read /\ \A i \in m + 1 .. Len(file.text) : file.text[i] # NEWLINE
      <3>1. \A i \in m + 1 .. m : FALSE
        OBVIOUS
      <3> QED
        BY <2>1, <2>3, <3>1
    <2>5. LinesBehind(file)[m] = <<>>
      BY <1>0, <2>4, NoLine
    <2>6. ~HeaderEndRemains(file)
      <3>1. file.text # <<>> => m > 0
        <4>1. file.text \in Seq(Char) /\ Len(file.text) \in Nat
          BY <1>0, FileText DEF Reading
        <4>2. file.text # <<>> => Len(file.text) # 0
          BY <4>1, EmptySeq
        <4> QED
          BY <2>3, <4>2
      <3> QED
        BY <2>2, <2>3, <3>1 DEF HeaderEndRemains, Unfinished, Last
    <2>7. AtClosed
      BY <1>0, <2>2, <2>5, <2>6, AllGiven, StatusSoFar DEF AtClosed
    <2>8. AtClosed'
      BY <1>0, <2>7, GivenStays DEF AtClosed, StatusOfHeader
    <2> QED
      BY <1>0, <2>8 DEF Progress
  <1>2. CASE AfterExtra
    <2>1. AfterExtra'
      BY <1>0, <1>2 DEF AfterExtra, StatusOfHeader
    <2> QED
      BY <1>0, <2>1 DEF Progress
  <1> QED
    BY <1>0, <1>1, <1>2 DEF Progress

\* What is known of a line that is read.
LEMMA AtPhraseIs ==
  ASSUME Typed, Progress, pc = "phrase"
  PROVE  \E m \in Nat : AtPhrase(m) /\ m \in 0 .. Read
  <1>1. PICK m \in 0 .. Read : AtPhrase(m)
    BY DEF Progress
  <1>2. Read \in Nat
    BY InputIs DEF Typed
  <1> QED
    BY <1>1, <1>2

\* A doubled buffer has no newline more.
LEMMA DoubledOld ==
  ASSUME LineTyped, OnlyOld(line.buffer, line.bufsize)
  PROVE  OnlyOld(Doubled, 2 * line.bufsize)
  <1>1. line.bufsize \in Nat /\ line.bufsize >= 4 /\ Bufsize = line.bufsize
    BY LineIs
  <1>2. /\ OldEnds(Read) \subseteq 0 .. line.bufsize - 2
        /\ \A i \in 0 .. line.bufsize - 1 : line.buffer[i] = NEWLINE <=> i \in OldEnds(Read)
    BY DEF OnlyOld
  <1>3. 0 .. line.bufsize - 2 \subseteq 0 .. 2 * line.bufsize - 2
    BY <1>1
  <1>4. ASSUME NEW i \in 0 .. 2 * line.bufsize - 1
        PROVE  Doubled[i] = NEWLINE <=> i \in OldEnds(Read)
    <2>1. Doubled[i] = IF i < line.bufsize THEN line.buffer[i] ELSE JUNK
      BY <1>1 DEF Doubled
    <2>2. CASE i < line.bufsize
      <3>1. i \in 0 .. line.bufsize - 1
        BY <1>1, <2>2
      <3> QED
        BY <1>2, <2>1, <2>2, <3>1
    <2>3. CASE ~(i < line.bufsize)
      <3>1. i \notin 0 .. line.bufsize - 2
        BY <1>1, <2>3
      <3> QED
        BY <1>2, <2>1, <2>3, <3>1 DEF JUNK, NEWLINE
    <2> QED
      BY <2>2, <2>3
  <1> QED
    BY <1>2, <1>3, <1>4 DEF OnlyOld

\* The second fgets keeps it: no character is lost where the buffers join.
LEMMA GrowKeeps ==
  ASSUME Typed, Progress, Grow, Typed'
  PROVE  Progress'
  <1>0. /\ LineTyped /\ Reading /\ pc = "phrase" /\ ~complete_phrase /\ input # <<>>
        /\ file' = file /\ pc' = "phrase"
        /\ UNCHANGED <<header, file_status, words, taken, given>>
    BY DEF Typed, Grow
  <1>1. PICK m \in Nat : AtPhrase(m) /\ m \in 0 .. Read
    BY <1>0, AtPhraseIs
  <1>2. PICK n \in Nat : /\ PieceOf(n, line.bufsize + 1)
                         /\ FgetsIs(Doubled, 2 * line.bufsize, line.bufsize - 1, n)
    BY <1>0, GrowIs
  <1>3. /\ line.bufsize \in Nat /\ line.bufsize >= 4 /\ Bufsize = line.bufsize
    BY <1>0, LineIs
  <1>4. /\ Begins(m) /\ m < Read /\ Filled(m) /\ Agree(m) /\ NewLine
        /\ (header # "none" => m > 0) /\ (m > 0 => StatusKnown)
        /\ file.text[Read] = NEWLINE \/ Length(m) = Bufsize - 1 \/ input = <<>>
    BY <1>1, Zenon DEF AtPhrase
  <1>5. file.text[Read] # NEWLINE /\ OnlyOld(line.buffer, line.bufsize)
    BY <1>0, <1>4, PhraseIs
  <1>6. line.bufsize - 1 = Length(m)
    BY <1>0, <1>3, <1>4, <1>5
  <1>7. /\ m > 0 => file.text[m] = NEWLINE
        /\ \A i \in m + 1 .. Read : file.text[i] # NEWLINE
    <2>1. Read \in Nat /\ (m > 0 => file.text[m] = NEWLINE)
          /\ \A i \in m + 1 .. Read - 1 : file.text[i] # NEWLINE
      BY <1>0, <1>4, InputIs DEF Begins
    <2>2. \A i \in m + 1 .. Read : i = Read \/ i \in m + 1 .. Read - 1
      BY <2>1
    <2> QED
      BY <1>5, <2>1, <2>2
  <1>8. \A i \in 0 .. (line.bufsize - 1) - 1 : Doubled[i] = CharAt(m, i)
    <2> SUFFICES ASSUME NEW i \in 0 .. (line.bufsize - 1) - 1
                 PROVE  Doubled[i] = CharAt(m, i)
      OBVIOUS
    <2>1. i \in 0 .. 2 * line.bufsize - 1 /\ i < line.bufsize
      BY <1>3
    <2>2. Doubled[i] = line.buffer[i]
      BY <1>3, <2>1 DEF Doubled
    <2>3. line.buffer[i] = CharAt(m, i)
      BY <1>4, <1>6 DEF Filled
    <2> QED
      BY <2>2, <2>3
  <1>9. OnlyOld(Doubled, 2 * line.bufsize)
    BY <1>0, <1>5, DoubledOld
  <1> DEFINE bufsize == 2 * line.bufsize
             at == line.bufsize - 1
             size == line.bufsize + 1
  <1>10. /\ bufsize \in Nat /\ at \in Nat /\ size \in Nat /\ at + size <= bufsize /\ m <= Read
    BY <1>1, <1>3
  <1>11. /\ Filled(m)' /\ Begins(m)' /\ m < Read' /\ Length(m)' = at + n
         /\ line'.bufsize = bufsize
    <2>1. PieceOf(n, size) /\ FgetsIs(Doubled, bufsize, at, n)
      BY <1>2
    <2>2. GoesOn(m, Doubled, bufsize, at)
      BY <1>6, <1>7, <1>8, <1>9, <1>10, Zenon DEF GoesOn
    <2> HIDE DEF size, at, bufsize
    <2> QED
      BY <1>0, <1>10, <2>1, <2>2, FillStep, Zenon
  <1>12. file'.text[Read'] = NEWLINE \/ Length(m)' = Bufsize' - 1 \/ input' = <<>>
    <2>1. n = size - 1 \/ n = Len(input) \/ file.text[Read + n] = NEWLINE
      BY <1>2 DEF PieceOf
    <2>2. n = size - 1 => at + n = bufsize - 1
      BY <1>3
    <2>3. Bufsize' = bufsize
      BY <1>11 DEF Bufsize
    <2>4. Read' = Read + n /\ (n = Len(input) => input' = <<>>)
      BY <1>2 DEF FgetsIs
    <2> HIDE DEF size, at, bufsize
    <2> QED
      BY <1>0, <1>11, <2>1, <2>2, <2>3, <2>4
  <1>13. Agree(m)' /\ (m > 0 => StatusKnown') /\ (header' # "none" => m > 0) /\ NewLine'
    BY <1>0, <1>4, GivenStays, StatusStays DEF NewLine
  <1>14. AtPhrase(m)'
    BY <1>11, <1>12, <1>13 DEF AtPhrase
  <1>15. m \in 0 .. Read'
    BY <1>11 DEF Begins
  <1> QED
    BY <1>0, <1>14, <1>15 DEF Progress

\* It is kept when the file ends inside a line.
LEMMA EndInsideLineKeeps ==
  ASSUME Typed, Progress, EndInsideLine
  PROVE  Progress'
  <1>0. /\ LineTyped /\ Reading /\ pc = "phrase" /\ ~complete_phrase /\ input = <<>>
        /\ line' = [line EXCEPT !.buffer = Doubled, !.bufsize = 2 * Bufsize]
        /\ pc' = IF file.lm_status = "I" THEN "parse" ELSE "closed"
        /\ UNCHANGED <<file, input, header, file_status, words, taken, given>>
    BY DEF Typed, EndInsideLine
  <1>1. PICK m \in Nat : AtPhrase(m) /\ m \in 0 .. Read
    BY <1>0, AtPhraseIs
  <1>2. /\ line.bufsize \in Nat /\ line.bufsize >= 4 /\ Bufsize = line.bufsize
    BY <1>0, LineIs
  <1>3. /\ Begins(m) /\ m < Read /\ Filled(m) /\ Agree(m) /\ NewLine
        /\ (m > 0 => StatusKnown)
    BY <1>1, Zenon DEF AtPhrase
  <1>4. file.text[Read] # NEWLINE /\ OnlyOld(line.buffer, line.bufsize)
    BY <1>0, <1>3, PhraseIs
  <1>5. Read = Len(file.text) /\ Read \in Nat
    <2>1. Len(input) = 0
      BY <1>0
    <2> QED
      BY <1>0, <2>1, InputIs DEF Read
  <1>6. \A i \in m + 1 .. Len(file.text) : file.text[i] # NEWLINE
    <2>1. \A i \in m + 1 .. Read - 1 : file.text[i] # NEWLINE
      BY <1>3 DEF Begins
    <2>2. \A i \in m + 1 .. Read : i = Read \/ i \in m + 1 .. Read - 1
      BY <1>5
    <2>3. \A i \in m + 1 .. Read : file.text[i] # NEWLINE
      BY <1>4, <2>1, <2>2
    <2> QED
      BY <1>5, <2>3
  <1>7. LinesBehind(file)[m] = <<>>
    BY <1>0, <1>1, <1>6, NoLine
  <1>8. GivenInOrder /\ Len(given) = Len(Expected(file)) /\ StatusKnown
    <2>1. m = 0 => StatusKnown
      <3>1. m = 0 => Newlines(file, 0) = {}
        BY <1>6 DEF Newlines
      <3> QED
        BY <3>1 DEF StatusKnown, HeaderOf, HasHeader
    <2> QED
      BY <1>0, <1>3, <1>7, <2>1, AllGiven
  <1>9. /\ GivenInOrder' /\ (Len(given) = Len(Expected(file)))' /\ StatusKnown' /\ NewLine'
        /\ StatusOfHeader' /\ OldEnds(Read)' = OldEnds(Read)
    BY <1>0, <1>3, <1>8, GivenStays, FileStays, StatusStays DEF StatusKnown, StatusOfHeader, NewLine
  <1>10. CASE file.lm_status = "I"
    <2>1. Unfinished(file)
      <3> DEFINE L == Len(file.text)
      <3>1. L \in Nat /\ L > 0 /\ file.text[L] # NEWLINE
        BY <1>1, <1>3, <1>4, <1>5
      <3> QED
        BY <3>1 DEF Unfinished, Last
    <2>2. OnlyOld(line.buffer, Bufsize)'
      <3>1. Bufsize' = 2 * line.bufsize /\ line'.buffer = Doubled
        BY <1>0, <1>2 DEF Bufsize, LineTyped, LineSet
      <3>2. OnlyOld(Doubled, 2 * line.bufsize)
        BY <1>0, <1>4, DoubledOld
      <3> QED
        BY <1>9, <3>1, <3>2 DEF OnlyOld
    <2>3. CutOff'
      BY <1>0, <1>9, <1>10, <2>1 DEF CutOff
    <2> QED
      BY <1>0, <1>9, <1>10, <2>2, <2>3 DEF Progress, AtParse
  <1>11. CASE file.lm_status # "I"
    <2>1. ~HeaderEndRemains(file)
      BY <1>11 DEF HeaderEndRemains, HasHeader
    <2>2. AtClosed'
      BY <1>0, <1>9, <2>1 DEF AtClosed
    <2> QED
      BY <1>0, <1>11, <2>2 DEF Progress
  <1> QED
    BY <1>10, <1>11

---------------------------------------------------------------------------
(* The invariant, when a line is complete.                                  *)

\* The buffer holds the line c, its newline and a NUL.
HoldsLine(c) ==
    /\ c \in Seq(Stored) /\ Len(c) \in Nat /\ Len(c) + 1 < line.bufsize
    /\ \A i \in 0 .. Len(c) - 1 : /\ line.buffer[i] = c[i + 1]
                                  /\ c[i + 1] # NEWLINE /\ c[i + 1] # NUL
    /\ line.buffer[Len(c)] = NEWLINE

\* When the last character read is a newline the buffer holds the line.
LEMMA FilledIs ==
  ASSUME LineTyped, Reading, NEW m \in Nat, m < Read, Begins(m), Filled(m),
         file.text[Read] = NEWLINE
  PROVE  HoldsLine(Line(m)) /\ Len(Line(m)) = Length(m) - 1 /\ Length(m) \in Nat
  <1> DEFINE c == Line(m)
             k == Length(m)
             b == line.buffer
             size == line.bufsize
  <1>1. /\ k \in Nat /\ k >= 1 /\ c \in Seq(Stored) /\ Len(c) = k - 1
        /\ \A i \in 0 .. k - 2 : c[i + 1] = CharAt(m, i)
        /\ \A i \in 0 .. k - 1 : CharAt(m, i) \in Char \union {"A", SPACE}
        /\ CharAt(m, k - 1) = NEWLINE
    <2>1. Ahead \in {0, 2} /\ k \in Nat /\ k >= 1 + Ahead
      BY LineText, AheadIs
    <2>2. k >= 1
      BY <2>1
    <2> QED
      BY <2>1, <2>2, LineText
  <1>2. \A i \in 0 .. k - 2 : CharAt(m, i) # NEWLINE
    BY LineEnds
  <1>3. k < size /\ \A i \in 0 .. k - 1 : b[i] = CharAt(m, i)
    BY DEF Filled, Bufsize
  <1>4. size \in Nat
    BY LineIs
  <1> HIDE DEF c, k, b, size
  <1>5. /\ c \in Seq(Stored) /\ Len(c) \in Nat /\ Len(c) + 1 < size
        /\ b[Len(c)] = NEWLINE
    BY <1>1, <1>3, <1>4
  <1>6. ASSUME NEW i \in 0 .. Len(c) - 1
        PROVE  b[i] = c[i + 1] /\ c[i + 1] # NEWLINE /\ c[i + 1] # NUL
    <2>1. i \in 0 .. k - 2 /\ i \in 0 .. k - 1
      BY <1>1
    <2>2. b[i] = CharAt(m, i) /\ c[i + 1] = CharAt(m, i) /\ CharAt(m, i) # NEWLINE
          /\ CharAt(m, i) \in Char \union {"A", SPACE}
      BY <1>1, <1>2, <1>3, <2>1
    <2> QED
      BY <2>2 DEF Char, NUL, SPACE
  <1> QED
    BY <1>1, <1>5, <1>6 DEF HoldsLine, c, k, b, size

\* complete_phrase is true only when the whole line, and no more, is in the buffer.
LEMMA CompletePhrase ==
  ASSUME Typed, Progress, pc = "phrase", complete_phrase
  PROVE  \E m \in Nat :
           /\ m \in 0 .. Read /\ m < Read /\ AtPhrase(m) /\ Filled(m) /\ Begins(m) /\ Agree(m)
           /\ file.text[Read] = NEWLINE /\ HoldsLine(Line(m)) /\ Len(Line(m)) = Length(m) - 1
           /\ Length(m) \in Nat /\ NewLine
           /\ header # "none" => m > 0
           /\ m > 0 => StatusKnown
  <1>0. LineTyped /\ Reading
    BY DEF Typed
  <1>1. PICK m \in Nat : AtPhrase(m) /\ m \in 0 .. Read
    BY AtPhraseIs
  <1>2. /\ Begins(m) /\ m < Read /\ Filled(m) /\ Agree(m) /\ NewLine
        /\ (header # "none" => m > 0) /\ (m > 0 => StatusKnown)
    BY <1>1, Zenon DEF AtPhrase
  <1>3. file.text[Read] = NEWLINE
    BY <1>0, <1>2, PhraseIs
  <1>4. HoldsLine(Line(m)) /\ Len(Line(m)) = Length(m) - 1 /\ Length(m) \in Nat
    BY <1>0, <1>2, <1>3, FilledIs
  <1> QED
    BY <1>1, <1>2, <1>3, <1>4

\* The string behind "A " is the line of the file, its newline included.
LEMMA StringIs ==
  ASSUME Reading, LineTyped, NEW m \in Nat, Begins(m), m < Read, file.text[Read] = NEWLINE,
         file.lm_status = "I", Filled(m)
  PROVE  Word(2) = FullLine(file, m) /\ Newlines(file, m) # {}
  <1> DEFINE text == file.text
             L == Len(text)
             k == Length(m)
             b == line.buffer
             size == line.bufsize
             n == Read - m
  <1>0. /\ L \in Nat /\ Read \in 0 .. L /\ Ahead = 2 /\ file \in Files
        /\ k = 2 + Read - m /\ k >= 3 /\ k \in Nat
        /\ size \in Nat /\ k < size /\ text \in Seq(Char)
        /\ \A i \in 0 .. k - 1 : CharAt(m, i) \in Char \union {"A", SPACE}
        /\ \A i \in 0 .. k - 1 : b[i] = CharAt(m, i)
        /\ b[k] = NUL
    <2>1. /\ k < size /\ b[k] = NUL /\ \A i \in 0 .. k - 1 : b[i] = CharAt(m, i)
      BY DEF Filled, Bufsize
    <2>2. text \in Seq(Char)
      BY FileText DEF Reading
    <2>3. Length(m) = Ahead + Read - m
      BY DEF Length
    <2> HIDE DEF k, b, size, text
    <2>4. k \in Nat /\ k >= 1 + Ahead
      BY LineText DEF k
    <2>5. \A i \in 0 .. k - 1 : CharAt(m, i) \in Char \union {"A", SPACE}
      BY LineText DEF k
    <2>6. size \in Nat
      BY LineIs DEF size
    <2>7. L \in Nat /\ Read \in 0 .. L /\ file \in Files
      BY InputIs DEF text
    <2>8. Ahead = 2
      BY AheadIs
    <2> QED
      BY <2>1, <2>2, <2>3, <2>4, <2>5, <2>6, <2>7, <2>8 DEF k
  <1>1. Newlines(file, m) # {} /\ Min(Newlines(file, m)) = Read
    BY LineEnds
  <1>2. n \in Nat /\ n >= 1 /\ m + n = Read /\ k = n + 2 /\ m + n <= L
    <2> HIDE DEF L, k
    <2> QED
      BY <1>0
  <1>3. \A i \in 1 .. n : b[2 + i - 1] = text[m + i]
    <2> SUFFICES ASSUME NEW i \in 1 .. n
                 PROVE  b[2 + i - 1] = text[m + i]
      OBVIOUS
    <2> HIDE DEF b, k, n, text, L
    <2>1. i \in Nat /\ 2 + i - 1 \in 0 .. k - 1 /\ ~(2 + i - 1 < 2)
      BY <1>2
    <2> DEFINE j == 2 + i - 1
    <2>2. b[j] = CharAt(m, j)
      <3> HIDE DEF j
      <3> QED
        BY <1>0, <2>1 DEF j
    <2>3. CharAt(m, j) = text[m + j + 1 - 2]
      BY <1>0, <2>1 DEF CharAt, text
    <2>4. m + j + 1 - 2 = m + i
      BY <2>1
    <2> QED
      BY <2>2, <2>3, <2>4
  <1> HIDE DEF text, L, k, b, size, n
  <1>4. End(2) = k
    <2> DEFINE end == End(2)
    <2>1. EndOk(b, size, 2, end)
      <3>1. 2 \in 0 .. size
        BY <1>0, <1>2
      <3> QED
        BY <3>1, PlacesAre DEF b, size
    <2> HIDE DEF end
    <2>2. end \in 2 .. size /\ (end < size => b[end] = NUL) /\ \A j \in 2 .. end - 1 : b[j] # NUL
      BY <2>1 DEF EndOk
    <2>3. \A i \in 0 .. k - 1 : b[i] # NUL
      BY <1>0 DEF Char, NUL, SPACE
    <2>4. ~(k < end)
      <3>1. k < end => k \in 2 .. end - 1
        BY <1>0, <2>2
      <3> QED
        BY <1>0, <2>2, <3>1
    <2>5. ~(end < k)
      <3>1. end < k => end \in 0 .. k - 1 /\ end < size
        BY <1>0, <2>2
      <3> QED
        BY <2>2, <2>3, <3>1
    <2> QED
      BY <1>0, <2>2, <2>4, <2>5 DEF end
  <1>5. Word(2) = [i \in 1 .. n |-> text[m + i]]
    <2>1. End(2) - 2 = n
      BY <1>2, <1>4
    <2>2. Word(2) = [i \in 1 .. n |-> b[2 + i - 1]]
      BY <2>1 DEF Word, b
    <2> QED
      BY <1>3, <2>2
  <1>6. FullLine(file, m) = SubSeq(text, m + 1, m + n)
    BY <1>1, <1>2 DEF FullLine, text
  <1>7. SubSeq(text, m + 1, m + n) = [i \in 1 .. n |-> text[m + i]]
    <2>1. \A i \in m + 1 .. m + n : i \in 1 .. L
      BY <1>0, <1>2
    <2>2. \A i \in m + 1 .. m + n : text[i] \in Char
      BY <1>0, <2>1, ElementOfSeq DEF L
    <2>3. /\ m + 1 \in Int /\ m + n \in Int /\ m + 1 <= m + n
          /\ (m + n) - (m + 1) + 1 = n /\ \A i \in 1 .. n : (m + 1) + i - 1 = m + i
      BY <1>2
    <2> DEFINE s == SubSeq(text, m + 1, m + n)
    <2>4. /\ s \in Seq(Char)
          /\ Len(s) = IF m + 1 <= m + n THEN (m + n) - (m + 1) + 1 ELSE 0
          /\ \A i \in 1 .. (m + n) - (m + 1) + 1 : s[i] = text[(m + 1) + i - 1]
      BY <2>2, <2>3, SubSeqProperties
    <2> HIDE DEF s
    <2>5. s \in Seq(Char) /\ Len(s) = n /\ \A i \in 1 .. n : s[i] = text[m + i]
      BY <2>3, <2>4
    <2>6. s \in [1 .. n -> Char]
      BY <2>5
    <2> QED
      BY <2>5, <2>6 DEF s
  <1> QED
    BY <1>1, <1>5, <1>6, <1>7

\* In an init file the line is a header exactly when the file begins with one.
LEMMA HeaderIs ==
  ASSUME Reading, LineTyped, NEW m \in Nat, Begins(m), m < Read, file.text[Read] = NEWLINE,
         file.lm_status = "I", Filled(m)
  PROVE  /\ Word(2) \in Headers => m = 0 /\ HasHeader(file) /\ Word(2) = FullLine(file, 0)
         /\ m = 0 /\ HasHeader(file) => Word(2) \in Headers
  <1>1. Word(2) = FullLine(file, m) /\ Newlines(file, m) # {}
    BY StringIs
  <1>2. ASSUME Word(2) \in Headers
        PROVE  m = 0
    <2> SUFFICES ASSUME m > 0
                 PROVE  FALSE
      OBVIOUS
    <2>1. m \in Newlines(file, 0)
      <3>1. Read \in 0 .. Len(file.text) /\ Len(file.text) \in Nat
        BY InputIs
      <3>2. m \in 0 + 1 .. Len(file.text)
        BY <3>1
      <3> QED
        BY <3>2 DEF Newlines, Begins
    <2>2. FullLine(file, m) \notin Headers
      <3>1. file \in Files
        BY InputIs
      <3>2. file.lm_status = "I" => \A l \in Newlines(file, 0) :
                Newlines(file, l) # {} => FullLine(file, l) \notin Headers
        BY <3>1, FilesAssumption, Zenon
      <3> QED
        BY <1>1, <2>1, <3>2, Zenon
    <2> QED
      BY <1>1, <1>2, <2>2
  <1>3. m = 0 => (HasHeader(file) <=> Word(2) \in Headers)
    BY <1>1 DEF HasHeader
  <1> QED
    BY <1>1, <1>2, <1>3

\* The header keeps it: the status is set before the first line is given.
LEMMA HeaderKeeps ==
  ASSUME Typed, Progress, Header
  PROVE  Progress'
  <1>0. /\ LineTyped /\ Reading /\ pc = "phrase" /\ complete_phrase /\ file.lm_status = "I"
        /\ Word(2) \in Headers
        /\ UNCHANGED <<file, input, line, words, taken, given>>
    BY DEF Typed, Header
  <1>1. PICK m \in Nat :
           /\ m \in 0 .. Read /\ m < Read /\ AtPhrase(m) /\ Filled(m) /\ Begins(m) /\ Agree(m)
           /\ file.text[Read] = NEWLINE /\ HoldsLine(Line(m)) /\ Len(Line(m)) = Length(m) - 1
           /\ Length(m) \in Nat /\ NewLine
           /\ header # "none" => m > 0
           /\ m > 0 => StatusKnown
    BY <1>0, CompletePhrase
  <1>2. m = 0 /\ HasHeader(file) /\ Word(2) = FullLine(file, 0)
    BY <1>0, <1>1, HeaderIs
  <1> DEFINE status == IF Word(2) = DynamicLine THEN "D" ELSE "S"
  <1>3. header' = status /\ file_status' = status /\ pc' = "fetch"
    <2>1. header = "none"
      BY <1>1, <1>2
    <2> QED
      BY <2>1 DEF Header
  <1>4. HeaderOf(file) = status /\ status # "none"
    BY <1>2 DEF HeaderOf
  <1>5. LinesBehind(file)[Read] = LinesBehind(file)[m]
    BY <1>0, <1>1, <1>2, ThisLine, InitLineValid
  <1>6. Agree(Read)
    BY <1>1, <1>5 DEF Agree
  <1>7. Begins(Read) /\ Read > 0
    <2>1. Read \in Nat
      BY <1>0, InputIs
    <2> QED
      BY <1>1, <1>2, <2>1 DEF Begins
  <1>8. PICK r \in Nat : r = Read
    BY <1>0, InputIs
  <1>9. Read' = r /\ Ahead' = Ahead /\ Begins(r)' /\ Agree(r)'
    <2>1. Begins(r) /\ Agree(r)
      BY <1>6, <1>7, <1>8
    <2> QED
      BY <1>0, <1>8, <2>1, FileStays, GivenStays
  <1>10. StatusKnown'
    BY <1>0, <1>3, <1>4 DEF StatusKnown
  <1>11. OnlyOld(line.buffer, Bufsize)
    <2>1. OldEnds(Read) = {Length(m) - 1}
      BY <1>0, <1>1, <1>2, OldEndsBehind
    <2>2. /\ OldEnds(Read) \subseteq 0 .. Bufsize - 2
          /\ \A i \in 0 .. Bufsize - 1 : line.buffer[i] = NEWLINE <=>
                \/ i = Length(m) - 1 /\ file.text[Read] = NEWLINE
                \/ i \in OldEnds(Read)
      BY <1>1 DEF Filled
    <2> QED
      BY <1>1, <2>1, <2>2 DEF OnlyOld
  <1>12. AtFetch'
    <2>1. Begins(Read)' /\ Agree(Read)'
      BY <1>9, <1>0, <1>8 DEF Begins, Agree, GivenInOrder
    <2>2. NewLine' /\ header' # "none" /\ Read' > 0
      BY <1>0, <1>1, <1>3, <1>4, <1>7, <1>8, <1>9 DEF NewLine
    <2>3. OldEnds(Read)' = OldEnds(Read)
      BY <1>0, FileStays
    <2>4. OnlyOld(line.buffer, Bufsize)'
      BY <1>0, <1>11, <2>3 DEF OnlyOld, Bufsize
    <2> QED
      BY <1>10, <2>1, <2>2, <2>4 DEF AtFetch
  <1> QED
    BY <1>3, <1>12 DEF Progress

\* The number in a line.
NumberOf(c) == IF Words(c)[2] # <<>> /\ Words(c)[2][1][1] \in DOMAIN Digit
               THEN Digit[Words(c)[2][1][1]] ELSE 0

\* The task of a line, by its first letter.
LEMMA TaskIs ==
  ASSUME NEW c
  PROVE  /\ c[1] = "F" => /\ Task(c).status = "F" /\ Task(c).taken = <<>>
                          /\ Task(c).k = IF Len(c) > 1 /\ c[2] = SPACE THEN NumberOf(c) ELSE -1
         /\ c[1] = "Q" => /\ Task(c).status = "Q" /\ Task(c).k = -1
                          /\ Task(c).taken = FromEach(Words(c)[2])
         /\ c[1] = "A" => /\ Task(c).status = "A" /\ Task(c).k = -1
                          /\ Task(c).taken = <<Words(c)[2]>>
         /\ c[1] = "D" => /\ Task(c).status = "D" /\ Task(c).k = -1
                          /\ Task(c).taken = <<Words(c)[2], Words(c)[2]>>
  <1> DEFINE number == IF Words(c)[2] # <<>> /\ Words(c)[2][1][1] \in DOMAIN Digit
                       THEN Digit[Words(c)[2][1][1]] ELSE 0
  <1>1. Task(c) =
           CASE c[1] = "F" -> Given("F", IF Len(c) > 1 /\ c[2] = SPACE THEN number ELSE -1, <<>>)
             [] c[1] = "Q" -> Given("Q", -1, FromEach(Words(c)[2]))
             [] c[1] = "A" -> Given("A", -1, <<Words(c)[2]>>)
             [] c[1] = "D" -> Given("D", -1, <<Words(c)[2], Words(c)[2]>>)
    BY DEF Task
  <1>2. number = NumberOf(c)
    BY DEF NumberOf
  <1> HIDE DEF number
  <1>3. /\ c[1] = "F" => Task(c) = Given("F", IF Len(c) > 1 /\ c[2] = SPACE
                                              THEN NumberOf(c) ELSE -1, <<>>)
        /\ c[1] = "Q" => Task(c) = Given("Q", -1, FromEach(Words(c)[2]))
        /\ c[1] = "A" => Task(c) = Given("A", -1, <<Words(c)[2]>>)
        /\ c[1] = "D" => Task(c) = Given("D", -1, <<Words(c)[2], Words(c)[2]>>)
    BY <1>1, <1>2
  <1> QED
    BY <1>3 DEF Given

\* The first word behind the task.
LEMMA FirstWordIs ==
  ASSUME NEW c \in Seq(Stored), Len(c) > 1, c[2] = SPACE
  PROVE  LET s == FirstOfWord(c, 2)
         IN  /\ s \in 3 .. Len(c) + 1
             /\ \A j \in 2 .. s - 1 : c[j] = SPACE
             /\ s <= Len(c) => c[s] # SPACE /\ Words(c)[2] # <<>> /\ Words(c)[2][1][1] = c[s]
             /\ s > Len(c) => Words(c)[2] = <<>>
  <1> DEFINE s == FirstOfWord(c, 2)
             e == FirstSpace(c, s)
  <1>0. Len(c) \in Nat /\ 2 \in 1 .. Len(c) + 1
    BY LenProperties
  <1>1. /\ s \in 2 .. Len(c) + 1 /\ (s <= Len(c) => c[s] # SPACE)
        /\ \A j \in 2 .. s - 1 : c[j] = SPACE
    BY <1>0, FirstOfWordIs
  <1>2. Words(c)[2] = IF s > Len(c) THEN <<>> ELSE <<SubSeq(c, s, e - 1)>> \o Words(c)[e]
    BY <1>0, WordsUnfold
  <1> HIDE DEF s
  <1>3. s \in 3 .. Len(c) + 1
    BY <1>0, <1>1
  <1>4. s > Len(c) => Words(c)[2] = <<>>
    BY <1>2
  <1>5. ASSUME s <= Len(c)
        PROVE  Words(c)[2] # <<>> /\ Words(c)[2][1][1] = c[s]
    <2>1. s \in 1 .. Len(c) + 1
      BY <1>0, <1>3
    <2>2. e \in s .. Len(c) + 1 /\ (e <= Len(c) => c[e] = SPACE)
      BY <2>1, FirstSpaceIs
    <2> HIDE DEF e
    <2>3. e # s
      BY <1>1, <1>5, <2>2
    <2>4. s \in Int /\ e - 1 \in Int /\ 1 \in 1 .. (e - 1) - s + 1 /\ s + 1 - 1 = s
          /\ e \in 1 .. Len(c) + 1
      BY <1>0, <1>3, <2>2, <2>3
    <2>5. \A j \in s .. e - 1 : c[j] \in Stored
      <3>1. \A j \in s .. e - 1 : j \in 1 .. Len(c)
        BY <1>0, <1>3, <2>2
      <3> QED
        BY <3>1, ElementOfSeq
    <2> DEFINE w == SubSeq(c, s, e - 1)
               t == Words(c)[e]
    <2>6. w \in Seq(Stored) /\ w[1] = c[s]
      <3>1. /\ w \in Seq(Stored)
            /\ \A j \in 1 .. (e - 1) - s + 1 : w[j] = c[s + j - 1]
        BY <2>4, <2>5, SubSeqProperties
      <3> HIDE DEF w
      <3> QED
        BY <2>4, <3>1
    <2>7. t \in Seq(Seq(Stored))
      BY <2>4, WordsUnfold
    <2>8. Words(c)[2] = <<w>> \o t
      BY <1>0, <1>2, <1>3, <1>5
    <2> HIDE DEF w, t
    <2>9. <<w>> \in Seq(Seq(Stored)) /\ Len(<<w>>) = 1 /\ <<w>>[1] = w
      BY <2>6
    <2>10. Len(<<w>> \o t) = 1 + Len(t) /\ Len(t) \in Nat
           /\ \A i \in 1 .. 1 + Len(t) : (<<w>> \o t)[i] = IF i <= 1 THEN <<w>>[i] ELSE t[i - 1]
      BY <2>7, <2>9, ConcatProperties
    <2>11. (<<w>> \o t)[1] = w /\ <<w>> \o t # <<>>
      <3>1. 1 \in 1 .. 1 + Len(t)
        BY <2>10
      <3>2. (<<w>> \o t)[1] = w
        BY <2>9, <2>10, <3>1
      <3>3. Len(<<w>> \o t) # 0
        BY <2>10
      <3> QED
        BY <3>2, <3>3
    <2> QED
      BY <2>6, <2>8, <2>11
  <1> QED
    BY <1>1, <1>3, <1>4, <1>5 DEF s

\* The k read from the buffer is that of the line.
LEMMA KOfIs ==
  ASSUME LineTyped, NEW c, HoldsLine(c), Len(c) > 0, c[1] = "F"
  PROVE  KOf = Task(c).k
  <1> DEFINE b == line.buffer
             size == line.bufsize
             S == {j \in 2 .. size - 1 : b[j] # SPACE}
             i == Min(S \union {size})
  <1>0. /\ c \in Seq(Stored) /\ Len(c) \in Nat /\ Len(c) + 1 < size
        /\ \A j \in 0 .. Len(c) - 1 : b[j] = c[j + 1] /\ c[j + 1] # NEWLINE
        /\ b[Len(c)] = NEWLINE /\ size \in Nat /\ Bufsize = size
    BY LineIs DEF HoldsLine
  <1>1. i \in S \union {size} /\ i \in 0 .. size /\ \A y \in S : i <= y
    <2>1. S \in SUBSET (0 .. size)
      BY <1>0
    <2> HIDE DEF S, size
    <2> QED
      BY <1>0, <2>1, FirstOrEnd
  <1>2. KOf = IF b[1] # SPACE THEN -1 ELSE IF b[i] \in DOMAIN Digit THEN Digit[b[i]] ELSE 0
    BY <1>0, Zenon DEF KOf, First
  <1> HIDE DEF b, size, i
  <1>21. Len(c) \in Nat /\ Len(c) > 0
    BY <1>0
  <1>3. b[1] = SPACE <=> Len(c) > 1 /\ c[2] = SPACE
    <2>1. CASE Len(c) = 1
      BY <1>0, <2>1 DEF NEWLINE, SPACE
    <2>2. CASE Len(c) # 1
      <3>1. 1 \in 0 .. Len(c) - 1 /\ Len(c) > 1 /\ 1 + 1 = 2
        <4> DEFINE n == Len(c)
        <4>1. n \in Nat /\ n > 0 /\ n # 1
          BY <1>21, <2>2
        <4> HIDE DEF n
        <4>2. 1 \in 0 .. n - 1 /\ n > 1 /\ 1 + 1 = 2
          BY <4>1
        <4> QED
          BY <4>2 DEF n
      <3>2. b[1] = c[1 + 1]
        BY <1>0, <3>1
      <3> QED
        BY <3>1, <3>2
    <2> QED
      BY <2>1, <2>2
  <1>4. CASE b[1] # SPACE
    <2>1. KOf = -1
      BY <1>2, <1>4
    <2> QED
      BY <1>3, <1>4, <2>1, TaskIs
  <1>5. CASE b[1] = SPACE
    <2> DEFINE s == FirstOfWord(c, 2)
    <2>1. /\ s \in 3 .. Len(c) + 1
          /\ \A j \in 2 .. s - 1 : c[j] = SPACE
          /\ s <= Len(c) => c[s] # SPACE /\ Words(c)[2] # <<>> /\ Words(c)[2][1][1] = c[s]
          /\ s > Len(c) => Words(c)[2] = <<>>
      <3>1. Len(c) > 1 /\ c[2] = SPACE
        BY <1>3, <1>5
      <3> QED
        BY <1>0, <3>1, FirstWordIs
    <2> HIDE DEF s
    <2>2. /\ s - 1 \in 2 .. size - 1
          /\ s <= Len(c) => s - 1 \in 0 .. Len(c) - 1 /\ (s - 1) + 1 = s
          /\ s > Len(c) => s - 1 = Len(c)
      BY <1>0, <2>1
    <2>3. /\ s <= Len(c) => b[s - 1] = c[s]
          /\ s > Len(c) => b[s - 1] = NEWLINE
      BY <1>0, <2>2
    <2>4. b[s - 1] # SPACE
      BY <1>0, <2>1, <2>3 DEF NEWLINE, SPACE
    <2>5. i = s - 1
      <3>1. i <= s - 1
        BY <1>1, <2>2, <2>4
      <3>2. ASSUME i < s - 1
            PROVE  FALSE
        <4>1. i \in S
          BY <1>0, <1>1, <2>2, <3>2
        <4>2. i \in 2 .. size - 1 /\ b[i] # SPACE
          BY <4>1
        <4>3. i \in 0 .. Len(c) - 1 /\ i + 1 \in 2 .. s - 1
          BY <1>0, <2>1, <3>2, <4>2
        <4>4. b[i] = c[i + 1]
          BY <1>0, <4>3
        <4> QED
          BY <2>1, <4>2, <4>3, <4>4
      <3> QED
        BY <1>1, <2>2, <3>1, <3>2
    <2>6. KOf = IF b[i] \in DOMAIN Digit THEN Digit[b[i]] ELSE 0
      BY <1>2, <1>5
    <2>7. NEWLINE \notin DOMAIN Digit
      BY DEF Digit, NEWLINE
    <2>8. KOf = NumberOf(c)
      <3>1. CASE s <= Len(c)
        BY <2>1, <2>3, <2>5, <2>6, <3>1 DEF NumberOf
      <3>2. CASE s > Len(c)
        BY <2>1, <2>3, <2>5, <2>6, <2>7, <3>2 DEF NumberOf
      <3> QED
        BY <1>0, <2>1, <3>1, <3>2
    <2>9. Len(c) > 1 /\ c[2] = SPACE
      BY <1>3, <1>5
    <2> QED
      BY <2>8, <2>9, TaskIs
  <1> QED
    BY <1>4, <1>5

\* A task read from the buffer is valid if and only if the line is.
LEMMA ValidIs ==
  ASSUME LineTyped, NEW c, HoldsLine(c)
  PROVE  /\ ValidTask <=> Valid(c)
         /\ Valid(c) => /\ Len(c) > 0 /\ line.buffer[0] = c[1] /\ c[1] \in {"F", "A", "D", "Q"}
                        /\ c[1] # "F" => Len(c) > 1 /\ c[2] = SPACE
  <1> DEFINE b == line.buffer
             n == Len(c)
  <1>0. /\ c \in Seq(Stored) /\ n \in Nat
        /\ \A j \in 0 .. n - 1 : b[j] = c[j + 1] /\ c[j + 1] # NEWLINE
        /\ b[n] = NEWLINE
    BY DEF HoldsLine
  <1>1. c = <<>> <=> n = 0
    BY <1>0, EmptySeq
  <1> HIDE DEF b, n
  <1>2. CASE n = 0
    <2>1. b[0] = NEWLINE
      BY <1>0, <1>2
    <2>2. ~ValidTask
      BY <2>1 DEF ValidTask, NEWLINE, b
    <2> QED
      BY <1>1, <1>2, <2>2 DEF Valid
  <1>3. CASE n = 1
    <2>1. b[0] = c[1]
      <3>1. 0 \in 0 .. n - 1 /\ 0 + 1 = 1
        BY <1>3
      <3> QED
        BY <1>0, <3>1
    <2>2. b[1] # SPACE
      BY <1>0, <1>3 DEF NEWLINE, SPACE
    <2>3. ValidTask <=> c[1] = "F"
      BY <2>1, <2>2 DEF ValidTask, b
    <2>4. Valid(c) <=> c[1] = "F"
      <3>1. ~(Len(c) > 1) /\ c # <<>>
        BY <1>1, <1>3 DEF n
      <3> QED
        BY <3>1 DEF Valid
    <2>5. Len(c) > 0
      BY <1>3 DEF n
    <2> QED
      BY <2>1, <2>3, <2>4, <2>5 DEF b
  <1>4. CASE n > 1
    <2>1. b[0] = c[1] /\ b[1] = c[2]
      <3>1. 0 \in 0 .. n - 1 /\ 0 + 1 = 1 /\ 1 \in 0 .. n - 1 /\ 1 + 1 = 2
        BY <1>0, <1>4
      <3> QED
        BY <1>0, <3>1
    <2>2. Len(c) > 1 /\ Len(c) > 0 /\ c # <<>>
      <3>1. n > 1 /\ n > 0 /\ n # 0
        BY <1>0, <1>4
      <3> QED
        BY <1>1, <3>1 DEF n
    <2>3. ValidTask <=> c[1] = "F" \/ (c[1] \in {"A", "D", "Q"} /\ c[2] = SPACE)
      BY <2>1 DEF ValidTask, b
    <2>4. Valid(c) <=> c[1] = "F" \/ (c[1] \in {"A", "D", "Q"} /\ c[2] = SPACE)
      BY <2>2 DEF Valid
    <2> QED
      BY <2>1, <2>2, <2>3, <2>4 DEF b
  <1> QED
    BY <1>0, <1>2, <1>3, <1>4

\* A line of the init file keeps the invariant.
LEMMA InitLineKeeps ==
  ASSUME Typed, Progress, InitLine
  PROVE  Progress'
  <1>0. /\ LineTyped /\ Reading /\ pc = "phrase" /\ complete_phrase /\ file.lm_status = "I"
        /\ Word(2) \notin Headers
        /\ line' = [line EXCEPT !.line_status = "A"] /\ pc' = "parse"
        /\ UNCHANGED <<file, input, header, file_status, words, taken, given>>
    BY DEF Typed, InitLine
  <1>1. PICK m \in Nat :
           /\ m \in 0 .. Read /\ m < Read /\ AtPhrase(m) /\ Filled(m) /\ Begins(m) /\ Agree(m)
           /\ file.text[Read] = NEWLINE /\ HoldsLine(Line(m)) /\ Len(Line(m)) = Length(m) - 1
           /\ Length(m) \in Nat /\ NewLine
           /\ header # "none" => m > 0
           /\ m > 0 => StatusKnown
    BY <1>0, CompletePhrase
  <1>2. ~(m = 0 /\ HasHeader(file))
    BY <1>0, <1>1, HeaderIs
  <1>3. StatusKnown
    BY <1>1, <1>2 DEF StatusKnown, HeaderOf
  <1>4. Valid(Line(m)) /\ Line(m)[1] = "A"
    BY <1>0, <1>1, InitLineValid
  <1>5. LinesBehind(file)[m] = <<Task(Line(m))>> \o LinesBehind(file)[Read]
    BY <1>0, <1>1, <1>2, <1>4, ThisLine
  <1>6. /\ Read' = Read /\ Line(m)' = Line(m) /\ Length(m)' = Length(m)
        /\ Begins(m)' = Begins(m) /\ Agree(m)' = Agree(m) /\ StatusKnown' = StatusKnown
        /\ OldEnds(Read)' = OldEnds(Read)
        /\ \A i : CharAt(m, i)' = CharAt(m, i)
    BY <1>0, FileStays, GivenStays, StatusStays
  <1>7. /\ line'.line_status = "A" /\ line'.buffer = line.buffer /\ line'.bufsize = line.bufsize
    BY <1>0 DEF LineTyped, LineSet
  <1>8. Complete(m)'
    BY <1>0, <1>1, <1>2, <1>3, <1>4, <1>5, <1>6, <1>7 DEF Complete
  <1>9. Filled(m)'
    BY <1>0, <1>1, <1>6, <1>7 DEF Filled, Bufsize
  <1>10. NewLine' /\ m \in 0 .. Read'
    BY <1>0, <1>1, <1>6 DEF NewLine
  <1> QED
    BY <1>0, <1>8, <1>9, <1>10 DEF Progress, AtParse

\* A line of the work file keeps it.
LEMMA WorkLineKeeps ==
  ASSUME Typed, Progress, WorkLine
  PROVE  Progress'
  <1>0. /\ LineTyped /\ Reading /\ pc = "phrase" /\ complete_phrase /\ file.lm_status = "Q"
        /\ UNCHANGED <<file, input, header, file_status, words, taken, given>>
    BY DEF Typed, WorkLine
  <1>1. PICK m \in Nat :
           /\ m \in 0 .. Read /\ m < Read /\ AtPhrase(m) /\ Filled(m) /\ Begins(m) /\ Agree(m)
           /\ file.text[Read] = NEWLINE /\ HoldsLine(Line(m)) /\ Len(Line(m)) = Length(m) - 1
           /\ Length(m) \in Nat /\ NewLine
           /\ header # "none" => m > 0
           /\ m > 0 => StatusKnown
    BY <1>0, CompletePhrase
  <1>2. /\ ~(m = 0 /\ HasHeader(file)) /\ StatusKnown /\ StatusOfHeader
        /\ ~HeaderEndRemains(file)
    BY <1>0, NoHeader DEF HasHeader
  <1>3. /\ ValidTask <=> Valid(Line(m))
        /\ Valid(Line(m)) => Len(Line(m)) > 0 /\ line.buffer[0] = Line(m)[1]
    BY <1>0, <1>1, ValidIs
  <1>4. CASE ~ValidTask
    <2>1. pc' = "closed" /\ UNCHANGED line
      BY <1>4 DEF WorkLine
    <2>2. LinesBehind(file)[m] = <<>>
      BY <1>0, <1>1, <1>3, <1>4, ThisLine
    <2>3. AtClosed
      BY <1>0, <1>1, <1>2, <2>2, AllGiven DEF AtClosed
    <2>4. AtClosed'
      BY <1>0, <2>3, GivenStays DEF AtClosed, StatusOfHeader
    <2> QED
      BY <2>1, <2>4 DEF Progress
  <1>5. CASE ValidTask
    <2>1. /\ pc' = "parse"
          /\ line' = [line EXCEPT !.line_status = line.buffer[0],
                                  !.k = IF line.buffer[0] = "F" THEN KOf ELSE line.k]
      BY <1>5 DEF WorkLine
    <2>2. /\ line'.line_status = Line(m)[1] /\ line'.buffer = line.buffer
          /\ line'.bufsize = line.bufsize
          /\ line'.line_status = "F" => line'.k = KOf
      BY <1>0, <1>3, <1>5, <2>1 DEF LineTyped, LineSet
    <2>3. Line(m)[1] = "F" => KOf = Task(Line(m)).k
      BY <1>0, <1>1, <1>3, <1>5, KOfIs
    <2>4. LinesBehind(file)[m] = <<Task(Line(m))>> \o LinesBehind(file)[Read]
      BY <1>0, <1>1, <1>2, <1>3, <1>5, ThisLine
    <2>5. /\ Read' = Read /\ Line(m)' = Line(m) /\ Length(m)' = Length(m)
          /\ Begins(m)' = Begins(m) /\ Agree(m)' = Agree(m) /\ StatusKnown' = StatusKnown
          /\ OldEnds(Read)' = OldEnds(Read)
          /\ \A i : CharAt(m, i)' = CharAt(m, i)
      BY <1>0, FileStays, GivenStays, StatusStays
    <2>6. Complete(m)'
      BY <1>0, <1>1, <1>2, <1>3, <1>5, <2>2, <2>3, <2>4, <2>5 DEF Complete
    <2>7. Filled(m)'
      BY <1>0, <1>1, <2>2, <2>5 DEF Filled, Bufsize
    <2>8. NewLine' /\ m \in 0 .. Read'
      BY <1>0, <1>1, <2>5 DEF NewLine
    <2> QED
      BY <2>1, <2>6, <2>7, <2>8 DEF Progress, AtParse
  <1> QED
    BY <1>4, <1>5

\* The line is cut into its words.
LEMMA CutOfLine ==
  ASSUME LineTyped, NEW m, HoldsLine(Line(m)), line' = [line EXCEPT !.buffer = CutBuffer(LineEnd),
         !.line_end = LineEnd, !.n_gram_position = 0], Line(m)' = Line(m),
         OldEnds(Read)' = OldEnds(Read), OldEnds(Read) \subseteq 0 .. line.bufsize - 2,
         Len(Line(m)) \notin OldEnds(Read),
         \A i \in 0 .. line.bufsize - 1 :
             line.buffer[i] = NEWLINE <=> i = Len(Line(m)) \/ i \in OldEnds(Read)
  PROVE  Cut(m)' /\ LineEnd = Len(Line(m))
  <1> DEFINE b == line.buffer
             size == line.bufsize
             c == Line(m)
             n == Len(c)
             new == CutBuffer(LineEnd)
  <1>0. /\ c \in Seq(Stored) /\ n \in Nat /\ n + 1 < size /\ size \in Nat
        /\ \A i \in 0 .. n - 1 : b[i] = c[i + 1] /\ c[i + 1] # NEWLINE /\ c[i + 1] # NUL
        /\ b[n] = NEWLINE
        /\ \A i \in 0 .. size - 1 : b[i] = NEWLINE <=> i = n \/ i \in OldEnds(Read)
    BY LineIs DEF HoldsLine
  <1>1. LineEnd = n
    <2> DEFINE end == LineEnd
    <2>1. /\ end \in 0 .. size /\ (end # size => b[end] = NEWLINE)
          /\ \A i \in 0 .. end - 1 : b[i] # NEWLINE
      BY LineEndIs
    <2> HIDE DEF end, n, b, size
    <2>2. ~(n < end)
      BY <1>0, <2>1
    <2>3. ~(end < n)
      <3>1. end < n => end # size /\ end \in 0 .. n - 1
        BY <1>0, <2>1
      <3> QED
        BY <1>0, <2>1, <3>1
    <2> QED
      BY <1>0, <2>1, <2>2, <2>3 DEF end
  <1>2. \A i \in 0 .. size - 1 :
            new[i] = IF i = n \/ i = size - 1 \/ (i < n /\ b[i] = SPACE) THEN NUL ELSE b[i]
    BY <1>1 DEF CutBuffer
  <1>3. /\ line'.buffer = new /\ line'.bufsize = size /\ line'.line_end = n
        /\ Bufsize' = size
    BY <1>1 DEF LineTyped, LineSet, Bufsize
  <1> HIDE DEF new, b, size, n
  <1>4. \A i \in 0 .. n - 1 : new[i] = IF c[i + 1] = SPACE THEN NUL ELSE c[i + 1]
    <2> SUFFICES ASSUME NEW i \in 0 .. n - 1
                 PROVE  new[i] = IF c[i + 1] = SPACE THEN NUL ELSE c[i + 1]
      OBVIOUS
    <2>1. i \in 0 .. size - 1 /\ i # n /\ i # size - 1 /\ i < n
      BY <1>0
    <2> QED
      BY <1>0, <1>2, <2>1
  <1>5. new[n] = NUL /\ new[size - 1] = NUL
    BY <1>0, <1>2
  <1>6. \A i \in 0 .. size - 1 : new[i] = NEWLINE <=> i \in OldEnds(Read)
    <2> SUFFICES ASSUME NEW i \in 0 .. size - 1
                 PROVE  new[i] = NEWLINE <=> i \in OldEnds(Read)
      OBVIOUS
    <2>1. n \notin OldEnds(Read) /\ OldEnds(Read) \subseteq 0 .. size - 2
      BY DEF n, size
    <2>2. size - 1 \notin 0 .. size - 2
      BY <1>0
    <2>3. CASE i = n \/ i = size - 1
      BY <1>2, <2>1, <2>2, <2>3 DEF NUL, NEWLINE
    <2>4. CASE i < n /\ b[i] = SPACE
      <3>1. new[i] = NUL
        BY <1>2, <2>4
      <3> QED
        BY <1>0, <2>4, <3>1 DEF NUL, NEWLINE, SPACE
    <2>5. CASE i # n /\ i # size - 1 /\ ~(i < n /\ b[i] = SPACE)
      <3>1. new[i] = b[i]
        BY <1>2, <2>5
      <3> QED
        BY <1>0, <2>5, <3>1
    <2> QED
      BY <2>3, <2>4, <2>5
  <1>7. n < size
    BY <1>0
  <1> QED
    BY <1>1, <1>3, <1>4, <1>5, <1>6, <1>7 DEF Cut, OnlyOld, n, size


\* The line is text, without NUL.
LEMMA LineIsText ==
  ASSUME Reading, NEW m \in Nat, m < Read
  PROVE  /\ Line(m) \in Seq(Stored) /\ Len(Line(m)) \in Nat
         /\ \A i \in 1 .. Len(Line(m)) : Line(m)[i] # NUL
  <1> DEFINE c == Line(m)
             n == Len(c)
  <1>1. /\ c \in Seq(Stored) /\ n \in Nat /\ n = Length(m) - 1 /\ Length(m) \in Nat
        /\ \A i \in 0 .. Length(m) - 2 : c[i + 1] = CharAt(m, i)
        /\ \A i \in 0 .. Length(m) - 1 : CharAt(m, i) \in Char \union {"A", SPACE}
    BY LineText
  <1> HIDE DEF c, n
  <1>2. ASSUME NEW i \in 1 .. n
        PROVE  c[i] # NUL
    <2>1. i - 1 \in 0 .. Length(m) - 2 /\ i - 1 \in 0 .. Length(m) - 1 /\ (i - 1) + 1 = i
      BY <1>1
    <2>2. c[i] \in Char \union {"A", SPACE}
      BY <1>1, <2>1
    <2> QED
      BY <2>2 DEF Char, NUL, SPACE
  <1> QED
    BY <1>1, <1>2 DEF c, n

\* When the line is parsed, the buffer is cut into its words.
LEMMA CutIs ==
  ASSUME LineTyped, Reading, NEW m \in Nat, m < Read, Cut(m)
  PROVE  CutInto(line.buffer, line.bufsize, Line(m)) /\ line.line_end = Len(Line(m))
  <1>1. line.bufsize \in Nat /\ Bufsize = line.bufsize
    BY LineIs
  <1>2. /\ line.line_end = Len(Line(m)) /\ line.line_end < Bufsize
        /\ \A i \in 0 .. line.line_end - 1 :
              line.buffer[i] = IF Line(m)[i + 1] = SPACE THEN NUL ELSE Line(m)[i + 1]
        /\ line.buffer[line.line_end] = NUL
    BY Zenon DEF Cut
  <1>3. /\ Line(m) \in Seq(Stored)
        /\ \A i \in 1 .. Len(Line(m)) : Line(m)[i] # NUL
    BY LineIsText
  <1> DEFINE c == Line(m)
  <1> HIDE DEF c
  <1> QED
    BY <1>1, <1>2, <1>3 DEF CutInto, c

\* The task is the first word.
LEMMA TaskWord ==
  ASSUME NEW b, NEW size, NEW c, CutInto(b, size, c), Len(c) > 1, c[1] # SPACE, c[2] = SPACE
  PROVE  EndIn(b, size, 0) = 1
  <1>1. Len(c) \in Nat /\ c \in Seq(Stored)
    BY CutFacts
  <1>2. 0 \in 0 .. Len(c) /\ 1 \in 1 .. Len(c) + 1 /\ 2 \in 1 .. Len(c)
    BY <1>1
  <1> DEFINE s == FirstSpace(c, 1)
  <1>3. EndIn(b, size, 0) = s - 1
    <2>1. EndIn(b, size, 0) = FirstSpace(c, 0 + 1) - 1
      BY <1>2, CutPlaces
    <2>2. 0 + 1 = 1
      OBVIOUS
    <2> QED
      BY <2>1, <2>2
  <1>4. /\ s \in 1 .. Len(c) + 1 /\ (s <= Len(c) => c[s] = SPACE)
        /\ \A j \in 1 .. s - 1 : c[j] # SPACE
    BY <1>1, <1>2, FirstSpaceIs
  <1> HIDE DEF s
  <1>5. s # 1
    <2>1. s = 1 => s <= Len(c)
      BY <1>1
    <2> QED
      BY <1>4, <2>1
  <1>6. ~(s > 2)
    <2>1. s > 2 => 2 \in 1 .. s - 1
      BY <1>1, <1>4
    <2> QED
      BY <1>4, <2>1
  <1>7. s = 2
    BY <1>1, <1>4, <1>5, <1>6
  <1> QED
    BY <1>3, <1>7

\* A line that is not "F" begins with its task and a space.
LEMMA CompleteIs ==
  ASSUME Reading, NEW m \in Nat, Complete(m)
  PROVE  /\ Line(m) \in Seq(Stored) /\ Len(Line(m)) \in Nat /\ Len(Line(m)) > 0
         /\ line.line_status = Line(m)[1] /\ line.line_status \in {"F", "A", "D", "Q"}
         /\ line.line_status # "F" => Len(Line(m)) > 1 /\ Line(m)[2] = SPACE
         /\ m < Read
  <1>1. Valid(Line(m)) /\ line.line_status = Line(m)[1] /\ m < Read
    BY DEF Complete
  <1>2. Line(m) \in Seq(Stored) /\ Len(Line(m)) \in Nat
    BY <1>1, LineIsText
  <1>3. Line(m) # <<>>
    BY <1>1 DEF Valid
  <1>4. Len(Line(m)) # 0
    BY <1>2, <1>3, EmptySeq
  <1> QED
    BY <1>1, <1>2, <1>4 DEF Valid

\* What is done with a complete line is what the line says.
LEMMA OperationIs ==
  ASSUME Reading, NEW m \in Nat, Complete(m)
  PROVE  Operation = line.line_status
  <1>1. file.lm_status = "I" => line.line_status = "A"
    BY InitLineValid DEF Complete
  <1> QED
    BY <1>1 DEF Operation

\* That the file has ended inside a line stays.
LEMMA CutOffStays ==
  ASSUME UNCHANGED <<file, input, given, file_status>>
  PROVE  /\ CutOff' = CutOff /\ HeaderEndRemains(file)' = HeaderEndRemains(file)
         /\ AtExtra' = AtExtra /\ AfterExtra' = AfterExtra /\ AtClosed' = AtClosed
  <1>1. /\ GivenInOrder' = GivenInOrder /\ StatusOfHeader' = StatusOfHeader
        /\ StatusKnown' = StatusKnown
    BY GivenStays, StatusStays DEF StatusOfHeader
  <1>2. HeaderEndRemains(file)' = HeaderEndRemains(file) /\ CutOff' = CutOff
    BY <1>1 DEF CutOff
  <1> QED
    BY <1>1, <1>2 DEF AtExtra, AfterExtra, AtClosed

\* What a line is known for stays while its words are taken.
LEMMA CompleteStays ==
  ASSUME UNCHANGED <<file, input, given, file_status>>, NEW m, Complete(m),
         line'.line_status = line.line_status, line'.k = line.k
  PROVE  Complete(m)' /\ Line(m)' = Line(m) /\ Read' = Read
  <1>1. /\ Read' = Read /\ Line(m)' = Line(m) /\ Length(m)' = Length(m)
        /\ Begins(m)' = Begins(m) /\ Agree(m)' = Agree(m) /\ StatusKnown' = StatusKnown
    BY FileStays, GivenStays, StatusStays
  <1> QED
    BY <1>1 DEF Complete

\* line_parse keeps it: every space of the line and its newline are NUL.
LEMMA ParseKeeps ==
  ASSUME Typed, Progress, line_parse
  PROVE  Progress'
  <1>0. /\ LineTyped /\ Reading /\ pc = "parse" /\ AtParse
        /\ UNCHANGED <<file, input, header, file_status, words, taken, given>>
    BY DEF Typed, Progress, line_parse
  <1>1. CASE CutOff /\ OnlyOld(line.buffer, Bufsize)
    <2>1. /\ line.bufsize \in Nat /\ Bufsize = line.bufsize
          /\ LineEnd \in 0 .. line.bufsize
          /\ (LineEnd # line.bufsize => line.buffer[LineEnd] = NEWLINE)
          /\ (LineEnd = line.bufsize => \A i \in 0 .. line.bufsize - 1 : line.buffer[i] # NEWLINE)
      BY <1>0, LineEndIs, LineIs
    <2>2. HeaderEndRemains(file) <=> OldEnds(Read) # {}
      <3>1. Len(input) = 0 /\ Unfinished(file)
        BY <1>1 DEF CutOff
      <3>2. Read = Len(file.text)
        BY <1>0, <3>1, InputIs DEF Read
      <3> QED
        BY <1>0, <3>1, <3>2, RemainsIs
    <2>3. CutOff' /\ HeaderEndRemains(file)' = HeaderEndRemains(file)
      BY <1>0, <1>1, CutOffStays
    <2>4. /\ OldEnds(Read) \subseteq 0 .. line.bufsize - 2
          /\ \A i \in 0 .. line.bufsize - 1 : line.buffer[i] = NEWLINE <=> i \in OldEnds(Read)
      BY <1>1, <2>1, Zenon DEF OnlyOld
    <2>5. CASE LineEnd = line.bufsize
      <3>1. LineEnd \notin 0 .. line.bufsize - 1
        BY <2>1, <2>5
      <3>2. pc' = "overrun"
        BY <1>0, <3>1, ParseIs
      <3>3. OldEnds(Read) = {}
        <4>1. ASSUME NEW i \in OldEnds(Read)
              PROVE  FALSE
          <5>1. i \in 0 .. line.bufsize - 1
            <6>1. i \in 0 .. line.bufsize - 2
              BY <2>4
            <6> QED
              BY <2>1, <6>1
          <5> QED
            BY <2>1, <2>4, <2>5, <5>1
        <4> QED
          BY <4>1
      <3> QED
        BY <2>2, <2>3, <3>2, <3>3 DEF Progress
    <2>6. CASE LineEnd # line.bufsize
      <3>1. LineEnd \in OldEnds(Read)
        <4>1. LineEnd \in 0 .. line.bufsize - 1
          BY <2>1, <2>6
        <4> QED
          BY <2>1, <2>4, <2>6, <4>1
      <3>2. Operation = "A"
        BY <1>1 DEF CutOff, Operation
      <3>3. pc' = "ngram"
        BY <1>0, <2>6, <3>2, ParseIs
      <3>4. AtExtra'
        BY <2>2, <2>3, <3>1 DEF AtExtra
      <3> QED
        BY <3>3, <3>4 DEF Progress
    <2> QED
      BY <2>5, <2>6
  <1>2. CASE \E m \in 0 .. Read : Complete(m) /\ Filled(m)
    <2>1. PICK m \in Nat : Complete(m) /\ Filled(m) /\ m \in 0 .. Read
      <3>1. Read \in Nat
        BY <1>0, InputIs
      <3> QED
        BY <1>2, <3>1
    <2>2. /\ Begins(m) /\ m < Read /\ file.text[Read] = NEWLINE
      BY <2>1 DEF Complete
    <2>3. HoldsLine(Line(m))
      BY <1>0, <2>1, <2>2, FilledIs
    <2>4. LineEnd # line.bufsize
      <3> DEFINE n == Len(Line(m))
      <3>1. n \in Nat /\ n + 1 < line.bufsize /\ line.buffer[n] = NEWLINE
            /\ line.bufsize \in Nat
        BY <1>0, <2>3, LineIs DEF HoldsLine
      <3> HIDE DEF n
      <3>2. n \in 0 .. line.bufsize - 1
        BY <3>1
      <3> QED
        BY <1>0, <3>1, <3>2, LineEndIs
    <2>5. /\ line' = [line EXCEPT !.buffer = CutBuffer(LineEnd), !.line_end = LineEnd,
                                  !.n_gram_position = 0]
          /\ pc' = IF line.line_status = "F" THEN "taken" ELSE "ngram"
      <3>1. Operation = line.line_status
        BY <1>0, <2>1, OperationIs
      <3> QED
        BY <1>0, <2>4, <3>1, ParseIs
    <2>6. line'.line_status = line.line_status /\ line'.k = line.k
          /\ line'.n_gram_position = 0 /\ line'.bufsize = line.bufsize
          /\ line'.line_end = LineEnd
      BY <1>0, <2>5 DEF LineTyped, LineSet
    <2>7. Complete(m)' /\ Line(m)' = Line(m) /\ Read' = Read
      BY <1>0, <2>1, <2>6, CompleteStays
    <2>8. Cut(m)' /\ LineEnd = Len(Line(m))
      <3>1. /\ Len(Line(m)) = Length(m) - 1 /\ Length(m) \in Nat
            /\ line.bufsize \in Nat /\ Bufsize = line.bufsize
        BY <1>0, <2>2, LineText, LineIs
      <3>2. \A i \in OldEnds(Read) : i > Length(m)
        BY <1>0, <2>1, <2>2, OldEndsBehind DEF Complete
      <3>3. Len(Line(m)) \notin OldEnds(Read)
        BY <3>1, <3>2
      <3>4. /\ OldEnds(Read) \subseteq 0 .. line.bufsize - 2
            /\ \A i \in 0 .. line.bufsize - 1 :
                  line.buffer[i] = NEWLINE <=> i = Len(Line(m)) \/ i \in OldEnds(Read)
        <4>1. /\ OldEnds(Read) \subseteq 0 .. Bufsize - 2
              /\ \A i \in 0 .. Bufsize - 1 :
                    line.buffer[i] = NEWLINE <=> \/ i = Length(m) - 1 /\ file.text[Read] = NEWLINE
                                                 \/ i \in OldEnds(Read)
          BY <2>1, Zenon DEF Filled
        <4> QED
          BY <2>2, <3>1, <4>1, Zenon
      <3>5. OldEnds(Read)' = OldEnds(Read)
        BY <1>0, FileStays
      <3> QED
        BY <1>0, <2>3, <2>5, <2>7, <3>3, <3>4, <3>5, CutOfLine
    <2>9. /\ Line(m) \in Seq(Stored) /\ Len(Line(m)) \in Nat /\ Len(Line(m)) > 0
          /\ line.line_status = Line(m)[1] /\ line.line_status \in {"F", "A", "D", "Q"}
          /\ line.line_status # "F" => Len(Line(m)) > 1 /\ Line(m)[2] = SPACE
      BY <1>0, <2>1, CompleteIs
    <2>10. words' = <<>> /\ taken' = <<>>
      BY <1>0 DEF AtParse, NewLine
    <2>11. CASE line.line_status = "F"
      <3>1. Task(Line(m)).taken = <<>>
        BY <2>9, <2>11, TaskIs
      <3>2. AtTaken(m)'
        BY <2>7, <2>10, <3>1 DEF AtTaken
      <3>3. AtLine(m)' /\ pc' = "taken"
        BY <2>5, <2>7, <2>8, <2>11, <3>2 DEF AtLine
      <3> QED
        BY <2>1, <2>7, <3>3 DEF Progress
    <2>12. CASE line.line_status # "F"
      <3> DEFINE W == Words(Line(m))[2]
      <3>1. WordsIn(m)' = W
        BY <2>7 DEF WordsIn
      <3>2. End(0)' = 1
        <4> DEFINE b == line'.buffer
                   size == line.bufsize
                   c == Line(m)
        <4>1. CutInto(b, size, c)
          <5>1. /\ Len(c) < size
                /\ \A i \in 0 .. Len(c) - 1 : b[i] = IF c[i + 1] = SPACE THEN NUL ELSE c[i + 1]
                /\ b[Len(c)] = NUL
            BY <2>6, <2>7, <2>8 DEF Cut, Bufsize
          <5>2. c \in Seq(Stored) /\ \A i \in 1 .. Len(c) : c[i] # NUL
            BY <1>0, <2>2, LineIsText
          <5>3. size \in Nat
            BY <1>0, LineIs
          <5> HIDE DEF b, size, c
          <5> QED
            BY <5>1, <5>2, <5>3, Zenon DEF CutInto
        <4>2. Len(c) > 1 /\ c[1] # SPACE /\ c[2] = SPACE
          BY <2>9, <2>12 DEF SPACE
        <4>3. EndIn(b, size, 0) = 1
          <5> HIDE DEF b, size, c
          <5> QED
            BY <4>1, <4>2, TaskWord
        <4>4. End(0)' = EndIn(b, size, 0)
          BY <2>6 DEF End, First, Bufsize, EndIn
        <4> QED
          BY <4>3, <4>4
      <3>3. W \in Seq(Seq(Stored))
        <4>1. 2 \in 1 .. Len(Line(m)) + 1
          BY <2>9, <2>12
        <4> QED
          BY <2>9, <4>1, WordsUnfold
      <3>4. WalksTaken(m)'
        <4>1. Behind(m, End(0))' = W
          <5>1. Behind(m, End(0))' = Words(Line(m)')[End(0)' + 1]
            BY Zenon DEF Behind
          <5>2. End(0)' + 1 = 2
            BY <3>2
          <5> QED
            BY <2>7, <5>1, <5>2
        <4>2. SubSeq(W, 0 + 1, Len(W)) = W
          BY <3>3, SubSeqFull
        <4>3. 0 \in 0 .. Len(W) /\ taken' = [i \in 1 .. 0 |-> SubSeq(W, i, Len(W))]
          BY <2>10, <3>3
        <4>4. line'.n_gram_position <= line'.line_end
          BY <2>6, <2>8, <2>9
        <4> HIDE DEF W
        <4>5. Behind(m, End(line.n_gram_position))' = W
          BY <2>6, <4>1 DEF Behind, End, First, Bufsize
        <4> QED
          BY <3>1, <4>2, <4>3, <4>4, <4>5 DEF WalksTaken
      <3>5. AtNGram(m)'
        BY <2>6, <2>9, <2>10, <2>12, <3>4 DEF AtNGram, ListTaken
      <3>6. AtLine(m)' /\ pc' = "ngram"
        BY <2>5, <2>7, <2>8, <2>12, <3>5 DEF AtLine
      <3> QED
        BY <2>1, <2>7, <3>6 DEF Progress
    <2> QED
      BY <2>11, <2>12
  <1> QED
    BY <1>0, <1>1, <1>2 DEF AtParse

---------------------------------------------------------------------------
(* Taking the words.                                                        *)

\* What does not change while the words of a line are taken.
Kept == /\ line'.buffer = line.buffer /\ line'.bufsize = line.bufsize
        /\ line'.line_end = line.line_end /\ line'.line_status = line.line_status
        /\ line'.k = line.k
        /\ UNCHANGED <<file, input, given, file_status>>

\* A step that moves the positions only changes neither the line nor its words.
LEMMA KeptLine ==
  ASSUME Kept, NEW m, Complete(m), Cut(m)
  PROVE  /\ Complete(m)' /\ Cut(m)' /\ Read' = Read /\ WordsIn(m)' = WordsIn(m)
         /\ Line(m)' = Line(m)
         /\ \A i : End(i)' = End(i) /\ Behind(m, i)' = Behind(m, i)
  <1>1. Complete(m)' /\ Line(m)' = Line(m) /\ Read' = Read
    BY CompleteStays DEF Kept
  <1>2. Cut(m)'
    <2>1. OldEnds(Read)' = OldEnds(Read)
      BY FileStays DEF Kept
    <2> QED
      BY <1>1, <2>1 DEF Kept, Cut, OnlyOld, Bufsize
  <1>3. \A i : End(i)' = End(i)
    BY DEF Kept, End, First, Bufsize
  <1>4. WordsIn(m)' = WordsIn(m) /\ \A i : Behind(m, i)' = Behind(m, i)
    BY <1>1 DEF WordsIn, Behind
  <1> QED
    BY <1>1, <1>2, <1>3, <1>4

\* From a position on: the next word, and the words behind it.
NextPlace(m, from, next) ==
    /\ next \in from .. line.line_end
    /\ next = line.line_end => Behind(m, from) = <<>>
    /\ next < line.line_end =>
          /\ line.buffer[next] # NUL /\ End(next) \in next + 1 .. line.line_end
          /\ Word(next) \in Seq(Stored)
          /\ Behind(m, from) = <<Word(next)>> \o Behind(m, End(next))
          /\ Behind(m, next) = Behind(m, from)

\* From each place of a line that is cut, the next word and those behind it.
LEMMA CutEnds ==
  ASSUME LineTyped, Reading, NEW m \in Nat, m < Read, Cut(m)
  PROVE  /\ \A i \in 0 .. line.line_end :
               /\ End(i) \in i .. line.line_end
               /\ NextPlace(m, i, SkipNUL(i))
               /\ Behind(m, i) \in Seq(Seq(Stored))
         /\ line.line_end \in Nat
  <1> DEFINE b == line.buffer
             size == line.bufsize
             c == Line(m)
             n == line.line_end
  <1>1. CutInto(b, size, c) /\ n = Len(c)
    BY CutIs
  <1>2. size \in Nat /\ n \in 0 .. size - 1 /\ b[n] = NUL
    BY LineIs DEF Cut
  <1>3. ASSUME NEW i \in 0 .. n
        PROVE  /\ End(i) \in i .. n /\ NextPlace(m, i, SkipNUL(i))
               /\ Behind(m, i) \in Seq(Seq(Stored))
    <2>1. i \in 0 .. size /\ i \in 0 .. Len(c)
      BY <1>1, <1>2
    <2>2. /\ EndOk(b, size, i, End(i)) /\ SkipNUL(i) = SkipIn(b, size, n, i)
      BY <2>1, PlacesAre
    <2>3. End(i) \in i .. n
      <3> DEFINE end == End(i)
      <3>1. end \in i .. size /\ \A j \in i .. end - 1 : b[j] # NUL
        BY <2>2, Zenon DEF EndOk
      <3> HIDE DEF end, b, size, n
      <3>2. ~(n < end)
        BY <1>2, <3>1
      <3> QED
        BY <1>2, <3>1, <3>2 DEF end
    <2>4. NextWordIs(b, size, c, i, SkipIn(b, size, n, i))
      BY <1>1, <2>1, WordStep
    <2> DEFINE skip == SkipNUL(i)
    <2>5. NextWordIs(b, size, c, i, skip)
      BY <2>2, <2>4, Zenon
    <2>6. /\ skip \in i .. n
          /\ skip = n => Words(c)[i + 1] = <<>>
          /\ skip < n =>
                /\ b[skip] # NUL /\ EndIn(b, size, skip) \in skip + 1 .. n
                /\ WordIn(b, size, skip) \in Seq(Stored)
                /\ Words(c)[i + 1] = <<WordIn(b, size, skip)>> \o Words(c)[EndIn(b, size, skip) + 1]
                /\ Words(c)[skip + 1] = Words(c)[i + 1]
      <3> HIDE DEF skip, n
      <3> QED
        BY <1>1, <2>5, Zenon DEF NextWordIs
    <2>7. skip \in 0 .. size
      <3> HIDE DEF skip, n, size
      <3> QED
        BY <1>2, <2>6
    <2>8. End(skip) = EndIn(b, size, skip) /\ Word(skip) = WordIn(b, size, skip)
      <3> HIDE DEF skip
      <3> QED
        BY <2>7, PlacesAre
    <2>9. \A j : Behind(m, j) = Words(c)[j + 1]
      BY DEF Behind
    <2>10. NextPlace(m, i, skip)
      <3> HIDE DEF skip
      <3> QED
        BY <2>6, <2>8, <2>9, Zenon DEF NextPlace
    <2>11. Behind(m, i) \in Seq(Seq(Stored))
      <3>1. c \in Seq(Stored) /\ Len(c) \in Nat
        BY LineIsText
      <3>2. i + 1 \in 1 .. Len(c) + 1
        <4> HIDE DEF c, n
        <4> QED
          BY <1>1, <3>1
      <3>3. Words(c)[i + 1] \in Seq(Seq(Stored))
        BY <3>1, <3>2, WordsUnfold
      <3> QED
        BY <2>9, <3>3
    <2> QED
      BY <2>3, <2>10, <2>11
  <1> QED
    BY <1>2, <1>3

\* At a word.
LEMMA AtPosition ==
  ASSUME LineTyped, Reading, NEW m \in Nat, m < Read, Cut(m),
         NEW i \in 0 .. line.line_end - 1, line.buffer[i] # NUL
  PROVE  /\ End(i) \in i + 1 .. line.line_end /\ Word(i) \in Seq(Stored)
         /\ Behind(m, i) = <<Word(i)>> \o Behind(m, End(i))
         /\ WordsFrom(i) = Behind(m, i)
  <1> DEFINE b == line.buffer
             size == line.bufsize
             c == Line(m)
             n == line.line_end
  <1>1. CutInto(b, size, c) /\ n = Len(c)
    BY CutIs
  <1>2. size \in Nat /\ n \in 0 .. size - 1
    BY LineIs
  <1>3. i \in 0 .. Len(c) - 1 /\ i \in 0 .. size
    BY <1>1, <1>2
  <1>4. End(i) = EndIn(b, size, i) /\ Word(i) = WordIn(b, size, i)
    BY <1>3, PlacesAre
  <1>5. /\ EndIn(b, size, i) \in i + 1 .. Len(c)
        /\ WordIn(b, size, i) \in Seq(Stored)
        /\ Words(c)[i + 1] = <<WordIn(b, size, i)>> \o Words(c)[EndIn(b, size, i) + 1]
    BY <1>1, <1>3, CutAtWord
  <1>6. WordsFrom(i) = Words(c)[i + 1]
    BY <1>1, <1>3, WordsFromIs
  <1> QED
    BY <1>1, <1>4, <1>5, <1>6, Zenon DEF Behind

\* The next n-gram of the line.
LEMMA NGramIs ==
  ASSUME LineTyped, Reading, NEW m \in Nat, m < Read, Cut(m),
         line.n_gram_position <= line.line_end
  PROVE  LET from == End(line.n_gram_position)
         IN  /\ NextNGram = NULL => Behind(m, from) = <<>>
             /\ NextNGram # NULL =>
                   /\ NextNGram \in 0 .. line.line_end - 1 /\ line.buffer[NextNGram] # NUL
                   /\ Behind(m, NextNGram) = Behind(m, from)
  <1> DEFINE from == End(line.n_gram_position)
             next == SkipNUL(from)
             n == line.line_end
  <1>1. n \in Nat /\ line.n_gram_position \in 0 .. n
    <2>1. n \in Nat /\ line.n_gram_position \in Nat
      BY LineIs
    <2> QED
      BY <2>1
  <1>2. from \in 0 .. n
    <2>1. from \in line.n_gram_position .. n
      BY <1>1, CutEnds
    <2> HIDE DEF from
    <2> QED
      BY <1>1, <2>1
  <1>3. NextPlace(m, from, next)
    <2> HIDE DEF from
    <2> QED
      BY <1>2, CutEnds
  <1>4. NextNGram = IF from < n /\ next < n THEN next ELSE NULL
    BY DEF NextNGram
  <1> HIDE DEF from, next
  <1>5. /\ next \in from .. n
        /\ next = n => Behind(m, from) = <<>>
        /\ next < n => line.buffer[next] # NUL /\ Behind(m, next) = Behind(m, from)
    BY <1>3, Zenon DEF NextPlace
  <1> HIDE DEF n
  <1>6. next \in Nat /\ (next < n => from < n) /\ (next = n \/ next < n) /\ next # NULL
    BY <1>1, <1>2, <1>5 DEF NULL
  <1>7. NextNGram = IF next < n THEN next ELSE NULL
    BY <1>4, <1>6
  <1>8. next < n => next \in 0 .. n - 1
    BY <1>1, <1>6
  <1> QED
    BY <1>5, <1>6, <1>7, <1>8 DEF from, n

\* A slot with its positions at an n-gram holds the same line.
LEMMA NGramTaken ==
  ASSUME LineTyped, line' = WithNGram, UNCHANGED <<file, input, given, file_status>>
  PROVE  /\ Kept
         /\ NextNGram # NULL => /\ line'.n_gram_position = NextNGram
                                /\ line'.word_position = NextNGram
                                /\ line'.word_start = NULL
  BY DEF LineTyped, LineSet, WithNGram, Kept

\* While words are taken the line is one of the file, unless it is the one in front of the
\* newline of the header.
LEMMA PlaceIs ==
  ASSUME Typed, Progress, pc \in {"ngram", "word", "taken"}, ~AtExtra
  PROVE  (\E m \in Nat : m \in 0 .. Read /\ AtLine(m)) /\ Operation = line.line_status
  <1>1. Reading /\ Read \in Nat
    BY InputIs DEF Typed
  <1>2. \E m \in 0 .. Read : AtLine(m)
    BY DEF Progress
  <1>3. PICK m \in Nat : m \in 0 .. Read /\ AtLine(m)
    BY <1>1, <1>2
  <1>4. Complete(m)
    BY <1>3 DEF AtLine
  <1> QED
    BY <1>1, <1>3, <1>4, OperationIs

\* line_fetch_ngram keeps the invariant: the walk begins at the next word of the line.
LEMMA FetchNGramKeeps ==
  ASSUME Typed, Progress, line_fetch_ngram, ~AtExtra
  PROVE  Progress'
  <1>0. /\ LineTyped /\ Reading /\ pc = "ngram" /\ line.line_status \in {"A", "D"}
        /\ line' = WithNGram /\ pc' = "word"
        /\ UNCHANGED <<file, input, header, file_status, words, taken, given>>
    BY PlaceIs DEF Typed, line_fetch_ngram
  <1>1. PICK m \in Nat : m \in 0 .. Read /\ AtLine(m)
    BY <1>0, PlaceIs
  <1>2. /\ Complete(m) /\ Cut(m) /\ words = <<>> /\ line.n_gram_position = 0 /\ ListTaken(m)
        /\ m < Read
    BY <1>0, <1>1 DEF AtLine, AtNGram, Complete
  <1>3. /\ Kept
        /\ NextNGram # NULL => line'.word_position = NextNGram /\ line'.word_start = NULL
    BY <1>0, NGramTaken
  <1>4. /\ Complete(m)' /\ Cut(m)' /\ Read' = Read /\ WordsIn(m)' = WordsIn(m)
        /\ \A i : Behind(m, i)' = Behind(m, i)
    BY <1>2, <1>3, KeptLine
  <1>5. line'.line_status = line.line_status /\ line'.line_end = line.line_end
        /\ line'.buffer = line.buffer
    BY <1>3 DEF Kept
  <1>6. ListTaken(m)'
    BY <1>0, <1>2, <1>4, <1>5 DEF ListTaken
  <1>7. ASSUME WordsIn(m) # <<>>
        PROVE  Returned(m)'
    <2>1. End(0) = 1
      <3>1. CutInto(line.buffer, line.bufsize, Line(m))
        BY <1>0, <1>2, CutIs
      <3>2. Len(Line(m)) > 1 /\ Line(m)[1] # SPACE /\ Line(m)[2] = SPACE
        BY <1>0, <1>2, CompleteIs DEF SPACE
      <3>3. EndIn(line.buffer, line.bufsize, 0) = 1
        BY <3>1, <3>2, TaskWord
      <3>4. 0 \in 0 .. line.bufsize
        BY <1>0, LineIs
      <3> QED
        BY <1>0, <3>3, <3>4, PlacesAre
    <2>2. Behind(m, 1) = WordsIn(m)
      BY DEF Behind, WordsIn
    <2>3. line.n_gram_position <= line.line_end
      <3>1. line.line_end \in Nat
        BY <1>0, LineIs
      <3> QED
        BY <1>2, <3>1
    <2>4. /\ NextNGram # NULL
          /\ NextNGram \in 0 .. line.line_end - 1 /\ line.buffer[NextNGram] # NUL
          /\ Behind(m, NextNGram) = WordsIn(m)
      BY <1>0, <1>2, <1>7, <2>1, <2>2, <2>3, NGramIs
    <2>5. words' = <<>>
      BY <1>0, <1>2
    <2> QED
      BY <1>3, <1>4, <1>5, <2>4, <2>5 DEF Returned
  <1>8. AtLine(m)'
    BY <1>0, <1>4, <1>5, <1>6, <1>7 DEF AtLine, AtWord
  <1> QED
    BY <1>0, <1>1, <1>4, <1>8 DEF Progress

\* The next word of an insertion or a deletion.
LEMMA NextWordIn ==
  ASSUME LineTyped, Reading, NEW m \in Nat, m < Read, Cut(m), Returned(m)
  PROVE  /\ NextWord = NULL => words = WordsIn(m)
         /\ NextWord # NULL =>
               /\ NextWord \in 0 .. line.line_end - 1 /\ line.buffer[NextWord] # NUL
               /\ Append(words, Word(NextWord)) \in Seq(Seq(Stored))
               /\ Append(words, Word(NextWord)) \o Behind(m, End(NextWord)) = WordsIn(m)
  <1> DEFINE n == line.line_end
             at == line.word_position
  <1>0. n \in Nat /\ at \in 0 .. n - 1 /\ line.buffer[at] # NUL /\ at # NULL
    BY LineIs DEF Returned, NULL
  <1>1. CASE line.word_start = NULL
    <2>1. NextWord = at /\ NextWord # NULL
      BY <1>0, <1>1 DEF NextWord
    <2>2. words = <<>> /\ Behind(m, at) = WordsIn(m)
      BY <1>1 DEF Returned
    <2>3. Word(at) \in Seq(Stored) /\ Behind(m, at) = <<Word(at)>> \o Behind(m, End(at))
      BY <1>0, AtPosition
    <2> DEFINE w == Word(at)
    <2>4. Append(words, w) = <<w>> /\ <<w>> \in Seq(Seq(Stored))
      <3> HIDE DEF w
      <3> QED
        BY <2>2, <2>3 DEF w
    <2> QED
      BY <1>0, <2>1, <2>2, <2>3, <2>4
  <1>2. CASE line.word_start # NULL
    <2> DEFINE from == End(at)
               next == SkipNUL(from)
    <2>1. words \in Seq(Seq(Stored)) /\ words \o Behind(m, from) = WordsIn(m)
      BY <1>2 DEF Returned
    <2>2. from \in 0 .. n
      <3>1. from \in at + 1 .. n
        BY <1>0, AtPosition
      <3> HIDE DEF from, at, n
      <3> QED
        BY <1>0, <3>1
    <2>3. NextPlace(m, from, next)
      <3> HIDE DEF from
      <3> QED
        BY <2>2, CutEnds
    <2>4. NextWord = IF next < n THEN next ELSE NULL
      BY <1>2 DEF NextWord
    <2> HIDE DEF next
    <2>5. /\ next \in from .. n
          /\ next = n => Behind(m, from) = <<>>
          /\ next < n =>
                /\ line.buffer[next] # NUL /\ End(next) \in next + 1 .. n
                /\ Word(next) \in Seq(Stored)
                /\ Behind(m, from) = <<Word(next)>> \o Behind(m, End(next))
      BY <2>3, Zenon DEF NextPlace
    <2>6. next \in Nat /\ (next = n \/ next < n) /\ next # NULL
      <3> HIDE DEF from, n
      <3> QED
        BY <1>0, <2>2, <2>5 DEF NULL
    <2>7. CASE ~(next < n)
      <3>1. words \o <<>> = words
        BY <2>1, ConcatEmptySeq
      <3>2. NextWord = NULL /\ Behind(m, from) = <<>>
        BY <2>4, <2>5, <2>6, <2>7
      <3> QED
        BY <2>1, <3>1, <3>2
    <2>8. CASE next < n
      <3>1. NextWord = next /\ next # NULL /\ next \in 0 .. n - 1
        BY <1>0, <2>4, <2>6, <2>8
      <3> DEFINE w == Word(next)
                 rest == Behind(m, End(next))
      <3>2. w \in Seq(Stored) /\ Behind(m, from) = <<w>> \o rest
        BY <2>5, <2>8
      <3>3. rest \in Seq(Seq(Stored))
        <4>1. End(next) \in next + 1 .. n
          BY <2>5, <2>8
        <4> DEFINE end == End(next)
        <4>2. end \in 0 .. n
          <5> HIDE DEF end, n
          <5> QED
            BY <1>0, <2>6, <4>1 DEF end
        <4>3. Behind(m, end) \in Seq(Seq(Stored))
          <5> HIDE DEF end
          <5> QED
            BY <4>2, CutEnds
        <4> QED
          BY <4>3
      <3> HIDE DEF w, rest
      <3>4. Append(words, w) = words \o <<w>> /\ Append(words, w) \in Seq(Seq(Stored))
            /\ <<w>> \in Seq(Seq(Stored))
        BY <2>1, <3>2, AppendIsConcat, AppendProperties
      <3>5. (words \o <<w>>) \o rest = words \o (<<w>> \o rest)
        BY <2>1, <3>3, <3>4, ConcatAssociative
      <3>6. Append(words, w) \o rest = WordsIn(m)
        BY <2>1, <3>2, <3>4, <3>5
      <3> QED
        BY <2>5, <2>8, <3>1, <3>4, <3>6 DEF w, rest
    <2> QED
      BY <2>7, <2>8
  <1> QED
    BY <1>1, <1>2

\* line_fetch_word keeps it: the word given is the next one of the line.
LEMMA FetchWordKeeps ==
  ASSUME Typed, Progress, line_fetch_word, ~AtExtra
  PROVE  Progress'
  <1>0. /\ LineTyped /\ Reading /\ pc = "word" /\ NextWord # NULL
        /\ line' = [line EXCEPT !.word_start = NextWord, !.word_position = NextWord]
        /\ words' = Append(words, Word(NextWord))
        /\ UNCHANGED <<file, input, header, file_status, taken, given, pc>>
    BY DEF Typed, line_fetch_word
  <1>1. PICK m \in Nat : m \in 0 .. Read /\ AtLine(m)
    BY <1>0, PlaceIs
  <1>2. Complete(m) /\ Cut(m) /\ AtWord(m) /\ m < Read
    BY <1>0, <1>1 DEF AtLine, Complete
  <1>3. Kept /\ line'.word_start = NextWord /\ line'.word_position = NextWord
    BY <1>0 DEF LineTyped, LineSet, Kept
  <1>4. /\ Complete(m)' /\ Cut(m)' /\ Read' = Read /\ WordsIn(m)' = WordsIn(m)
        /\ \A i : End(i)' = End(i) /\ Behind(m, i)' = Behind(m, i)
    BY <1>2, <1>3, KeptLine
  <1>5. /\ line'.line_status = line.line_status /\ line'.line_end = line.line_end
        /\ line'.buffer = line.buffer
    BY <1>3 DEF Kept
  <1>6. ListTaken(m)' /\ line'.line_status \in {"A", "D"}
    BY <1>0, <1>2, <1>4, <1>5 DEF ListTaken, AtWord
  <1>7. ASSUME WordsIn(m) # <<>>
        PROVE  Returned(m)'
    <2>1. Returned(m)
      BY <1>2, <1>7 DEF AtWord
    <2>2. /\ NextWord \in 0 .. line.line_end - 1 /\ line.buffer[NextWord] # NUL
          /\ words' \in Seq(Seq(Stored))
          /\ words' \o Behind(m, End(NextWord)) = WordsIn(m)
      BY <1>0, <1>2, <2>1, NextWordIn
    <2>3. Behind(m, End(line.word_position))' = Behind(m, End(NextWord))
      <3>1. Behind(m, End(line.word_position))' = Words(Line(m)')[End(line.word_position)' + 1]
        BY DEF Behind
      <3>2. End(line.word_position)' = End(NextWord)
        BY <1>3 DEF Kept, End, First, Bufsize
      <3>3. Line(m)' = Line(m)
        BY <1>2, <1>3, KeptLine
      <3> QED
        BY <3>1, <3>2, <3>3 DEF Behind
    <2> QED
      BY <1>0, <1>3, <1>4, <1>5, <2>2, <2>3 DEF Returned
  <1>8. AtLine(m)'
    BY <1>0, <1>4, <1>6, <1>7 DEF AtLine, AtWord
  <1> QED
    BY <1>0, <1>1, <1>4, <1>8 DEF Progress

\* It is kept when no word is left: the words taken are those of the line.
LEMMA LastWordKeeps ==
  ASSUME Typed, Progress, LastWord, ~AtExtra
  PROVE  Progress'
  <1> DEFINE twice == line.line_status = "D" /\ taken = <<>>
  <1>0. /\ LineTyped /\ Reading /\ pc = "word" /\ NextWord = NULL
        /\ line' = [line EXCEPT !.word_start = NULL, !.word_position = 0,
                                !.n_gram_position = IF twice THEN 0 ELSE line.n_gram_position]
        /\ taken' = Append(taken, words) /\ words' = <<>>
        /\ pc' = IF twice THEN "ngram" ELSE "taken"
        /\ UNCHANGED <<file, input, header, file_status, given>>
    BY PlaceIs DEF Typed, LastWord
  <1>1. PICK m \in Nat : m \in 0 .. Read /\ AtLine(m)
    BY <1>0, PlaceIs
  <1>2. /\ Complete(m) /\ Cut(m) /\ AtWord(m) /\ m < Read /\ line.line_status = Line(m)[1]
        /\ line.line_status \in {"A", "D"} /\ ListTaken(m)
    BY <1>0, <1>1 DEF AtLine, Complete, AtWord
  <1>3. Kept /\ (twice => line'.n_gram_position = 0)
    BY <1>0 DEF LineTyped, LineSet, Kept
  <1>4. /\ Complete(m)' /\ Cut(m)' /\ Read' = Read /\ WordsIn(m)' = WordsIn(m)
        /\ Line(m)' = Line(m) /\ line'.line_status = line.line_status
    BY <1>2, <1>3, KeptLine DEF Kept
  <1>5. WordsIn(m) # <<>> => words = WordsIn(m)
    BY <1>0, <1>2, NextWordIn DEF AtWord
  <1>6. Append(<<>>, words) = <<words>>
    OBVIOUS
  <1>7. CASE twice
    <2>1. taken' = <<words>> /\ taken' # <<>>
      BY <1>0, <1>6, <1>7
    <2>2. ListTaken(m)'
      BY <1>4, <1>5, <1>7, <2>1 DEF ListTaken
    <2>3. AtNGram(m)'
      BY <1>0, <1>2, <1>3, <1>4, <1>7, <2>2 DEF AtNGram
    <2>4. AtLine(m)' /\ pc' = "ngram"
      BY <1>0, <1>4, <1>7, <2>3 DEF AtLine
    <2> QED
      BY <1>1, <1>4, <2>4 DEF Progress
  <1>8. CASE ~twice
    <2>0. pc' = "taken"
      BY <1>0, <1>8
    <2> HIDE DEF twice
    <2> DEFINE W == Words(Line(m))[2]
    <2>1. W = WordsIn(m)
      BY DEF WordsIn
    <2>2. \/ line.line_status = "A" /\ Task(Line(m)).status = "A" /\ Task(Line(m)).taken = <<W>>
             /\ taken = <<>>
          \/ line.line_status = "D" /\ Task(Line(m)).status = "D"
             /\ Task(Line(m)).taken = <<W, W>> /\ taken # <<>>
      <3>1. CASE line.line_status = "A"
        BY <1>2, <3>1, TaskIs DEF ListTaken
      <3>2. CASE line.line_status = "D"
        BY <1>2, <1>8, <3>2, TaskIs DEF twice
      <3> QED
        BY <1>2, <3>1, <3>2
    <2> HIDE DEF W
    <2>3. CASE WordsIn(m) = <<>>
      <3>1. <<>> \in ToSet(<<W>>) /\ <<>> \in ToSet(<<W, W>>)
        BY <2>1, <2>3 DEF ToSet
      <3>2. NoWords(Task(Line(m)))
        BY <2>2, <3>1 DEF NoWords
      <3> QED
        BY <1>0, <1>1, <1>4, <2>0, <3>2 DEF AtTaken, AtLine, Progress
    <2>4. CASE WordsIn(m) # <<>>
      <3>1. taken' = Task(Line(m)).taken
        <4>1. CASE line.line_status = "A"
          BY <1>0, <1>5, <1>6, <2>1, <2>2, <2>4, <4>1
        <4>2. CASE line.line_status = "D"
          <5>1. taken = <<W>> /\ words = W /\ Task(Line(m)).taken = <<W, W>>
            BY <1>2, <1>5, <2>1, <2>2, <2>4, <4>2 DEF ListTaken
          <5>2. <<W>> \in Seq({W}) /\ Len(<<W>>) = 1 /\ <<W>>[1] = W
            OBVIOUS
          <5>3. /\ Append(<<W>>, W) \in Seq({W}) /\ Len(Append(<<W>>, W)) = 2
                /\ Append(<<W>>, W)[1] = W /\ Append(<<W>>, W)[2] = W
            BY <5>2, AppendProperties
          <5>4. Append(<<W>>, W) = <<W, W>>
            <6> DEFINE pair == Append(<<W>>, W)
            <6>1. pair \in Seq({W}) /\ Len(pair) = 2 /\ pair[1] = W /\ pair[2] = W
              BY <5>3
            <6>2. <<W, W>> \in Seq({W}) /\ Len(<<W, W>>) = 2
              OBVIOUS
            <6> HIDE DEF pair
            <6>3. \A i \in 1 .. Len(pair) : pair[i] = <<W, W>>[i]
              BY <6>1
            <6>4. pair = <<W, W>>
              BY <6>1, <6>2, <6>3, SeqEqual
            <6> QED
              BY <6>4 DEF pair
          <5> QED
            BY <1>0, <5>1, <5>4
        <4> QED
          BY <2>2, <4>1, <4>2
      <3> QED
        BY <1>0, <1>1, <1>4, <2>0, <3>1 DEF AtTaken, AtLine, Progress
    <2> QED
      BY <2>3, <2>4
  <1> QED
    BY <1>7, <1>8

\* A list that is not empty: its first element, and those behind it.
LEMMA FirstAndRest ==
  ASSUME NEW S, NEW seq \in Seq(S), NEW k \in 0 .. Len(seq), NEW x, NEW rest,
         SubSeq(seq, k + 1, Len(seq)) = <<x>> \o rest, NEW T, x \in T, rest \in Seq(T)
  PROVE  k < Len(seq) /\ seq[k + 1] = x /\ rest = SubSeq(seq, (k + 1) + 1, Len(seq))
  <1> DEFINE n == Len(seq)
             tail == SubSeq(seq, (k + 1) + 1, n)
  <1>0. n \in Nat /\ \A i \in 1 .. n : seq[i] \in S
    BY LenProperties, ElementOfSeq
  <1> HIDE DEF n
  <1>1. <<x>> \o rest # <<>>
    <2>1. <<x>> \in Seq(T) /\ <<x>> # <<>>
      OBVIOUS
    <2> QED
      BY <2>1, ConcatEqualIffEmpty
  <1>2. k < n
    <2>1. ~(k < n) => n < k + 1
      BY <1>0 DEF n
    <2>2. n < k + 1 => SubSeq(seq, k + 1, n) = <<>>
      BY <1>0, SubSeqEmpty
    <2> QED
      BY <1>1, <2>1, <2>2 DEF n
  <1>3. k + 1 \in 1 .. n /\ n \in k + 1 .. n
    BY <1>0, <1>2
  <1>4. SubSeq(seq, k + 1, n) = <<seq[k + 1]>> \o tail
    BY <1>3, SubSeqRecursiveFirst DEF n
  <1>5. tail \in Seq(S)
    <2>1. \A i \in (k + 1) + 1 .. n : seq[i] \in S
      BY <1>0
    <2>2. (k + 1) + 1 \in Int /\ n \in Int
      BY <1>0
    <2> QED
      BY <2>1, <2>2, SubSeqProperties
  <1> DEFINE y == seq[k + 1]
             U == S \union T
  <1>6. y \in U /\ x \in U /\ tail \in Seq(U) /\ rest \in Seq(U)
    BY <1>0, <1>3, <1>5
  <1>7. <<x>> \o rest = <<y>> \o tail
    BY <1>4 DEF n
  <1> HIDE DEF y, tail, U
  <1>8. <<x>> \in Seq(U) /\ <<y>> \in Seq(U) /\ Len(<<x>>) = 1 /\ Len(<<y>>) = 1
        /\ <<x>>[1] = x /\ <<y>>[1] = y /\ Len(rest) \in Nat /\ Len(tail) \in Nat
    BY <1>6
  <1>9. /\ (<<x>> \o rest)[1] = x /\ (<<y>> \o tail)[1] = y
    <2>1. 1 \in 1 .. 1 + Len(rest) /\ 1 \in 1 .. 1 + Len(tail)
      BY <1>8
    <2> QED
      BY <1>6, <1>8, <2>1, ConcatProperties
  <1>10. x = y
    BY <1>7, <1>9
  <1>11. rest = tail
    <2>1. \A i \in 1 .. 1 + Len(rest) : (<<x>> \o rest)[i] = IF i <= 1 THEN x ELSE rest[i - 1]
      <3>1. \A i \in 1 .. 1 + Len(rest) : i <= 1 => i = 1
        BY <1>8
      <3> QED
        BY <1>6, <1>8, <3>1, ConcatProperties
    <2>2. \A i \in 1 .. 1 + Len(tail) : (<<y>> \o tail)[i] = IF i <= 1 THEN y ELSE tail[i - 1]
      <3>1. \A i \in 1 .. 1 + Len(tail) : i <= 1 => i = 1
        BY <1>8
      <3> QED
        BY <1>6, <1>8, <3>1, ConcatProperties
    <2>3. Len(rest) = Len(tail)
      <3>1. Len(<<x>> \o rest) = 1 + Len(rest) /\ Len(<<y>> \o tail) = 1 + Len(tail)
        BY <1>6, <1>8, ConcatProperties
      <3> QED
        BY <1>7, <1>8, <3>1
    <2>4. ASSUME NEW i \in 1 .. Len(rest)
          PROVE  rest[i] = tail[i]
      <3>1. i + 1 \in 1 .. 1 + Len(rest) /\ ~(i + 1 <= 1) /\ (i + 1) - 1 = i
        BY <1>8
      <3>2. (<<x>> \o rest)[i + 1] = rest[i]
        BY <2>1, <3>1
      <3>3. (<<y>> \o tail)[i + 1] = tail[i]
        BY <2>2, <2>3, <3>1
      <3> QED
        BY <1>7, <3>2, <3>3
    <2> QED
      BY <1>6, <2>3, <2>4, SeqEqual
  <1> QED
    BY <1>2, <1>10, <1>11 DEF y, tail, n

\* The next walk of a query takes the words from the next n-gram on.
LEMMA NextWalkKeeps ==
  ASSUME Typed, Progress, NextWalk, ~AtExtra
  PROVE  Progress'
  <1>0. /\ LineTyped /\ Reading /\ pc = "ngram" /\ line.line_status = "Q" /\ line' = WithNGram
        /\ taken' = IF NextNGram = NULL THEN taken ELSE Append(taken, WordsFrom(NextNGram))
        /\ pc' = IF NextNGram = NULL THEN "taken" ELSE "ngram"
        /\ UNCHANGED <<file, input, header, file_status, words, given>>
    BY PlaceIs DEF Typed, NextWalk
  <1>1. PICK m \in Nat : m \in 0 .. Read /\ AtLine(m)
    BY <1>0, PlaceIs
  <1>2. /\ Complete(m) /\ Cut(m) /\ words = <<>> /\ WalksTaken(m) /\ m < Read
        /\ Line(m)[1] = "Q"
    BY <1>0, <1>1 DEF AtLine, AtNGram, Complete
  <1>3. Kept /\ (NextNGram # NULL => line'.n_gram_position = NextNGram)
    BY <1>0, NGramTaken
  <1>4. /\ Complete(m)' /\ Cut(m)' /\ Read' = Read /\ WordsIn(m)' = WordsIn(m)
        /\ Line(m)' = Line(m) /\ line'.line_status = "Q" /\ line'.line_end = line.line_end
        /\ words' = <<>>
    BY <1>0, <1>2, <1>3, KeptLine DEF Kept
  <1> DEFINE W == WordsIn(m)
             n == Len(W)
             from == End(line.n_gram_position)
  <1>5. W \in Seq(Seq(Stored)) /\ n \in Nat
    <2>1. Line(m) \in Seq(Stored) /\ Len(Line(m)) \in Nat /\ Len(Line(m)) > 1
      BY <1>0, <1>2, CompleteIs
    <2>2. 2 \in 1 .. Len(Line(m)) + 1
      BY <2>1
    <2>3. W \in Seq(Seq(Stored))
      BY <2>1, <2>2, WordsUnfold DEF WordsIn
    <2> QED
      BY <2>3
  <1>6. PICK k \in 0 .. n : /\ taken = [i \in 1 .. k |-> SubSeq(W, i, n)]
                            /\ Behind(m, from) = SubSeq(W, k + 1, n)
    BY <1>2 DEF WalksTaken
  <1>7. /\ NextNGram = NULL => Behind(m, from) = <<>>
        /\ NextNGram # NULL =>
              /\ NextNGram \in 0 .. line.line_end - 1 /\ line.buffer[NextNGram] # NUL
              /\ Behind(m, NextNGram) = Behind(m, from)
    BY <1>0, <1>2, NGramIs DEF WalksTaken
  <1> HIDE DEF from, W
  <1>8. CASE NextNGram = NULL
    <2>1. SubSeq(W, k + 1, n) = <<>>
      BY <1>6, <1>7, <1>8
    <2>2. k = n
      <3>1. CASE k # n
        <4>1. k + 1 \in 1 .. n /\ n \in k + 1 .. n
          BY <1>5, <3>1
        <4>2. SubSeq(W, k + 1, n) = <<W[k + 1]>> \o SubSeq(W, (k + 1) + 1, n)
          BY <1>5, <4>1, SubSeqRecursiveFirst
        <4>3. \A i \in (k + 1) + 1 .. n : i \in 1 .. n
          BY <4>1
        <4>4. W[k + 1] \in Seq(Stored) /\ \A i \in (k + 1) + 1 .. n : W[i] \in Seq(Stored)
          BY <1>5, <4>1, <4>3, ElementOfSeq
        <4>5. SubSeq(W, (k + 1) + 1, n) \in Seq(Seq(Stored))
          <5>1. (k + 1) + 1 \in Int /\ n \in Int
            BY <1>5
          <5> QED
            BY <4>4, <5>1, SubSeqProperties
        <4>6. <<W[k + 1]>> \in Seq(Seq(Stored)) /\ <<W[k + 1]>> # <<>>
          BY <4>4
        <4> QED
          <5> DEFINE one == <<W[k + 1]>>
                     others == SubSeq(W, (k + 1) + 1, n)
          <5>1. one \in Seq(Seq(Stored)) /\ one # <<>> /\ others \in Seq(Seq(Stored))
            BY <4>5, <4>6
          <5>2. one \o others = <<>>
            BY <2>1, <4>2
          <5> HIDE DEF one, others
          <5> QED
            BY <5>1, <5>2, ConcatEqualIffEmpty
      <3> QED
        BY <3>1
    <2>3. taken = FromEach(W)
      <3>1. DOMAIN W = 1 .. n
        BY <1>5
      <3> QED
        BY <1>6, <2>2, <3>1 DEF FromEach
    <2>4. Task(Line(m)).taken = FromEach(W)
      BY <1>2, TaskIs DEF W, WordsIn
    <2>5. AtTaken(m)' /\ pc' = "taken"
      BY <1>0, <1>4, <1>8, <2>3, <2>4 DEF AtTaken
    <2> QED
      BY <1>1, <1>4, <2>5 DEF AtLine, Progress
  <1>9. CASE NextNGram # NULL
    <2> DEFINE next == NextNGram
               rest == Behind(m, End(next))
               tail == SubSeq(W, (k + 1) + 1, n)
    <2>1. next \in 0 .. line.line_end - 1 /\ line.buffer[next] # NUL
          /\ Behind(m, next) = SubSeq(W, k + 1, n)
      BY <1>6, <1>7, <1>9
    <2> HIDE DEF next
    <2>2. /\ End(next) \in next + 1 .. line.line_end /\ Word(next) \in Seq(Stored)
          /\ Behind(m, next) = <<Word(next)>> \o rest
          /\ WordsFrom(next) = Behind(m, next)
      BY <1>0, <1>2, <2>1, AtPosition
    <2>3. rest \in Seq(Seq(Stored))
      <3> DEFINE end == End(next)
      <3>1. line.line_end \in Nat
        BY <1>0, LineIs
      <3>2. end \in 0 .. line.line_end
        <4> HIDE DEF end
        <4> QED
          BY <2>1, <2>2, <3>1 DEF end
      <3>3. Behind(m, end) \in Seq(Seq(Stored))
        <4> HIDE DEF end
        <4> QED
          BY <1>0, <1>2, <3>2, CutEnds
      <3> QED
        BY <3>3
    <2>4. k < n /\ rest = tail
      <3> DEFINE x == Word(next)
      <3>1. x \in Seq(Stored) /\ SubSeq(W, k + 1, Len(W)) = <<x>> \o rest
        BY <2>1, <2>2
      <3> HIDE DEF x, rest
      <3> QED
        BY <1>5, <2>3, <3>1, FirstAndRest
    <2>5. k + 1 \in 0 .. n
      BY <1>5, <2>4
    <2>6. taken' = [i \in 1 .. k + 1 |-> SubSeq(W, i, n)]
      <3>1. taken' = Append(taken, SubSeq(W, k + 1, n))
        BY <1>0, <1>9, <2>1, <2>2 DEF next
      <3> DEFINE f(i) == SubSeq(W, i, n)
                 S == {f(i) : i \in 1 .. n}
      <3>2. taken = [i \in 1 .. k |-> f(i)] /\ k \in Nat /\ \A i \in 1 .. k : f(i) \in S
        <4>1. k \in Nat /\ \A i \in 1 .. k : i \in 1 .. n
          BY <1>5
        <4>2. taken = [i \in 1 .. k |-> f(i)]
          BY <1>6
        <4> HIDE DEF f
        <4> QED
          BY <4>1, <4>2
      <3>3. f(k + 1) \in S /\ taken' = Append(taken, f(k + 1))
        <4>1. k + 1 \in 1 .. n
          BY <1>5, <2>4
        <4> QED
          BY <3>1, <4>1
      <3> HIDE DEF f, S
      <3>4. taken \in Seq(S) /\ Len(taken) = k
        BY <3>2
      <3>5. /\ taken' \in Seq(S) /\ Len(taken') = k + 1
            /\ \A i \in 1 .. k : taken'[i] = f(i)
            /\ taken'[k + 1] = f(k + 1)
        BY <3>2, <3>3, <3>4, AppendProperties
      <3>6. \A i \in 1 .. k + 1 : taken'[i] = f(i)
        BY <3>2, <3>5
      <3>7. taken' = [i \in 1 .. k + 1 |-> f(i)]
        BY <3>5, <3>6
      <3> QED
        BY <3>7 DEF f
    <2>7. Behind(m, End(line.n_gram_position))' = rest
      <3>1. line'.n_gram_position = next
        BY <1>3, <1>9 DEF next
      <3>2. End(line.n_gram_position)' = End(next)
        BY <1>3, <3>1 DEF Kept, End, First, Bufsize
      <3> QED
        BY <1>4, <3>2 DEF Behind
    <2>8. WalksTaken(m)'
      <3>1. line'.n_gram_position <= line'.line_end
        <4>1. line.line_end \in Nat
          BY <1>0, LineIs
        <4>2. next <= line.line_end
          BY <2>1, <4>1
        <4> QED
          BY <1>3, <1>4, <1>9, <4>2 DEF next
      <3>2. WordsIn(m)' = W
        BY <1>4 DEF W
      <3> HIDE DEF rest
      <3> QED
        BY <2>4, <2>5, <2>6, <2>7, <3>1, <3>2 DEF WalksTaken
    <2>9. AtNGram(m)' /\ pc' = "ngram"
      BY <1>0, <1>4, <1>9, <2>8 DEF AtNGram
    <2> QED
      BY <1>1, <1>4, <2>9 DEF AtLine, Progress
  <1> QED
    BY <1>8, <1>9

\* A line that is done is given as the file has it.
LEMMA LineDoneKeeps ==
  ASSUME Typed, Progress, LineDone, ~AtExtra
  PROVE  Progress'
  <1> DEFINE G == Given(line.line_status, IF line.line_status = "F" THEN line.k ELSE -1, taken)
  <1>0. /\ LineTyped /\ Reading /\ pc = "taken" /\ given' = Append(given, G)
        /\ taken' = <<>> /\ header' = "none" /\ pc' = "fetch"
        /\ UNCHANGED <<file, input, file_status, line, words>>
    BY PlaceIs DEF Typed, LineDone
  <1>1. PICK m \in Nat : m \in 0 .. Read /\ AtLine(m)
    BY <1>0, PlaceIs
  <1>2. /\ Complete(m) /\ Cut(m) /\ AtTaken(m)
    BY <1>0, <1>1 DEF AtLine
  <1>3. /\ m < Read /\ Begins(m) /\ Agree(m) /\ StatusKnown /\ file.text[Read] = NEWLINE
        /\ LinesBehind(file)[m] = <<Task(Line(m))>> \o LinesBehind(file)[Read]
        /\ line.line_status = Line(m)[1]
        /\ line.line_status = "F" => line.k = Task(Line(m)).k
    BY <1>2 DEF Complete
  <1> DEFINE E == Expected(file)
             g == Len(given)
             rest == LinesBehind(file)[Read]
             task == Task(Line(m))
  <1>4. E \in Seq(Asked(file)) /\ Len(E) \in Nat /\ g \in Nat /\ g <= Len(E) /\ GivenInOrder
    BY <1>0, <1>3, ExpectedIs, GivenIs DEF Agree, GivenInOrder
  <1>5. rest \in Seq(Asked(file)) /\ task \in Asked(file)
    BY <1>0, <1>3, ThisLine
  <1>6. SubSeq(E, g + 1, Len(E)) = <<task>> \o rest
    BY <1>3 DEF Agree
  <1> HIDE DEF rest, task, G
  <1>7. g < Len(E) /\ E[g + 1] = task /\ rest = SubSeq(E, (g + 1) + 1, Len(E))
    <2>1. g \in 0 .. Len(E)
      BY <1>4
    <2> HIDE DEF E, g
    <2> QED
      BY <1>4, <1>5, <1>6, <2>1, FirstAndRest
  <1>8. SameLine(G, task)
    <2>1. /\ G.status = line.line_status /\ G.taken = taken
          /\ G.k = IF line.line_status = "F" THEN line.k ELSE -1
      BY DEF G, Given
    <2>2. line.line_status \in {"F", "A", "D", "Q"}
      BY <1>0, <1>2, CompleteIs
    <2>3. task.status = line.line_status /\ (line.line_status # "F" => task.k = -1)
      BY <1>3, <2>2, TaskIs DEF task
    <2>4. NoWords(task) \/ taken = task.taken
      BY <1>2 DEF AtTaken, task
    <2> QED
      BY <1>3, <2>1, <2>3, <2>4 DEF SameLine, task
  <1>9. \E S : given \in Seq(S) /\ G \in S
    <2>1. PICK S : given \in Seq(S)
      BY <1>4 DEF GivenInOrder
    <2>2. given \in Seq(S \union {G}) /\ G \in S \union {G}
      BY <2>1
    <2> QED
      BY <2>2
  <1>10. /\ Len(given') = g + 1 /\ given'[g + 1] = G
         /\ \A i \in 1 .. g : given'[i] = given[i]
         /\ \E S : given' \in Seq(S)
    <2>1. PICK S : given \in Seq(S) /\ G \in S
      BY <1>9
    <2> QED
      BY <1>0, <2>1, AppendProperties
  <1>11. GivenInOrder'
    <2>1. file' = file
      BY <1>0
    <2>2. Len(given') <= Len(E)
      <3> HIDE DEF E, g
      <3> QED
        BY <1>4, <1>7, <1>10
    <2>3. ASSUME NEW i \in 1 .. Len(given')
          PROVE  SameLine(given'[i], E[i])
      <3>1. i \in 1 .. g \/ i = g + 1
        <4> HIDE DEF g
        <4> QED
          BY <1>4, <1>10
      <3>2. CASE i \in 1 .. g
        BY <1>4, <1>10, <3>2 DEF GivenInOrder
      <3>3. CASE i = g + 1
        BY <1>7, <1>8, <1>10, <3>3
      <3> QED
        BY <3>1, <3>2, <3>3
    <2> QED
      BY <1>10, <2>1, <2>2, <2>3 DEF GivenInOrder
  <1>12. Read' = Read
    BY <1>0 DEF Read
  <1>13. Agree(Read)'
    <2>1. LinesBehind(file)[Read]' = rest /\ Expected(file)' = E
      BY <1>0, <1>12 DEF rest
    <2> QED
      BY <1>7, <1>10, <1>11, <2>1 DEF Agree
  <1>14. Begins(Read)'
    <2>1. Read \in Nat
      BY <1>0, InputIs
    <2>2. Read \in 0 .. Read /\ \A i \in Read + 1 .. Read - 1 : FALSE
      BY <2>1
    <2> QED
      BY <1>0, <1>3, <1>12, <2>2 DEF Begins
  <1>15. NewLine' /\ StatusKnown'
    BY <1>0, <1>2, <1>3 DEF NewLine, StatusKnown, AtTaken
  <1>16. OnlyOld(line.buffer, Bufsize)'
    <2>1. OldEnds(Read)' = OldEnds(Read)
      BY <1>0, FileStays
    <2> QED
      BY <1>0, <1>2, <2>1 DEF Cut, OnlyOld, Bufsize
  <1>17. AtFetch'
    BY <1>0, <1>13, <1>14, <1>15, <1>16 DEF AtFetch
  <1> QED
    BY <1>0, <1>17 DEF Progress

\* The line in front of the newline of the header is taken like any other, and it is the
\* last one.
LEMMA ExtraKeeps ==
  ASSUME Typed, Progress, AtExtra,
         line_fetch_ngram \/ line_fetch_word \/ LastWord \/ NextWalk \/ LineDone
  PROVE  Progress'
  <1>1. CASE line_fetch_ngram \/ line_fetch_word \/ LastWord \/ NextWalk
    <2>1. UNCHANGED <<file, input, given, file_status>> /\ pc' \in {"ngram", "word", "taken"}
      BY <1>1 DEF line_fetch_ngram, line_fetch_word, LastWord, NextWalk
    <2>2. AtExtra'
      BY <2>1, CutOffStays
    <2> QED
      BY <2>1, <2>2 DEF Progress
  <1>2. CASE LineDone
    <2> DEFINE G == Given(Operation, IF Operation = "F" THEN line.k ELSE -1, taken)
               E == Expected(file)
               n == Len(E)
    <2>0. given' = Append(given, G) /\ pc' = "fetch" /\ UNCHANGED <<file, input, file_status>>
      BY <1>2 DEF LineDone
    <2>1. /\ GivenInOrder /\ Len(given) = n /\ StatusKnown /\ input = <<>>
          /\ HeaderEndRemains(file)
      BY Zenon DEF AtExtra, CutOff
    <2> HIDE DEF G
    <2>2. PICK S : given \in Seq(S)
      BY <2>1 DEF GivenInOrder
    <2>3. given \in Seq(S \union {G}) /\ G \in S \union {G}
      BY <2>2
    <2>4. /\ given' \in Seq(S \union {G}) /\ Len(given') = Len(given) + 1
          /\ \A i \in 1 .. Len(given) : given'[i] = given[i]
      BY <2>0, <2>3, AppendProperties
    <2>5. \A i \in 1 .. n : SameLine(given'[i], E[i])
      BY <2>1, <2>4 DEF GivenInOrder
    <2>6. StatusKnown' /\ HeaderEndRemains(file)' /\ input' = <<>>
      BY <2>0, <2>1, StatusStays
    <2>7. AfterExtra'
      BY <2>0, <2>1, <2>4, <2>5, <2>6 DEF AfterExtra, StatusOfHeader, StatusKnown
    <2> QED
      BY <2>0, <2>7 DEF Progress
  <1> QED
    BY <1>1, <1>2

---------------------------------------------------------------------------
(* The theorems.                                                            *)

LEMMA ProgressStep ==
  ASSUME Typed, Typed', Progress, [Next]_vars
  PROVE  Progress'
  <1>1. CASE UNCHANGED vars \/ Stopped
    <2>1. UNCHANGED vars
      BY <1>1 DEF Stopped
    <2>2. UNCHANGED <<file, input, header, file_status, line, words, taken, given, pc>>
      BY <2>1 DEF vars
    <2>3. /\ Read' = Read /\ Bufsize' = Bufsize /\ StatusKnown' = StatusKnown
          /\ NewLine' = NewLine /\ CutOff' = CutOff /\ AtClosed' = AtClosed
          /\ AtExtra' = AtExtra /\ AfterExtra' = AfterExtra
          /\ HeaderEndRemains(file)' = HeaderEndRemains(file)
          /\ OldEnds(Read)' = OldEnds(Read)
          /\ OnlyOld(line.buffer, Bufsize)' = OnlyOld(line.buffer, Bufsize)
          /\ GivenInOrder' = GivenInOrder
      <3>1. Read' = Read /\ Bufsize' = Bufsize /\ NewLine' = NewLine
        BY <2>2 DEF Read, Bufsize, NewLine
      <3>2. OldEnds(Read)' = OldEnds(Read) /\ StatusKnown' = StatusKnown
        BY <2>2, FileStays, StatusStays
      <3>3. OnlyOld(line.buffer, Bufsize)' = OnlyOld(line.buffer, Bufsize)
        BY <2>2, <3>1, <3>2 DEF OnlyOld
      <3>4. GivenInOrder' = GivenInOrder
        BY <2>2, GivenStays
      <3> QED
        BY <2>2, <3>1, <3>2, <3>3, <3>4, CutOffStays
    <2>4. AtFetch' = AtFetch
      BY <2>2, <2>3 DEF AtFetch, Begins, Agree, Ahead
    <2>5. ASSUME NEW m
          PROVE  /\ AtPhrase(m)' = AtPhrase(m) /\ Complete(m)' = Complete(m)
                 /\ Filled(m)' = Filled(m) /\ AtLine(m)' = AtLine(m)
      <3>1. /\ Line(m)' = Line(m) /\ Length(m)' = Length(m)
            /\ Begins(m)' = Begins(m) /\ Agree(m)' = Agree(m)
            /\ \A i : CharAt(m, i)' = CharAt(m, i)
        BY <2>2, FileStays, GivenStays
      <3>2. Filled(m)' = Filled(m)
        BY <2>2, <2>3, <3>1 DEF Filled
      <3>3. Complete(m)' = Complete(m)
        BY <2>2, <2>3, <3>1 DEF Complete
      <3>4. AtPhrase(m)' = AtPhrase(m)
        BY <2>2, <2>3, <3>1, <3>2 DEF AtPhrase
      <3>5. Cut(m)' = Cut(m)
        BY <2>2, <2>3, <3>1 DEF Cut
      <3>6. \A i : End(i)' = End(i) /\ Behind(m, i)' = Behind(m, i)
        BY <2>2, <3>1 DEF End, First, Bufsize, Behind
      <3>7. WordsIn(m)' = WordsIn(m)
        BY <3>1 DEF WordsIn
      <3>8. AtNGram(m)' = AtNGram(m)
        <4>1. Behind(m, End(line.n_gram_position))' = Behind(m, End(line.n_gram_position))
          BY <2>2, <3>1 DEF End, First, Bufsize, Behind
        <4>2. WalksTaken(m)' = WalksTaken(m)
          BY <2>2, <3>7, <4>1 DEF WalksTaken
        <4>3. ListTaken(m)' = ListTaken(m)
          BY <2>2, <3>7 DEF ListTaken
        <4> QED
          BY <2>2, <4>2, <4>3 DEF AtNGram
      <3>9. AtWord(m)' = AtWord(m)
        <4>1. Behind(m, End(line.word_position))' = Behind(m, End(line.word_position))
              /\ Behind(m, line.word_position)' = Behind(m, line.word_position)
          BY <2>2, <3>1 DEF End, First, Bufsize, Behind
        <4>2. Returned(m)' = Returned(m)
          BY <2>2, <3>7, <4>1 DEF Returned
        <4>3. ListTaken(m)' = ListTaken(m)
          BY <2>2, <3>7 DEF ListTaken
        <4> QED
          BY <2>2, <3>7, <4>2, <4>3 DEF AtWord
      <3>10. AtTaken(m)' = AtTaken(m)
        BY <2>2, <3>1 DEF AtTaken
      <3> QED
        BY <2>2, <3>2, <3>3, <3>4, <3>5, <3>8, <3>9, <3>10 DEF AtLine
    <2>6. AtParse' = AtParse
      BY <2>3, <2>5 DEF AtParse
    <2> QED
      BY <2>2, <2>3, <2>4, <2>5, <2>6 DEF Progress
  <1>2. CASE FetchFirst \/ EndOfFile \/ Grow \/ EndInsideLine
    BY <1>2, FetchFirstKeeps, EndOfFileKeeps, GrowKeeps, EndInsideLineKeeps
  <1>3. CASE Header \/ InitLine \/ WorkLine \/ line_parse
    BY <1>3, HeaderKeeps, InitLineKeeps, WorkLineKeeps, ParseKeeps
  <1>4. CASE line_fetch_ngram \/ line_fetch_word \/ LastWord \/ NextWalk \/ LineDone
    <2>1. CASE AtExtra
      BY <1>4, <2>1, ExtraKeeps
    <2>2. CASE ~AtExtra
      BY <1>4, <2>2, FetchNGramKeeps, FetchWordKeeps, LastWordKeeps, NextWalkKeeps, LineDoneKeeps
    <2> QED
      BY <2>1, <2>2
  <1> QED
    BY <1>1, <1>2, <1>3, <1>4 DEF Next

\* The inductive invariant holds in every reachable state.
LEMMA Inductive == Spec => []IInv
  <1>1. Init => IInv
    BY TypedInit, ProgressInit DEF IInv
  <1>2. IInv /\ [Next]_vars => IInv'
    BY TypedStep, ProgressStep DEF IInv
  <1> QED
    BY <1>1, <1>2, PTL DEF Spec

\* What the invariant says of the lines given and of the status, wherever the program is.
LEMMA AtEachPlace ==
  ASSUME IInv
  PROVE  (GivenInOrder \/ AfterExtra) /\ StatusOfHeader
  <1>0. Reading /\ pc \in {"fetch", "phrase", "parse", "ngram", "word", "taken", "closed", "overrun"}
        /\ Progress
    BY DEF IInv, Typed
  <1>1. Read \in Nat
    BY <1>0, InputIs
  <1>2. ASSUME NEW m, Complete(m)
        PROVE  GivenInOrder /\ StatusOfHeader
    BY <1>2 DEF Complete, Agree, StatusKnown, StatusOfHeader
  <1>3. CutOff => GivenInOrder /\ StatusOfHeader
    BY DEF CutOff, StatusKnown, StatusOfHeader
  <1>4. AfterExtra => StatusOfHeader
    BY DEF AfterExtra
  <1>5. CASE pc = "fetch"
    <2>1. CASE AtFetch
      <3>1. Agree(Read) /\ (Read > 0 => StatusKnown)
        BY <2>1 DEF AtFetch
      <3> QED
        BY <1>0, <1>1, <3>1, StatusSoFar DEF Agree
    <2> QED
      BY <1>0, <1>4, <1>5, <2>1 DEF Progress
  <1>6. CASE pc = "phrase"
    <2>1. PICK m \in 0 .. Read : AtPhrase(m)
      BY <1>0, <1>6 DEF Progress
    <2>2. m \in Nat /\ Agree(m) /\ (m > 0 => StatusKnown)
      BY <1>1, <2>1 DEF AtPhrase
    <2> QED
      BY <1>0, <2>2, StatusSoFar DEF Agree
  <1>7. CASE pc = "parse"
    BY <1>0, <1>2, <1>3, <1>7 DEF Progress, AtParse
  <1>8. CASE pc \in {"ngram", "word", "taken"}
    BY <1>0, <1>2, <1>3, <1>8 DEF Progress, AtLine, AtExtra
  <1>9. CASE pc \in {"closed", "overrun"}
    BY <1>0, <1>3, <1>4, <1>9 DEF Progress, AtClosed
  <1> QED
    BY <1>0, <1>5, <1>6, <1>7, <1>8, <1>9

\* The program gets the lines of the file in order, each with its task and its words,
\* and at the end all of them: for every buffer size and every file, however often the
\* buffer has to be doubled (string_utils.c:238) and whatever was in it before.  It gets
\* one line more when a file ends inside a line and the newline of its header is still in
\* the buffer (string_utils.c:119), and only then.
THEOREM LineInputLines == Spec => []LinesAsWritten
  <1>1. ASSUME IInv
        PROVE  LinesAsWritten
    <2> DEFINE n == Len(Expected(file))
               g == Len(given)
               extra == IF HeaderEndRemains(file) THEN 1 ELSE 0
    <2>1. GivenInOrder \/ AfterExtra
      BY <1>1, AtEachPlace
    <2>2. n \in Nat /\ DOMAIN Expected(file) = 1 .. n
      <3>1. Expected(file) \in Seq(Asked(file))
        BY <1>1, ExpectedIs, Zenon DEF IInv, Typed
      <3> QED
        BY <3>1, LenProperties
    <2>3. pc = "closed" => AtClosed \/ AfterExtra
      BY <1>1 DEF IInv, Progress
    <2>4. g \in Nat /\ DOMAIN given = 1 .. g
      <3>1. \E S : given \in Seq(S)
        BY <2>1, Zenon DEF GivenInOrder, AfterExtra
      <3> QED
        BY <3>1, LenProperties
    <2>5. extra \in {0, 1} /\ (AfterExtra => extra = 1) /\ (AtClosed => extra = 0)
      BY DEF AfterExtra, AtClosed
    <2>6. g <= n \/ (AfterExtra /\ g = n + 1)
      BY <2>1, Zenon DEF GivenInOrder, AfterExtra
    <2>7. pc = "closed" => (AtClosed /\ g = n) \/ (AfterExtra /\ g = n + 1)
      BY <2>3, Zenon DEF AtClosed, AfterExtra
    <2> HIDE DEF n, g, extra
    <2>8. g <= n + extra /\ (pc = "closed" => g = n + extra)
      BY <2>2, <2>4, <2>5, <2>6, <2>7
    <2>9. \A i \in 1 .. g : i \in 1 .. n => SameLine(given[i], Expected(file)[i])
      BY <2>1, Zenon DEF GivenInOrder, AfterExtra, g, n
    <2> QED
      BY <2>2, <2>4, <2>8, <2>9, Zenon DEF LinesAsWritten, SameLine, g, n, extra
  <1> QED
    BY <1>1, Inductive, PTL

\* The status of the trie is that of the header before the first line is given.
THEOREM LineInputStatus == Spec => []StatusOfHeader
  <1>1. IInv => StatusOfHeader
    BY AtEachPlace
  <1> QED
    BY <1>1, Inductive, PTL

\* line_parse reads behind the buffer only when an init file ends inside a line and the
\* newline of its header is gone.
THEOREM LineInputOverrun == Spec => []OverrunOnlyUnfinished
  <1>1. IInv => OverrunOnlyUnfinished
    BY DEF IInv, Progress, CutOff, OverrunOnlyUnfinished
  <1> QED
    BY <1>1, Inductive, PTL
=============================================================================
