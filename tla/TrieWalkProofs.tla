--------------------------- MODULE TrieWalkProofs ---------------------------
(* Theorems about TrieWalk: for every init file, text, batch, number of      *)
(* threads, filter and buffer size, the threads, word by word and with their *)
(* filters and results used again and again, answer what one search of the   *)
(* trie answers, and that is what is printed and counted.                    *)
(*                                                                           *)
(* The parts come first, each with a predicate that says what it holds: the  *)
(* result buffer (HasNGrams), the filters (FilterHas), the order of the      *)
(* answer (IsOccurred), compression (IsBranch) and the walk (At).  Searched  *)
(* joins them: what a walk has reported is what occurs before it.            *)
EXTENDS TrieWalk, DataLemmas

---------------------------------------------------------------------------
(* The result buffer.                                                       *)

\* What a buffer holds.
Chars == STRING \union {NUL, SPACE, BAR, NONE, JUNK}

\* A result with a buffer of n characters.
IsBuffer(r, n) ==
    /\ n \in Nat \ {0, 1}
    /\ r.output_buffer \in [0 .. n - 1 -> Chars]
    /\ r.first_available_slot \in 0 .. n
    /\ r = [output_buffer |-> r.output_buffer,
            first_available_slot |-> r.first_available_slot]

Results == {r \in [output_buffer : UNION {[0 .. n - 1 -> Chars] : n \in Nat},
                   first_available_slot : Nat] : \E n \in Nat : IsBuffer(r, n)}

\* The size of a buffer is the number of its slots.
LEMMA ResultIsBuffer ==
  ASSUME NEW r, NEW n, IsBuffer(r, n)
  PROVE  /\ r \in Results /\ Bufsize(r) = n
         /\ n \in Nat /\ n > 1 /\ DOMAIN r.output_buffer = 0 .. n - 1
  <1>1. /\ n \in Nat /\ n > 1 /\ r.output_buffer \in [0 .. n - 1 -> Chars]
        /\ DOMAIN r.output_buffer = 0 .. n - 1
    BY DEF IsBuffer
  <1>2. Bufsize(r) = n
    <2>1. 0 \in Int /\ n - 1 \in Int /\ ~(0 > n - 1) /\ n - 1 - 0 + 1 = n
      BY <1>1
    <2>2. Cardinality(0 .. n - 1) = n
      <3>1. Cardinality(0 .. n - 1) = IF 0 > n - 1 THEN 0 ELSE (n - 1) - 0 + 1
        BY <2>1, FS_Interval
      <3> QED
        BY <2>1, <3>1
    <2> QED
      BY <1>1, <2>2 DEF Bufsize
  <1>3. r \in Results
    <2>1. r.output_buffer \in UNION {[0 .. m - 1 -> Chars] : m \in Nat}
      BY <1>1
    <2>2. r.first_available_slot \in Nat
      BY <1>1 DEF IsBuffer
    <2>3. r = [output_buffer |-> r.output_buffer,
               first_available_slot |-> r.first_available_slot]
      BY DEF IsBuffer
    <2>4. r \in [output_buffer : UNION {[0 .. m - 1 -> Chars] : m \in Nat},
                 first_available_slot : Nat]
      BY <2>1, <2>2, <2>3
    <2> QED
      BY <1>1, <2>4, Zenon DEF Results
  <1> QED
    BY <1>1, <1>2, <1>3

\* result_init.
LEMMA EmptyResult ==
  /\ IsBuffer(result_init, INIT_SIZE_BUF)
  /\ result_init.first_available_slot = 0
  BY BufferAssumption DEF IsBuffer, result_init, Chars

\* What writing the first n characters behind what there is in a buffer leaves in it.
WroteTo(new, old, chars, n) ==
    /\ new \in Results
    /\ new.first_available_slot = old.first_available_slot + n
    /\ \A i \in 0 .. old.first_available_slot - 1 : new.output_buffer[i] = old.output_buffer[i]
    /\ \A i \in 1 .. n : new.output_buffer[old.first_available_slot + i - 1] = chars[i]

\* A full buffer is doubled, and nothing in it is lost.
LEMMA DoubledEffect ==
  ASSUME NEW r, NEW n, IsBuffer(r, n)
  PROVE  \E m \in Nat :
            /\ IsBuffer(Doubled(r), m) /\ m >= n /\ r.first_available_slot < m
            /\ Doubled(r).first_available_slot = r.first_available_slot
            /\ \A i \in 0 .. n - 1 : Doubled(r).output_buffer[i] = r.output_buffer[i]
  <1>1. /\ n \in Nat /\ n > 1 /\ r.output_buffer \in [0 .. n - 1 -> Chars]
        /\ r.first_available_slot \in 0 .. n
    BY DEF IsBuffer
  <1>2. Bufsize(r) = n
    BY ResultIsBuffer
  <1>3. CASE r.first_available_slot < n
    <2>1. Doubled(r) = r
      BY <1>2, <1>3 DEF Doubled
    <2> QED
      BY <1>1, <1>3, <2>1
  <1>4. CASE ~(r.first_available_slot < n)
    <2> DEFINE m == 2 * n
               buffer == [i \in 0 .. m - 1 |-> IF i < n THEN r.output_buffer[i] ELSE JUNK]
               new == [output_buffer |-> buffer,
                       first_available_slot |-> r.first_available_slot]
    <2>1. Doubled(r) = new
      <3>1. r = [output_buffer |-> r.output_buffer,
                 first_available_slot |-> r.first_available_slot]
        BY DEF IsBuffer
      <3>2. Doubled(r) = [r EXCEPT !.output_buffer = buffer]
        BY <1>2, <1>4 DEF Doubled
      <3> HIDE DEF buffer
      <3> QED
        BY <3>1, <3>2
    <2>2. m \in Nat /\ m > 1 /\ m >= n /\ r.first_available_slot < m
          /\ r.first_available_slot \in 0 .. m
      BY <1>1
    <2>3. buffer \in [0 .. m - 1 -> Chars]
      <3> SUFFICES ASSUME NEW i \in 0 .. m - 1
                   PROVE  (IF i < n THEN r.output_buffer[i] ELSE JUNK) \in Chars
        OBVIOUS
      <3> QED
        BY <1>1 DEF Chars
    <2>4. \A i \in 0 .. n - 1 : buffer[i] = r.output_buffer[i]
      BY <1>1
    <2>5. IsBuffer(new, m)
      <3> HIDE DEF buffer, m
      <3> QED
        BY <2>2, <2>3 DEF IsBuffer
    <2> HIDE DEF buffer, m
    <2> QED
      BY <2>1, <2>2, <2>4, <2>5
  <1> QED
    BY <1>3, <1>4

\* One character more: it is behind the others, inside the buffer.
LEMMA PutEffect ==
  ASSUME NEW r \in Results, NEW char \in Chars
  PROVE  /\ Put(r, char) \in Results /\ r.first_available_slot \in Nat
         /\ Put(r, char).first_available_slot = r.first_available_slot + 1
         /\ Put(r, char).output_buffer[r.first_available_slot] = char
         /\ \A i \in 0 .. r.first_available_slot - 1 :
               Put(r, char).output_buffer[i] = r.output_buffer[i]
  <1>1. PICK n \in Nat : IsBuffer(r, n)
    BY DEF Results
  <1> DEFINE room == Doubled(r)
             fas == r.first_available_slot
  <1>2. PICK m \in Nat : /\ IsBuffer(room, m) /\ m >= n /\ fas < m
                         /\ room.first_available_slot = fas
                         /\ \A i \in 0 .. n - 1 : room.output_buffer[i] = r.output_buffer[i]
    BY <1>1, DoubledEffect
  <1>3. n > 1 /\ fas \in 0 .. n /\ m > 1
    BY <1>1, <1>2 DEF IsBuffer
  <1>4. room.output_buffer \in [0 .. m - 1 -> Chars]
    BY <1>2 DEF IsBuffer
  <1> DEFINE buffer == [room.output_buffer EXCEPT ![fas] = char]
             new == [output_buffer |-> buffer, first_available_slot |-> fas + 1]
  <1>5. Put(r, char) = new
    BY DEF Put
  <1> HIDE DEF room
  <1>6. /\ buffer \in [0 .. m - 1 -> Chars] /\ buffer[fas] = char
        /\ \A i \in 0 .. fas - 1 : buffer[i] = r.output_buffer[i]
    BY <1>2, <1>3, <1>4
  <1> HIDE DEF buffer
  <1>7. IsBuffer(new, m)
    BY <1>2, <1>3, <1>6 DEF IsBuffer
  <1>8. new \in Results
    BY <1>7, ResultIsBuffer, Zenon
  <1> QED
    BY <1>3, <1>5, <1>6, <1>8

\* The words that are searched: no word holds the character that ends strings.
Word == STRING \ {NUL}

\* An n-gram as one string: no end of string inside, and the words can be told apart.
LEMMA SpacedIs ==
  ASSUME NEW words \in Seq(Word), words # <<>>
  PROVE  /\ Spaced(words) \in Seq(Chars) /\ Len(Spaced(words)) = 2 * Len(words) - 1
         /\ \A i \in 1 .. 2 * Len(words) - 1 : Spaced(words)[i] # NUL
         /\ \A k \in 1 .. Len(words) : Spaced(words)[2 * k - 1] = words[k]
         /\ Len(words) \in Nat /\ Len(words) >= 1
  <1> DEFINE n == Len(words)
             m == 2 * n - 1
             char(i) == IF i % 2 = 1 THEN words[(i + 1) \div 2] ELSE SPACE
  <1>1. n \in Nat /\ n >= 1 /\ m \in Nat /\ m >= 1
    BY EmptySeq
  <1>2. Spaced(words) = [i \in 1 .. m |-> char(i)]
    BY DEF Spaced
  <1>3. ASSUME NEW i \in 1 .. m
        PROVE  char(i) \in Chars /\ char(i) # NUL
    <2>1. CASE i % 2 = 1
      <3>1. (i + 1) \div 2 \in 1 .. n
        BY <1>1
      <3>2. words[(i + 1) \div 2] \in Word
        BY <3>1, ElementOfSeq
      <3> QED
        BY <2>1, <3>2 DEF Word, Chars
    <2>2. CASE i % 2 # 1
      BY <2>2 DEF Chars, SPACE, NUL
    <2> QED
      BY <2>1, <2>2
  <1>4. ASSUME NEW k \in 1 .. n
        PROVE  2 * k - 1 \in 1 .. m /\ char(2 * k - 1) = words[k]
    <2>1. k \in Int /\ k >= 1 /\ k <= n
      BY <1>1
    <2>2. (2 * k - 1) % 2 = 1 /\ (2 * k - 1 + 1) \div 2 = k
      BY <2>1
    <2> QED
      BY <1>1, <2>1, <2>2
  <1> HIDE DEF char, n
  <1>5. Spaced(words) \in Seq(Chars) /\ Len(Spaced(words)) = m
    BY <1>1, <1>2, <1>3
  <1>6. \A i \in 1 .. m : Spaced(words)[i] = char(i)
    BY <1>2
  <1> QED
    BY <1>1, <1>3, <1>4, <1>5, <1>6 DEF n

\* Different n-grams are different strings.
LEMMA SpacedInjective ==
  ASSUME NEW u \in Seq(Word), u # <<>>, NEW v \in Seq(Word), v # <<>>,
         Spaced(u) = Spaced(v)
  PROVE  u = v
  <1>1. Len(u) \in Nat /\ Len(v) \in Nat /\ 2 * Len(u) - 1 = 2 * Len(v) - 1
    BY SpacedIs
  <1>2. Len(u) = Len(v)
    BY <1>1
  <1>3. \A k \in 1 .. Len(u) : u[k] = v[k]
    BY <1>2, SpacedIs
  <1> QED
    BY <1>2, <1>3, SeqEqual

\* Writing characters one by one.
LEMMA WriteAll ==
  ASSUME NEW r \in Results, NEW chars \in Seq(Chars)
  PROVE  LET after[n \in 0 .. Len(chars)] ==
                 IF n = 0 THEN r ELSE Put(after[n - 1], chars[n])
         IN  WroteTo(after[Len(chars)], r, chars, Len(chars))
  <1> DEFINE N == Len(chars)
             loop(g) == [n \in 0 .. N |-> IF n = 0 THEN r ELSE Put(g[n - 1], chars[n])]
             after == CHOOSE g : g = loop(g)
             step == [p \in Results \X (1 .. N) |-> Put(p[1], chars[p[2]])]
  <1>1. N \in Nat /\ \A n \in 1 .. N : chars[n] \in Chars
    BY ElementOfSeq
  <1>2. step \in [Results \X (1 .. N) -> Results]
    <2> SUFFICES ASSUME NEW p \in Results \X (1 .. N)
                 PROVE  Put(p[1], chars[p[2]]) \in Results
      OBVIOUS
    <2>1. p[1] \in Results /\ chars[p[2]] \in Chars
      BY <1>1
    <2> QED
      BY <2>1, PutEffect, Zenon
  <1>3. PICK f \in [0 .. N -> Results] : Loop(f, N, r, step)
    <2> HIDE DEF N, step
    <2> QED
      BY <1>1, <1>2, Iteration
  <1>4. f = loop(f)
    <2>1. ASSUME NEW n \in 0 .. N, n # 0
          PROVE  step[<<f[n - 1], n>>] = Put(f[n - 1], chars[n])
      <3>1. n - 1 \in 0 .. N /\ n \in 1 .. N
        BY <1>1, <2>1
      <3>2. <<f[n - 1], n>> \in Results \X (1 .. N)
        BY <3>1
      <3> QED
        BY <3>2
    <2> HIDE DEF step, N
    <2> QED
      BY <1>3, <2>1 DEF Loop
  <1>5. after = loop(after)
    <2> HIDE DEF loop
    <2> QED
      BY <1>4, Zenon
  <1> HIDE DEF after
  <1>6. after[0] = r /\ \A n \in 1 .. N : after[n] = Put(after[n - 1], chars[n])
    <2>1. 0 \in 0 .. N /\ \A n \in 1 .. N : n \in 0 .. N /\ n # 0
      BY <1>1
    <2> HIDE DEF N
    <2> QED
      BY <1>5, <2>1
  <1> DEFINE P == {n \in Nat : n <= N => WroteTo(after[n], r, chars, n)}
  <1>7. 0 \in P
    <2>1. r.first_available_slot \in Nat
      BY DEF Results
    <2>2. WroteTo(r, r, chars, 0)
      BY <2>1 DEF WroteTo
    <2> QED
      BY <1>6, <2>2
  <1>8. ASSUME NEW n \in P
        PROVE  n + 1 \in P
    <2> SUFFICES ASSUME n + 1 <= N
                 PROVE  WroteTo(after[n + 1], r, chars, n + 1)
      OBVIOUS
    <2>1. n \in Nat /\ n <= N /\ n + 1 \in 1 .. N /\ n + 1 - 1 = n
      BY <1>1
    <2>2. WroteTo(after[n], r, chars, n)
      BY <2>1
    <2>3. after[n + 1] = Put(after[n], chars[n + 1]) /\ chars[n + 1] \in Chars
      BY <1>1, <1>6, <2>1
    <2> DEFINE old == after[n]
               new == after[n + 1]
               fas == r.first_available_slot
    <2>4. fas \in Nat
      BY DEF Results
    <2>5. old \in Results /\ old.first_available_slot = fas + n
      BY <2>2 DEF WroteTo
    <2> HIDE DEF old
    <2>6. /\ new \in Results /\ new.first_available_slot = fas + n + 1
          /\ new.output_buffer[fas + n] = chars[n + 1]
          /\ \A i \in 0 .. fas + n - 1 : new.output_buffer[i] = old.output_buffer[i]
      <3>1. new = Put(old, chars[n + 1])
        BY <2>3 DEF old
      <3> HIDE DEF new, fas
      <3>2. /\ Put(old, chars[n + 1]) \in Results
            /\ Put(old, chars[n + 1]).first_available_slot = old.first_available_slot + 1
            /\ Put(old, chars[n + 1]).output_buffer[old.first_available_slot] = chars[n + 1]
            /\ \A i \in 0 .. old.first_available_slot - 1 :
                  Put(old, chars[n + 1]).output_buffer[i] = old.output_buffer[i]
        BY <2>3, <2>5, PutEffect
      <3> DEFINE at == old.first_available_slot
                 char == chars[n + 1]
      <3>3. at = fas + n
        BY <2>5
      <3>4. /\ new \in Results /\ new.first_available_slot = at + 1
            /\ new.output_buffer[at] = char
            /\ \A i \in 0 .. at - 1 : new.output_buffer[i] = old.output_buffer[i]
        <4> HIDE DEF old
        <4> QED
          BY <3>1, <3>2
      <3> HIDE DEF old, at, char
      <3>5. /\ new \in Results /\ new.first_available_slot = fas + n + 1
            /\ new.output_buffer[fas + n] = char
            /\ \A i \in 0 .. fas + n - 1 : new.output_buffer[i] = old.output_buffer[i]
        BY <3>3, <3>4
      <3> QED
        BY <3>5 DEF char
    <2> HIDE DEF new
    <2>7. /\ \A i \in 0 .. fas - 1 : old.output_buffer[i] = r.output_buffer[i]
          /\ \A i \in 1 .. n : old.output_buffer[fas + i - 1] = chars[i]
      BY <2>2 DEF WroteTo, old
    <2>8. \A i \in 0 .. fas - 1 : new.output_buffer[i] = r.output_buffer[i]
      BY <2>1, <2>4, <2>6, <2>7
    <2>9. ASSUME NEW i \in 1 .. n + 1
          PROVE  new.output_buffer[fas + i - 1] = chars[i]
      <3>1. CASE i = n + 1
        BY <2>1, <2>4, <2>6, <3>1
      <3>2. CASE i # n + 1
        <4>1. i \in 1 .. n /\ fas + i - 1 \in 0 .. fas + n - 1
          BY <2>1, <2>4, <3>2
        <4> QED
          BY <2>6, <2>7, <4>1
      <3> QED
        BY <3>1, <3>2
    <2>10. WroteTo(new, r, chars, n + 1)
      <3>1. fas + n + 1 = fas + (n + 1)
        BY <2>1, <2>4
      <3> HIDE DEF new
      <3> QED
        BY <2>6, <2>8, <2>9, <3>1, Zenon DEF WroteTo
    <2> QED
      BY <2>10 DEF new
  <1>9. P = Nat
    <2> HIDE DEF N
    <2>1. P \in SUBSET Nat
      OBVIOUS
    <2> HIDE DEF P
    <2> QED
      BY <1>7, <1>8, <2>1, Induction
  <1>10. N \in P /\ N <= N
    <2> HIDE DEF P
    <2> QED
      BY <1>1, <1>9
  <1>11. WroteTo(after[N], r, chars, N)
    BY <1>10
  <1> QED
    BY <1>11, Zenon DEF after

\* result_ngram_detected writes the n-gram and the end of a string.
LEMMA DetectedWrites ==
  ASSUME NEW r \in Results, NEW words \in Seq(Word), words # <<>>
  PROVE  LET new == result_ngram_detected(r, words)
             fas == r.first_available_slot
             end == fas + 2 * Len(words)
         IN  /\ new \in Results /\ fas \in Nat /\ new.first_available_slot = end
             /\ \A i \in 0 .. fas - 1 : new.output_buffer[i] = r.output_buffer[i]
             /\ \A i \in 1 .. 2 * Len(words) - 1 :
                   new.output_buffer[fas + i - 1] = Spaced(words)[i]
             /\ new.output_buffer[end - 1] = NUL
  <1> DEFINE chars == Append(Spaced(words), NUL)
             fas == r.first_available_slot
             n == Len(words)
             new == result_ngram_detected(r, words)
  <1>1. /\ Spaced(words) \in Seq(Chars) /\ Len(Spaced(words)) = 2 * n - 1
        /\ n \in Nat /\ n >= 1 /\ NUL \in Chars
    BY SpacedIs DEF Chars
  <1>2. /\ chars \in Seq(Chars) /\ Len(chars) = 2 * n /\ chars[2 * n] = NUL
        /\ \A i \in 1 .. 2 * n - 1 : chars[i] = Spaced(words)[i]
    <2>1. /\ chars \in Seq(Chars) /\ Len(chars) = Len(Spaced(words)) + 1
          /\ \A i \in 1 .. Len(Spaced(words)) : chars[i] = Spaced(words)[i]
          /\ chars[Len(Spaced(words)) + 1] = NUL
      BY <1>1, AppendProperties
    <2> HIDE DEF chars
    <2>2. Len(Spaced(words)) + 1 = 2 * n
      BY <1>1
    <2> QED
      BY <1>1, <2>1, <2>2
  <1>3. WroteTo(new, r, chars, 2 * n)
    <2> HIDE DEF chars
    <2>1. LET after[k \in 0 .. Len(chars)] ==
                 IF k = 0 THEN r ELSE Put(after[k - 1], chars[k])
          IN  WroteTo(after[Len(chars)], r, chars, Len(chars))
      BY <1>2, WriteAll
    <2>2. WroteTo(new, r, chars, Len(chars))
      BY <2>1, Zenon DEF result_ngram_detected, chars
    <2> QED
      BY <1>2, <2>2
  <1> HIDE DEF chars, new
  <1>4. fas \in Nat
    BY DEF Results
  <1>5. /\ new \in Results /\ new.first_available_slot = fas + 2 * n
        /\ \A i \in 0 .. fas - 1 : new.output_buffer[i] = r.output_buffer[i]
        /\ \A i \in 1 .. 2 * n : new.output_buffer[fas + i - 1] = chars[i]
    BY <1>3 DEF WroteTo
  <1>6. new.output_buffer[fas + 2 * n - 1] = NUL
    <2>1. 2 * n \in 1 .. 2 * n
      BY <1>1
    <2> QED
      BY <1>2, <1>5, <2>1
  <1>7. \A i \in 1 .. 2 * n - 1 : new.output_buffer[fas + i - 1] = Spaced(words)[i]
    <2>1. \A i \in 1 .. 2 * n - 1 : i \in 1 .. 2 * n
      BY <1>1
    <2> QED
      BY <1>2, <1>5, <2>1
  <1> QED
    BY <1>4, <1>5, <1>6, <1>7 DEF new

\* The n-grams that queries can have.
NGram == Seq(Word) \ {<<>>}

\* Where the n-grams of a list end in a buffer.
Placed(buffer, fas, list, end) ==
    /\ end \in [0 .. Len(list) -> Nat] /\ end[0] = 0 /\ end[Len(list)] = fas
    /\ \A k \in 1 .. Len(list) :
          /\ end[k] = end[k - 1] + 2 * Len(list[k])
          /\ \A i \in 1 .. 2 * Len(list[k]) - 1 :
                buffer[end[k - 1] + i - 1] = Spaced(list[k])[i]
          /\ buffer[end[k] - 1] = NUL

\* The result holds these n-grams in this order.
HasNGrams(r, list) ==
    /\ r \in Results /\ list \in Seq(NGram)
    /\ \E end : Placed(r.output_buffer, r.first_available_slot, list, end)

\* A result in which no slot is taken holds no n-gram.
LEMMA ResultBegins ==
  ASSUME NEW r \in Results, r.first_available_slot = 0
  PROVE  HasNGrams(r, <<>>)
  <1> DEFINE end == [k \in 0 .. 0 |-> 0]
  <1>1. <<>> \in Seq(NGram) /\ Len(<<>>) = 0
    OBVIOUS
  <1>2. end \in [0 .. 0 -> Nat] /\ end[0] = 0
    OBVIOUS
  <1> HIDE DEF end
  <1>3. \A k \in 1 .. 0 : FALSE
    OBVIOUS
  <1>4. Placed(r.output_buffer, 0, <<>>, end)
    BY <1>1, <1>2, <1>3 DEF Placed
  <1> QED
    BY <1>1, <1>4, Zenon DEF HasNGrams

\* An n-gram of a list.
LEMMA PlacedNGram ==
  ASSUME NEW list \in Seq(NGram), NEW k \in 1 .. Len(list)
  PROVE  /\ list[k] \in Seq(Word) /\ list[k] # <<>> /\ list[k] \in NGram
         /\ Len(list[k]) \in Nat /\ Len(list[k]) >= 1
         /\ Spaced(list[k]) \in Seq(Chars)
         /\ Len(Spaced(list[k])) = 2 * Len(list[k]) - 1
         /\ \A i \in 1 .. 2 * Len(list[k]) - 1 : Spaced(list[k])[i] # NUL
  <1>1. list[k] \in NGram
    BY ElementOfSeq
  <1>2. list[k] \in Seq(Word) /\ list[k] # <<>>
    BY <1>1 DEF NGram
  <1> QED
    BY <1>1, <1>2, SpacedIs

\* The ends are in order.
LEMMA PlacedInOrder ==
  ASSUME NEW buffer, NEW fas \in Nat, NEW list \in Seq(NGram), NEW end,
         Placed(buffer, fas, list, end)
  PROVE  /\ \A k \in 0 .. Len(list) : end[k] \in 0 .. fas
         /\ \A k \in 1 .. Len(list) : end[k - 1] + 2 <= end[k]
         /\ \A k \in 1 .. Len(list) - 1 : end[k] + 2 <= fas
  <1> DEFINE n == Len(list)
             P == {m \in Nat : m <= n => end[n - m] <= fas}
  <1>1. n \in Nat
    OBVIOUS
  <1>2. end \in [0 .. n -> Nat] /\ end[0] = 0 /\ end[n] = fas
    BY DEF Placed
  <1>3. ASSUME NEW k \in 1 .. n
        PROVE  end[k - 1] + 2 <= end[k] /\ end[k - 1] \in Nat /\ end[k] \in Nat
    <2>1. end[k] = end[k - 1] + 2 * Len(list[k])
      BY DEF Placed
    <2>2. Len(list[k]) \in Nat /\ Len(list[k]) >= 1
      BY PlacedNGram
    <2>3. end[k] \in Nat /\ end[k - 1] \in Nat
      BY <1>1, <1>2
    <2> QED
      BY <2>1, <2>2, <2>3
  <1> HIDE DEF n
  <1>4. 0 \in P
    BY <1>1, <1>2
  <1>5. ASSUME NEW m \in P
        PROVE  m + 1 \in P
    <2> SUFFICES ASSUME m + 1 <= n
                 PROVE  end[n - (m + 1)] <= fas
      OBVIOUS
    <2>1. n - m \in 1 .. n /\ (n - m) - 1 = n - (m + 1) /\ m <= n
      BY <1>1
    <2>2. end[n - m] <= fas
      BY <2>1
    <2>3. end[(n - m) - 1] + 2 <= end[n - m] /\ end[(n - m) - 1] \in Nat /\ end[n - m] \in Nat
      BY <1>3, <2>1
    <2> QED
      BY <2>1, <2>2, <2>3
  <1>6. P = Nat
    <2>1. P \in SUBSET Nat
      OBVIOUS
    <2> HIDE DEF P
    <2> QED
      BY <1>4, <1>5, <2>1, Induction
  <1>7. ASSUME NEW k \in 0 .. n
        PROVE  end[k] \in 0 .. fas
    <2>1. n - k \in Nat /\ n - k <= n /\ n - (n - k) = k
      BY <1>1
    <2>2. n - k \in P
      BY <1>6, <2>1
    <2>3. end[k] <= fas /\ end[k] \in Nat
      BY <1>2, <2>1, <2>2
    <2> QED
      BY <2>3
  <1>8. ASSUME NEW k \in 1 .. n - 1
        PROVE  end[k] + 2 <= fas
    <2>1. k + 1 \in 1 .. n /\ k + 1 - 1 = k /\ k + 1 \in 0 .. n
      BY <1>1
    <2>2. end[k] + 2 <= end[k + 1] /\ end[k + 1] \in 0 .. fas /\ end[k] \in Nat
      BY <1>3, <1>7, <2>1
    <2> QED
      BY <2>2
  <1> QED
    BY <1>3, <1>7, <1>8 DEF n

\* result_ngram_detected puts an n-gram behind the others.
LEMMA ResultExtended ==
  ASSUME NEW r, NEW list, HasNGrams(r, list), NEW ngram \in NGram
  PROVE  HasNGrams(result_ngram_detected(r, ngram), Append(list, ngram))
  <1> DEFINE n == Len(list)
             new == result_ngram_detected(r, ngram)
             fas == r.first_available_slot
             more == Append(list, ngram)
  <1>1. r \in Results /\ list \in Seq(NGram) /\ n \in Nat
    BY DEF HasNGrams
  <1>2. PICK end : Placed(r.output_buffer, fas, list, end)
    BY DEF HasNGrams
  <1>3. /\ ngram \in Seq(Word) /\ ngram # <<>>
        /\ Len(ngram) \in Nat /\ Len(ngram) >= 1
    BY SpacedIs DEF NGram
  <1>4. /\ new \in Results /\ fas \in Nat /\ new.first_available_slot = fas + 2 * Len(ngram)
        /\ \A i \in 0 .. fas - 1 : new.output_buffer[i] = r.output_buffer[i]
        /\ \A i \in 1 .. 2 * Len(ngram) - 1 :
              new.output_buffer[fas + i - 1] = Spaced(ngram)[i]
        /\ new.output_buffer[fas + 2 * Len(ngram) - 1] = NUL
    BY <1>1, <1>3, DetectedWrites
  <1> HIDE DEF new
  <1>5. /\ more \in Seq(NGram) /\ Len(more) = n + 1 /\ more[n + 1] = ngram
        /\ \A k \in 1 .. n : more[k] = list[k]
    BY <1>1, AppendProperties
  <1> HIDE DEF more
  <1> DEFINE last == fas + 2 * Len(ngram)
             ends == [k \in 0 .. n + 1 |-> IF k <= n THEN end[k] ELSE last]
  <1>6. end \in [0 .. n -> Nat] /\ end[0] = 0 /\ end[n] = fas
    BY <1>2 DEF Placed
  <1>7. last \in Nat
    BY <1>3, <1>4
  <1> HIDE DEF last
  <1>8. /\ ends \in [0 .. n + 1 -> Nat] /\ ends[0] = 0 /\ ends[n + 1] = last
        /\ \A k \in 0 .. n : ends[k] = end[k]
    BY <1>1, <1>6, <1>7
  <1> HIDE DEF ends
  <1>9. ASSUME NEW k \in 1 .. n + 1
        PROVE  /\ ends[k] = ends[k - 1] + 2 * Len(more[k])
               /\ \A i \in 1 .. 2 * Len(more[k]) - 1 :
                     new.output_buffer[ends[k - 1] + i - 1] = Spaced(more[k])[i]
               /\ new.output_buffer[ends[k] - 1] = NUL
    <2>1. CASE k = n + 1
      <3>1. ends[k] = last /\ k - 1 = n /\ ends[k - 1] = fas /\ more[k] = ngram
        BY <1>1, <1>5, <1>6, <1>8, <2>1
      <3> QED
        BY <1>4, <3>1 DEF last
    <2>2. CASE k # n + 1
      <3>1. k \in 1 .. n /\ k \in 0 .. n /\ k - 1 \in 0 .. n
        BY <1>1, <2>2
      <3>2. ends[k] = end[k] /\ ends[k - 1] = end[k - 1] /\ more[k] = list[k]
        BY <1>5, <1>8, <3>1
      <3>3. /\ end[k] = end[k - 1] + 2 * Len(list[k])
            /\ \A i \in 1 .. 2 * Len(list[k]) - 1 :
                  r.output_buffer[end[k - 1] + i - 1] = Spaced(list[k])[i]
            /\ r.output_buffer[end[k] - 1] = NUL
        BY <1>2, <3>1 DEF Placed
      <3>4. end[k] \in 0 .. fas /\ end[k - 1] \in 0 .. fas /\ end[k - 1] + 2 <= end[k]
        BY <1>1, <1>2, <1>4, <3>1, PlacedInOrder
      <3>5. Len(list[k]) \in Nat /\ Len(list[k]) >= 1
        BY <1>1, <3>1, PlacedNGram
      <3>6. end[k] - 1 \in 0 .. fas - 1
        <4> DEFINE a == end[k - 1]
                   b == end[k]
        <4>1. a \in 0 .. fas /\ b \in 0 .. fas /\ a + 2 <= b
          BY <3>4
        <4> HIDE DEF a, b
        <4>2. b - 1 \in 0 .. fas - 1
          BY <1>4, <4>1
        <4> QED
          BY <4>2 DEF b
      <3>7. ASSUME NEW i \in 1 .. 2 * Len(list[k]) - 1
            PROVE  end[k - 1] + i - 1 \in 0 .. fas - 1
        <4> DEFINE a == end[k - 1]
                   b == 2 * Len(list[k])
        <4>1. b \in Nat /\ a \in Nat /\ a + b <= fas /\ i \in 1 .. b - 1
          BY <1>4, <3>3, <3>4, <3>5
        <4> HIDE DEF a, b
        <4>2. a + i - 1 \in 0 .. fas - 1
          BY <1>4, <4>1
        <4> QED
          BY <4>2 DEF a
      <3> QED
        BY <1>4, <3>2, <3>3, <3>6, <3>7
    <2> QED
      BY <2>1, <2>2
  <1>10. Placed(new.output_buffer, last, more, ends)
    BY <1>5, <1>8, <1>9 DEF Placed
  <1>11. new.first_available_slot = last
    BY <1>4 DEF last
  <1>12. HasNGrams(new, more)
    BY <1>4, <1>5, <1>10, <1>11, Zenon DEF HasNGrams
  <1> QED
    BY <1>12 DEF new, more

\* A completed result also says so when there is no n-gram.
IsCompleted(r, list) ==
    /\ HasNGrams(r, list)
    /\ list = <<>> => r.output_buffer[0] = NONE /\ r.output_buffer[1] = NUL

\* No slot is taken if and only if there is no n-gram; the last slot taken ends one.
LEMMA NoNGrams ==
  ASSUME NEW r, NEW list, HasNGrams(r, list)
  PROVE  /\ r.first_available_slot \in Nat
         /\ list = <<>> <=> r.first_available_slot = 0
         /\ list # <<>> => r.output_buffer[r.first_available_slot - 1] = NUL
  <1> DEFINE n == Len(list)
             fas == r.first_available_slot
  <1>1. r \in Results /\ list \in Seq(NGram) /\ n \in Nat /\ fas \in Nat
    BY DEF HasNGrams, Results
  <1>2. PICK end : Placed(r.output_buffer, fas, list, end)
    BY DEF HasNGrams
  <1>3. end[0] = 0 /\ end[n] = fas
    BY <1>2 DEF Placed
  <1>4. CASE list = <<>>
    <2>1. n = 0
      BY <1>4
    <2> QED
      BY <1>1, <1>3, <1>4, <2>1
  <1>5. CASE list # <<>>
    <2>1. n \in 1 .. n
      BY <1>1, <1>5, EmptySeq
    <2>2. r.output_buffer[end[n] - 1] = NUL
      BY <1>2, <2>1 DEF Placed
    <2>3. end[n - 1] + 2 <= end[n] /\ end[n - 1] \in 0 .. fas
      <3>1. n - 1 \in 0 .. n
        BY <2>1
      <3> QED
        BY <1>1, <1>2, <2>1, <3>1, PlacedInOrder
    <2>4. fas # 0
      BY <1>1, <1>3, <2>3
    <2> QED
      BY <1>1, <1>3, <1>5, <2>2, <2>4
  <1> QED
    BY <1>4, <1>5

\* result_completed writes "-1" into a result without n-grams.
LEMMA ResultCompleted ==
  ASSUME NEW r, NEW list, HasNGrams(r, list)
  PROVE  IsCompleted(result_completed(r), list)
  <1> DEFINE fas == r.first_available_slot
             new == result_completed(r)
  <1>1. r \in Results /\ list \in Seq(NGram)
    BY DEF HasNGrams
  <1>2. PICK n \in Nat : IsBuffer(r, n)
    BY <1>1 DEF Results
  <1>3. /\ n > 1 /\ fas \in 0 .. n /\ r.output_buffer \in [0 .. n - 1 -> Chars]
        /\ r = [output_buffer |-> r.output_buffer, first_available_slot |-> fas]
    BY <1>2 DEF IsBuffer
  <1>4. CASE list # <<>>
    <2>1. fas # 0 /\ r.output_buffer[fas - 1] = NUL
      BY <1>4, NoNGrams
    <2>2. [r.output_buffer EXCEPT ![fas - 1] = NUL] = r.output_buffer
      BY <1>3, <2>1
    <2>3. new = [r EXCEPT !.output_buffer = r.output_buffer]
      BY <2>1, <2>2 DEF result_completed
    <2>4. new = r
      BY <1>3, <2>3
    <2> QED
      BY <1>4, <2>4 DEF IsCompleted
  <1>5. CASE list = <<>>
    <2> DEFINE buffer == [r.output_buffer EXCEPT ![0] = NONE, ![1] = NUL]
    <2>1. fas = 0
      BY <1>5, NoNGrams
    <2>2. new = [output_buffer |-> buffer, first_available_slot |-> 0]
      <3>1. new = [r EXCEPT !.output_buffer = buffer]
        BY <2>1 DEF result_completed
      <3> HIDE DEF buffer
      <3> QED
        BY <1>3, <2>1, <3>1
    <2>3. NONE \in Chars /\ NUL \in Chars
      BY DEF Chars
    <2>4. buffer \in [0 .. n - 1 -> Chars] /\ buffer[0] = NONE /\ buffer[1] = NUL
      BY <1>3, <2>3
    <2> HIDE DEF buffer
    <2>5. IsBuffer(new, n)
      BY <1>3, <2>2, <2>4 DEF IsBuffer
    <2>6. new \in Results
      BY <2>5, ResultIsBuffer
    <2>7. HasNGrams(new, <<>>)
      BY <2>2, <2>6, ResultBegins
    <2> QED
      BY <1>5, <2>2, <2>4, <2>7 DEF IsCompleted
  <1> QED
    BY <1>4, <1>5

\* The ends of strings from an index on.
Ends(r, start) == {i \in start .. r.first_available_slot - 1 : r.output_buffer[i] = NUL}

\* The loop of result_fetch_ngram, one call after the other.
LEMMA FetchLoop ==
  ASSUME NEW r, NEW fas \in Nat, r.first_available_slot = fas
  PROVE  \E from :
            /\ Fetched(r) = from[0]
            /\ from \in [0 .. fas -> Seq({StringAt(r, s) : s \in 0 .. fas})]
            /\ \A start \in 0 .. fas :
                  from[start] = IF Ends(r, start) = {} THEN <<>>
                                ELSE <<StringAt(r, start)>> \o from[Min(Ends(r, start)) + 1]
  <1> DEFINE D == 0 .. fas
             T == {StringAt(r, s) : s \in D}
             ends(start) == {i \in start .. fas - 1 : r.output_buffer[i] = NUL}
             stop == {start \in D : ends(start) = {}}
             row == [start \in D |-> <<StringAt(r, start)>>]
             next == [start \in D |-> Min(ends(start)) + 1]
             loop(g) == [start \in D |->
                            IF ends(start) = {} THEN <<>>
                            ELSE <<StringAt(r, start)>> \o g[Min(ends(start)) + 1]]
             from == CHOOSE g : g = loop(g)
  <1>1. D \in SUBSET (0 .. fas)
    OBVIOUS
  <1>2. row \in [D -> Seq(T)]
    OBVIOUS
  <1>3. \A i \in D \ stop : next[i] \in D /\ next[i] > i
    <2> SUFFICES ASSUME NEW i \in D, ends(i) # {}
                 PROVE  Min(ends(i)) + 1 \in D /\ Min(ends(i)) + 1 > i
      OBVIOUS
    <2>1. ends(i) \in SUBSET Nat
      OBVIOUS
    <2>2. Min(ends(i)) \in ends(i)
      <3> HIDE DEF ends
      <3> QED
        BY <2>1, MinOfSet
    <2>3. Min(ends(i)) \in i .. fas - 1
      BY <2>2
    <2> HIDE DEF ends
    <2> QED
      BY <2>3
  <1>4. PICK f \in [D -> Seq(T)] : ListFrom(f, D, stop, row, next)
    <2> HIDE DEF D, T, stop, row, next
    <2> QED
      BY <1>1, <1>2, <1>3, ListRecursion
  <1>5. \A g : ListFrom(g, D, stop, row, next) <=> g = loop(g)
    <2> SUFFICES ASSUME NEW g
                 PROVE  [i \in D |-> IF i \in stop THEN <<>> ELSE row[i] \o g[next[i]]] = loop(g)
      BY DEF ListFrom
    <2> HIDE DEF ends
    <2> QED
      OBVIOUS
  <1>6. f = loop(f)
    <2> HIDE DEF loop, stop, row, next, D
    <2> QED
      BY <1>4, <1>5, Zenon
  <1>7. from = loop(from)
    <2> HIDE DEF loop
    <2> QED
      BY <1>6, Zenon
  <1>8. Fetched(r) = from[0]
    BY Zenon DEF Fetched
  <1> HIDE DEF from
  <1>9. from \in [D -> Seq(T)]
    <2>1. ListFrom(from, D, stop, row, next)
      <3> HIDE DEF loop, stop, row, next, D
      <3> QED
        BY <1>5, <1>7
    <2> HIDE DEF D, T, stop, row, next, loop
    <2> QED
      BY <1>1, <1>2, <1>3, <2>1, ListTyped
  <1>10. \A start \in D :
            from[start] = IF ends(start) = {} THEN <<>>
                          ELSE <<StringAt(r, start)>> \o from[Min(ends(start)) + 1]
    <2> HIDE DEF ends
    <2> QED
      BY <1>7
  <1>11. \A start \in D : Ends(r, start) = ends(start)
    BY DEF Ends
  <1> HIDE DEF ends
  <1> QED
    BY <1>8, <1>9, <1>10, <1>11

\* The strings of a buffer: from one end to the next.
LEMMA PlacedString ==
  ASSUME NEW r, NEW list, HasNGrams(r, list), NEW fas, r.first_available_slot = fas,
         NEW end, Placed(r.output_buffer, fas, list, end), NEW k \in 1 .. Len(list)
  PROVE  /\ Ends(r, end[k - 1]) # {} /\ Min(Ends(r, end[k - 1])) + 1 = end[k]
         /\ StringAt(r, end[k - 1]) = Spaced(list[k])
  <1> DEFINE start == end[k - 1]
             last == end[k] - 1
             ends == {i \in start .. fas - 1 : r.output_buffer[i] = NUL}
             n == 2 * Len(list[k]) - 1
  <1>1. r \in Results /\ list \in Seq(NGram) /\ fas \in Nat
    BY NoNGrams DEF HasNGrams
  <1>2. /\ end[k] = start + 2 * Len(list[k])
        /\ \A i \in 1 .. n : r.output_buffer[start + i - 1] = Spaced(list[k])[i]
        /\ r.output_buffer[last] = NUL
    BY DEF Placed
  <1>3. start \in 0 .. fas /\ end[k] \in 0 .. fas
    <2>1. k \in 0 .. Len(list) /\ k - 1 \in 0 .. Len(list)
      BY <1>1
    <2> QED
      BY <1>1, <2>1, PlacedInOrder
  <1>4. /\ Len(list[k]) \in Nat /\ Len(list[k]) >= 1
        /\ Spaced(list[k]) \in Seq(Chars) /\ Len(Spaced(list[k])) = n
        /\ \A i \in 1 .. n : Spaced(list[k])[i] # NUL
    BY <1>1, PlacedNGram
  <1>5. PICK m \in Nat : IsBuffer(r, m)
    BY <1>1 DEF Results
  <1>6. /\ m > 1 /\ fas \in 0 .. m /\ DOMAIN r.output_buffer = 0 .. m - 1 /\ Bufsize(r) = m
    BY <1>5, ResultIsBuffer DEF IsBuffer
  <1> HIDE DEF n
  <1>7. n \in Nat /\ n >= 1 /\ last = start + n /\ last \in 0 .. fas - 1
        /\ last \in start .. fas - 1 /\ last \in 0 .. m - 1
    <2>1. n \in Nat /\ n >= 1 /\ end[k] = start + n + 1
      BY <1>2, <1>3, <1>4 DEF n
    <2> HIDE DEF start
    <2> QED
      BY <1>1, <1>3, <1>6, <2>1
  <1> HIDE DEF last
  <1>8. \A i \in start .. last - 1 : r.output_buffer[i] # NUL
    <2> SUFFICES ASSUME NEW i \in start .. last - 1
                 PROVE  r.output_buffer[i] # NUL
      OBVIOUS
    <2> HIDE DEF start
    <2>1. i - start + 1 \in 1 .. n /\ start + (i - start + 1) - 1 = i
      BY <1>3, <1>7
    <2> QED
      BY <1>2, <1>4, <2>1
  <1>9. Min(ends) = last /\ ends # {}
    <2>1. last \in ends /\ \A i \in ends : i \in Nat /\ last <= i
      <3> HIDE DEF start
      <3> QED
        BY <1>1, <1>2, <1>3, <1>7, <1>8
    <2>2. ends \in SUBSET Nat /\ ends # {}
      BY <2>1
    <2> HIDE DEF ends
    <2>3. Min(ends) \in ends /\ Min(ends) <= last
      BY <2>1, <2>2, MinOfSet
    <2>4. Min(ends) \in Nat /\ last <= Min(ends)
      BY <2>1, <2>3, Zenon
    <2>5. Min(ends) = last
      BY <1>7, <2>3, <2>4
    <2> QED
      BY <2>2, <2>5
  <1>10. StringAt(r, start) = Spaced(list[k])
    <2> DEFINE S == {i \in DOMAIN r.output_buffer : i >= start /\ r.output_buffer[i] = NUL}
               S2 == S \union {Bufsize(r)}
    <2>1. last \in S2 /\ \A i \in S2 : i \in Nat /\ last <= i
      <3> HIDE DEF start
      <3>1. last \in S
        BY <1>2, <1>6, <1>7
      <3>2. \A i \in S : i \in Nat /\ last <= i
        BY <1>3, <1>6, <1>7, <1>8
      <3>3. Bufsize(r) \in Nat /\ last <= Bufsize(r)
        BY <1>6, <1>7
      <3> QED
        BY <3>1, <3>2, <3>3
    <2>2. S2 \in SUBSET Nat /\ S2 # {}
      BY <2>1
    <2>3. Min(S2) = last
      <3> HIDE DEF S2
      <3>1. Min(S2) \in S2 /\ Min(S2) <= last
        BY <2>1, <2>2, MinOfSet
      <3>2. Min(S2) \in Nat /\ last <= Min(S2)
        BY <2>1, <3>1, Zenon
      <3> QED
        BY <1>7, <3>1, <3>2
    <2>4. StringAt(r, start) = [i \in 1 .. Min(S2) - start |-> r.output_buffer[start + i - 1]]
      BY DEF StringAt
    <2> HIDE DEF S2, start
    <2>5. last - start = n
      BY <1>3, <1>7
    <2>6. StringAt(r, start) = [i \in 1 .. n |-> r.output_buffer[start + i - 1]]
      BY <2>3, <2>4, <2>5
    <2>7. [i \in 1 .. n |-> r.output_buffer[start + i - 1]] = [i \in 1 .. n |-> Spaced(list[k])[i]]
      BY <1>2
    <2>8. Spaced(list[k]) = [i \in 1 .. n |-> Spaced(list[k])[i]]
      BY <1>4
    <2> QED
      BY <2>6, <2>7, <2>8
  <1>11. last + 1 = end[k]
    <2>1. end[k] \in Nat
      BY <1>1, <1>3
    <2> QED
      BY <2>1 DEF last
  <1>12. Ends(r, start) = ends
    BY DEF Ends
  <1> QED
    BY <1>9, <1>10, <1>11, <1>12

\* result_fetch_ngram gives the n-grams of a result, one after the other.
LEMMA FetchedIs ==
  ASSUME NEW r, NEW list, HasNGrams(r, list)
  PROVE  Fetched(r) = SpacedOut(list)
  <1> DEFINE n == Len(list)
             fas == r.first_available_slot
             rest(k) == [i \in 1 .. n - k |-> Spaced(list[k + i])]
  <1>1. list \in Seq(NGram) /\ n \in Nat /\ fas \in Nat
    BY NoNGrams DEF HasNGrams
  <1>2. PICK end : Placed(r.output_buffer, fas, list, end)
    BY DEF HasNGrams
  <1>3. PICK from :
            /\ Fetched(r) = from[0]
            /\ from \in [0 .. fas -> Seq({StringAt(r, s) : s \in 0 .. fas})]
            /\ \A start \in 0 .. fas :
                  from[start] = IF Ends(r, start) = {} THEN <<>>
                                ELSE <<StringAt(r, start)>> \o from[Min(Ends(r, start)) + 1]
    BY <1>1, FetchLoop
  <1>4. end[0] = 0 /\ end[n] = fas /\ \A k \in 0 .. n : end[k] \in 0 .. fas
    BY <1>1, <1>2, PlacedInOrder DEF Placed
  <1> DEFINE P == {m \in Nat : m <= n => from[end[n - m]] = rest(n - m)}
  <1>5. 0 \in P
    <2>1. Ends(r, fas) = {} /\ fas \in 0 .. fas
      BY <1>1 DEF Ends
    <2>2. from[fas] = <<>>
      BY <1>3, <2>1
    <2>3. n - 0 = n /\ n - n = 0
      BY <1>1
    <2>4. rest(n) = <<>>
      BY <2>3
    <2> HIDE DEF rest, n
    <2> QED
      BY <1>4, <2>2, <2>3, <2>4
  <1>6. ASSUME NEW m \in P
        PROVE  m + 1 \in P
    <2> SUFFICES ASSUME m + 1 <= n
                 PROVE  from[end[n - (m + 1)]] = rest(n - (m + 1))
      <3> HIDE DEF rest, n
      <3> QED
        OBVIOUS
    <2> DEFINE k == n - m
    <2>1. k \in 1 .. n /\ n - (m + 1) = k - 1 /\ k - 1 \in 0 .. n /\ m <= n
      BY <1>1
    <2>2. from[end[k]] = rest(k)
      <3> HIDE DEF rest, n
      <3> QED
        BY <2>1
    <2> HIDE DEF k
    <2> DEFINE start == end[k - 1]
               ends == Ends(r, start)
    <2>3. ends # {} /\ Min(ends) + 1 = end[k] /\ StringAt(r, start) = Spaced(list[k])
      BY <1>2, <2>1, PlacedString
    <2>4. start \in 0 .. fas
      BY <1>4, <2>1
    <2>5. from[start] = IF ends = {} THEN <<>> ELSE <<StringAt(r, start)>> \o from[Min(ends) + 1]
      <3> HIDE DEF start
      <3> QED
        BY <1>3, <2>4
    <2>6. from[start] = <<Spaced(list[k])>> \o rest(k)
      BY <2>2, <2>3, <2>5
    <2>7. <<Spaced(list[k])>> \o rest(k) = rest(k - 1)
      <3> DEFINE S == Seq(Chars)
                 one == <<Spaced(list[k])>>
      <3>1. \A j \in 1 .. n : Spaced(list[j]) \in S
        BY <1>1, PlacedNGram
      <3>2. n - k \in Nat /\ n - (k - 1) = n - k + 1 /\ n - (k - 1) \in Nat
        BY <1>1, <2>1
      <3>3. /\ \A i \in 1 .. n - k : k + i \in 1 .. n
            /\ \A i \in 1 .. n - (k - 1) : (k - 1) + i \in 1 .. n
        BY <1>1, <2>1
      <3> HIDE DEF S
      <3>4. rest(k) \in Seq(S) /\ Len(rest(k)) = n - k
        <4>1. \A i \in 1 .. n - k : Spaced(list[k + i]) \in S
          BY <3>1, <3>3
        <4> HIDE DEF n
        <4> QED
          BY <3>2, <4>1
      <3>5. rest(k - 1) \in Seq(S) /\ Len(rest(k - 1)) = n - (k - 1)
        <4>1. \A i \in 1 .. n - (k - 1) : Spaced(list[(k - 1) + i]) \in S
          BY <3>1, <3>3
        <4> HIDE DEF n
        <4> QED
          BY <3>2, <4>1
      <3>6. one \in Seq(S) /\ Len(one) = 1 /\ one[1] = Spaced(list[k])
        BY <2>1, <3>1
      <3>7. /\ \A i \in 1 .. n - k : rest(k)[i] = Spaced(list[k + i])
            /\ \A i \in 1 .. n - (k - 1) : rest(k - 1)[i] = Spaced(list[(k - 1) + i])
        OBVIOUS
      <3> HIDE DEF rest, one
      <3>8. /\ one \o rest(k) \in Seq(S) /\ Len(one \o rest(k)) = 1 + (n - k)
            /\ \A i \in 1 .. 1 + (n - k) :
                  (one \o rest(k))[i] = IF i <= 1 THEN one[i] ELSE rest(k)[i - 1]
        <4> DEFINE s2 == rest(k)
        <4>1. s2 \in Seq(S) /\ Len(s2) = n - k
          BY <3>4
        <4> HIDE DEF s2, n
        <4>2. /\ one \o s2 \in Seq(S) /\ Len(one \o s2) = 1 + (n - k)
              /\ \A i \in 1 .. 1 + (n - k) : (one \o s2)[i] = IF i <= 1 THEN one[i] ELSE s2[i - 1]
          <5>1. /\ one \o s2 \in Seq(S) /\ Len(one \o s2) = Len(one) + Len(s2)
                /\ \A i \in 1 .. Len(one) + Len(s2) :
                      (one \o s2)[i] = IF i <= Len(one) THEN one[i] ELSE s2[i - Len(one)]
            BY <3>6, <4>1, ConcatProperties
          <5> QED
            BY <3>6, <4>1, <5>1
        <4> QED
          BY <4>2 DEF s2
      <3> HIDE DEF n
      <3>9. ASSUME NEW i \in 1 .. n - k + 1
            PROVE  (one \o rest(k))[i] = rest(k - 1)[i]
        <4>1. i \in 1 .. 1 + (n - k) /\ i \in 1 .. n - (k - 1)
          BY <1>1, <2>1, <3>2
        <4>2. CASE i = 1
          <5>1. (k - 1) + 1 = k
            BY <1>1, <2>1
          <5> QED
            BY <3>6, <3>7, <3>8, <4>1, <4>2, <5>1
        <4>3. CASE i # 1
          <5>1. ~(i <= 1) /\ i - 1 \in 1 .. n - k /\ k + (i - 1) = (k - 1) + i
            BY <1>1, <2>1, <3>2, <4>3
          <5> QED
            BY <3>7, <3>8, <4>1, <5>1
        <4> QED
          BY <4>2, <4>3
      <3>10. Len(one \o rest(k)) = n - k + 1 /\ Len(rest(k - 1)) = n - k + 1
        BY <3>2, <3>5, <3>8
      <3>11. one \o rest(k) = rest(k - 1)
        BY <3>5, <3>8, <3>9, <3>10, SeqEqual
      <3> QED
        BY <3>11 DEF one
    <2> HIDE DEF rest
    <2> QED
      BY <2>1, <2>6, <2>7
  <1>7. P = Nat
    <2>1. P \in SUBSET Nat
      OBVIOUS
    <2> HIDE DEF P
    <2> QED
      BY <1>5, <1>6, <2>1, Induction
  <1>8. from[end[0]] = rest(0)
    <2>1. n \in P /\ n - n = 0
      <3> HIDE DEF P
      <3> QED
        BY <1>1, <1>7
    <2> HIDE DEF rest
    <2>2. from[end[n - n]] = rest(n - n)
      BY <1>1, <2>1
    <2> QED
      BY <2>1, <2>2
  <1>9. rest(0) = SpacedOut(list)
    <2>1. DOMAIN list = 1 .. n /\ n - 0 = n /\ \A i \in 1 .. n : 0 + i = i
      BY <1>1
    <2> QED
      BY <2>1 DEF SpacedOut
  <1> QED
    BY <1>3, <1>4, <1>8, <1>9

\* What result_format does to the characters in front of the first available slot.
LEMMA FormatBuffer ==
  ASSUME NEW r \in Results
  PROVE  LET new == result_format(r)
             fas == r.first_available_slot
         IN  /\ new \in Results /\ new.first_available_slot = 0
             /\ 0 .. fas \subseteq DOMAIN new.output_buffer
             /\ \A i \in 0 .. fas - 1 :
                   new.output_buffer[i] = IF i < fas - 1 /\ r.output_buffer[i] = NUL
                                          THEN BAR ELSE r.output_buffer[i]
             /\ fas = 0 => /\ new.output_buffer[0] = r.output_buffer[0]
                           /\ new.output_buffer[1] = r.output_buffer[1]
  <1> DEFINE new == result_format(r)
             fas == r.first_available_slot
             room == Doubled(r)
  <1>1. PICK n \in Nat : IsBuffer(r, n)
    BY DEF Results
  <1>2. n > 1 /\ fas \in 0 .. n /\ r.output_buffer \in [0 .. n - 1 -> Chars]
    BY <1>1 DEF IsBuffer
  <1>3. PICK m \in Nat : /\ IsBuffer(room, m) /\ m >= n /\ fas < m
                         /\ \A i \in 0 .. n - 1 : room.output_buffer[i] = r.output_buffer[i]
    BY <1>1, DoubledEffect
  <1>4. m > 1 /\ room.output_buffer \in [0 .. m - 1 -> Chars]
        /\ DOMAIN room.output_buffer = 0 .. m - 1
    BY <1>3 DEF IsBuffer
  <1> DEFINE char(i) == CASE fas > 0 /\ i = fas -> NUL
                          [] i < fas - 1 /\ r.output_buffer[i] = NUL -> BAR
                          [] OTHER -> room.output_buffer[i]
             buffer == [i \in 0 .. m - 1 |-> char(i)]
  <1>5. new = [output_buffer |-> [i \in DOMAIN room.output_buffer |-> char(i)],
               first_available_slot |-> 0]
    BY Zenon DEF result_format
  <1>6. new = [output_buffer |-> buffer, first_available_slot |-> 0]
    <2> HIDE DEF char, room
    <2> QED
      BY <1>4, <1>5
  <1>7. ASSUME NEW i \in 0 .. m - 1
        PROVE  /\ char(i) \in Chars
               /\ i < fas - 1 /\ r.output_buffer[i] = NUL => char(i) = BAR
               /\ ~(fas > 0 /\ i = fas) /\ ~(i < fas - 1 /\ r.output_buffer[i] = NUL)
                     => char(i) = room.output_buffer[i]
    <2>1. room.output_buffer[i] \in Chars /\ NUL \in Chars /\ BAR \in Chars
      BY <1>4 DEF Chars
    <2>2. ~(i = fas /\ i < fas - 1)
      BY <1>2
    <2> HIDE DEF room
    <2> QED
      BY <2>1, <2>2
  <1> HIDE DEF char, room
  <1>8. buffer \in [0 .. m - 1 -> Chars] /\ \A i \in 0 .. m - 1 : buffer[i] = char(i)
    BY <1>7
  <1> HIDE DEF buffer
  <1>9. IsBuffer(new, m)
    BY <1>4, <1>6, <1>8 DEF IsBuffer
  <1>10. new \in Results /\ new.first_available_slot = 0
    BY <1>6, <1>9, ResultIsBuffer
  <1>11. ASSUME NEW i \in 0 .. fas - 1
         PROVE  new.output_buffer[i] = IF i < fas - 1 /\ r.output_buffer[i] = NUL
                                       THEN BAR ELSE r.output_buffer[i]
    <2>1. i \in 0 .. m - 1 /\ i \in 0 .. n - 1 /\ i # fas
      BY <1>2, <1>3
    <2>2. new.output_buffer[i] = char(i) /\ room.output_buffer[i] = r.output_buffer[i]
      BY <1>3, <1>6, <1>8, <2>1
    <2> QED
      BY <1>7, <2>1, <2>2
  <1>12. ASSUME fas = 0, NEW i \in 0 .. 1
         PROVE  new.output_buffer[i] = r.output_buffer[i]
    <2>1. i \in 0 .. m - 1 /\ i \in 0 .. n - 1 /\ ~(i < fas - 1) /\ ~(fas > 0)
      BY <1>2, <1>3, <1>4, <1>12
    <2>2. new.output_buffer[i] = char(i) /\ room.output_buffer[i] = r.output_buffer[i]
      BY <1>3, <1>6, <1>8, <2>1
    <2> QED
      BY <1>7, <2>1, <2>2
  <1>13. 0 .. fas \subseteq DOMAIN new.output_buffer
    <2>1. DOMAIN new.output_buffer = 0 .. m - 1
      BY <1>6, <1>8
    <2> QED
      BY <1>2, <1>3, <2>1
  <1>14. 0 \in 0 .. 1 /\ 1 \in 0 .. 1
    OBVIOUS
  <1> QED
    BY <1>10, <1>11, <1>12, <1>13, <1>14, Zenon

\* A string that ends at the first end of string.
LEMMA StringEnds ==
  ASSUME NEW r \in Results, NEW last \in Nat, last \in DOMAIN r.output_buffer,
         r.output_buffer[last] = NUL, \A i \in 0 .. last - 1 : r.output_buffer[i] # NUL
  PROVE  StringAt(r, 0) = [i \in 1 .. last |-> r.output_buffer[i - 1]]
  <1>1. PICK m \in Nat : IsBuffer(r, m)
    BY DEF Results
  <1>2. m > 1 /\ DOMAIN r.output_buffer = 0 .. m - 1 /\ Bufsize(r) = m
    BY <1>1, ResultIsBuffer
  <1> DEFINE S == {i \in DOMAIN r.output_buffer : i >= 0 /\ r.output_buffer[i] = NUL}
             S2 == S \union {Bufsize(r)}
  <1>3. last \in S2 /\ \A i \in S2 : i \in Nat /\ last <= i
    BY <1>2
  <1>4. S2 \in SUBSET Nat /\ S2 # {}
    BY <1>3
  <1>5. Min(S2) = last
    <2> HIDE DEF S2
    <2>1. Min(S2) \in S2 /\ Min(S2) <= last
      BY <1>3, <1>4, MinOfSet
    <2>2. Min(S2) \in Nat /\ last <= Min(S2)
      BY <1>3, <2>1, Zenon
    <2> QED
      BY <2>1, <2>2
  <1>6. StringAt(r, 0) = [i \in 1 .. Min(S2) - 0 |-> r.output_buffer[0 + i - 1]]
    BY DEF StringAt
  <1> HIDE DEF S2
  <1>7. Min(S2) - 0 = last /\ \A i \in 1 .. last : 0 + i - 1 = i - 1
    BY <1>5
  <1> QED
    BY <1>6, <1>7

\* The layout of n n-grams, one more in each round.
LEMMA LayoutLoop ==
  ASSUME NEW list \in Seq(NGram), list # <<>>
  PROVE  \E upTo :
            /\ Layout(list) = upTo[Len(list)]
            /\ \A n \in 1 .. Len(list) :
                  upTo[n] = IF n = 1 THEN Spaced(list[1])
                            ELSE upTo[n - 1] \o <<BAR>> \o Spaced(list[n])
  <1> DEFINE N == Len(list)
             loop(g) == [n \in 0 .. N |->
                            IF n = 0 THEN <<>>
                            ELSE IF n = 1 THEN Spaced(list[1])
                            ELSE g[n - 1] \o <<BAR>> \o Spaced(list[n])]
             upTo == CHOOSE g : g = loop(g)
             next(s, n) == IF n = 1 THEN Spaced(list[1]) ELSE s \o <<BAR>> \o Spaced(list[n])
             step == [p \in Seq(Chars) \X (1 .. N) |-> next(p[1], p[2])]
  <1>1. N \in Nat /\ N >= 1
    BY EmptySeq
  <1>2. ASSUME NEW s \in Seq(Chars), NEW n \in 1 .. N
        PROVE  next(s, n) \in Seq(Chars)
    <2>1. 1 \in 1 .. N
      BY <1>1
    <2>2. Spaced(list[n]) \in Seq(Chars) /\ Spaced(list[1]) \in Seq(Chars)
      BY <2>1, PlacedNGram
    <2>3. <<BAR>> \in Seq(Chars)
      BY DEF Chars
    <2>4. s \o <<BAR>> \in Seq(Chars)
      BY <2>3, ConcatProperties
    <2>5. s \o <<BAR>> \o Spaced(list[n]) \in Seq(Chars)
      BY <2>2, <2>4, ConcatProperties
    <2> QED
      BY <2>2, <2>5
  <1> HIDE DEF next
  <1>3. step \in [Seq(Chars) \X (1 .. N) -> Seq(Chars)]
    <2> SUFFICES ASSUME NEW p \in Seq(Chars) \X (1 .. N)
                 PROVE  next(p[1], p[2]) \in Seq(Chars)
      OBVIOUS
    <2>1. p[1] \in Seq(Chars) /\ p[2] \in 1 .. N
      OBVIOUS
    <2> QED
      BY <1>2, <2>1
  <1>4. PICK f \in [0 .. N -> Seq(Chars)] : Loop(f, N, <<>>, step)
    <2>1. <<>> \in Seq(Chars)
      OBVIOUS
    <2> HIDE DEF N, step
    <2> QED
      BY <1>1, <1>3, <2>1, Iteration
  <1>5. f = loop(f)
    <2>1. ASSUME NEW n \in 0 .. N, n # 0
          PROVE  step[<<f[n - 1], n>>] = next(f[n - 1], n)
      <3>1. n - 1 \in 0 .. N /\ n \in 1 .. N
        BY <1>1, <2>1
      <3>2. <<f[n - 1], n>> \in Seq(Chars) \X (1 .. N)
        BY <3>1
      <3> QED
        BY <3>2
    <2> HIDE DEF step, N
    <2>2. f = [n \in 0 .. N |-> IF n = 0 THEN <<>> ELSE next(f[n - 1], n)]
      BY <1>4, <2>1 DEF Loop
    <2> QED
      BY <2>2, Zenon DEF next
  <1>6. upTo = loop(upTo)
    <2> HIDE DEF loop
    <2> QED
      BY <1>5, Zenon
  <1>7. Layout(list) = upTo[N]
    BY Zenon DEF Layout
  <1> HIDE DEF upTo
  <1>8. \A n \in 1 .. N : upTo[n] = IF n = 1 THEN Spaced(list[1])
                                    ELSE upTo[n - 1] \o <<BAR>> \o Spaced(list[n])
    <2>1. \A n \in 1 .. N : n \in 0 .. N /\ n # 0
      BY <1>1
    <2> HIDE DEF N
    <2> QED
      BY <1>6, <2>1
  <1> QED
    BY <1>7, <1>8

\* What result_format leaves is the line of the query, and the result is empty again.
LEMMA FormattedIs ==
  ASSUME NEW r, NEW list, IsCompleted(r, list)
  PROVE  /\ HasNGrams(result_format(r), <<>>)
         /\ StringAt(result_format(r), 0) = Layout(list)
  <1> DEFINE new == result_format(r)
             fas == r.first_available_slot
             N == Len(list)
  <1>1. /\ HasNGrams(r, list) /\ r \in Results /\ list \in Seq(NGram) /\ N \in Nat /\ fas \in Nat
        /\ list = <<>> <=> fas = 0
        /\ list # <<>> => r.output_buffer[fas - 1] = NUL
        /\ list = <<>> => r.output_buffer[0] = NONE /\ r.output_buffer[1] = NUL
    BY NoNGrams DEF IsCompleted, HasNGrams
  <1>2. /\ new \in Results /\ new.first_available_slot = 0
        /\ 0 .. fas \subseteq DOMAIN new.output_buffer
        /\ \A i \in 0 .. fas - 1 :
              new.output_buffer[i] = IF i < fas - 1 /\ r.output_buffer[i] = NUL
                                     THEN BAR ELSE r.output_buffer[i]
        /\ fas = 0 => /\ new.output_buffer[0] = r.output_buffer[0]
                      /\ new.output_buffer[1] = r.output_buffer[1]
    BY <1>1, FormatBuffer
  <1> HIDE DEF new
  <1>3. HasNGrams(new, <<>>)
    BY <1>2, ResultBegins
  <1>4. CASE list = <<>>
    <2>1. new.output_buffer[0] = NONE /\ new.output_buffer[1] = NUL
      BY <1>1, <1>2, <1>4
    <2>2. 1 \in DOMAIN new.output_buffer
      <3>1. PICK m \in Nat : IsBuffer(new, m)
        BY <1>2 DEF Results
      <3> QED
        BY <3>1, ResultIsBuffer
    <2>3. \A i \in 0 .. 1 - 1 : new.output_buffer[i] # NUL
      BY <2>1 DEF NONE, NUL
    <2>4. StringAt(new, 0) = [i \in 1 .. 1 |-> new.output_buffer[i - 1]]
      BY <1>2, <2>1, <2>2, <2>3, StringEnds
    <2>5. [i \in 1 .. 1 |-> new.output_buffer[i - 1]] = <<NONE>>
      <3>1. \A i \in 1 .. 1 : i = 1 /\ i - 1 = 0
        OBVIOUS
      <3> QED
        BY <2>1, <3>1
    <2>6. Layout(list) = <<NONE>>
      BY <1>4, Zenon DEF Layout
    <2> QED
      BY <1>3, <2>4, <2>5, <2>6 DEF new
  <1>5. CASE list # <<>>
    <2>1. PICK end : Placed(r.output_buffer, fas, list, end)
      BY <1>1 DEF HasNGrams
    <2>2. /\ N >= 1 /\ end[0] = 0 /\ end[N] = fas
          /\ \A k \in 0 .. N : end[k] \in 0 .. fas
          /\ \A k \in 1 .. N : end[k - 1] + 2 <= end[k]
          /\ \A k \in 1 .. N - 1 : end[k] + 2 <= fas
      <3>1. N >= 1
        BY <1>1, <1>5, EmptySeq
      <3>2. end[0] = 0 /\ end[N] = fas
        BY <2>1 DEF Placed
      <3> QED
        BY <1>1, <2>1, <3>1, <3>2, PlacedInOrder
    <2>3. /\ \A i \in 0 .. fas - 2 : new.output_buffer[i] # NUL
          /\ new.output_buffer[fas - 1] = NUL
          /\ \A i \in 0 .. fas - 2 : r.output_buffer[i] # NUL =>
                                        new.output_buffer[i] = r.output_buffer[i]
          /\ \A i \in 0 .. fas - 2 : r.output_buffer[i] = NUL => new.output_buffer[i] = BAR
      <3>1. /\ \A i \in 0 .. fas - 2 : i \in 0 .. fas - 1 /\ i < fas - 1
            /\ fas - 1 \in 0 .. fas - 1 /\ ~(fas - 1 < fas - 1)
        BY <1>1, <1>5
      <3>2. BAR # NUL
        BY DEF BAR, NUL
      <3> QED
        BY <1>1, <1>2, <1>5, <3>1, <3>2
    <2>4. StringAt(new, 0) = [i \in 1 .. fas - 1 |-> new.output_buffer[i - 1]]
      <3>1. fas - 1 \in Nat /\ fas - 1 \in 0 .. fas /\ fas - 1 - 1 = fas - 2
        BY <1>1, <1>5
      <3> QED
        BY <1>2, <2>3, <3>1, StringEnds
    <2>5. PICK upTo : /\ Layout(list) = upTo[N]
                      /\ \A n \in 1 .. N :
                            upTo[n] = IF n = 1 THEN Spaced(list[1])
                                      ELSE upTo[n - 1] \o <<BAR>> \o Spaced(list[n])
      BY <1>1, <1>5, LayoutLoop
    <2> DEFINE out(k) == [j \in 1 .. end[k] - 1 |-> new.output_buffer[j - 1]]
    <2>6. ASSUME NEW k \in 1 .. N
          PROVE  /\ end[k - 1] \in 0 .. fas /\ end[k] \in 0 .. fas
                 /\ end[k] = end[k - 1] + Len(Spaced(list[k])) + 1
                 /\ Spaced(list[k]) \in Seq(Chars)
                 /\ Len(Spaced(list[k])) \in Nat /\ Len(Spaced(list[k])) >= 1
                 /\ \A i \in 1 .. Len(Spaced(list[k])) :
                       new.output_buffer[end[k - 1] + i - 1] = Spaced(list[k])[i]
      <3>1. k \in 0 .. N /\ k - 1 \in 0 .. N
        BY <1>1
      <3>2. end[k - 1] \in 0 .. fas /\ end[k] \in 0 .. fas
        BY <2>2, <3>1
      <3>3. /\ Len(list[k]) \in Nat /\ Len(list[k]) >= 1
            /\ Spaced(list[k]) \in Seq(Chars)
            /\ Len(Spaced(list[k])) = 2 * Len(list[k]) - 1
            /\ \A i \in 1 .. 2 * Len(list[k]) - 1 : Spaced(list[k])[i] # NUL
        BY <1>1, PlacedNGram
      <3>4. /\ end[k] = end[k - 1] + 2 * Len(list[k])
            /\ \A i \in 1 .. 2 * Len(list[k]) - 1 :
                  r.output_buffer[end[k - 1] + i - 1] = Spaced(list[k])[i]
        BY <2>1 DEF Placed
      <3> DEFINE n == Len(Spaced(list[k]))
      <3>5. n \in Nat /\ n >= 1 /\ end[k] = end[k - 1] + n + 1
        BY <3>2, <3>3, <3>4
      <3>6. /\ \A i \in 1 .. n : r.output_buffer[end[k - 1] + i - 1] = Spaced(list[k])[i]
            /\ \A i \in 1 .. n : Spaced(list[k])[i] # NUL
        BY <3>3, <3>4
      <3> DEFINE a == end[k - 1]
      <3>7. a \in Nat /\ a + n + 1 <= fas
        BY <3>2, <3>5
      <3> HIDE DEF n, a
      <3>8. \A i \in 1 .. n : a + i - 1 \in 0 .. fas - 2
        BY <1>1, <3>5, <3>7
      <3>9. \A i \in 1 .. n : new.output_buffer[a + i - 1] = Spaced(list[k])[i]
        <4>1. \A i \in 1 .. n : r.output_buffer[a + i - 1] = Spaced(list[k])[i]
          BY <3>6 DEF a
        <4> QED
          BY <2>3, <3>6, <3>8, <4>1
      <3> QED
        BY <3>2, <3>3, <3>5, <3>9 DEF n, a
    <2> DEFINE P == {m \in Nat : m + 1 <= N => upTo[m + 1] = out(m + 1)}
    <2>7. 0 \in P
      <3>1. 1 \in 1 .. N /\ 1 - 1 = 0 /\ 0 + 1 = 1
        BY <1>1, <2>2
      <3> DEFINE s == Spaced(list[1])
                 n == Len(s)
      <3>2. /\ end[1] = end[0] + n + 1 /\ n \in Nat /\ s \in Seq(Chars)
            /\ \A i \in 1 .. n : new.output_buffer[end[0] + i - 1] = s[i]
        BY <2>6, <3>1
      <3>3. upTo[1] = s
        BY <2>5, <3>1
      <3> HIDE DEF s
      <3>4. s = [j \in 1 .. n |-> s[j]]
        BY <3>2
      <3>5. end[1] - 1 = n
        BY <2>2, <3>2
      <3>6. \A i \in 1 .. n : new.output_buffer[i - 1] = s[i]
        <4>1. \A i \in 1 .. n : 0 + i - 1 = i - 1
          BY <3>2
        <4> QED
          BY <2>2, <3>2, <4>1
      <3> HIDE DEF n
      <3>7. out(1) = s
        BY <3>4, <3>5, <3>6
      <3> HIDE DEF out
      <3> QED
        BY <3>1, <3>3, <3>7
    <2>8. ASSUME NEW m \in P
          PROVE  m + 1 \in P
      <3> SUFFICES ASSUME m + 1 + 1 <= N
                   PROVE  upTo[m + 1 + 1] = out(m + 1 + 1)
        <4> HIDE DEF out, N
        <4> QED
          OBVIOUS
      <3> DEFINE k == m + 1 + 1
                 s == Spaced(list[k])
                 n == Len(s)
                 a == end[k - 1]
      <3>1. k \in 1 .. N /\ k # 1 /\ k - 1 = m + 1 /\ m + 1 <= N /\ k - 1 \in 1 .. N - 1
        BY <1>1
      <3>2. upTo[m + 1] = out(m + 1)
        <4> HIDE DEF out, N
        <4> QED
          BY <3>1
      <3>3. upTo[k - 1] = out(k - 1)
        BY <3>1, <3>2
      <3>4. upTo[k] = upTo[k - 1] \o <<BAR>> \o s
        <4> HIDE DEF k
        <4> QED
          BY <2>5, <3>1
      <3> HIDE DEF k
      <3>5. /\ a \in Nat /\ a \in 0 .. fas /\ end[k] \in Nat /\ end[k] = a + n + 1
            /\ s \in Seq(Chars) /\ n \in Nat
            /\ \A i \in 1 .. n : new.output_buffer[a + i - 1] = s[i]
        BY <2>6, <3>1
      <3>6. a - 1 \in 0 .. fas - 2 /\ r.output_buffer[a - 1] = NUL
        <4>1. a + 2 <= fas
          BY <2>2, <3>1
        <4>2. k - 1 \in 1 .. N
          BY <3>1
        <4>3. r.output_buffer[a - 1] = NUL
          BY <2>1, <4>2 DEF Placed
        <4>4. a # 0
          <5>1. end[(k - 1) - 1] + 2 <= end[k - 1] /\ end[(k - 1) - 1] \in 0 .. fas
            BY <2>2, <2>6, <4>2
          <5> QED
            BY <3>5, <5>1
        <4> HIDE DEF a
        <4> QED
          BY <1>1, <3>5, <4>1, <4>3, <4>4
      <3>7. new.output_buffer[a - 1] = BAR
        BY <2>3, <3>6
      <3>8. out(k - 1) = [j \in 1 .. a - 1 |-> new.output_buffer[j - 1]]
        OBVIOUS
      <3>9. \A j \in 1 .. a - 1 : new.output_buffer[j - 1] \in Chars
        <4>1. \A j \in 1 .. a - 1 : j - 1 \in DOMAIN new.output_buffer
          <5> HIDE DEF a
          <5>1. a \in 0 .. fas
            BY <3>5
          <5>2. \A j \in 1 .. a - 1 : j - 1 \in 0 .. fas
            BY <1>1, <5>1
          <5> QED
            BY <1>2, <5>2
        <4>2. PICK z \in Nat : IsBuffer(new, z)
          BY <1>2 DEF Results
        <4>3. new.output_buffer \in [0 .. z - 1 -> Chars]
          BY <4>2 DEF IsBuffer
        <4> QED
          BY <4>1, <4>3
      <3> HIDE DEF a
      <3>10. a - 1 \in Nat
        BY <3>6
      <3>11. out(k - 1) \in Seq(Chars) /\ Len(out(k - 1)) = a - 1
             /\ \A j \in 1 .. a - 1 : out(k - 1)[j] = new.output_buffer[j - 1]
        <4> HIDE DEF out
        <4> QED
          BY <3>8, <3>9, <3>10
      <3> HIDE DEF out
      <3> DEFINE front == out(k - 1) \o <<BAR>>
      <3>12. /\ front \in Seq(Chars) /\ Len(front) = a
             /\ \A j \in 1 .. a : front[j] = IF j <= a - 1 THEN out(k - 1)[j] ELSE BAR
        <4>1. <<BAR>> \in Seq(Chars) /\ Len(<<BAR>>) = 1 /\ <<BAR>>[1] = BAR
          BY DEF Chars
        <4>2. /\ front \in Seq(Chars)
              /\ Len(front) = Len(out(k - 1)) + Len(<<BAR>>)
              /\ \A j \in 1 .. Len(out(k - 1)) + Len(<<BAR>>) :
                    front[j] = IF j <= Len(out(k - 1)) THEN out(k - 1)[j]
                               ELSE <<BAR>>[j - Len(out(k - 1))]
          BY <3>11, <4>1, ConcatProperties
        <4>3. Len(out(k - 1)) + Len(<<BAR>>) = a
          BY <3>5, <3>11, <4>1
        <4>4. \A j \in 1 .. a : ~(j <= a - 1) => j - (a - 1) = 1
          BY <3>5
        <4> HIDE DEF front
        <4> QED
          BY <3>11, <4>1, <4>2, <4>3, <4>4
      <3> HIDE DEF front
      <3>13. \A j \in 1 .. a : front[j] = new.output_buffer[j - 1]
        <4>1. \A j \in 1 .. a : ~(j <= a - 1) => j - 1 = a - 1
          BY <3>5
        <4>2. \A j \in 1 .. a : j <= a - 1 => j \in 1 .. a - 1
          BY <3>5
        <4> QED
          BY <3>7, <3>11, <3>12, <4>1, <4>2
      <3> DEFINE all == front \o s
      <3>14. /\ all \in Seq(Chars) /\ Len(all) = a + n
             /\ \A j \in 1 .. a + n : all[j] = IF j <= a THEN front[j] ELSE s[j - a]
        <4> HIDE DEF s
        <4>1. /\ all \in Seq(Chars) /\ Len(all) = Len(front) + Len(s)
              /\ \A j \in 1 .. Len(front) + Len(s) :
                    all[j] = IF j <= Len(front) THEN front[j] ELSE s[j - Len(front)]
          BY <3>5, <3>12, ConcatProperties
        <4> HIDE DEF all
        <4> QED
          BY <3>12, <4>1
      <3> HIDE DEF all
      <3>15. ASSUME NEW j \in 1 .. a + n
             PROVE  all[j] = new.output_buffer[j - 1]
        <4> HIDE DEF n
        <4>1. CASE j <= a
          <5>1. j \in 1 .. a
            BY <3>5, <4>1
          <5> QED
            BY <3>13, <3>14, <4>1, <5>1
        <4>2. CASE ~(j <= a)
          <5>1. j - a \in 1 .. n /\ a + (j - a) - 1 = j - 1
            BY <3>5, <4>2
          <5> QED
            BY <3>5, <3>14, <4>2, <5>1
        <4> QED
          BY <4>1, <4>2
      <3>16. upTo[k] = all
        BY <3>3, <3>4 DEF all, front
      <3>17. end[k] - 1 = a + n
        <4> HIDE DEF n
        <4> QED
          BY <3>5
      <3>18. out(k) = [j \in 1 .. a + n |-> new.output_buffer[j - 1]]
        BY <3>17 DEF out
      <3>19. all = [j \in 1 .. a + n |-> all[j]]
        <4> HIDE DEF n
        <4> QED
          BY <3>14
      <3>20. [j \in 1 .. a + n |-> all[j]] = [j \in 1 .. a + n |-> new.output_buffer[j - 1]]
        BY <3>15
      <3>21. upTo[k] = out(k)
        BY <3>16, <3>18, <3>19, <3>20
      <3> QED
        BY <3>21 DEF k
    <2>9. P = Nat
      <3>1. P \in SUBSET Nat
        OBVIOUS
      <3> HIDE DEF P
      <3> QED
        BY <2>7, <2>8, <3>1, Induction
    <2>10. upTo[N] = out(N)
      <3>1. N - 1 \in Nat /\ N - 1 + 1 = N /\ N <= N
        BY <1>1, <2>2
      <3>2. N - 1 \in P
        <4> HIDE DEF P
        <4> QED
          BY <2>9, <3>1
      <3> HIDE DEF out, N
      <3>3. upTo[N - 1 + 1] = out(N - 1 + 1)
        BY <3>1, <3>2
      <3> QED
        BY <3>1, <3>3
    <2>11. out(N) = StringAt(new, 0)
      BY <2>2, <2>4
    <2> HIDE DEF out
    <2> QED
      BY <1>3, <2>5, <2>10, <2>11 DEF new
  <1> QED
    BY <1>4, <1>5

---------------------------------------------------------------------------
(* pointer_set.c.                                                           *)

PointerSetHas(set, ptrs) ==
    /\ set.Array \in Seq(Int) /\ Increasing(set.Array) /\ Range(set.Array) = ptrs
    /\ set = [Array |-> set.Array, Size |-> set.Size]

\* pointer_set_init.
LEMMA PointerSetEmpty ==
  ASSUME NEW size
  PROVE  PointerSetHas([Array |-> <<>>, Size |-> size], {})
  <1>1. <<>> \in Seq(Int) /\ DOMAIN <<>> = {}
    OBVIOUS
  <1>2. Increasing(<<>>) /\ Range(<<>>) = {}
    BY <1>1 DEF Increasing, Range
  <1> QED
    BY <1>1, <1>2 DEF PointerSetHas

\* ps_reuse forgets every address.
LEMMA PointerSetReuse ==
  ASSUME NEW set, NEW ptrs, PointerSetHas(set, ptrs)
  PROVE  PointerSetHas(ps_reuse(set), {})
  <1>1. ps_reuse(set) = [Array |-> <<>>, Size |-> set.Size]
    BY DEF ps_reuse, PointerSetHas
  <1> QED
    BY <1>1, PointerSetEmpty

\* ps_append says whether the address is new, and keeps the array sorted.
LEMMA PointerSetAppend ==
  ASSUME NEW set, NEW ptrs, PointerSetHas(set, ptrs), NEW ptr \in Int
  PROVE  /\ ps_append(set, ptr).unique \in BOOLEAN
         /\ ps_append(set, ptr).unique <=> ptr \notin ptrs
         /\ PointerSetHas(ps_append(set, ptr).filter, ptrs \union {ptr})
  <1> DEFINE arr == set.Array
             new == ps_append(set, ptr)
             more == InsertAtIndex(arr, Locate(arr, ptr), ptr)
             size == IF set.Size = Len(arr) THEN 2 * set.Size ELSE set.Size
  <1>1. arr \in Seq(Int) /\ Increasing(arr) /\ Range(arr) = ptrs
    BY DEF PointerSetHas
  <1>2. Holds(arr, ptr) <=> ptr \in ptrs
    BY <1>1, HoldsIffPresent
  <1>3. CASE ptr \in ptrs
    <2>1. new = [filter |-> set, unique |-> FALSE]
      BY <1>2, <1>3 DEF ps_append, Answer
    <2>2. ptrs \union {ptr} = ptrs
      BY <1>3
    <2> QED
      BY <1>3, <2>1, <2>2
  <1>4. CASE ptr \notin ptrs
    <2>1. new = [filter |-> [Array |-> more, Size |-> size], unique |-> TRUE]
      BY <1>2, <1>4 DEF ps_append, Answer
    <2>2. more \in Seq(Int) /\ Increasing(more) /\ Range(more) = ptrs \union {ptr}
      BY <1>1, <1>4, InsertKeepsSorted
    <2> HIDE DEF more, size
    <2> QED
      BY <1>4, <2>1, <2>2 DEF PointerSetHas
  <1> QED
    BY <1>3, <1>4

---------------------------------------------------------------------------
(* hash_pointer_set.c.                                                      *)

\* There is a bucket for every hash value.
LEMMA SizeOfTable ==
  PsetSize \in Nat \ {0}
  <1> DEFINE N == FILTER_INIT_SIZE
             V == Nat \ {0}
             next(s) == IF s < N THEN 2 * s ELSE s
             loop(g) == [n \in 0 .. N |->
                            IF n = 0 THEN 1
                            ELSE IF g[n - 1] < N THEN 2 * g[n - 1] ELSE g[n - 1]]
             step == [p \in V \X (1 .. N) |-> next(p[1])]
             size == CHOOSE g : g = loop(g)
  <1>1. N \in Nat
    BY FilterSizes
  <1>2. step \in [V \X (1 .. N) -> V]
    OBVIOUS
  <1>3. 1 \in V
    OBVIOUS
  <1>4. PICK f \in [0 .. N -> V] : Loop(f, N, 1, step)
    <2> HIDE DEF N, V, step
    <2> QED
      BY <1>1, <1>2, <1>3, Iteration
  <1>5. f = loop(f)
    <2>1. ASSUME NEW n \in 0 .. N, n # 0
          PROVE  step[<<f[n - 1], n>>] = next(f[n - 1])
      <3>1. n - 1 \in 0 .. N /\ n \in 1 .. N
        BY <1>1, <2>1
      <3>2. <<f[n - 1], n>> \in V \X (1 .. N)
        BY <3>1
      <3> QED
        BY <3>2
    <2> HIDE DEF step, N, next
    <2>2. f = [n \in 0 .. N |-> IF n = 0 THEN 1 ELSE next(f[n - 1])]
      BY <1>4, <2>1 DEF Loop
    <2> QED
      BY <2>2, Zenon DEF next
  <1>6. size = loop(size)
    <2> HIDE DEF loop
    <2> QED
      BY <1>5, Zenon
  <1>7. PsetSize = size[N]
    BY Zenon DEF PsetSize
  <1> HIDE DEF size
  <1>8. size[0] = 1 /\ \A n \in 1 .. N : size[n] = next(size[n - 1])
    <2>1. 0 \in 0 .. N /\ \A n \in 1 .. N : n \in 0 .. N /\ n # 0
      BY <1>1
    <2> HIDE DEF N
    <2> QED
      BY <1>6, <2>1
  <1> DEFINE P == {n \in Nat : n <= N => size[n] \in V}
  <1>9. 0 \in P
    BY <1>8
  <1>10. ASSUME NEW n \in P
         PROVE  n + 1 \in P
    <2> SUFFICES ASSUME n + 1 <= N
                 PROVE  size[n + 1] \in V
      OBVIOUS
    <2>1. n + 1 \in 1 .. N /\ n + 1 - 1 = n /\ n <= N
      BY <1>1
    <2>2. size[n] \in V /\ size[n + 1] = next(size[n])
      BY <1>8, <2>1
    <2> QED
      BY <1>1, <2>2
  <1>11. P = Nat
    <2>1. P \in SUBSET Nat
      OBVIOUS
    <2> HIDE DEF P
    <2> QED
      BY <1>9, <1>10, <2>1, Induction
  <1>12. N \in P /\ N <= N
    <2> HIDE DEF P
    <2> QED
      BY <1>1, <1>11
  <1> QED
    BY <1>7, <1>12

HashSetHas(table, ptrs) ==
    /\ DOMAIN table = 0 .. PsetSize - 1
    /\ table = [res \in DOMAIN table |-> table[res]]
    /\ \A res \in DOMAIN table :
          PointerSetHas(table[res], {ptr \in ptrs : Avalanche[ptr] % PsetSize = res})

\* hash_pset_init, and hash_pset_reuse whatever the table holds.
LEMMA HashSetEmpty ==
  /\ HashSetHas(hash_pset_init, {})
  /\ \A table, ptrs : HashSetHas(table, ptrs) => HashSetHas(hash_pset_reuse(table), {})
  <1>1. \A res : {ptr \in {} : Avalanche[ptr] % PsetSize = res} = {}
    OBVIOUS
  <1>2. HashSetHas(hash_pset_init, {})
    <2>1. PointerSetHas(pointer_set_init(PSET_INIT), {})
      BY PointerSetEmpty DEF pointer_set_init
    <2> QED
      BY <1>1, <2>1 DEF HashSetHas, hash_pset_init
  <1>3. ASSUME NEW table, NEW ptrs, HashSetHas(table, ptrs)
        PROVE  HashSetHas(hash_pset_reuse(table), {})
    <2>1. \A res \in DOMAIN table : PointerSetHas(ps_reuse(table[res]), {})
      BY <1>3, PointerSetReuse DEF HashSetHas
    <2> DEFINE new == hash_pset_reuse(table)
    <2>2. /\ new = [res \in DOMAIN table |-> ps_reuse(table[res])]
          /\ DOMAIN new = DOMAIN table
          /\ \A res \in DOMAIN table : new[res] = ps_reuse(table[res])
      BY DEF hash_pset_reuse
    <2> HIDE DEF new
    <2>3. new = [res \in DOMAIN new |-> new[res]]
      BY <2>2
    <2>4. DOMAIN new = 0 .. PsetSize - 1
      BY <1>3, <2>2 DEF HashSetHas
    <2>5. \A res \in DOMAIN new :
             PointerSetHas(new[res], {ptr \in {} : Avalanche[ptr] % PsetSize = res})
      BY <1>1, <2>1, <2>2
    <2> QED
      BY <2>3, <2>4, <2>5, Zenon DEF HashSetHas, new
  <1> QED
    BY <1>2, <1>3

\* hash_pset_append says whether the address is new.
LEMMA HashSetAppend ==
  ASSUME NEW table, NEW ptrs, HashSetHas(table, ptrs), NEW ptr \in Int, Avalanche[ptr] \in Nat
  PROVE  /\ hash_pset_append(table, ptr).unique \in BOOLEAN
         /\ hash_pset_append(table, ptr).unique <=> ptr \notin ptrs
         /\ HashSetHas(hash_pset_append(table, ptr).filter, ptrs \union {ptr})
  <1> DEFINE res == Avalanche[ptr] % PsetSize
             appended == ps_append(table[res], ptr)
             new == [table EXCEPT ![res] = appended.filter]
             at(set, r) == {p \in set : Avalanche[p] % PsetSize = r}
  <1>1. hash_pset_append(table, ptr) = [filter |-> new, unique |-> appended.unique]
    BY DEF hash_pset_append, Answer
  <1>2. res \in DOMAIN table
    <2>1. PsetSize \in Nat \ {0}
      BY SizeOfTable
    <2>2. res \in 0 .. PsetSize - 1
      BY <2>1, DivMod
    <2> QED
      BY <2>2 DEF HashSetHas
  <1>3. /\ table = [r \in DOMAIN table |-> table[r]]
        /\ \A r \in DOMAIN table : PointerSetHas(table[r], at(ptrs, r))
    BY DEF HashSetHas
  <1>4. /\ appended.unique \in BOOLEAN /\ (appended.unique <=> ptr \notin at(ptrs, res))
        /\ PointerSetHas(appended.filter, at(ptrs, res) \union {ptr})
    <2> HIDE DEF at, res
    <2> QED
      BY <1>2, <1>3, PointerSetAppend
  <1>5. ptr \in at(ptrs, res) <=> ptr \in ptrs
    OBVIOUS
  <1> HIDE DEF appended
  <1>6. /\ DOMAIN new = DOMAIN table /\ new[res] = appended.filter
        /\ \A r \in DOMAIN table : r # res => new[r] = table[r]
        /\ new = [r \in DOMAIN new |-> new[r]]
    <2> HIDE DEF res
    <2> QED
      BY <1>2, <1>3
  <1> HIDE DEF new
  <1>7. at(ptrs, res) \union {ptr} = at(ptrs \union {ptr}, res)
    OBVIOUS
  <1>8. \A r : r # res => at(ptrs, r) = at(ptrs \union {ptr}, r)
    OBVIOUS
  <1>9. \A r \in DOMAIN new : PointerSetHas(new[r], at(ptrs \union {ptr}, r))
    <2> HIDE DEF at, res
    <2> QED
      BY <1>3, <1>4, <1>6, <1>7, <1>8
  <1>10. DOMAIN new = 0 .. PsetSize - 1
    BY <1>6 DEF HashSetHas
  <1>11. HashSetHas(new, ptrs \union {ptr})
    BY <1>6, <1>9, <1>10 DEF HashSetHas
  <1>12. /\ hash_pset_append(table, ptr).unique = appended.unique
         /\ hash_pset_append(table, ptr).filter = new
    BY <1>1
  <1>13. appended.unique \in BOOLEAN /\ (appended.unique <=> ptr \notin ptrs)
    <2> HIDE DEF at
    <2> QED
      BY <1>4, <1>5
  <1> QED
    BY <1>11, <1>12, <1>13, Zenon

---------------------------------------------------------------------------
(* bloom_filter.c.                                                          *)

BitsOf(ptrs) == UNION {Bits[ptr] : ptr \in ptrs}

\* A row of n filters: the addresses that were new have set all the bits there are, the
\* bits of every address that was asked are in one filter, and the filters behind the one
\* in use are clear.
IsRow(filter, n, found, asked) ==
    /\ n \in Nat \ {0}
    /\ filter = [arr |-> filter.arr, in_use |-> filter.in_use]
    /\ filter.arr \in [0 .. n - 1 -> [bit_vector : SUBSET BitsOf(found), inserted : Nat]]
    /\ filter.in_use \in 0 .. n - 1
    /\ \A i \in filter.in_use + 1 .. n - 1 : filter.arr[i] = bf_init
    /\ \A ptr \in asked : \E i \in 0 .. filter.in_use : Bits[ptr] \subseteq filter.arr[i].bit_vector

BloomHas(filter, found, asked) == \E n \in Nat : IsRow(filter, n, found, asked)

\* f_reuse clears every filter that has been written to.
LEMMA BloomClear ==
  ASSUME NEW n \in Nat \ {0}
  PROVE  BloomHas([arr |-> [i \in 0 .. n - 1 |-> bf_init], in_use |-> 0], {}, {})
  <1> DEFINE row == [arr |-> [i \in 0 .. n - 1 |-> bf_init], in_use |-> 0]
  <1>1. bf_init \in [bit_vector : SUBSET BitsOf({}), inserted : Nat]
    BY DEF bf_init
  <1>2. /\ row.in_use = 0 /\ 0 \in 0 .. n - 1
        /\ row.arr \in [0 .. n - 1 -> [bit_vector : SUBSET BitsOf({}), inserted : Nat]]
        /\ \A i \in 0 .. n - 1 : row.arr[i] = bf_init
        /\ row = [arr |-> row.arr, in_use |-> row.in_use]
    BY <1>1
  <1> HIDE DEF row
  <1>3. \A i \in row.in_use + 1 .. n - 1 : row.arr[i] = bf_init
    BY <1>2
  <1>4. IsRow(row, n, {}, {})
    BY <1>2, <1>3 DEF IsRow
  <1> QED
    BY <1>4 DEF BloomHas, row

\* filter_init has set no bit.
LEMMA BloomEmpty ==
  /\ BloomHas(filter_init, {}, {})
  /\ \A filter, found, asked :
        BloomHas(filter, found, asked) => BloomHas(f_reuse(filter), {}, {})
  <1>1. BloomHas(filter_init, {}, {})
    <2>1. FILTER_INIT_SIZE \div CAPACITY \in Nat \ {0}
      <3> DEFINE a == FILTER_INIT_SIZE
                 c == CAPACITY
                 quotient == a \div c
                 rest == a % c
      <3>1. a \in Nat /\ c \in Nat \ {0} /\ c <= a
        BY FilterSizes
      <3>2. quotient \in Nat /\ rest \in 0 .. c - 1 /\ a = quotient * c + rest
        BY <3>1, DivMod
      <3> HIDE DEF a, c, quotient, rest
      <3>3. quotient # 0
        BY <3>1, <3>2
      <3> USE DEF a, c, quotient
      <3> QED
        BY <3>2, <3>3
    <2> QED
      BY <2>1, BloomClear DEF filter_init
  <1>2. ASSUME NEW filter, NEW found, NEW asked, BloomHas(filter, found, asked)
        PROVE  BloomHas(f_reuse(filter), {}, {})
    <2>1. PICK n \in Nat : IsRow(filter, n, found, asked)
      BY <1>2 DEF BloomHas
    <2>2. /\ n \in Nat \ {0} /\ DOMAIN filter.arr = 0 .. n - 1
          /\ filter.in_use \in 0 .. n - 1
          /\ \A i \in filter.in_use + 1 .. n - 1 : filter.arr[i] = bf_init
      BY <2>1 DEF IsRow
    <2>3. \A i \in 0 .. n - 1 : (IF i <= filter.in_use THEN bf_init ELSE filter.arr[i]) = bf_init
      BY <2>2
    <2>4. f_reuse(filter) = [arr |-> [i \in 0 .. n - 1 |-> bf_init], in_use |-> 0]
      BY <2>2, <2>3 DEF f_reuse
    <2> QED
      BY <2>2, <2>4, BloomClear
  <1> QED
    BY <1>1, <1>2

\* A full filter is left for the next one, which is clear.
LEMMA BloomRoom ==
  ASSUME NEW filter, NEW found, NEW asked, BloomHas(filter, found, asked)
  PROVE  BloomHas(WithRoom(filter), found, asked)
  <1>1. PICK n \in Nat : IsRow(filter, n, found, asked)
    BY DEF BloomHas
  <1> DEFINE arr == filter.arr
             next == filter.in_use + 1
             R == [bit_vector : SUBSET BitsOf(found), inserted : Nat]
             more == [i \in 0 .. 2 * n - 1 |-> IF i < n THEN arr[i] ELSE bf_init]
  <1>2. /\ n \in Nat \ {0} /\ arr \in [0 .. n - 1 -> R] /\ filter.in_use \in 0 .. n - 1
        /\ \A i \in next .. n - 1 : arr[i] = bf_init
        /\ \A ptr \in asked : \E i \in 0 .. filter.in_use : Bits[ptr] \subseteq arr[i].bit_vector
        /\ DOMAIN arr = 0 .. n - 1
    BY <1>1 DEF IsRow
  <1>3. Cardinality(DOMAIN arr) = n
    BY <1>2, FS_Interval
  <1>4. bf_init \in R
    BY DEF bf_init
  <1>5. CASE ~bf_full(arr[filter.in_use])
    <2>1. WithRoom(filter) = filter
      BY <1>5 DEF WithRoom
    <2> QED
      BY <2>1
  <1>6. CASE bf_full(arr[filter.in_use]) /\ next < n
    <2>1. WithRoom(filter) = [arr |-> arr, in_use |-> next]
      BY <1>3, <1>6 DEF WithRoom
    <2>2. next \in 0 .. n - 1
      BY <1>2, <1>6
    <2>3. \A i \in next + 1 .. n - 1 : arr[i] = bf_init
      BY <1>2
    <2>4. \A ptr \in asked : \E i \in 0 .. next : Bits[ptr] \subseteq arr[i].bit_vector
      <3>1. \A i \in 0 .. filter.in_use : i \in 0 .. next
        BY <1>2
      <3> QED
        BY <1>2, <3>1
    <2> DEFINE new == [arr |-> arr, in_use |-> next]
    <2>5. new.arr = arr /\ new.in_use = next /\ new = [arr |-> new.arr, in_use |-> new.in_use]
      OBVIOUS
    <2> HIDE DEF arr, next, new
    <2>6. IsRow(new, n, found, asked)
      BY <1>2, <2>2, <2>3, <2>4, <2>5 DEF IsRow
    <2> QED
      BY <2>1, <2>6 DEF BloomHas, new
  <1>7. CASE bf_full(arr[filter.in_use]) /\ ~(next < n)
    <2>1. WithRoom(filter) = [arr |-> more, in_use |-> next]
      BY <1>3, <1>7 DEF WithRoom
    <2>2. next = n /\ next \in 0 .. 2 * n - 1 /\ 2 * n \in Nat \ {0}
      BY <1>2, <1>7
    <2>3. more \in [0 .. 2 * n - 1 -> R]
      <3>1. \A i \in 0 .. 2 * n - 1 : i < n => i \in 0 .. n - 1
        BY <1>2
      <3> HIDE DEF R
      <3>2. \A i \in 0 .. n - 1 : arr[i] \in R
        BY <1>2
      <3> QED
        BY <1>4, <3>1, <3>2
    <2>4. \A i \in next + 1 .. 2 * n - 1 : more[i] = bf_init
      BY <1>2, <2>2
    <2>5. \A i \in 0 .. filter.in_use : i \in 0 .. next /\ more[i] = arr[i]
      BY <1>2
    <2>6. \A ptr \in asked : \E i \in 0 .. next : Bits[ptr] \subseteq more[i].bit_vector
      <3> HIDE DEF more, next
      <3> QED
        BY <1>2, <2>5
    <2> DEFINE new == [arr |-> more, in_use |-> next]
               m == 2 * n
    <2> HIDE DEF more
    <2>7. new.arr = more /\ new.in_use = next /\ new = [arr |-> new.arr, in_use |-> new.in_use]
      OBVIOUS
    <2>8. m \in Nat /\ m \in Nat \ {0}
      BY <2>2
    <2> HIDE DEF next, new, m
    <2>9. IsRow(new, m, found, asked)
      <3> USE DEF m
      <3> QED
        BY <2>2, <2>3, <2>4, <2>6, <2>7 DEF IsRow
    <2> QED
      BY <2>1, <2>8, <2>9 DEF BloomHas, new
  <1> QED
    BY <1>5, <1>6, <1>7

\* The bits of one address more.
LEMMA BitsGrow ==
  ASSUME NEW found, NEW ptr
  PROVE  BitsOf(found \union {ptr}) = BitsOf(found) \union Bits[ptr]
  BY DEF BitsOf

\* f_append drops an address only when the ones let through have set all its bits.
LEMMA BloomAppend ==
  ASSUME NEW filter, NEW found, NEW asked, BloomHas(filter, found, asked), NEW ptr
  PROVE  LET new == f_append(filter, ptr)
         IN  /\ new.unique \in BOOLEAN
             /\ ptr \in asked => ~new.unique
             /\ ~new.unique => Bits[ptr] \subseteq BitsOf(found)
             /\ BloomHas(new.filter, IF new.unique THEN found \union {ptr} ELSE found,
                         asked \union {ptr})
  <1> DEFINE new == f_append(filter, ptr)
             seen == \E i \in 0 .. filter.in_use : bf_lookup(filter.arr[i], Bits[ptr])
             room == WithRoom(filter)
  <1>1. PICK n \in Nat : IsRow(filter, n, found, asked)
    BY DEF BloomHas
  <1>2. CASE seen
    <2>1. new = [filter |-> filter, unique |-> FALSE]
      BY <1>2 DEF f_append, Answer
    <2>2. PICK k \in 0 .. filter.in_use : Bits[ptr] \subseteq filter.arr[k].bit_vector
      BY <1>2 DEF bf_lookup
    <2>3. filter.in_use \in 0 .. n - 1 /\ n \in Nat
          /\ filter.arr \in [0 .. n - 1 -> [bit_vector : SUBSET BitsOf(found), inserted : Nat]]
      BY <1>1 DEF IsRow
    <2>4. k \in 0 .. n - 1
      BY <2>2, <2>3
    <2>5. Bits[ptr] \subseteq BitsOf(found)
      <3>1. filter.arr[k] \in [bit_vector : SUBSET BitsOf(found), inserted : Nat]
        BY <2>3, <2>4
      <3> QED
        BY <2>2, <3>1
    <2>6. IsRow(filter, n, found, asked \union {ptr})
      BY <1>1, <2>2 DEF IsRow
    <2>7. BloomHas(filter, found, asked \union {ptr})
      BY <2>6 DEF BloomHas
    <2> QED
      BY <2>1, <2>5, <2>7
  <1>3. CASE ~seen
    <2> DEFINE now == [room EXCEPT !.arr[room.in_use] = bf_insert(@, Bits[ptr])]
               more == found \union {ptr}
    <2>1. new = [filter |-> now, unique |-> TRUE]
      BY <1>3 DEF f_append, Answer
    <2>2. ptr \notin asked
      BY <1>1, <1>3 DEF IsRow, bf_lookup
    <2>3. PICK m \in Nat : IsRow(room, m, found, asked)
      BY BloomRoom DEF BloomHas
    <2> HIDE DEF room
    <2> DEFINE R(s) == [bit_vector : SUBSET BitsOf(s), inserted : Nat]
               use == room.in_use
               one == bf_insert(room.arr[use], Bits[ptr])
    <2>4. /\ m \in Nat \ {0} /\ room = [arr |-> room.arr, in_use |-> use]
          /\ room.arr \in [0 .. m - 1 -> R(found)] /\ use \in 0 .. m - 1
          /\ \A i \in use + 1 .. m - 1 : room.arr[i] = bf_init
          /\ \A p \in asked : \E i \in 0 .. use : Bits[p] \subseteq room.arr[i].bit_vector
      BY <2>3 DEF IsRow
    <2>5. /\ now = [arr |-> now.arr, in_use |-> now.in_use] /\ now.in_use = use
          /\ now.arr = [room.arr EXCEPT ![use] = one]
      <3>1. room = [arr |-> room.arr, in_use |-> room.in_use]
        BY <2>4
      <3> HIDE DEF one
      <3>2. now = [room EXCEPT !.arr = [room.arr EXCEPT ![use] = one]]
        BY DEF one
      <3> HIDE DEF now
      <3> QED
        BY <3>1, <3>2
    <2>6. BitsOf(found) \subseteq BitsOf(more) /\ Bits[ptr] \subseteq BitsOf(more)
      BY BitsGrow
    <2>7. one \in R(more) /\ one.bit_vector = room.arr[use].bit_vector \union Bits[ptr]
      <3>1. room.arr[use] \in R(found)
        BY <2>4
      <3>2. room.arr[use].inserted \in Nat /\ room.arr[use].bit_vector \subseteq BitsOf(found)
        BY <3>1
      <3>3. one = [bit_vector |-> room.arr[use].bit_vector \union Bits[ptr],
                   inserted |-> room.arr[use].inserted + 1]
        BY DEF bf_insert
      <3> HIDE DEF one
      <3>4. room.arr[use].inserted + 1 \in Nat
        BY <3>2
      <3>5. room.arr[use].bit_vector \union Bits[ptr] \subseteq BitsOf(more)
        BY <2>6, <3>2
      <3> QED
        BY <3>3, <3>4, <3>5
    <2>8. R(found) \subseteq R(more)
      BY <2>6
    <2> HIDE DEF now, one, R
    <2>9. now.arr \in [0 .. m - 1 -> R(more)]
      BY <2>4, <2>5, <2>7, <2>8
    <2>10. /\ now.arr[use] = one
           /\ \A i \in 0 .. m - 1 : i # use => now.arr[i] = room.arr[i]
      BY <2>4, <2>5
    <2>11. \A i \in use + 1 .. m - 1 : now.arr[i] = bf_init
      <3>1. \A i \in use + 1 .. m - 1 : i \in 0 .. m - 1 /\ i # use
        BY <2>4
      <3> QED
        BY <2>4, <2>10, <3>1
    <2>12. \A p \in asked \union {ptr} : \E i \in 0 .. use : Bits[p] \subseteq now.arr[i].bit_vector
      <3>1. use \in 0 .. use /\ \A i \in 0 .. use : i \in 0 .. m - 1
        BY <2>4
      <3>2. \A i \in 0 .. use : room.arr[i].bit_vector \subseteq now.arr[i].bit_vector
        BY <2>7, <2>10, <3>1
      <3>3. Bits[ptr] \subseteq now.arr[use].bit_vector
        BY <2>7, <2>10
      <3> QED
        BY <2>4, <3>1, <3>2, <3>3
    <2>13. IsRow(now, m, more, asked \union {ptr})
      BY <2>4, <2>5, <2>9, <2>11, <2>12 DEF IsRow, R
    <2>14. BloomHas(now, more, asked \union {ptr})
      BY <2>13 DEF BloomHas
    <2> QED
      BY <2>1, <2>2, <2>14
  <1> QED
    BY <1>2, <1>3

---------------------------------------------------------------------------
(* The selected filter.                                                     *)

\* The filter has been asked for some addresses and has found some of them new: all of
\* them, unless it is a bloom filter.
FilterHas(selected, filter, found, asked) ==
    /\ selected \in WHICH_FILTER
    /\ selected = "bloom" => BloomHas(filter, found, asked)
    /\ selected = "pointer_set" => PointerSetHas(filter, asked)
    /\ selected = "hash_pset" => HashSetHas(filter, asked)
    /\ selected # "bloom" => found = asked

\* The three filters are different.
LEMMA FilterNames ==
  "bloom" # "pointer_set" /\ "bloom" # "hash_pset" /\ "pointer_set" # "hash_pset"
  OBVIOUS

\* A new filter, and one that get_filter has emptied, has seen no address.
LEMMA FilterEmpty ==
  ASSUME NEW selected \in WHICH_FILTER
  PROVE  /\ FilterHas(selected, FilterInit(selected), {}, {})
         /\ \A filter, found, asked : FilterHas(selected, filter, found, asked) =>
               FilterHas(selected, reuse_filter(selected, filter), {}, {})
  <1>1. CASE selected = "bloom"
    <2>1. FilterInit(selected) = filter_init /\ \A filter : reuse_filter(selected, filter) = f_reuse(filter)
      BY <1>1 DEF FilterInit, reuse_filter
    <2> QED
      BY <1>1, <2>1, FilterNames, BloomEmpty DEF FilterHas
  <1>2. CASE selected = "pointer_set"
    <2>1. /\ FilterInit(selected) = [Array |-> <<>>, Size |-> FILTER_INIT_SIZE]
          /\ \A filter : reuse_filter(selected, filter) = ps_reuse(filter)
      BY <1>2, FilterNames DEF FilterInit, reuse_filter, pointer_set_init
    <2> QED
      BY <1>2, <2>1, FilterNames, PointerSetEmpty, PointerSetReuse DEF FilterHas
  <1>3. CASE selected = "hash_pset"
    <2>1. /\ FilterInit(selected) = hash_pset_init
          /\ \A filter : reuse_filter(selected, filter) = hash_pset_reuse(filter)
      BY <1>3, FilterNames DEF FilterInit, reuse_filter
    <2> QED
      BY <1>3, <2>1, FilterNames, HashSetEmpty DEF FilterHas
  <1> QED
    BY <1>1, <1>2, <1>3 DEF WHICH_FILTER

\* ngram_unique, for each of the three filters.
LEMMA FilterAsked ==
  ASSUME NEW selected, NEW filter, NEW found, NEW asked, FilterHas(selected, filter, found, asked),
         NEW ptr \in Int, Avalanche[ptr] \in Nat
  PROVE  LET new == ngram_unique(selected, filter, ptr)
         IN  /\ new.unique \in BOOLEAN
             /\ ptr \in asked => ~new.unique
             /\ selected # "bloom" /\ ~new.unique => ptr \in asked
             /\ selected = "bloom" /\ ~new.unique => Bits[ptr] \subseteq BitsOf(found)
             /\ FilterHas(selected, new.filter,
                          IF new.unique THEN found \union {ptr} ELSE found,
                          asked \union {ptr})
  <1> DEFINE new == ngram_unique(selected, filter, ptr)
  <1>1. CASE selected = "bloom"
    <2>1. new = f_append(filter, ptr)
      BY <1>1 DEF ngram_unique
    <2> QED
      BY <1>1, <2>1, FilterNames, BloomAppend DEF FilterHas
  <1>2. CASE selected = "pointer_set"
    <2>1. new = ps_append(filter, ptr)
      BY <1>2, FilterNames DEF ngram_unique
    <2>2. /\ new.unique \in BOOLEAN /\ (new.unique <=> ptr \notin asked)
          /\ PointerSetHas(new.filter, asked \union {ptr})
      BY <1>2, <2>1, PointerSetAppend DEF FilterHas
    <2> HIDE DEF new
    <2>3. (IF new.unique THEN found \union {ptr} ELSE found) = asked \union {ptr}
      BY <1>2, <2>2, FilterNames DEF FilterHas
    <2>4. FilterHas(selected, new.filter, asked \union {ptr}, asked \union {ptr})
      BY <1>2, <2>2, FilterNames DEF FilterHas
    <2> QED
      BY <1>2, <2>2, <2>3, <2>4, FilterNames DEF new
  <1>3. CASE selected = "hash_pset"
    <2>1. new = hash_pset_append(filter, ptr)
      BY <1>3, FilterNames DEF ngram_unique
    <2>2. /\ new.unique \in BOOLEAN /\ (new.unique <=> ptr \notin asked)
          /\ HashSetHas(new.filter, asked \union {ptr})
      BY <1>3, <2>1, HashSetAppend DEF FilterHas
    <2> HIDE DEF new
    <2>3. (IF new.unique THEN found \union {ptr} ELSE found) = asked \union {ptr}
      BY <1>3, <2>2, FilterNames DEF FilterHas
    <2>4. FilterHas(selected, new.filter, asked \union {ptr}, asked \union {ptr})
      BY <1>3, <2>2, FilterNames DEF FilterHas
    <2> QED
      BY <1>3, <2>2, <2>3, <2>4, FilterNames DEF new
  <1> QED
    BY <1>1, <1>2, <1>3 DEF WHICH_FILTER, FilterHas

---------------------------------------------------------------------------
(* The words of a text.                                                     *)

LEMMA WordsBetween ==
  ASSUME NEW text \in Seq(Word), NEW i \in 1 .. Len(text) + 1, NEW j \in 0 .. Len(text)
  PROVE  LET words == SubSeq(text, i, j)
         IN  /\ words \in Seq(Word) /\ words \in Seq(STRING)
             /\ Len(text) \in Nat
             /\ i <= j => words \in NGram /\ words \in Paths /\ Len(words) = j - i + 1
             /\ j < i => words = <<>>
             /\ \A k \in 1 .. j - i + 1 : words[k] = text[i + k - 1]
  <1> DEFINE words == SubSeq(text, i, j)
  <1>1. Len(text) \in Nat /\ \A k \in 1 .. Len(text) : text[k] \in Word /\ text[k] \in STRING
    BY DEF Word
  <1>2. i \in Int /\ j \in Int /\ i \in Nat /\ j \in Nat
    BY <1>1
  <1>3. \A k \in i .. j : text[k] \in Word /\ text[k] \in STRING
    BY <1>1
  <1>4. words \in Seq(Word) /\ words \in Seq(STRING) /\ Len(words) = IF i <= j THEN j - i + 1 ELSE 0
    BY <1>2, <1>3, SubSeqProperties
  <1>5. \A k \in 1 .. j - i + 1 : words[k] = text[i + k - 1]
    BY <1>2, <1>3, SubSeqProperties
  <1>6. j < i => words = <<>>
    BY <1>2, SubSeqEmpty
  <1> HIDE DEF words
  <1>7. i <= j => words # <<>>
    BY <1>2, <1>4
  <1>8. words \in Seq(Word) /\ words # <<>> => words \in NGram
    BY DEF NGram
  <1>9. words \in Seq(STRING) /\ words # <<>> => words \in Paths
    BY DEF Paths
  <1> QED
    BY <1>1, <1>4, <1>5, <1>6, <1>7, <1>8, <1>9 DEF words

---------------------------------------------------------------------------
(* The occurrences of n-grams in a text.                                    *)

Places(text) == (1 .. Len(text) + 1) \X (0 .. Len(text))

\* The list with an n-gram that is not in it yet.
WithNGram(list, ngram, ngrams) ==
    IF ngram \in ngrams \ ToSet(list) THEN Append(list, ngram) ELSE list

OccurredBy(occurred, text, ngrams, place) ==
    IF place[2] < place[1]
    THEN IF place[1] = 1 THEN <<>> ELSE occurred[<<place[1] - 1, Len(text)>>]
    ELSE WithNGram(occurred[<<place[1], place[2] - 1>>], SubSeq(text, place[1], place[2]), ngrams)

\* The place a place refers to comes before it.
LEMMA PlaceBefore ==
  ASSUME NEW text \in Seq(Word), NEW place \in Places(text)
  PROVE  LET last == Len(text)
             depth(p) == p[1] * (last + 1) + p[2]
         IN  /\ place[1] \in Nat /\ place[2] \in Nat /\ last \in Nat
             /\ depth(place) \in Nat
             /\ depth(place) < (last + 1) * (last + 1) + (last + 1)
             /\ place[2] < place[1] /\ place[1] # 1 =>
                   /\ <<place[1] - 1, last>> \in Places(text)
                   /\ depth(<<place[1] - 1, last>>) < depth(place)
             /\ ~(place[2] < place[1]) =>
                   /\ <<place[1], place[2] - 1>> \in Places(text)
                   /\ depth(<<place[1], place[2] - 1>>) < depth(place)
                   /\ place[1] \in 1 .. Len(text) + 1 /\ place[2] \in 0 .. Len(text)
                   /\ place[1] <= place[2]
  <1> DEFINE last == Len(text)
             n == last + 1
             depth(p) == p[1] * (last + 1) + p[2]
  <1>1. PICK i \in 1 .. last + 1, j \in 0 .. last : place = <<i, j>>
    BY DEF Places
  <1>2. last \in Nat /\ n \in Nat /\ n = last + 1 /\ n >= 1
    OBVIOUS
  <1>3. place[1] = i /\ place[2] = j /\ depth(place) = i * n + j
    BY <1>1
  <1> HIDE DEF n
  <1>4. i \in Nat /\ j \in Nat /\ i <= n /\ j < n /\ i >= 1
    BY <1>2
  <1>5. i * n <= n * n /\ i * n \in Nat /\ n * n \in Nat
    BY <1>2, <1>4, TimesMonotone
  <1>6. depth(place) \in Nat /\ depth(place) < n * n + n
    <2> HIDE DEF depth
    <2> DEFINE a == i * n
               b == n * n
    <2>1. a <= b /\ a \in Nat /\ b \in Nat /\ depth(place) = a + j
      BY <1>3, <1>5
    <2> HIDE DEF a, b
    <2>2. depth(place) \in Nat /\ depth(place) < b + n
      BY <1>2, <1>4, <2>1
    <2> QED
      BY <2>2 DEF b
  <1>7. ASSUME j < i, i # 1
        PROVE  /\ <<i - 1, last>> \in Places(text)
               /\ depth(<<i - 1, last>>) < depth(place)
    <2>1. <<i - 1, last>> \in Places(text)
      BY <1>2, <1>4, <1>7 DEF Places
    <2>2. (i - 1) * n = i * n - n
      BY <1>2, <1>4
    <2>3. depth(<<i - 1, last>>) = (i - 1) * n + last
      BY DEF n
    <2> DEFINE a == i * n
    <2>4. /\ depth(<<i - 1, last>>) = a - n + last /\ depth(place) = a + j /\ a \in Nat
      BY <1>3, <1>5, <2>2, <2>3
    <2> HIDE DEF a, depth
    <2> QED
      BY <1>2, <1>4, <2>1, <2>4
  <1>8. ASSUME ~(j < i)
        PROVE  /\ <<i, j - 1>> \in Places(text)
               /\ depth(<<i, j - 1>>) < depth(place)
    <2>1. <<i, j - 1>> \in Places(text)
      BY <1>2, <1>4, <1>8 DEF Places
    <2> DEFINE a == i * n
    <2>2. depth(<<i, j - 1>>) = a + (j - 1) /\ depth(place) = a + j /\ a \in Nat
      BY <1>3, <1>5 DEF n
    <2> HIDE DEF a, depth
    <2> QED
      BY <1>4, <2>1, <2>2
  <1>9. ~(j < i) => i <= j
    BY <1>4
  <1> QED
    BY <1>1, <1>2, <1>3, <1>4, <1>6, <1>7, <1>8, <1>9 DEF n

\* Occurrences as its definition unfolds it.
IsOccurred(occurred, text, ngrams) ==
    /\ occurred \in [Places(text) -> Seq(NGram)]
    /\ \A place \in Places(text) : occurred[place] = OccurredBy(occurred, text, ngrams, place)

\* The list stays a list of n-grams.
LEMMA WithNGramTyped ==
  ASSUME NEW list \in Seq(NGram), NEW ngram \in NGram, NEW ngrams
  PROVE  WithNGram(list, ngram, ngrams) \in Seq(NGram)
  BY DEF WithNGram

\* The recursion of Occurrences is well founded: it is defined at every place.
LEMMA OccurrencesAre ==
  ASSUME NEW text \in Seq(Word), NEW ngrams
  PROVE  IsOccurred(Occurrences(text, ngrams), text, ngrams)
  <1> DEFINE S == Places(text)
             V == Seq(NGram)
             last == Len(text)
             D == [g \in [S -> V] |-> [place \in S |-> OccurredBy(g, text, ngrams, place)]]
             depth == [p \in S |-> p[1] * (last + 1) + p[2]]
             N == (last + 1) * (last + 1) + (last + 1)
  <1>1. ASSUME NEW g \in [S -> V], NEW place \in S
        PROVE  OccurredBy(g, text, ngrams, place) \in V
    <2>1. CASE place[2] < place[1] /\ place[1] = 1
      <3>1. OccurredBy(g, text, ngrams, place) = <<>>
        BY <2>1 DEF OccurredBy
      <3> QED
        BY <3>1
    <2>2. CASE place[2] < place[1] /\ place[1] # 1
      <3>1. <<place[1] - 1, last>> \in S
        BY <2>2, PlaceBefore
      <3> QED
        BY <2>2, <3>1 DEF OccurredBy
    <2>3. CASE ~(place[2] < place[1])
      <3>1. /\ <<place[1], place[2] - 1>> \in S /\ place[1] <= place[2]
            /\ place[1] \in 1 .. Len(text) + 1 /\ place[2] \in 0 .. Len(text)
        BY <2>3, PlaceBefore
      <3>2. SubSeq(text, place[1], place[2]) \in NGram
        BY <3>1, WordsBetween
      <3>3. g[<<place[1], place[2] - 1>>] \in V
        BY <3>1
      <3> QED
        BY <2>3, <3>2, <3>3, WithNGramTyped DEF OccurredBy
    <2> QED
      BY <2>1, <2>2, <2>3
  <1>2. D \in [[S -> V] -> [S -> V]]
    <2> HIDE DEF S, V
    <2> QED
      BY <1>1
  <1>3. /\ depth \in [S -> Nat] /\ N \in Nat
        /\ \A p \in S : depth[p] < N
        /\ \A p \in S : depth[p] = p[1] * (last + 1) + p[2]
    <2>1. \A p \in S : p[1] * (last + 1) + p[2] \in Nat /\ p[1] * (last + 1) + p[2] < N
      BY PlaceBefore
    <2>2. last \in Nat /\ N \in Nat
      OBVIOUS
    <2> HIDE DEF S, N, last
    <2> QED
      BY <2>1, <2>2
  <1>4. ASSUME NEW g \in [S -> V], NEW h \in [S -> V], NEW place \in S,
               \A y \in S : depth[y] < depth[place] => g[y] = h[y]
        PROVE  D[g][place] = D[h][place]
    <2>1. OccurredBy(g, text, ngrams, place) = OccurredBy(h, text, ngrams, place)
      <3>1. CASE place[2] < place[1] /\ place[1] = 1
        BY <3>1 DEF OccurredBy
      <3>2. CASE place[2] < place[1] /\ place[1] # 1
        <4> DEFINE q == <<place[1] - 1, last>>
        <4>1. q \in S /\ q[1] * (last + 1) + q[2] < place[1] * (last + 1) + place[2]
          BY <3>2, PlaceBefore
        <4> HIDE DEF q
        <4>2. g[q] = h[q]
          <5> HIDE DEF S, V, depth, last
          <5> QED
            BY <1>3, <1>4, <4>1
        <4> QED
          BY <3>2, <4>2 DEF OccurredBy, q
      <3>3. CASE ~(place[2] < place[1])
        <4> DEFINE q == <<place[1], place[2] - 1>>
        <4>1. q \in S /\ q[1] * (last + 1) + q[2] < place[1] * (last + 1) + place[2]
          BY <3>3, PlaceBefore
        <4> HIDE DEF q
        <4>2. g[q] = h[q]
          <5> HIDE DEF S, V, depth, last
          <5> QED
            BY <1>3, <1>4, <4>1
        <4> QED
          BY <3>3, <4>2 DEF OccurredBy, q
      <3> QED
        BY <3>1, <3>2, <3>3
    <2> HIDE DEF S, V
    <2> QED
      BY <2>1
  <1>5. PICK f \in [S -> V] : f = D[f]
    <2>1. V # {}
      <3>1. <<>> \in V
        OBVIOUS
      <3> QED
        BY <3>1
    <2>2. BoundedDescent(D, depth, N, S, V)
      <3> HIDE DEF D, depth, N, S, V
      <3> QED
        BY <1>2, <1>3, <1>4, <2>1 DEF BoundedDescent
    <2> HIDE DEF D, depth, N, S, V
    <2> QED
      BY <2>2, BoundedRecursion
  <1> DEFINE loop(g) == [place \in (1 .. last + 1) \X (0 .. last) |->
                LET i == place[1]
                    j == place[2]
                    ngram == SubSeq(text, i, j)
                IN  IF j < i THEN IF i = 1 THEN <<>> ELSE g[<<i - 1, last>>]
                    ELSE LET before == g[<<i, j - 1>>]
                         IN  IF ngram \in ngrams \ ToSet(before) THEN Append(before, ngram)
                             ELSE before]
             upTo == CHOOSE g : g = loop(g)
  <1>6. \A g : loop(g) = [place \in S |-> OccurredBy(g, text, ngrams, place)]
    BY DEF OccurredBy, WithNGram, Places
  <1>7. Occurrences(text, ngrams) = upTo
    BY Zenon DEF Occurrences
  <1>8. f = [place \in S |-> OccurredBy(f, text, ngrams, place)]
    <2> HIDE DEF S, V
    <2> QED
      BY <1>5
  <1>9. upTo = loop(upTo)
    <2> HIDE DEF loop, S
    <2> QED
      BY <1>6, <1>8, Zenon
  <1> HIDE DEF upTo, loop
  <1>10. upTo = [place \in S |-> OccurredBy(upTo, text, ngrams, place)]
    BY <1>6, <1>9
  <1>11. \A place \in S : upTo[place] = OccurredBy(upTo, text, ngrams, place)
    <2> HIDE DEF S
    <2> QED
      BY <1>10
  <1> DEFINE P == {n \in Nat : \A place \in S : depth[place] < n => upTo[place] \in V}
  <1>12. 0 \in P
    <2>1. \A place \in S : ~(depth[place] < 0)
      <3> HIDE DEF S, depth
      <3>1. \A place \in S : depth[place] \in Nat
        BY <1>3
      <3> QED
        BY <3>1
    <2> HIDE DEF S, depth, V
    <2> QED
      BY <2>1
  <1>13. ASSUME NEW n \in P
         PROVE  n + 1 \in P
    <2> SUFFICES ASSUME NEW place \in S, depth[place] < n + 1
                 PROVE  upTo[place] \in V
      OBVIOUS
    <2>1. \A p \in S : depth[p] < depth[place] => upTo[p] \in V
      <3>1. n \in Nat /\ \A p \in S : depth[p] < n => upTo[p] \in V
        OBVIOUS
      <3> HIDE DEF S, depth, V, P
      <3>2. \A p \in S : depth[p] \in Nat
        BY <1>3
      <3> QED
        BY <3>1, <3>2
    <2> DEFINE i == place[1]
               j == place[2]
    <2>2. upTo[place] = OccurredBy(upTo, text, ngrams, place)
      <3> HIDE DEF S, depth, V, P
      <3> QED
        BY <1>11
    <2>3. CASE j < i /\ i = 1
      <3>1. upTo[place] = <<>>
        BY <2>2, <2>3 DEF OccurredBy
      <3> QED
        BY <3>1
    <2>4. CASE j < i /\ i # 1
      <3> DEFINE q == <<i - 1, last>>
      <3>1. q \in S /\ q[1] * (last + 1) + q[2] < i * (last + 1) + j
        BY <2>4, PlaceBefore
      <3>2. upTo[place] = upTo[q]
        BY <2>2, <2>4 DEF OccurredBy
      <3> HIDE DEF q
      <3>3. upTo[q] \in V
        <4> HIDE DEF S, V, depth, last
        <4> QED
          BY <1>3, <2>1, <3>1
      <3> QED
        BY <3>2, <3>3
    <2>5. CASE ~(j < i)
      <3> DEFINE q == <<i, j - 1>>
      <3>1. /\ q \in S /\ q[1] * (last + 1) + q[2] < i * (last + 1) + j
            /\ i <= j /\ i \in 1 .. Len(text) + 1 /\ j \in 0 .. Len(text)
        BY <2>5, PlaceBefore
      <3>2. upTo[place] = WithNGram(upTo[q], SubSeq(text, i, j), ngrams)
        BY <2>2, <2>5 DEF OccurredBy
      <3>3. SubSeq(text, i, j) \in NGram
        BY <3>1, WordsBetween
      <3> HIDE DEF q
      <3>4. upTo[q] \in V
        <4> HIDE DEF S, V, depth, last
        <4> QED
          BY <1>3, <2>1, <3>1
      <3> QED
        BY <3>2, <3>3, <3>4, WithNGramTyped
    <2> QED
      BY <2>3, <2>4, <2>5
  <1>14. P = Nat
    <2>1. P \in SUBSET Nat
      OBVIOUS
    <2> HIDE DEF P
    <2> QED
      BY <1>12, <1>13, <2>1, Induction
  <1>15. \A place \in S : upTo[place] \in V
    <2>1. N \in P
      BY <1>3, <1>14
    <2> HIDE DEF S, depth, V, N
    <2> QED
      BY <1>3, <2>1
  <1>16. upTo \in [S -> V]
    <2>1. upTo = [place \in S |-> upTo[place]]
      <3> HIDE DEF S
      <3> QED
        BY <1>10
    <2> HIDE DEF S, V
    <2> QED
      BY <1>15, <2>1
  <1> QED
    BY <1>7, <1>11, <1>16 DEF IsOccurred

---------------------------------------------------------------------------
(* The branch of a hyper node.                                              *)

\* A finite set has a longest path.
LEMMA LengthsBounded ==
  ASSUME NEW S, IsFiniteSet(S), S \subseteq Paths
  PROVE  \E n \in Nat : \A q \in S : Len(q) <= n
  <1> DEFINE N == Cardinality(S)
  <1>1. PICK f : N \in Nat /\ f \in Surjection(1 .. N, S)
    <2>1. N \in Nat /\ ExistsBijection(1 .. N, S)
      BY FS_CardinalityType
    <2> QED
      BY <2>1 DEF ExistsBijection, Bijection
  <1>2. f \in [1 .. N -> S] /\ \A q \in S : \E i \in 1 .. N : f[i] = q
    BY <1>1 DEF Surjection
  <1> DEFINE P == {k \in Nat : \E n \in Nat : \A i \in 1 .. N : i <= k => Len(f[i]) <= n}
  <1>3. 0 \in P
    <2>1. \A i \in 1 .. N : ~(i <= 0)
      BY <1>1
    <2> HIDE DEF N
    <2> QED
      BY <2>1
  <1>4. ASSUME NEW k \in P
        PROVE  k + 1 \in P
    <2>1. PICK n \in Nat : \A i \in 1 .. N : i <= k => Len(f[i]) <= n
      OBVIOUS
    <2>2. CASE k + 1 \in 1 .. N
      <3> DEFINE new == n + Len(f[k + 1])
      <3>1. Len(f[k + 1]) \in Nat
        BY <1>2, <2>2 DEF Paths
      <3>2. new \in Nat /\ n <= new /\ Len(f[k + 1]) <= new
        BY <3>1
      <3>3. \A i \in 1 .. N : i <= k + 1 => Len(f[i]) <= new
        <4> SUFFICES ASSUME NEW i \in 1 .. N, i <= k + 1
                     PROVE  Len(f[i]) <= new
          OBVIOUS
        <4>1. CASE i = k + 1
          BY <3>2, <4>1
        <4>2. CASE i # k + 1
          <5>1. i <= k /\ Len(f[i]) \in Nat
            BY <1>1, <1>2, <4>2 DEF Paths
          <5>2. Len(f[i]) <= n
            BY <2>1, <5>1
          <5> HIDE DEF new
          <5> QED
            BY <3>2, <5>1, <5>2
        <4> QED
          BY <4>1, <4>2
      <3> HIDE DEF new
      <3> QED
        BY <3>2, <3>3
    <2>3. CASE ~(k + 1 \in 1 .. N)
      <3>1. \A i \in 1 .. N : i <= k + 1 => i <= k
        BY <1>1, <2>3
      <3>2. k + 1 \in Nat
        OBVIOUS
      <3> HIDE DEF N
      <3>3. \A i \in 1 .. N : i <= k + 1 => Len(f[i]) <= n
        BY <2>1, <3>1
      <3> QED
        BY <3>2, <3>3
    <2> QED
      BY <2>2, <2>3
  <1>5. P = Nat
    <2>1. P \in SUBSET Nat
      OBVIOUS
    <2> HIDE DEF P
    <2> QED
      BY <1>3, <1>4, <2>1, Induction
  <1>6. PICK n \in Nat : \A i \in 1 .. N : i <= N => Len(f[i]) <= n
    <2>1. N \in P
      BY <1>1, <1>5
    <2> HIDE DEF N
    <2> QED
      BY <2>1
  <1>7. \A i \in 1 .. N : Len(f[i]) <= n
    <2>1. \A i \in 1 .. N : i <= N
      BY <1>1
    <2> HIDE DEF N
    <2> QED
      BY <1>6, <2>1
  <1> QED
    BY <1>2, <1>7

\* The prefixes of a child are itself and those of its parent.
LEMMA PrefixOfChild ==
  ASSUME NEW p \in Seq(STRING), NEW q \in Seq(STRING)
  PROVE  /\ IsPrefix(p, p)
         /\ IsPrefix(p, q) => Len(p) <= Len(q) /\ (Len(p) = Len(q) => p = q)
  <1>1. Len(p) \in Nat /\ Len(q) \in Nat
    OBVIOUS
  <1>2. IsPrefix(p, p)
    BY PrefixElements
  <1>3. ASSUME IsPrefix(p, q), Len(p) = Len(q)
        PROVE  p = q
    <2>1. \A i \in 1 .. Len(p) : p[i] = q[i]
      BY <1>3, PrefixElements
    <2> QED
      BY <1>3, <2>1, SeqEqual
  <1> QED
    BY <1>2, <1>3, PrefixElements

\* A trie of finitely many n-grams has a leaf below every node.
LEMMA LeafBelow ==
  ASSUME NEW ngrams \in SUBSET Paths, IsFiniteSet(ngrams), NEW top \in DOMAIN Load(ngrams)
  PROVE  \E leaf \in Below(Load(ngrams), top) : ~HasChild(Load(ngrams), leaf)
  <1> DEFINE small == Load(ngrams)
             S == {Len(q) : q \in Below(small, top)}
  <1>1. WellFormed(small) /\ DOMAIN small = UNION {NodesTo(g) : g \in ngrams}
    BY LoadIs
  <1>2. PICK n \in Nat : \A g \in ngrams : Len(g) <= n
    BY LengthsBounded
  <1> HIDE DEF small
  <1>3. \A q \in DOMAIN small : q \in Paths /\ q \in Seq(STRING) /\ Len(q) \in Nat
    BY <1>1 DEF WellFormed, Paths
  <1>4. ASSUME NEW q \in DOMAIN small
        PROVE  Len(q) \in 0 .. n
    <2>1. PICK g \in ngrams : q \in NodesTo(g)
      BY <1>1
    <2>2. g \in Paths /\ g \in Seq(STRING) /\ Len(g) \in Nat /\ Len(g) <= n
      BY <1>2 DEF Paths
    <2>3. Len(q) <= Len(g)
      <3>1. IsPrefix(q, g)
        BY <1>3, <2>1, <2>2, NodesOnTheWay
      <3> QED
        BY <1>3, <2>2, <3>1, PrefixOfChild
    <2> QED
      BY <1>3, <2>2, <2>3
  <1>5. top \in Below(small, top)
    <2>1. top \in DOMAIN small
      BY DEF small
    <2> QED
      BY <1>3, <2>1, PrefixOfChild DEF Below
  <1>6. S \in SUBSET (0 .. n) /\ S # {}
    BY <1>4, <1>5 DEF Below
  <1>7. Max(S) \in S /\ \A k \in S : k <= Max(S)
    <2> HIDE DEF S
    <2> QED
      BY <1>6, MaxOfBounded
  <1>8. PICK leaf \in Below(small, top) : \A q \in Below(small, top) : Len(q) <= Len(leaf)
    <2>1. PICK leaf \in Below(small, top) : Len(leaf) = Max(S)
      BY <1>7
    <2> QED
      BY <1>7, <2>1
  <1>9. ~HasChild(small, leaf)
    <2> SUFFICES ASSUME NEW q \in Children(small, leaf)
                 PROVE  FALSE
      BY DEF HasChild
    <2>1. q \in DOMAIN small /\ leaf \in DOMAIN small /\ Len(q) = Len(leaf) + 1
          /\ IsPrefix(leaf, q) /\ IsPrefix(top, leaf)
      BY DEF Children, Below
    <2>2. IsPrefix(top, q)
      <3>1. top \in Seq(STRING)
        BY <1>3, <1>5 DEF Below
      <3> QED
        BY <1>3, <2>1, <3>1, PrefixTransitive
    <2>3. Len(q) <= Len(leaf)
      BY <1>8, <2>1, <2>2 DEF Below
    <2> QED
      BY <1>3, <2>1, <2>3
  <1> QED
    BY <1>9 DEF small

\* The branch of a hyper node goes down to the only leaf below it, and all nodes below
\* are on the way to that leaf.
IsBranch(ngrams, path, end) ==
    LET small == Load(ngrams)
    IN  /\ end \in DOMAIN small /\ IsPrefix(path, end)
        /\ \A q \in DOMAIN small : IsPrefix(path, q) => IsPrefix(q, end)
        /\ Branch(small, path) =
              [i \in 1 .. Len(end) - Len(path) + 1 |->
                  [word |-> end[Len(path) + i - 1],
                   final |-> small[SubSeq(end, 1, Len(path) + i - 1)].final]]

\* Below a hyper node there is one branch, and its vector holds the words of it.
LEMMA BranchOfHyperNode ==
  ASSUME NEW ngrams \in SUBSET Paths, IsFiniteSet(ngrams),
         NEW path \in HyperNodes(Load(ngrams))
  PROVE  \E end : IsBranch(ngrams, path, end)
  <1> DEFINE small == Load(ngrams)
             end == CHOOSE q \in Below(small, path) : ~HasChild(small, q)
  <1>1. path \in DOMAIN small /\ NoForkBelow(small, path)
    BY DEF HyperNodes
  <1>2. WellFormed(small)
    BY LoadIs
  <1>3. end \in Below(small, path) /\ ~HasChild(small, end)
    BY <1>1, LeafBelow
  <1>4. Branch(small, path) =
           [i \in 1 .. Len(end) - Len(path) + 1 |->
               [word |-> Last(SubSeq(end, 1, Len(path) + i - 1)),
                final |-> small[SubSeq(end, 1, Len(path) + i - 1)].final]]
    BY Zenon DEF Branch
  <1> HIDE DEF small, end
  <1>5. /\ end \in DOMAIN small /\ IsPrefix(path, end)
        /\ \A q \in DOMAIN small : q \in Paths /\ q \in Seq(STRING) /\ Len(q) \in Nat /\ Len(q) >= 1
    BY <1>2, <1>3 DEF WellFormed, Paths, Below
  <1>6. Len(path) <= Len(end) /\ \A i \in 1 .. Len(path) : path[i] = end[i]
    BY <1>1, <1>5, PrefixElements
  <1>7. \A l \in 0 .. Len(end) :
           /\ SubSeq(end, 1, l) \in Seq(STRING) /\ Len(SubSeq(end, 1, l)) = l
           /\ \A i \in 1 .. l : SubSeq(end, 1, l)[i] = end[i]
    BY <1>5, CutElements
  <1>8. ASSUME NEW i \in 1 .. Len(end) - Len(path) + 1
        PROVE  Last(SubSeq(end, 1, Len(path) + i - 1)) = end[Len(path) + i - 1]
    <2> DEFINE l == Len(path) + i - 1
    <2>1. l \in 1 .. Len(end) /\ l \in 0 .. Len(end) /\ l \in 1 .. l
      BY <1>1, <1>5, <1>6
    <2> HIDE DEF l
    <2>2. Last(SubSeq(end, 1, l)) = end[l]
      BY <1>7, <2>1 DEF Last
    <2> QED
      BY <2>2 DEF l
  <1>9. ASSUME NEW q \in DOMAIN small, IsPrefix(path, q)
        PROVE  IsPrefix(q, end)
    <2> DEFINE m == Len(path) - 1
               head == SubSeq(end, 1, m + 1)
    <2>1. m \in 0 .. Len(end) - 1 /\ m + 1 = Len(path) /\ m \in Nat
      BY <1>1, <1>5, <1>6
    <2>2. head = path
      <3>1. m + 1 \in 0 .. Len(end)
        BY <1>1, <1>5, <1>6, <2>1
      <3>2. head \in Seq(STRING) /\ Len(head) = m + 1 /\ \A i \in 1 .. m + 1 : head[i] = end[i]
        BY <1>7, <3>1
      <3> HIDE DEF m, head
      <3>3. path \in Seq(STRING)
        BY <1>1, <1>5
      <3>4. \A i \in 1 .. Len(head) : head[i] = path[i]
        BY <1>6, <2>1, <3>2
      <3> QED
        BY <2>1, <3>2, <3>3, <3>4, SeqEqual
    <2>3. ASSUME NEW n \in m + 1 .. Len(end) - 1
          PROVE  \A p, r \in Children(small, SubSeq(end, 1, n)) : p = r
      <3> DEFINE node == SubSeq(end, 1, n)
      <3>1. n \in 0 .. Len(end) /\ n \in 1 .. Len(end) /\ Len(path) <= n /\ n \in Nat
        BY <1>5, <2>1, <2>3
      <3>2. node \in Seq(STRING) /\ Len(node) = n /\ \A i \in 1 .. n : node[i] = end[i]
        BY <1>7, <3>1
      <3>3. node \in DOMAIN small
        <4>1. node \in NodesTo(end)
          BY <1>5, <3>1, NodesOnTheWay
        <4> QED
          BY <1>2, <1>5, <4>1 DEF WellFormed
      <3> HIDE DEF node, m
      <3>4. IsPrefix(path, node)
        <4>1. path \in Seq(STRING) /\ Len(path) \in Nat
          BY <1>1, <1>5
        <4>2. \A i \in 1 .. Len(path) : path[i] = node[i]
          BY <1>6, <3>1, <3>2, <4>1
        <4> QED
          BY <3>1, <3>2, <4>1, <4>2, PrefixElements
      <3>5. node \in Below(small, path)
        BY <3>3, <3>4 DEF Below
      <3> QED
        BY <1>1, <3>5 DEF NoForkBelow, node
    <2> HIDE DEF head
    <2>4. IsPrefix(SubSeq(end, 1, m + 1), q)
      BY <1>9, <2>2 DEF head
    <2> HIDE DEF m
    <2> QED
      BY <1>2, <1>3, <1>5, <2>1, <2>3, <2>4, OneBranch
  <1>10. Branch(small, path) =
           [i \in 1 .. Len(end) - Len(path) + 1 |->
               [word |-> end[Len(path) + i - 1],
                final |-> small[SubSeq(end, 1, Len(path) + i - 1)].final]]
    BY <1>4, <1>8
  <1>11. IsBranch(ngrams, path, end)
    BY <1>5, <1>9, <1>10 DEF IsBranch, small
  <1> QED
    BY <1>11

---------------------------------------------------------------------------
(* The walk in a loaded trie.                                               *)

IsLoaded(ngrams, removed, dyn, t, v) ==
    /\ ngrams \in SUBSET Paths /\ IsFiniteSet(ngrams) /\ dyn \in BOOLEAN
    /\ dyn => t = LoadedWithout(ngrams, removed) /\ DOMAIN v = {}
    /\ ~dyn => t = Compressed(Load(ngrams)) /\ v = Vectors(Load(ngrams))

AnswerIn(ngrams, dyn, t, query) ==
    IF dyn THEN TrieSearch(t, query.text, query.version)
    ELSE ngrams \intersect SubSeqs(query.text)

\* The walk has come down the words from start to pos: it is at their node, or behind the
\* last of them in the hyper node above it.
At(ngrams, v, text, w) ==
    LET path == SubSeq(text, w.start, w.pos - 1)
    IN  /\ w = Walk(w.query, w.start, w.pos, w.node, w.inside)
        /\ w.start \in 1 .. Len(text) + 1 /\ w.pos \in w.start .. Len(text) + 1
        /\ w.inside \in Nat
        /\ w.pos > w.start => path \in DOMAIN Load(ngrams)
        /\ w.inside = 0 => w.node = path /\ \A h \in DOMAIN v : ~IsPrefix(h, path)
        /\ w.inside > 0 => /\ w.node \in DOMAIN v /\ IsPrefix(w.node, path)
                           /\ w.inside = Len(path) - Len(w.node) + 1

\* Append, element by element.
LEMMA AppendedTo ==
  ASSUME NEW S, NEW list \in Seq(S), NEW x \in S
  PROVE  /\ Append(list, x) \in Seq(S)
         /\ DOMAIN Append(list, x) = 1 .. Len(list) + 1 /\ DOMAIN list = 1 .. Len(list)
         /\ Len(list) \in Nat
         /\ \A i \in 1 .. Len(list) : Append(list, x)[i] = list[i]
         /\ Append(list, x)[Len(list) + 1] = x
         /\ ToSet(Append(list, x)) = ToSet(list) \union {x}
  <1> DEFINE new == Append(list, x)
             n == Len(list)
  <1>1. /\ new \in Seq(S) /\ DOMAIN new = 1 .. n + 1 /\ DOMAIN list = 1 .. n /\ n \in Nat
        /\ \A i \in 1 .. n : new[i] = list[i]
        /\ new[n + 1] = x
    OBVIOUS
  <1> HIDE DEF new, n
  <1>2. \A i \in 1 .. n + 1 : i \in 1 .. n \/ i = n + 1
    BY <1>1
  <1>3. 1 .. n \subseteq 1 .. n + 1 /\ n + 1 \in 1 .. n + 1
    BY <1>1
  <1>4. ToSet(new) = ToSet(list) \union {x}
    BY <1>1, <1>2, <1>3 DEF ToSet
  <1> QED
    BY <1>1, <1>4 DEF new, n

\* The words from start to pos, and those before pos.
LEMMA NextWord ==
  ASSUME NEW text \in Seq(Word), NEW start \in 1 .. Len(text) + 1, NEW pos \in start .. Len(text)
  PROVE  LET path == SubSeq(text, start, pos - 1)
             child == SubSeq(text, start, pos)
         IN  /\ Len(text) \in Nat /\ start \in Nat /\ pos \in Nat /\ start >= 1
             /\ path \in Seq(STRING) /\ child \in Paths /\ child \in NGram
             /\ child \in Seq(STRING)
             /\ Len(path) = pos - start /\ Len(child) = pos - start + 1
             /\ Append(path, text[pos]) = child
             /\ child[Len(path) + 1] = text[pos]
             /\ IsPrefix(path, child)
             /\ pos > start => path \in Paths
             /\ \A k \in pos .. Len(text) : IsPrefix(child, SubSeq(text, start, k))
                                           /\ SubSeq(text, start, k) \in Paths
  <1> DEFINE path == SubSeq(text, start, pos - 1)
             child == SubSeq(text, start, pos)
  <1>1. /\ Len(text) \in Nat /\ start \in Nat /\ pos \in Nat /\ start >= 1 /\ start <= pos
        /\ pos <= Len(text) /\ start \in 1 .. Len(text) + 1
        /\ pos - 1 \in 0 .. Len(text) /\ pos \in 0 .. Len(text)
    OBVIOUS
  <1>2. /\ path \in Seq(STRING) /\ (start <= pos - 1 => path \in Paths /\ Len(path) = pos - 1 - start + 1)
        /\ (pos - 1 < start => path = <<>>)
        /\ \A k \in 1 .. pos - 1 - start + 1 : path[k] = text[start + k - 1]
    BY <1>1, WordsBetween
  <1>3. /\ child \in Seq(STRING) /\ child \in Paths /\ child \in NGram
        /\ Len(child) = pos - start + 1
        /\ \A k \in 1 .. pos - start + 1 : child[k] = text[start + k - 1]
    BY <1>1, WordsBetween
  <1> HIDE DEF path, child
  <1>4. Len(path) = pos - start
    <2>1. Len(<<>>) = 0
      OBVIOUS
    <2> QED
      BY <1>1, <1>2, <2>1
  <1>5. \A k \in 1 .. pos - start : path[k] = child[k]
    BY <1>1, <1>2, <1>3
  <1>6. child[pos - start + 1] = text[pos]
    <2> DEFINE k == pos - start + 1
    <2>1. k \in 1 .. pos - start + 1 /\ start + k - 1 = pos
      BY <1>1
    <2> HIDE DEF k
    <2>2. child[k] = text[pos]
      BY <1>3, <2>1
    <2> QED
      BY <2>2 DEF k
  <1>7. Append(path, text[pos]) = child
    <2>1. text[pos] \in STRING
      BY <1>1 DEF Word
    <2> DEFINE longer == Append(path, text[pos])
    <2>2. /\ longer \in Seq(STRING) /\ Len(longer) = Len(path) + 1
          /\ \A k \in 1 .. Len(path) : longer[k] = path[k]
          /\ longer[Len(path) + 1] = text[pos]
      <3> DEFINE word == text[pos]
                 Strings == STRING
      <3>1. path \in Seq(Strings) /\ word \in Strings
        BY <1>2, <2>1
      <3> HIDE DEF word, path, Strings
      <3>2. /\ Append(path, word) \in Seq(Strings)
            /\ DOMAIN Append(path, word) = 1 .. Len(path) + 1
            /\ Len(path) \in Nat
            /\ \A k \in 1 .. Len(path) : Append(path, word)[k] = path[k]
            /\ Append(path, word)[Len(path) + 1] = word
        BY <3>1, AppendedTo
      <3>3. Len(Append(path, word)) = Len(path) + 1
        BY <3>2
      <3> QED
        BY <3>2, <3>3 DEF word, Strings
    <2> HIDE DEF longer
    <2>3. \A k \in 1 .. pos - start + 1 : k \in 1 .. pos - start \/ k = pos - start + 1
      BY <1>1
    <2>4. \A k \in 1 .. Len(longer) : longer[k] = child[k]
      BY <1>4, <1>5, <1>6, <2>2, <2>3
    <2>5. longer = child
      BY <1>3, <1>4, <2>2, <2>4, SeqEqual
    <2> QED
      BY <2>5 DEF longer
  <1>8. IsPrefix(path, child)
    <2>1. Len(path) <= Len(child) /\ \A k \in 1 .. Len(path) : path[k] = child[k]
      BY <1>1, <1>3, <1>4, <1>5
    <2> QED
      BY <1>2, <1>3, <2>1, PrefixElements
  <1>9. ASSUME NEW k \in pos .. Len(text)
        PROVE  IsPrefix(child, SubSeq(text, start, k)) /\ SubSeq(text, start, k) \in Paths
    <2> DEFINE more == SubSeq(text, start, k)
    <2>1. k \in 0 .. Len(text) /\ k \in Nat /\ start <= k /\ pos <= k
      BY <1>1
    <2>2. /\ more \in Seq(STRING) /\ more \in Paths /\ Len(more) = k - start + 1
          /\ \A i \in 1 .. k - start + 1 : more[i] = text[start + i - 1]
      BY <1>1, <2>1, WordsBetween
    <2> HIDE DEF more
    <2>3. Len(child) <= Len(more) /\ \A i \in 1 .. Len(child) : child[i] = more[i]
      BY <1>1, <1>3, <2>1, <2>2
    <2>4. IsPrefix(child, more)
      BY <1>3, <2>2, <2>3, PrefixElements
    <2> QED
      BY <2>2, <2>4 DEF more
  <1> QED
    <2>1. /\ Len(text) \in Nat /\ start \in Nat /\ pos \in Nat /\ start >= 1
          /\ path \in Seq(STRING) /\ child \in Paths /\ child \in NGram
          /\ child \in Seq(STRING)
          /\ Len(path) = pos - start /\ Len(child) = pos - start + 1
          /\ Append(path, text[pos]) = child
      BY <1>1, <1>2, <1>3, <1>4, <1>7
    <2>2. child[Len(path) + 1] = text[pos]
      BY <1>4, <1>6
    <2>3. pos > start => path \in Paths
      BY <1>1, <1>2
    <2> QED
      BY <1>8, <1>9, <2>1, <2>2, <2>3 DEF path, child

\* The nodes and the final bits of the trie, however it is loaded.
LEMMA LoadedNodes ==
  ASSUME NEW ngrams, NEW removed, NEW dyn, NEW t, NEW v, IsLoaded(ngrams, removed, dyn, t, v)
  PROVE  LET all == Load(ngrams)
         IN  /\ WellFormed(all) /\ \A q \in DOMAIN all : all[q].final \in BOOLEAN
             /\ \A q \in DOMAIN all : all[q].final <=> q \in ngrams
             /\ ngrams \subseteq DOMAIN all
             /\ dyn => DOMAIN t = DOMAIN all /\ DOMAIN v = {}
             /\ \A q \in DOMAIN t : t[q].final = all[q].final
             /\ DOMAIN v \subseteq DOMAIN all
             /\ DOMAIN t \subseteq DOMAIN all
             /\ \A q \in DOMAIN all :
                   q \in DOMAIN t <=> \A h \in DOMAIN v : ~IsStrictPrefix(h, q)
             /\ \A h \in DOMAIN v : v[h] = Branch(all, h) /\ h \in HyperNodes(all)
  <1> DEFINE all == Load(ngrams)
  <1>1. ngrams \in SUBSET Paths /\ dyn \in BOOLEAN
    BY DEF IsLoaded
  <1>2. /\ WellFormed(all) /\ ngrams \subseteq DOMAIN all
        /\ \A path \in DOMAIN all :
              all[path] = IF path \in ngrams
                          THEN [final |-> TRUE, added |-> 0, deleted |-> NotDeleted]
                          ELSE NewNode
    BY <1>1, LoadIs
  <1>3. \A q \in DOMAIN all : all[q].final \in BOOLEAN /\ (all[q].final <=> q \in ngrams)
    <2> SUFFICES ASSUME NEW q \in DOMAIN all
                 PROVE  all[q].final \in BOOLEAN /\ (all[q].final <=> q \in ngrams)
      OBVIOUS
    <2> HIDE DEF all
    <2>1. CASE q \in ngrams
      <3>1. all[q] = [final |-> TRUE, added |-> 0, deleted |-> NotDeleted]
        BY <1>2, <2>1
      <3> QED
        BY <2>1, <3>1
    <2>2. CASE q \notin ngrams
      <3>1. all[q] = [final |-> FALSE, added |-> 0, deleted |-> NotDeleted]
        BY <1>2, <2>2 DEF NewNode
      <3> QED
        BY <2>2, <3>1
    <2> QED
      BY <2>1, <2>2
  <1>4. CASE dyn
    <2>1. t = [path \in DOMAIN all |-> IF path \in removed THEN [all[path] EXCEPT !.deleted = 2]
                                       ELSE all[path]]
      BY <1>4 DEF IsLoaded, LoadedWithout
    <2>2. DOMAIN v = {}
      BY <1>4 DEF IsLoaded
    <2> HIDE DEF all
    <2>3. DOMAIN t = DOMAIN all
      BY <2>1
    <2>4. \A q \in DOMAIN all : [all[q] EXCEPT !.deleted = 2].final = all[q].final
      <3> SUFFICES ASSUME NEW q \in DOMAIN all
                   PROVE  [all[q] EXCEPT !.deleted = 2].final = all[q].final
        OBVIOUS
      <3>1. \/ all[q] = [final |-> TRUE, added |-> 0, deleted |-> NotDeleted]
            \/ all[q] = [final |-> FALSE, added |-> 0, deleted |-> NotDeleted]
        BY <1>2 DEF NewNode
      <3> QED
        BY <3>1
    <2>5. \A q \in DOMAIN t : t[q].final = all[q].final
      BY <2>1, <2>4
    <2> QED
      BY <1>2, <1>3, <2>2, <2>3, <2>5 DEF all
  <1>5. CASE ~dyn
    <2>1. t = [q \in {q \in DOMAIN all : ~\E path \in HyperNodes(all) : IsStrictPrefix(path, q)} |-> all[q]]
      BY <1>5 DEF IsLoaded, Compressed
    <2>2. v = [path \in HyperNodes(all) |-> Branch(all, path)]
      BY <1>5 DEF IsLoaded, Vectors
    <2> HIDE DEF all
    <2>3. DOMAIN v = HyperNodes(all) /\ HyperNodes(all) \subseteq DOMAIN all
          /\ \A h \in DOMAIN v : v[h] = Branch(all, h)
      BY <2>2 DEF HyperNodes
    <2>4. /\ DOMAIN t = {q \in DOMAIN all : ~\E path \in HyperNodes(all) : IsStrictPrefix(path, q)}
          /\ \A q \in DOMAIN t : t[q] = all[q]
      BY <2>1
    <2> QED
      BY <1>2, <1>3, <1>5, <2>3, <2>4 DEF all
  <1> QED
    BY <1>1, <1>4, <1>5

\* The word of the text at pos is the next one below: a child of the node, or the next word
\* of the vector.
Follows(t, v, text, w) ==
    IF w.inside = 0 THEN Append(w.node, text[w.pos]) \in DOMAIN t
    ELSE /\ w.inside < Len(v[w.node])
         /\ v[w.node][w.inside + 1].word = text[w.pos]

\* The walk goes on as long as the words from start to pos are a node.
LEMMA InVectorIs ==
  ASSUME NEW ngrams, NEW removed, NEW dyn, NEW t, NEW v, IsLoaded(ngrams, removed, dyn, t, v),
         NEW text \in Seq(Word), NEW w, At(ngrams, v, text, w), w.inside > 0
  PROVE  LET child == SubSeq(text, w.start, w.pos)
             all == Load(ngrams)
             words == v[w.node]
         IN  /\ w.inside \in DOMAIN words
             /\ w.pos <= Len(text) =>
                   /\ w.inside < Len(words) /\ words[w.inside + 1].word = text[w.pos]
                         <=> child \in DOMAIN all
                   /\ child \in DOMAIN all => words[w.inside + 1].final = all[child].final
             /\ ~dyn
  <1> DEFINE path == SubSeq(text, w.start, w.pos - 1)
             child == SubSeq(text, w.start, w.pos)
             all == Load(ngrams)
             words == v[w.node]
             at == Len(path)
  <1>1. /\ w.start \in 1 .. Len(text) + 1 /\ w.pos \in w.start .. Len(text) + 1
        /\ w.inside \in Nat /\ w.node \in DOMAIN v /\ IsPrefix(w.node, path)
        /\ w.inside = Len(path) - Len(w.node) + 1
        /\ w.pos > w.start => path \in DOMAIN all
    BY DEF At
  <1>2. /\ WellFormed(all) /\ w.node \in DOMAIN all
        /\ words = Branch(all, w.node) /\ w.node \in HyperNodes(all) /\ ~dyn
    BY <1>1, LoadedNodes
  <1>3. PICK end : IsBranch(ngrams, w.node, end)
    <2>1. ngrams \in SUBSET Paths /\ IsFiniteSet(ngrams)
      BY DEF IsLoaded
    <2> QED
      BY <1>2, <2>1, BranchOfHyperNode
  <1> HIDE DEF words
  <1>4. /\ end \in DOMAIN all /\ IsPrefix(w.node, end)
        /\ \A q \in DOMAIN all : IsPrefix(w.node, q) => IsPrefix(q, end)
        /\ words = [i \in 1 .. Len(end) - Len(w.node) + 1 |->
                      [word |-> end[Len(w.node) + i - 1],
                       final |-> all[SubSeq(end, 1, Len(w.node) + i - 1)].final]]
    BY <1>2, <1>3 DEF IsBranch
  <1>5. \A q \in DOMAIN all : q \in Paths /\ q \in Seq(STRING) /\ Len(q) \in Nat /\ Len(q) >= 1
    BY <1>2 DEF WellFormed, Paths
  <1>6. /\ w.start \in Nat /\ w.pos \in Nat /\ Len(text) \in Nat /\ w.start >= 1
        /\ w.start <= w.pos /\ w.pos <= Len(text) + 1 /\ w.pos - 1 \in 0 .. Len(text)
    BY <1>1
  <1>7. w.pos > w.start
    <2>1. ASSUME w.pos = w.start
          PROVE  FALSE
      <3>1. path = <<>>
        BY <1>1, <1>6, <2>1, WordsBetween
      <3>2. Len(path) = 0 /\ path \in Seq(STRING)
        <4> HIDE DEF path
        <4> QED
          BY <3>1
      <3>3. Len(w.node) <= Len(path)
        BY <1>1, <1>2, <1>5, <3>2, PrefixOfChild
      <3> QED
        BY <1>2, <1>5, <3>2, <3>3
    <2> QED
      BY <1>6, <2>1
  <1>8. path \in DOMAIN all /\ IsPrefix(path, end)
    BY <1>1, <1>4, <1>7
  <1> HIDE DEF path, all
  <1>9. /\ at \in Nat /\ Len(end) \in Nat /\ Len(w.node) \in Nat /\ Len(w.node) >= 1
        /\ at <= Len(end) /\ Len(w.node) <= at /\ \A i \in 1 .. at : path[i] = end[i]
    BY <1>1, <1>2, <1>4, <1>5, <1>8, PrefixElements
  <1>10. /\ DOMAIN words = 1 .. Len(words) /\ Len(words) = Len(end) - Len(w.node) + 1
         /\ words \in Seq({words[i] : i \in DOMAIN words})
    <2> DEFINE n == Len(end) - Len(w.node) + 1
    <2>1. n \in Nat
      BY <1>9
    <2>2. DOMAIN words = 1 .. n /\ words = [i \in 1 .. n |-> words[i]]
      BY <1>4
    <2> HIDE DEF n
    <2>3. words \in Seq({words[i] : i \in DOMAIN words}) /\ Len(words) = n
      BY <2>1, <2>2
    <2> QED
      BY <2>2, <2>3 DEF n
  <1>11. w.inside \in DOMAIN words
    BY <1>1, <1>9, <1>10
  <1>12. ASSUME w.pos <= Len(text)
         PROVE  /\ (w.inside < Len(words) /\ words[w.inside + 1].word = text[w.pos])
                         <=> child \in DOMAIN all
                /\ child \in DOMAIN all => words[w.inside + 1].final = all[child].final
    <2>1. w.pos \in w.start .. Len(text)
      BY <1>6, <1>12
    <2>2. /\ child \in Paths /\ child \in Seq(STRING) /\ Len(child) = at + 1
          /\ child[at + 1] = text[w.pos]
          /\ IsPrefix(path, child) /\ path \in Seq(STRING)
      <3>1. /\ child \in Paths /\ child \in Seq(STRING)
            /\ Len(path) = w.pos - w.start /\ Len(child) = w.pos - w.start + 1
            /\ child[Len(path) + 1] = text[w.pos]
            /\ IsPrefix(path, child) /\ path \in Seq(STRING)
        BY <1>1, <2>1, NextWord DEF path
      <3>2. Len(child) = Len(path) + 1
        BY <1>6, <3>1
      <3> QED
        BY <3>1, <3>2
    <2> HIDE DEF child, at
    <2>3. \A i \in 1 .. at : child[i] = end[i]
      <3>1. \A i \in 1 .. at : path[i] = child[i]
        BY <2>2, PrefixElements DEF at
      <3> QED
        BY <1>9, <3>1
    <2>4. w.inside < Len(words) <=> at + 1 <= Len(end)
      <3>1. w.inside = at - Len(w.node) + 1
        BY <1>1 DEF at
      <3>2. Len(words) = Len(end) - Len(w.node) + 1
        BY <1>10
      <3>3. at \in Nat /\ Len(end) \in Nat /\ Len(w.node) \in Nat
        BY <1>9
      <3> DEFINE a == w.inside
                 b == Len(words)
                 l == Len(w.node)
                 m == Len(end)
      <3>4. a = at - l + 1 /\ b = m - l + 1 /\ at \in Nat /\ m \in Nat /\ l \in Nat
        BY <3>1, <3>2, <3>3
      <3> HIDE DEF a, b, l, m
      <3>5. a < b <=> at + 1 <= m
        BY ONLY <3>4
      <3> QED
        BY <3>5 DEF a, b, m
    <2>5. ASSUME at + 1 <= Len(end)
          PROVE  /\ words[w.inside + 1].word = end[at + 1]
                 /\ words[w.inside + 1].final = all[SubSeq(end, 1, at + 1)].final
      <3> DEFINE i == w.inside + 1
      <3>1. w.inside = at - Len(w.node) + 1
        BY <1>1 DEF at
      <3>2. i \in 1 .. Len(end) - Len(w.node) + 1 /\ Len(w.node) + i - 1 = at + 1
        <4> DEFINE l == Len(w.node)
                   m == Len(end)
        <4>1. at \in Nat /\ m \in Nat /\ l \in Nat /\ l <= at /\ i = at - l + 1 + 1 /\ at + 1 <= m
          BY <1>9, <2>5, <3>1
        <4> HIDE DEF l, m, i
        <4>2. i \in 1 .. m - l + 1 /\ l + i - 1 = at + 1
          BY <4>1
        <4> QED
          BY <4>2 DEF l, m
      <3> HIDE DEF i
      <3>3. words[i] = [word |-> end[at + 1], final |-> all[SubSeq(end, 1, at + 1)].final]
        BY <1>4, <3>2
      <3> QED
        BY <3>3 DEF i
    <2>6. ASSUME at + 1 <= Len(end), end[at + 1] = text[w.pos]
          PROVE  child \in DOMAIN all /\ SubSeq(end, 1, at + 1) = child
      <3>1. at + 1 \in 0 .. Len(end) /\ at + 1 \in 1 .. Len(end) /\ end \in Seq(STRING) /\ end \in Paths
        BY <1>4, <1>5, <1>9, <2>6
      <3> DEFINE head == SubSeq(end, 1, at + 1)
      <3>2. /\ head \in Seq(STRING) /\ Len(head) = at + 1
            /\ \A i \in 1 .. at + 1 : head[i] = end[i]
        BY <3>1, CutElements
      <3>3. head \in DOMAIN all
        <4>1. head \in NodesTo(end)
          BY <3>1, NodesOnTheWay
        <4> QED
          BY <1>2, <1>4, <4>1 DEF WellFormed
      <3> HIDE DEF head
      <3>4. \A i \in 1 .. at + 1 : head[i] = child[i]
        <4>1. \A i \in 1 .. at + 1 : i \in 1 .. at \/ i = at + 1
          BY <1>9
        <4>2. head[at + 1] = child[at + 1]
          <5>1. at + 1 \in 1 .. at + 1
            BY <1>9
          <5> QED
            BY <2>2, <2>6, <3>2, <5>1
        <4> QED
          BY <2>3, <3>2, <4>1, <4>2
      <3>5. head = child
        BY <2>2, <3>2, <3>4, SeqEqual
      <3> QED
        BY <3>3, <3>5 DEF head
    <2>7. ASSUME child \in DOMAIN all
          PROVE  at + 1 <= Len(end) /\ end[at + 1] = text[w.pos]
      <3>1. IsPrefix(w.node, child)
        <4>1. w.node \in Seq(STRING)
          BY <1>2, <1>5
        <4> QED
          BY <1>1, <2>2, <4>1, PrefixTransitive
      <3>2. IsPrefix(child, end) /\ end \in Seq(STRING)
        BY <1>4, <1>5, <2>7, <3>1
      <3>3. Len(child) <= Len(end) /\ \A i \in 1 .. Len(child) : child[i] = end[i]
        BY <2>2, <3>2, PrefixElements
      <3>4. at + 1 \in 1 .. at + 1
        BY <1>9
      <3> QED
        BY <2>2, <3>3, <3>4
    <2> QED
      BY <2>4, <2>5, <2>6, <2>7
  <1> QED
    BY <1>2, <1>11, <1>12 DEF words, all, path

\* The walk goes on exactly when the words from start to pos are a node of the file.
LEMMA FollowsIs ==
  ASSUME NEW ngrams, NEW removed, NEW dyn, NEW t, NEW v, IsLoaded(ngrams, removed, dyn, t, v),
         NEW text \in Seq(Word), NEW w, At(ngrams, v, text, w), w.pos <= Len(text)
  PROVE  Follows(t, v, text, w) <=> SubSeq(text, w.start, w.pos) \in DOMAIN Load(ngrams)
  <1> DEFINE child == SubSeq(text, w.start, w.pos)
             all == Load(ngrams)
  <1>1. CASE w.inside > 0
    <2>1. ~(w.inside = 0)
      BY <1>1
    <2> QED
      BY <1>1, <2>1, InVectorIs DEF Follows
  <1>2. CASE w.inside = 0
    <2>1. w.start \in 1 .. Len(text) + 1 /\ w.pos \in w.start .. Len(text)
      BY DEF At
    <2> DEFINE path == SubSeq(text, w.start, w.pos - 1)
    <2>2. w.node = path /\ \A h \in DOMAIN v : ~IsPrefix(h, path)
      BY <1>2 DEF At
    <2>3. /\ Append(path, text[w.pos]) = child /\ child \in Seq(STRING) /\ path \in Seq(STRING)
          /\ Len(path) = w.pos - w.start /\ Len(child) = w.pos - w.start + 1
          /\ w.pos \in Nat /\ w.start \in Nat /\ IsPrefix(path, child)
      BY <2>1, NextWord
    <2>4. /\ WellFormed(all) /\ DOMAIN v \subseteq DOMAIN all /\ DOMAIN t \subseteq DOMAIN all
          /\ \A q \in DOMAIN all : q \in DOMAIN t <=> \A h \in DOMAIN v : ~IsStrictPrefix(h, q)
      BY LoadedNodes
    <2> HIDE DEF child, path, all
    <2>5. ASSUME NEW h \in DOMAIN v
          PROVE  ~IsStrictPrefix(h, child)
      <3> SUFFICES ASSUME IsPrefix(h, child), h # child
                   PROVE  FALSE
        BY DEF IsStrictPrefix
      <3>1. h \in Seq(STRING) /\ Len(h) \in Nat
        BY <2>4 DEF WellFormed, Paths
      <3>2. Len(h) <= Len(child) /\ Len(h) # Len(child)
        BY <2>3, <3>1, PrefixOfChild
      <3>3. Len(h) <= Len(path)
        BY <2>3, <3>1, <3>2
      <3>4. \A i \in 1 .. Len(h) : h[i] = child[i]
        BY <2>3, <3>1, PrefixElements
      <3>5. \A i \in 1 .. Len(path) : path[i] = child[i]
        BY <2>3, PrefixElements
      <3>6. \A i \in 1 .. Len(h) : h[i] = path[i]
        <4>1. Len(path) \in Nat
          BY <2>3
        <4>2. \A i \in 1 .. Len(h) : i \in 1 .. Len(path)
          BY <3>1, <3>3, <4>1
        <4> QED
          BY <3>4, <3>5, <4>2
      <3>7. IsPrefix(h, path)
        BY <2>3, <3>1, <3>3, <3>6, PrefixElements
      <3> QED
        BY <2>2, <3>7
    <2>6. child \in DOMAIN t <=> child \in DOMAIN all
      BY <2>4, <2>5
    <2> QED
      BY <1>2, <2>2, <2>3, <2>6 DEF Follows, child, all
  <1>3. w.inside = 0 \/ w.inside > 0
    BY DEF At
  <1> QED
    BY <1>1, <1>2, <1>3

\* Every n-gram of an answer is a node.
LEMMA AnswerHasNodes ==
  ASSUME NEW ngrams, NEW removed, NEW dyn, NEW t, NEW v, IsLoaded(ngrams, removed, dyn, t, v),
         NEW query, NEW ngram \in AnswerIn(ngrams, dyn, t, query), ngram \in Paths
  PROVE  ngram \in DOMAIN Load(ngrams)
  <1>1. /\ dyn => DOMAIN t = DOMAIN Load(ngrams)
        /\ ngrams \subseteq DOMAIN Load(ngrams)
    BY LoadedNodes
  <1>2. CASE dyn
    <2>1. Found(t, ngram)
      BY <1>2 DEF AnswerIn, TrieSearch
    <2> QED
      BY <1>1, <1>2, <2>1, NodesOnTheWay DEF Found
  <1>3. CASE ~dyn
    BY <1>1, <1>3 DEF AnswerIn
  <1> QED
    BY <1>2, <1>3

\* Where the walk has to stop no longer n-gram begins.
LEMMA NoneFollows ==
  ASSUME NEW ngrams, NEW removed, NEW dyn, NEW t, NEW v, IsLoaded(ngrams, removed, dyn, t, v),
         NEW query, NEW text \in Seq(Word), NEW w, At(ngrams, v, text, w),
         w.pos <= Len(text) => ~Follows(t, v, text, w)
  PROVE  \A k \in w.pos .. Len(text) : SubSeq(text, w.start, k) \notin AnswerIn(ngrams, dyn, t, query)
  <1> SUFFICES ASSUME NEW k \in w.pos .. Len(text),
                      SubSeq(text, w.start, k) \in AnswerIn(ngrams, dyn, t, query)
               PROVE  FALSE
    OBVIOUS
  <1> DEFINE child == SubSeq(text, w.start, w.pos)
             longer == SubSeq(text, w.start, k)
  <1>1. w.start \in 1 .. Len(text) + 1 /\ w.pos \in w.start .. Len(text)
    BY DEF At
  <1>2. child \in Paths /\ longer \in Paths /\ IsPrefix(child, longer)
    BY <1>1, NextWord
  <1>3. longer \in DOMAIN Load(ngrams)
    BY <1>2, AnswerHasNodes
  <1>4. WellFormed(Load(ngrams))
    BY LoadedNodes
  <1>5. child \in NodesTo(longer)
    <2> HIDE DEF child, longer
    <2> QED
      BY <1>2, NodesOnTheWay
  <1>6. child \in DOMAIN Load(ngrams)
    BY <1>3, <1>4, <1>5 DEF WellFormed
  <1>7. w.pos <= Len(text)
    BY <1>1
  <1> QED
    BY <1>6, <1>7, FollowsIs

\* The words from start to pos are part of the text.
LEMMA IsSubSeq ==
  ASSUME NEW text, Len(text) \in Nat, NEW start \in 1 .. Len(text) + 1, NEW pos \in start .. Len(text)
  PROVE  SubSeq(text, start, pos) \in SubSeqs(text)
  <1>1. start - 1 \in 0 .. Len(text) /\ pos \in 0 .. Len(text) /\ (start - 1) + 1 = start
    OBVIOUS
  <1> DEFINE s == start - 1
  <1>2. SubSeq(text, s + 1, pos) \in SubSeqs(text)
    <2>1. s \in 0 .. Len(text)
      BY <1>1
    <2> HIDE DEF s
    <2> QED
      BY <1>1, <2>1 DEF SubSeqs
  <1> QED
    BY <1>1, <1>2

\* What the walk finds final is in the answer.
LEMMA FinalIs ==
  ASSUME NEW ngrams, NEW removed, NEW dyn, NEW t, NEW v, IsLoaded(ngrams, removed, dyn, t, v),
         NEW query, query.text \in Seq(Word), NEW w, At(ngrams, v, query.text, w),
         w.pos <= Len(query.text), Follows(t, v, query.text, w)
  PROVE  LET child == SubSeq(query.text, w.start, w.pos)
             answer == AnswerIn(ngrams, dyn, t, query)
             final == IF w.inside > 0 THEN v[w.node][w.inside + 1].final
                      ELSE IF dyn THEN Visible(t, child, query.version) ELSE t[child].final
         IN  /\ child \in DOMAIN Load(ngrams) /\ child \in NGram
             /\ w.inside = 0 => child = Append(w.node, query.text[w.pos]) /\ child \in DOMAIN t
             /\ final \in BOOLEAN /\ (final <=> child \in answer)
  <1> DEFINE text == query.text
             child == SubSeq(text, w.start, w.pos)
             answer == AnswerIn(ngrams, dyn, t, query)
             all == Load(ngrams)
             final == IF w.inside > 0 THEN v[w.node][w.inside + 1].final
                      ELSE IF dyn THEN Visible(t, child, query.version) ELSE t[child].final
  <1>1. /\ w.start \in 1 .. Len(text) + 1 /\ w.pos \in w.start .. Len(text)
        /\ w.inside \in Nat /\ dyn \in BOOLEAN
        /\ w.inside = 0 => w.node = SubSeq(text, w.start, w.pos - 1)
    BY DEF At, IsLoaded
  <1>2. child \in DOMAIN all
    BY FollowsIs
  <1>3. /\ child \in Paths /\ child \in NGram /\ Len(text) \in Nat
        /\ Append(SubSeq(text, w.start, w.pos - 1), text[w.pos]) = child
    BY <1>1, NextWord
  <1>4. child \in SubSeqs(text)
    BY <1>1, <1>3, IsSubSeq
  <1>5. /\ WellFormed(all)
        /\ \A q \in DOMAIN all : all[q].final \in BOOLEAN /\ (all[q].final <=> q \in ngrams)
        /\ dyn => DOMAIN t = DOMAIN all
        /\ \A q \in DOMAIN t : t[q].final = all[q].final
        /\ dyn => DOMAIN v = {}
    BY LoadedNodes
  <1>6. CASE dyn
    <2>1. w.inside = 0
      BY <1>1, <1>5, <1>6 DEF At
    <2>2. NodesTo(child) \subseteq DOMAIN t /\ child # <<>>
      BY <1>2, <1>3, <1>5, <1>6 DEF WellFormed, Paths
    <2>3. child \in answer <=> Visible(t, child, query.version)
      <3> HIDE DEF child
      <3> QED
        BY <1>4, <1>6, <2>2 DEF AnswerIn, TrieSearch, Found
    <2>4. final = Visible(t, child, query.version)
      BY <1>6, <2>1
    <2>5. Visible(t, child, query.version) \in BOOLEAN
      BY DEF Visible
    <2> HIDE DEF final, child, answer
    <2>6. child = Append(w.node, query.text[w.pos]) /\ child \in DOMAIN t
      BY <1>1, <1>2, <1>3, <1>5, <1>6, <2>1
    <2> QED
      BY <1>2, <1>3, <2>3, <2>4, <2>5, <2>6 DEF final, child, answer
  <1>7. CASE ~dyn /\ w.inside = 0
    <2>1. child = Append(w.node, text[w.pos]) /\ child \in DOMAIN t
      BY <1>1, <1>3, <1>7 DEF Follows
    <2>2. final = t[child].final
      BY <1>1, <1>7
    <2>3. child \in answer <=> child \in ngrams
      BY <1>4, <1>7 DEF AnswerIn
    <2> HIDE DEF final, child, answer
    <2> QED
      BY <1>2, <1>3, <1>5, <2>1, <2>2, <2>3 DEF final, child, answer
  <1>8. CASE ~dyn /\ w.inside > 0
    <2>1. v[w.node][w.inside + 1].final = all[child].final
      BY <1>2, <1>8, InVectorIs
    <2>2. final = v[w.node][w.inside + 1].final
      BY <1>8
    <2>3. child \in answer <=> child \in ngrams
      BY <1>4, <1>8 DEF AnswerIn
    <2>4. ~(w.inside = 0)
      BY <1>8
    <2> HIDE DEF final, child, answer
    <2> QED
      BY <1>2, <1>3, <1>5, <2>1, <2>2, <2>3, <2>4 DEF final, child, answer
  <1>9. dyn \/ (~dyn /\ w.inside = 0) \/ (~dyn /\ w.inside > 0)
    BY <1>1
  <1> QED
    BY <1>6, <1>7, <1>8, <1>9, Zenon

---------------------------------------------------------------------------
(* The moves of a walk.                                                     *)

LEMMA WalkBegins ==
  ASSUME NEW ngrams, NEW removed, NEW dyn, NEW t, NEW v, IsLoaded(ngrams, removed, dyn, t, v),
         NEW text \in Seq(Word), NEW query, NEW start \in 1 .. Len(text) + 1
  PROVE  At(ngrams, v, text, Walk(query, start, start, <<>>, 0))
  <1> DEFINE w == Walk(query, start, start, <<>>, 0)
  <1>1. w = [query |-> query, start |-> start, pos |-> start, node |-> <<>>, inside |-> 0]
    BY DEF Walk
  <1>2. /\ w.query = query /\ w.start = start /\ w.pos = start /\ w.node = <<>> /\ w.inside = 0
        /\ w = Walk(w.query, w.start, w.pos, w.node, w.inside)
    BY <1>1 DEF Walk
  <1>3. Len(text) \in Nat /\ start \in Nat /\ start \in start .. Len(text) + 1 /\ start - 1 < start
        /\ start - 1 \in 0 .. Len(text)
    OBVIOUS
  <1>4. SubSeq(text, start, start - 1) = <<>>
    BY <1>3, WordsBetween
  <1>5. \A h \in DOMAIN v : ~IsPrefix(h, <<>>)
    <2> SUFFICES ASSUME NEW h \in DOMAIN v, IsPrefix(h, <<>>)
                 PROVE  FALSE
      OBVIOUS
    <2>1. h \in Paths
      BY LoadedNodes DEF WellFormed
    <2>2. h \in Seq(STRING) /\ h # <<>> /\ Len(h) \in Nat /\ <<>> \in Seq(STRING) /\ Len(<<>>) = 0
      BY <2>1 DEF Paths
    <2>3. Len(h) <= 0
      BY <2>2, PrefixOfChild
    <2> QED
      BY <2>2, <2>3
  <1> HIDE DEF w
  <1>6. ~(w.pos > w.start) /\ ~(w.inside > 0) /\ w.inside \in Nat
    BY <1>2, <1>3
  <1>7. w.node = SubSeq(text, w.start, w.pos - 1)
    BY <1>2, <1>4
  <1>8. \A h \in DOMAIN v : ~IsPrefix(h, SubSeq(text, w.start, w.pos - 1))
    BY <1>2, <1>4, <1>5
  <1>9. w.start \in 1 .. Len(text) + 1 /\ w.pos \in w.start .. Len(text) + 1
    BY <1>2, <1>3
  <1>10. At(ngrams, v, text, w)
    BY <1>2, <1>6, <1>7, <1>8, <1>9, Zenon DEF At
  <1> QED
    BY <1>10 DEF w

\* A step to the next word, in the trie or in a hyper node.
Moved(v, text, w) ==
    IF w.inside = 0
    THEN LET child == SubSeq(text, w.start, w.pos)
         IN  Walk(w.query, w.start, w.pos + 1, child, IF child \in DOMAIN v THEN 1 ELSE 0)
    ELSE Walk(w.query, w.start, w.pos + 1, w.node, w.inside + 1)

\* One word further the walk is at the node of one word more.
LEMMA WalkMoves ==
  ASSUME NEW ngrams, NEW removed, NEW dyn, NEW t, NEW v, IsLoaded(ngrams, removed, dyn, t, v),
         NEW text \in Seq(Word), NEW w, At(ngrams, v, text, w), w.pos <= Len(text),
         Follows(t, v, text, w)
  PROVE  /\ At(ngrams, v, text, Moved(v, text, w))
         /\ Moved(v, text, w).start = w.start /\ Moved(v, text, w).pos = w.pos + 1
         /\ Moved(v, text, w).query = w.query
  <1> DEFINE path == SubSeq(text, w.start, w.pos - 1)
             child == SubSeq(text, w.start, w.pos)
             node == IF w.inside = 0 THEN child ELSE w.node
             inside == IF w.inside = 0 THEN IF child \in DOMAIN v THEN 1 ELSE 0
                       ELSE w.inside + 1
             new == Moved(v, text, w)
  <1>1. new = Walk(w.query, w.start, w.pos + 1, node, inside)
    BY DEF Moved
  <1>2. /\ new.query = w.query /\ new.start = w.start /\ new.pos = w.pos + 1
        /\ new.node = node /\ new.inside = inside
        /\ new = Walk(new.query, new.start, new.pos, new.node, new.inside)
    BY <1>1 DEF Walk
  <1> HIDE DEF new
  <1>3. /\ w.start \in 1 .. Len(text) + 1 /\ w.pos \in w.start .. Len(text) + 1
        /\ w.inside \in Nat
        /\ w.inside = 0 => w.node = path /\ \A h \in DOMAIN v : ~IsPrefix(h, path)
        /\ w.inside > 0 => /\ w.node \in DOMAIN v /\ IsPrefix(w.node, path)
                           /\ w.inside = Len(path) - Len(w.node) + 1
    BY DEF At
  <1>4. w.pos \in w.start .. Len(text)
    BY <1>3
  <1>5. /\ Len(text) \in Nat /\ w.start \in Nat /\ w.pos \in Nat /\ w.start >= 1
        /\ path \in Seq(STRING) /\ child \in Seq(STRING)
        /\ Len(path) = w.pos - w.start /\ Len(child) = w.pos - w.start + 1
        /\ IsPrefix(path, child)
    BY <1>3, <1>4, NextWord
  <1>6. child \in DOMAIN Load(ngrams)
    BY FollowsIs
  <1>7. WellFormed(Load(ngrams)) /\ DOMAIN v \subseteq DOMAIN Load(ngrams)
    BY LoadedNodes
  <1>8. \A h \in DOMAIN v : h \in Seq(STRING) /\ Len(h) \in Nat /\ Len(h) >= 1
    BY <1>7 DEF WellFormed, Paths
  <1>9. w.pos + 1 \in w.start .. Len(text) + 1 /\ w.pos + 1 > w.start /\ w.pos + 1 - 1 = w.pos
    BY <1>4, <1>5
  <1> DEFINE along == SubSeq(text, new.start, new.pos - 1)
  <1>13. along = child
    <2>1. new.start = w.start /\ new.pos - 1 = w.pos
      <3>1. new.pos = w.pos + 1 /\ new.start = w.start
        BY <1>2, Zenon
      <3>2. w.pos + 1 - 1 = w.pos
        BY <1>9
      <3> QED
        BY <1>5, <3>1
    <2> QED
      BY <2>1, Zenon
  <1>14. new.start \in 1 .. Len(text) + 1 /\ new.pos \in new.start .. Len(text) + 1
    BY <1>2, <1>3, <1>9
  <1> HIDE DEF path, child, along
  <1>10. CASE w.inside > 0
    <2>1. node = w.node /\ inside = w.inside + 1
      BY <1>10
    <2>2. IsPrefix(node, child)
      BY <1>3, <1>5, <1>8, <1>10, <2>1, PrefixTransitive
    <2>3. inside = Len(child) - Len(node) + 1 /\ inside \in Nat /\ inside > 0 /\ ~(inside = 0)
      <3> DEFINE a == Len(path)
                 c == Len(child)
                 l == Len(w.node)
                 k == w.inside
      <3>1. /\ c = a + 1 /\ k = a - l + 1 /\ a \in Int /\ l \in Nat /\ k \in Nat
        BY <1>3, <1>5, <1>8, <1>10
      <3> HIDE DEF a, c, l, k
      <3> HIDE DEF node, inside
      <3>2. k + 1 = c - l + 1 /\ k + 1 \in Nat /\ k + 1 > 0 /\ ~(k + 1 = 0)
        BY <3>1
      <3> QED
        BY <2>1, <3>2 DEF k, c, l
    <2> HIDE DEF node, inside
    <2>4. /\ new.inside \in Nat /\ along \in DOMAIN Load(ngrams)
          /\ new.inside = 0 => new.node = along /\ \A h \in DOMAIN v : ~IsPrefix(h, along)
          /\ new.inside > 0 => /\ new.node \in DOMAIN v /\ IsPrefix(new.node, along)
                               /\ new.inside = Len(along) - Len(new.node) + 1
      BY <1>2, <1>3, <1>6, <1>10, <1>13, <2>1, <2>2, <2>3
    <2>5. At(ngrams, v, text, new)
      BY <1>2, <1>14, <2>4, Zenon DEF At, along
    <2> QED
      BY <1>2, <2>5 DEF new
  <1>11. CASE w.inside = 0 /\ child \in DOMAIN v
    <2>1. node = child /\ inside = 1
      BY <1>11
    <2>2. IsPrefix(node, child) /\ inside = Len(child) - Len(node) + 1
      <3>1. Len(child) \in Nat
        BY <1>5
      <3> QED
        BY <1>5, <2>1, <3>1, PrefixOfChild
    <2>3. inside \in Nat /\ inside > 0 /\ ~(inside = 0)
      BY <2>1
    <2> HIDE DEF node, inside
    <2>4. /\ new.inside \in Nat /\ along \in DOMAIN Load(ngrams)
          /\ new.inside = 0 => new.node = along /\ \A h \in DOMAIN v : ~IsPrefix(h, along)
          /\ new.inside > 0 => /\ new.node \in DOMAIN v /\ IsPrefix(new.node, along)
                               /\ new.inside = Len(along) - Len(new.node) + 1
      BY <1>2, <1>3, <1>6, <1>11, <1>13, <2>1, <2>2, <2>3
    <2>5. At(ngrams, v, text, new)
      BY <1>2, <1>14, <2>4, Zenon DEF At, along
    <2> QED
      BY <1>2, <2>5 DEF new
  <1>12. CASE w.inside = 0 /\ child \notin DOMAIN v
    <2>1. node = child /\ inside = 0
      BY <1>12
    <2>2. ASSUME NEW h \in DOMAIN v
          PROVE  ~IsPrefix(h, child)
      <3> SUFFICES ASSUME IsPrefix(h, child)
                   PROVE  FALSE
        OBVIOUS
      <3>1. h \in Seq(STRING) /\ Len(h) \in Nat /\ h # child
        BY <1>8, <1>12
      <3>2. Len(h) <= Len(child) /\ Len(h) # Len(child)
        BY <1>5, <3>1, PrefixOfChild
      <3>3. Len(h) <= Len(path) /\ Len(path) \in Nat
        BY <1>5, <3>1, <3>2
      <3>4. \A i \in 1 .. Len(h) : h[i] = child[i]
        BY <1>5, <3>1, PrefixElements
      <3>5. \A i \in 1 .. Len(path) : path[i] = child[i]
        BY <1>5, PrefixElements
      <3>6. \A i \in 1 .. Len(h) : i \in 1 .. Len(path)
        BY <3>1, <3>3
      <3>7. IsPrefix(h, path)
        BY <1>5, <3>1, <3>3, <3>4, <3>5, <3>6, PrefixElements
      <3> QED
        BY <1>3, <1>12, <3>7
    <2>3. inside \in Nat /\ ~(inside > 0)
      BY <2>1
    <2> HIDE DEF node, inside
    <2>4. /\ new.inside \in Nat /\ along \in DOMAIN Load(ngrams)
          /\ new.inside = 0 => new.node = along /\ \A h \in DOMAIN v : ~IsPrefix(h, along)
          /\ new.inside > 0 => /\ new.node \in DOMAIN v /\ IsPrefix(new.node, along)
                               /\ new.inside = Len(along) - Len(new.node) + 1
      BY <1>2, <1>3, <1>6, <1>12, <1>13, <2>1, <2>2, <2>3
    <2>5. At(ngrams, v, text, new)
      BY <1>2, <1>14, <2>4, Zenon DEF At, along
    <2> QED
      BY <1>2, <2>5 DEF new
  <1> QED
    BY <1>3, <1>10, <1>11, <1>12

---------------------------------------------------------------------------
(* The occurrences before the walk.                                         *)

LEMMA OccurredSteps ==
  ASSUME NEW text \in Seq(Word), NEW ngrams, NEW occurred, IsOccurred(occurred, text, ngrams),
         NEW start \in 1 .. Len(text) + 1, NEW pos \in start .. Len(text) + 1
  PROVE  /\ occurred[<<start, pos - 1>>] \in Seq(NGram)
         /\ occurred[<<1, 0>>] = <<>>
         /\ pos <= Len(text) =>
               occurred[<<start, pos>>] = WithNGram(occurred[<<start, pos - 1>>],
                                                    SubSeq(text, start, pos), ngrams)
         /\ start <= Len(text) =>
               occurred[<<start + 1, start>>] = occurred[<<start, Len(text)>>]
  <1> DEFINE last == Len(text)
  <1>1. /\ last \in Nat /\ start \in Nat /\ pos \in Nat /\ start >= 1 /\ start <= pos
        /\ start <= last + 1 /\ pos <= last + 1
    OBVIOUS
  <1>2. /\ \A place \in Places(text) : occurred[place] \in Seq(NGram)
        /\ \A place \in Places(text) : occurred[place] = OccurredBy(occurred, text, ngrams, place)
    BY DEF IsOccurred
  <1>3. occurred[<<start, pos - 1>>] \in Seq(NGram)
    <2>1. <<start, pos - 1>> \in Places(text)
      BY <1>1 DEF Places
    <2> QED
      BY <1>2, <2>1
  <1>4. occurred[<<1, 0>>] = <<>>
    <2>1. <<1, 0>> \in Places(text)
      BY <1>1 DEF Places
    <2>2. OccurredBy(occurred, text, ngrams, <<1, 0>>) = <<>>
      BY DEF OccurredBy
    <2> QED
      BY <1>2, <2>1, <2>2
  <1>5. ASSUME pos <= last
        PROVE  occurred[<<start, pos>>] = WithNGram(occurred[<<start, pos - 1>>],
                                                    SubSeq(text, start, pos), ngrams)
    <2>1. <<start, pos>> \in Places(text) /\ ~(pos < start)
      BY <1>1, <1>5 DEF Places
    <2>2. OccurredBy(occurred, text, ngrams, <<start, pos>>)
             = WithNGram(occurred[<<start, pos - 1>>], SubSeq(text, start, pos), ngrams)
      BY <2>1 DEF OccurredBy
    <2> QED
      BY <1>2, <2>1, <2>2
  <1>6. ASSUME start <= last
        PROVE  occurred[<<start + 1, start>>] = occurred[<<start, last>>]
    <2>1. <<start + 1, start>> \in Places(text) /\ start < start + 1 /\ start + 1 # 1
          /\ start + 1 - 1 = start
      BY <1>1, <1>6 DEF Places
    <2>2. OccurredBy(occurred, text, ngrams, <<start + 1, start>>) = occurred[<<start, last>>]
      BY <2>1 DEF OccurredBy
    <2> QED
      BY <1>2, <2>1, <2>2
  <1> QED
    BY <1>3, <1>4, <1>5, <1>6

\* The n-grams up to the next word are those before it, with the one that ends there.
LEMMA OccurredNext ==
  ASSUME NEW text \in Seq(Word), NEW ngrams, NEW occurred, IsOccurred(occurred, text, ngrams),
         NEW start \in 1 .. Len(text) + 1, NEW pos \in start .. Len(text)
  PROVE  occurred[<<start, pos>>] = WithNGram(occurred[<<start, pos - 1>>],
                                              SubSeq(text, start, pos), ngrams)
  <1>1. pos \in start .. Len(text) + 1 /\ pos <= Len(text)
    OBVIOUS
  <1> QED
    BY <1>1, OccurredSteps

\* The n-grams before the next start are all those of the walks before.
LEMMA OccurredTurn ==
  ASSUME NEW text \in Seq(Word), NEW ngrams, NEW occurred, IsOccurred(occurred, text, ngrams),
         NEW start \in 1 .. Len(text)
  PROVE  occurred[<<start + 1, start>>] = occurred[<<start, Len(text)>>]
  <1>1. start \in 1 .. Len(text) + 1 /\ start \in start .. Len(text) + 1 /\ start <= Len(text)
    OBVIOUS
  <1> QED
    BY <1>1, OccurredSteps

\* Nothing occurs behind the end of a walk.
LEMMA OccurredSkips ==
  ASSUME NEW text \in Seq(Word), NEW ngrams, NEW occurred, IsOccurred(occurred, text, ngrams),
         NEW start \in 1 .. Len(text), NEW pos \in start .. Len(text) + 1,
         \A k \in pos .. Len(text) : SubSeq(text, start, k) \notin ngrams
  PROVE  occurred[<<start + 1, start>>] = occurred[<<start, pos - 1>>]
  <1> DEFINE last == Len(text)
             P == {n \in Nat : pos + n <= last + 1 =>
                                  occurred[<<start, pos + n - 1>>] = occurred[<<start, pos - 1>>]}
  <1>1. /\ last \in Nat /\ start \in Nat /\ pos \in Nat /\ start >= 1 /\ start <= pos
        /\ start \in 1 .. last + 1 /\ start <= last /\ pos <= last + 1
    OBVIOUS
  <1>2. 0 \in P
    <2>1. pos + 0 - 1 = pos - 1
      BY <1>1
    <2> QED
      BY <2>1
  <1>3. ASSUME NEW n \in P
        PROVE  n + 1 \in P
    <2> SUFFICES ASSUME pos + (n + 1) <= last + 1
                 PROVE  occurred[<<start, pos + (n + 1) - 1>>] = occurred[<<start, pos - 1>>]
      OBVIOUS
    <2> DEFINE k == pos + n
    <2>1. /\ n \in Nat /\ k \in start .. last + 1 /\ k <= last /\ k \in pos .. last
          /\ pos + n <= last + 1 /\ pos + (n + 1) - 1 = k
      BY <1>1
    <2>2. occurred[<<start, k - 1>>] = occurred[<<start, pos - 1>>]
      <3>1. pos + n <= last + 1 => occurred[<<start, pos + n - 1>>] = occurred[<<start, pos - 1>>]
        OBVIOUS
      <3> HIDE DEF P
      <3>2. occurred[<<start, pos + n - 1>>] = occurred[<<start, pos - 1>>]
        BY <2>1, <3>1
      <3>3. k - 1 = pos + n - 1
        <4>1. pos \in Nat /\ n \in Nat
          BY <1>1, <2>1
        <4> QED
          BY <4>1
      <3> HIDE DEF k
      <3> QED
        BY <3>2, <3>3
    <2> HIDE DEF k, P
    <2>3. occurred[<<start, k>>] = WithNGram(occurred[<<start, k - 1>>], SubSeq(text, start, k), ngrams)
      <3>1. start \in 1 .. Len(text) + 1 /\ k \in start .. Len(text)
        BY <1>1, <2>1
      <3> QED
        BY <3>1, OccurredNext
    <2>4. SubSeq(text, start, k) \notin ngrams
      BY <2>1
    <2>5. occurred[<<start, k>>] = occurred[<<start, k - 1>>]
      BY <2>3, <2>4 DEF WithNGram
    <2> QED
      BY <2>1, <2>2, <2>5
  <1>4. P = Nat
    <2>1. P \in SUBSET Nat
      OBVIOUS
    <2> HIDE DEF P
    <2> QED
      BY <1>2, <1>3, <2>1, Induction
  <1>5. occurred[<<start, last>>] = occurred[<<start, pos - 1>>]
    <2> DEFINE n == last + 1 - pos
    <2>1. n \in Nat /\ pos + n - 1 = last /\ pos + n <= last + 1
      BY <1>1
    <2> HIDE DEF n
    <2>2. n \in P
      BY <1>4, <2>1
    <2> QED
      BY <2>1, <2>2
  <1>6. occurred[<<start + 1, start>>] = occurred[<<start, last>>]
    BY OccurredTurn
  <1> QED
    BY <1>5, <1>6

---------------------------------------------------------------------------
(* What a search has reported.                                              *)

Addresses(list) == {Address[list[i]] : i \in DOMAIN list}

\* A bloom filter has let the found n-grams through, and each of the others only when the
\* found ones before it had set all its bits.
Covered(found, asked) ==
    /\ IsInjective(found) /\ ToSet(found) \subseteq ToSet(asked)
    /\ \A i \in DOMAIN asked :
          asked[i] \in ToSet(found)
          \/ Bits[Address[asked[i]]] \subseteq
                UNION {Bits[Address[asked[j]]] : j \in {j \in 1 .. i - 1 : asked[j] \in ToSet(found)}}

Searched(selected, filter, found, asked) ==
    /\ found \in Seq(NGram) /\ asked \in Seq(NGram)
    /\ ToSet(asked) \subseteq DOMAIN Address
    /\ FilterHas(selected, filter, Addresses(found), Addresses(asked))
    /\ selected # "bloom" => found = asked
    /\ selected = "bloom" => Covered(found, asked)

\* The addresses of one n-gram more.
LEMMA AddressesAppended ==
  ASSUME NEW list \in Seq(NGram), NEW ngram \in NGram
  PROVE  Addresses(Append(list, ngram)) = Addresses(list) \union {Address[ngram]}
  <1> DEFINE new == Append(list, ngram)
             n == Len(list)
  <1>1. /\ DOMAIN new = 1 .. n + 1 /\ DOMAIN list = 1 .. n /\ n \in Nat
        /\ \A i \in 1 .. n : new[i] = list[i]
        /\ new[n + 1] = ngram
    BY AppendedTo
  <1> HIDE DEF new, n
  <1>2. \A i \in 1 .. n + 1 : i \in 1 .. n \/ i = n + 1
    BY <1>1
  <1>3. 1 .. n \subseteq 1 .. n + 1 /\ n + 1 \in 1 .. n + 1
    BY <1>1
  <1>4. Addresses(new) = Addresses(list) \union {Address[ngram]}
    BY <1>1, <1>2, <1>3 DEF Addresses
  <1> QED
    BY <1>4 DEF new

\* An n-gram that was asked before, or covered, is dropped; any other is reported.
LEMMA CoveredStep ==
  ASSUME NEW found \in Seq(NGram), NEW asked \in Seq(NGram), Covered(found, asked),
         NEW ngram \in NGram, ngram \notin ToSet(asked)
  PROVE  /\ Covered(Append(found, ngram), Append(asked, ngram))
         /\ Bits[Address[ngram]] \subseteq BitsOf(Addresses(found)) =>
               Covered(found, Append(asked, ngram))
  <1> DEFINE more == Append(found, ngram)
             n == Len(asked)
             new == Append(asked, ngram)
             m == Len(found)
             before(list, i, set) == {j \in 1 .. i - 1 : list[j] \in set}
  <1>1. /\ new \in Seq(NGram) /\ DOMAIN new = 1 .. n + 1 /\ DOMAIN asked = 1 .. n /\ n \in Nat
        /\ \A i \in 1 .. n : new[i] = asked[i]
        /\ new[n + 1] = ngram /\ ToSet(new) = ToSet(asked) \union {ngram}
    BY AppendedTo
  <1>2. /\ DOMAIN more = 1 .. m + 1 /\ DOMAIN found = 1 .. m /\ m \in Nat
        /\ \A i \in 1 .. m : more[i] = found[i]
        /\ more[m + 1] = ngram /\ ToSet(more) = ToSet(found) \union {ngram}
    BY AppendedTo
  <1>3. /\ IsInjective(found) /\ ToSet(found) \subseteq ToSet(asked)
        /\ \A i \in 1 .. n :
              asked[i] \in ToSet(found)
              \/ Bits[Address[asked[i]]] \subseteq
                    UNION {Bits[Address[asked[j]]] : j \in before(asked, i, ToSet(found))}
    BY <1>1 DEF Covered
  <1> HIDE DEF more, new, n, m
  <1>4. \A i \in 1 .. n + 1 : i \in 1 .. n \/ i = n + 1
    BY <1>1
  <1>5. \A i \in 1 .. n : \A j \in 1 .. i - 1 : j \in 1 .. n
    BY <1>1
  <1>6. ngram \notin ToSet(found)
    BY <1>3
  <1>7. ASSUME NEW set, ToSet(found) \subseteq set, NEW i \in 1 .. n
        PROVE  new[i] \in set
               \/ Bits[Address[new[i]]] \subseteq
                     UNION {Bits[Address[new[j]]] : j \in before(new, i, set)}
    <2>1. CASE asked[i] \in ToSet(found)
      BY <1>1, <1>7, <2>1
    <2>2. CASE Bits[Address[asked[i]]] \subseteq
                  UNION {Bits[Address[asked[j]]] : j \in before(asked, i, ToSet(found))}
      <3>1. \A j \in before(asked, i, ToSet(found)) :
               j \in before(new, i, set) /\ new[j] = asked[j]
        BY <1>1, <1>5, <1>7
      <3> HIDE DEF before
      <3>2. UNION {Bits[Address[asked[j]]] : j \in before(asked, i, ToSet(found))} \subseteq
               UNION {Bits[Address[new[j]]] : j \in before(new, i, set)}
        BY <3>1
      <3> QED
        BY <1>1, <2>2, <3>2
    <2> QED
      BY <1>3, <2>1, <2>2
  <1>8. Covered(more, new)
    <2>1. IsInjective(more)
      <3> SUFFICES ASSUME NEW a \in 1 .. m + 1, NEW b \in 1 .. m + 1, more[a] = more[b]
                   PROVE  a = b
        BY <1>2 DEF IsInjective
      <3>1. \A i \in 1 .. m : found[i] # ngram
        BY <1>2, <1>6 DEF ToSet
      <3>2. /\ a \in 1 .. m \/ a = m + 1
            /\ b \in 1 .. m \/ b = m + 1
        BY <1>2
      <3>3. \A i, k \in 1 .. m : found[i] = found[k] => i = k
        BY <1>2, <1>3 DEF IsInjective
      <3> QED
        BY <1>2, <3>1, <3>2, <3>3
    <2>2. ToSet(more) \subseteq ToSet(new)
      BY <1>1, <1>2, <1>3
    <2>3. ToSet(found) \subseteq ToSet(more) /\ ngram \in ToSet(more)
      BY <1>2
    <2>4. \A i \in 1 .. n + 1 :
              new[i] \in ToSet(more)
              \/ Bits[Address[new[i]]] \subseteq
                    UNION {Bits[Address[new[j]]] : j \in before(new, i, ToSet(more))}
      <3> SUFFICES ASSUME NEW i \in 1 .. n + 1
                   PROVE new[i] \in ToSet(more)
                         \/ Bits[Address[new[i]]] \subseteq
                               UNION {Bits[Address[new[j]]] : j \in before(new, i, ToSet(more))}
        OBVIOUS
      <3>1. CASE i \in 1 .. n
        BY <1>7, <2>3, <3>1
      <3>2. CASE i = n + 1
        BY <1>1, <2>3, <3>2
      <3> QED
        BY <1>4, <3>1, <3>2
    <2> QED
      BY <1>1, <2>1, <2>2, <2>4 DEF Covered
  <1>9. ASSUME Bits[Address[ngram]] \subseteq BitsOf(Addresses(found))
        PROVE  Covered(found, new)
    <2>1. ToSet(found) \subseteq ToSet(new)
      BY <1>1, <1>3
    <2>2. Bits[Address[ngram]] \subseteq
             UNION {Bits[Address[new[j]]] : j \in before(new, n + 1, ToSet(found))}
      <3> SUFFICES ASSUME NEW bit \in Bits[Address[ngram]]
                   PROVE  \E j \in before(new, n + 1, ToSet(found)) : bit \in Bits[Address[new[j]]]
        OBVIOUS
      <3>1. PICK k \in DOMAIN found : bit \in Bits[Address[found[k]]]
        BY <1>9 DEF BitsOf, Addresses
      <3>2. found[k] \in ToSet(found)
        BY DEF ToSet
      <3>3. found[k] \in ToSet(asked)
        BY <1>3, <3>2
      <3>4. PICK j \in 1 .. n : asked[j] = found[k]
        BY <1>1, <3>3 DEF ToSet
      <3>5. new[j] = found[k] /\ j \in 1 .. n + 1 - 1
        BY <1>1, <3>4
      <3>6. j \in before(new, n + 1, ToSet(found))
        <4>1. new[j] \in ToSet(found)
          BY <3>2, <3>5
        <4> QED
          BY <1>1, <3>4, <3>5, <4>1
      <3> QED
        BY <3>1, <3>5, <3>6
    <2>3. \A i \in 1 .. n + 1 :
              new[i] \in ToSet(found)
              \/ Bits[Address[new[i]]] \subseteq
                    UNION {Bits[Address[new[j]]] : j \in before(new, i, ToSet(found))}
      <3> SUFFICES ASSUME NEW i \in 1 .. n + 1
                   PROVE new[i] \in ToSet(found)
                         \/ Bits[Address[new[i]]] \subseteq
                               UNION {Bits[Address[new[j]]] : j \in before(new, i, ToSet(found))}
        OBVIOUS
      <3>1. CASE i \in 1 .. n
        BY <1>7, <3>1
      <3>2. CASE i = n + 1
        BY <1>1, <2>2, <3>2
      <3> QED
        BY <1>4, <3>1, <3>2
    <2> QED
      BY <1>1, <1>3, <2>1, <2>3 DEF Covered
  <1> QED
    BY <1>8, <1>9 DEF more, new

\* A search has reported nothing when it begins.
LEMMA SearchBegins ==
  ASSUME NEW selected, NEW filter, FilterHas(selected, filter, {}, {})
  PROVE  Searched(selected, filter, <<>>, <<>>)
  <1>1. /\ <<>> \in Seq(NGram) /\ DOMAIN <<>> = {}
    OBVIOUS
  <1>2. Addresses(<<>>) = {} /\ ToSet(<<>>) = {}
    BY <1>1 DEF Addresses, ToSet
  <1>3. Covered(<<>>, <<>>)
    BY <1>1, <1>2 DEF Covered, IsInjective
  <1> QED
    BY <1>1, <1>2, <1>3 DEF Searched

\* A final n-gram is asked; the filter says whether it is reported.
LEMMA SearchReports ==
  ASSUME NEW selected, NEW filter, NEW found, NEW asked, Searched(selected, filter, found, asked),
         NEW ngram \in NGram, ngram \in DOMAIN Address, NEW ngrams, ngram \in ngrams
  PROVE  LET new == ngram_unique(selected, filter, Address[ngram])
         IN  /\ new.unique \in BOOLEAN
             /\ Searched(selected, new.filter, IF new.unique THEN Append(found, ngram) ELSE found,
                         WithNGram(asked, ngram, ngrams))
  <1> DEFINE ptr == Address[ngram]
             new == ngram_unique(selected, filter, ptr)
             more == WithNGram(asked, ngram, ngrams)
             out == IF new.unique THEN Append(found, ngram) ELSE found
             Ptrs == Addresses(asked)
  <1>1. /\ found \in Seq(NGram) /\ asked \in Seq(NGram) /\ ToSet(asked) \subseteq DOMAIN Address
        /\ FilterHas(selected, filter, Addresses(found), Addresses(asked))
        /\ selected # "bloom" => found = asked
        /\ selected = "bloom" => Covered(found, asked)
    BY DEF Searched
  <1>2. ptr \in Nat /\ ptr \in Int /\ Avalanche[ptr] \in Nat
    <2>1. ptr \in Range(Address)
      BY DEF Range
    <2> QED
      BY <2>1, AddressAssumption
  <1>3. ptr \in Ptrs <=> ngram \in ToSet(asked)
    <2>1. ASSUME ptr \in Ptrs
          PROVE  ngram \in ToSet(asked)
      <3>1. PICK i \in DOMAIN asked : ptr = Address[asked[i]]
        BY <2>1 DEF Addresses
      <3>2. asked[i] \in ToSet(asked)
        BY DEF ToSet
      <3>3. asked[i] = ngram
        BY <1>1, <3>1, <3>2, AddressAssumption DEF IsInjective
      <3> QED
        BY <3>2, <3>3
    <2>2. ASSUME ngram \in ToSet(asked)
          PROVE  ptr \in Ptrs
      BY <2>2 DEF ToSet, Addresses
    <2> QED
      BY <2>1, <2>2
  <1>4. /\ new.unique \in BOOLEAN
        /\ ptr \in Ptrs => ~new.unique
        /\ selected # "bloom" /\ ~new.unique => ptr \in Ptrs
        /\ selected = "bloom" /\ ~new.unique => Bits[ptr] \subseteq BitsOf(Addresses(found))
        /\ FilterHas(selected, new.filter,
                     IF new.unique THEN Addresses(found) \union {ptr} ELSE Addresses(found),
                     Ptrs \union {ptr})
    <2> HIDE DEF ptr
    <2> QED
      BY <1>1, <1>2, FilterAsked
  <1> HIDE DEF new
  <1>5. Addresses(out) = IF new.unique THEN Addresses(found) \union {ptr} ELSE Addresses(found)
    BY <1>1, AddressesAppended
  <1>6. /\ more \in Seq(NGram) /\ Addresses(more) = Ptrs \union {ptr}
        /\ ToSet(more) = ToSet(asked) \union {ngram}
    <2>1. CASE ngram \in ToSet(asked)
      <3>1. more = asked
        BY <2>1 DEF WithNGram
      <3>2. Ptrs \union {ptr} = Ptrs /\ ToSet(asked) \union {ngram} = ToSet(asked)
        BY <1>3, <2>1
      <3> QED
        BY <1>1, <3>1, <3>2
    <2>2. CASE ngram \notin ToSet(asked)
      <3>1. more = Append(asked, ngram)
        BY <2>2 DEF WithNGram
      <3> HIDE DEF more
      <3> QED
        BY <1>1, <3>1, AddressesAppended, AppendedTo
    <2> QED
      BY <2>1, <2>2
  <1>7. out \in Seq(NGram)
    BY <1>1
  <1>8. CASE ngram \in ToSet(asked)
    <2>1. more = asked /\ ~new.unique
      BY <1>3, <1>4, <1>8 DEF WithNGram
    <2>2. out = found
      BY <2>1
    <2> HIDE DEF more, out, Ptrs, ptr
    <2>3. FilterHas(selected, new.filter, Addresses(out), Addresses(more))
      BY <1>4, <1>5, <1>6
    <2>4. Searched(selected, new.filter, out, more)
      BY <1>1, <2>1, <2>2, <2>3 DEF Searched
    <2> QED
      BY <1>4, <2>4 DEF more, out, ptr, new
  <1>9. CASE ngram \notin ToSet(asked)
    <2>1. more = Append(asked, ngram)
      BY <1>9 DEF WithNGram
    <2>2. selected # "bloom" => out = more
      BY <1>1, <1>3, <1>4, <1>9, <2>1
    <2>3. selected = "bloom" => Covered(out, more)
      BY <1>1, <1>4, <1>9, <2>1, CoveredStep
    <2> HIDE DEF more, out, Ptrs, ptr
    <2>4. FilterHas(selected, new.filter, Addresses(out), Addresses(more))
      BY <1>4, <1>5, <1>6
    <2>5. ToSet(more) \subseteq DOMAIN Address
      BY <1>1, <1>6
    <2>6. Searched(selected, new.filter, out, more)
      BY <1>6, <1>7, <2>2, <2>3, <2>4, <2>5 DEF Searched
    <2> QED
      BY <1>4, <2>6 DEF more, out, ptr, new
  <1> QED
    BY <1>8, <1>9

---------------------------------------------------------------------------
(* The inductive invariant.                                                 *)

AllQueries == UNION {DOMAIN Batches[b].queries : b \in DOMAIN Batches}

InBatch == batch <= Len(Batches)

AnswerSet(query) == AnswerIn(file.ngrams, dynamic, trie, query)

OccurredAt(query, answer, start, pos) == Occurrences(query.text, answer)[<<start, pos - 1>>]

\* The result of a query and the filter of its thread, while the thread walks.
Progress(selected, filter, r, query, answer, start, pos) ==
    \E found : /\ HasNGrams(r, found)
               /\ Searched(selected, filter, found, OccurredAt(query, answer, start, pos))

\* The result of a query that is answered.
Outcome(selected, found, all) ==
    /\ all \in Seq(NGram)
    /\ selected # "bloom" => found = all
    /\ selected = "bloom" => Covered(found, all)

Done(selected, r, query, answer) ==
    \E found : /\ IsCompleted(r, found)
               /\ Outcome(selected, found,
                          OccurredAt(query, answer, Len(query.text) + 1, Len(query.text) + 1))

FilterUsed(selected, filter) == \E found, asked : FilterHas(selected, filter, found, asked)

LoadOK == /\ file \in Files /\ which \in WHICH_FILTER
          /\ IsLoaded(file.ngrams, file.removed, dynamic, trie, vector)

StateOK ==
    /\ batch \in 1 .. Len(Batches) + 1
    /\ detected_nodes = [i \in DOMAIN t_ids |-> detected_nodes[i]]
    /\ walk = [t \in Threads |-> walk[t]]
    /\ result = [q \in AllQueries |-> result[q]]
    /\ IF InBatch THEN waiting \subseteq DOMAIN Queries ELSE waiting = {}

FiltersOK == \A i \in DOMAIN t_ids : FilterUsed(which, detected_nodes[i])

Walking(t) ==
    LET w == walk[t]
        query == Queries[w.query]
    IN  /\ InBatch /\ w.query \in DOMAIN Queries \ waiting
        /\ At(file.ngrams, vector, query.text, w)
        /\ Progress(which, detected_nodes[get_filter(t)], result[w.query], query,
                    AnswerSet(query), w.start, w.pos)

WalksOK == /\ \A t \in Threads : walk[t] = Idle \/ Walking(t)
           /\ \A t, u \in Threads : t # u /\ walk[t] # Idle => walk[t].query # walk[u].query

\* The results that no search of the batch has begun are empty.
FreeOK == \A q \in AllQueries :
             ~(InBatch /\ q \in DOMAIN Queries \ waiting) => HasNGrams(result[q], <<>>)

AnsweredOK == \A q \in DOMAIN Queries : InBatch /\ Answered(q) =>
                 Done(which, result[q], Queries[q], AnswerSet(Queries[q]))

DisplayedOK == PrintedLines /\ CountedOnce

IInv == LoadOK /\ StateOK /\ FiltersOK /\ WalksOK /\ FreeOK /\ AnsweredOK /\ DisplayedOK

---------------------------------------------------------------------------

\* What BatchesAssumption says of each batch.
LEMMA BatchesAre ==
  /\ Len(Batches) \in Nat /\ Len(Batches) >= 1
  /\ \A b \in 1 .. Len(Batches) :
        /\ Batches[b].queries \in Seq([text : Seq(Word), version : Nat])
        /\ DOMAIN Batches[b].queries \subseteq AllQueries
        /\ Batches[b].k \in Int
        /\ \A q \in DOMAIN Batches[b].queries :
              /\ q \in Nat \ {0}
              /\ Batches[b].queries[q].text \in Seq(Word)
              /\ Batches[b].queries[q].version \in Nat
  <1> DEFINE Q == [text : Seq(Word), version : Nat]
  <1>1. Batches \in Seq([queries : Seq(Q), k : Int]) /\ Batches # <<>>
    BY BatchesAssumption DEF Word
  <1>2. Len(Batches) \in Nat /\ Len(Batches) >= 1 /\ DOMAIN Batches = 1 .. Len(Batches)
    <2> HIDE DEF Q
    <2> QED
      BY <1>1
  <1>3. ASSUME NEW b \in 1 .. Len(Batches)
        PROVE  /\ Batches[b].queries \in Seq(Q)
               /\ DOMAIN Batches[b].queries \subseteq AllQueries
               /\ Batches[b].k \in Int
               /\ \A q \in DOMAIN Batches[b].queries :
                     /\ q \in Nat \ {0}
                     /\ Batches[b].queries[q].text \in Seq(Word)
                     /\ Batches[b].queries[q].version \in Nat
    <2>1. Batches[b] \in [queries : Seq(Q), k : Int]
      <3> DEFINE R == [queries : Seq(Q), k : Int]
      <3>1. Batches \in Seq(R)
        BY <1>1
      <3> HIDE DEF Q, R
      <3>2. Batches[b] \in R
        BY <3>1, ElementOfSeq
      <3> QED
        BY <3>2 DEF R
    <2> DEFINE qs == Batches[b].queries
    <2>2. qs \in Seq(Q) /\ Batches[b].k \in Int
      <3> HIDE DEF Q
      <3> QED
        BY <2>1
    <2>3. DOMAIN qs \subseteq AllQueries
      <3> HIDE DEF Q
      <3> QED
        BY <1>2 DEF AllQueries
    <2> HIDE DEF qs
    <2>4. \A q \in DOMAIN qs : q \in Nat \ {0} /\ qs[q] \in Q
      <3> HIDE DEF Q
      <3> QED
        BY <2>2
    <2>5. \A q \in DOMAIN qs : qs[q].text \in Seq(Word) /\ qs[q].version \in Nat
      BY <2>4
    <2> QED
      BY <2>2, <2>3, <2>4, <2>5 DEF qs
  <1> QED
    BY <1>2, <1>3

\* Every thread has a filter of its own.
LEMMA FilterOfThread ==
  ASSUME NEW t \in Threads
  PROVE  /\ get_filter(t) \in DOMAIN t_ids
         /\ \A u \in Threads : u # t => get_filter(u) # get_filter(t)
  <1>1. \A u \in Threads : get_filter(u) \in DOMAIN t_ids /\ t_ids[get_filter(u)] = u
    <2> SUFFICES ASSUME NEW u \in Threads
                 PROVE  get_filter(u) \in DOMAIN t_ids /\ t_ids[get_filter(u)] = u
      OBVIOUS
    <2>1. \E i \in DOMAIN t_ids : t_ids[i] = u
      BY ThreadsAssumption DEF Range
    <2> QED
      BY <2>1 DEF get_filter
  <1> QED
    BY <1>1

\* An idle thread has no query.
LEMMA IdleIs ==
  Idle.query = 0 /\ \A t : walk[t] = Idle => walk[t].query = 0
  BY DEF Idle, Walk

---------------------------------------------------------------------------
(* A step of a thread.                                                      *)

\* What any step of a worker does: it changes its walk, its filter and the result of the
\* query it works on, which is not waiting afterwards.
WorkerStep(t, q, new, filter, r) ==
    /\ walk' = [walk EXCEPT ![t] = new]
    /\ detected_nodes' = [detected_nodes EXCEPT ![get_filter(t)] = filter]
    /\ result' = [result EXCEPT ![q] = r]
    /\ waiting' = waiting \ {q}
    /\ UNCHANGED <<loaded, batch, counted, printed>>

\* A step that keeps what is said of its own thread keeps it of all: neither the filter nor
\* the result of another thread changes.
LEMMA WorkerStepKeeps ==
  ASSUME IInv, InBatch, NEW t \in Threads, NEW q \in DOMAIN Queries, NEW new, NEW filter, NEW r,
         WorkerStep(t, q, new, filter, r),
         walk[t].query = q \/ (walk[t] = Idle /\ q \in waiting),
         FilterUsed(which, filter),
         \/ /\ new.query = q /\ At(file.ngrams, vector, Queries[q].text, new)
            /\ Progress(which, filter, r, Queries[q], AnswerSet(Queries[q]), new.start, new.pos)
         \/ /\ new = Idle
            /\ Done(which, r, Queries[q], AnswerSet(Queries[q]))
  PROVE  IInv'
  <1>1. /\ file' = file /\ which' = which /\ trie' = trie /\ vector' = vector
        /\ dynamic' = dynamic /\ batch' = batch /\ counted' = counted /\ printed' = printed
        /\ waiting' = waiting \ {q}
    BY DEF WorkerStep, loaded
  <1>2. /\ DOMAIN walk = Threads /\ DOMAIN detected_nodes = DOMAIN t_ids
        /\ DOMAIN result = AllQueries
        /\ batch \in 1 .. Len(Batches) + 1 /\ waiting \subseteq DOMAIN Queries
    BY DEF IInv, StateOK
  <1>3. /\ batch \in 1 .. Len(Batches) /\ DOMAIN Queries \subseteq AllQueries
        /\ \A k \in DOMAIN Queries : k # 0
    <2>1. batch \in 1 .. Len(Batches)
      BY <1>2, BatchesAre DEF InBatch
    <2> QED
      BY <2>1, BatchesAre DEF Queries
  <1>4. get_filter(t) \in DOMAIN t_ids /\ \A u \in Threads : u # t => get_filter(u) # get_filter(t)
    BY FilterOfThread
  <1>5. /\ walk' = [u \in Threads |-> IF u = t THEN new ELSE walk[u]]
        /\ walk'[t] = new /\ \A u \in Threads : u # t => walk'[u] = walk[u]
        /\ walk' = [u \in Threads |-> walk'[u]]
    BY <1>2 DEF WorkerStep
  <1>6. /\ detected_nodes'[get_filter(t)] = filter
        /\ \A i \in DOMAIN t_ids : i # get_filter(t) => detected_nodes'[i] = detected_nodes[i]
        /\ detected_nodes' = [i \in DOMAIN t_ids |-> detected_nodes'[i]]
    BY <1>2, <1>4 DEF WorkerStep
  <1>7. /\ result'[q] = r
        /\ \A k \in AllQueries : k # q => result'[k] = result[k]
        /\ result' = [k \in AllQueries |-> result'[k]]
    BY <1>2, <1>3 DEF WorkerStep
  <1>8. Queries' = Queries /\ InBatch' /\ \A query : AnswerSet(query)' = AnswerIn(file.ngrams, dynamic, trie, query)
    BY <1>1 DEF Queries, InBatch, AnswerSet
  <1>9. LoadOK'
    BY <1>1 DEF IInv, LoadOK
  <1>10. StateOK'
    BY <1>1, <1>2, <1>5, <1>6, <1>7, <1>8 DEF StateOK
  <1>11. FiltersOK'
    BY <1>1, <1>4, <1>6 DEF IInv, FiltersOK
  <1>12. q # 0 /\ q \notin waiting' /\ walk[t].query \in {0, q} /\ q \in DOMAIN Queries
    BY <1>1, <1>3, IdleIs
  <1>13. ASSUME NEW u \in Threads, walk[u] # Idle
         PROVE  /\ Walking(u) /\ walk[u].query \in DOMAIN Queries \ waiting
                /\ u # t => walk[u].query # q
    <2>1. Walking(u)
      BY <1>13 DEF IInv, WalksOK
    <2>2. walk[u].query \in DOMAIN Queries \ waiting /\ walk[u].query # 0
      BY <1>3, <2>1 DEF Walking
    <2>3. ASSUME u # t, walk[u].query = q
          PROVE  FALSE
      <3>1. walk[t].query = q
        BY <2>2, <2>3
      <3>2. walk[t] # Idle
        BY <1>12, <3>1, IdleIs
      <3> QED
        BY <2>3, <3>1, <3>2, <1>13 DEF IInv, WalksOK
    <2> QED
      BY <2>1, <2>2, <2>3
  <1>14. ASSUME NEW u \in Threads, u # t, walk[u] # Idle
         PROVE  Walking(u)'
    <2> DEFINE w == walk[u]
               query == Queries[w.query]
    <2>1. /\ w.query \in DOMAIN Queries \ waiting /\ w.query # q
          /\ At(file.ngrams, vector, query.text, w)
          /\ Progress(which, detected_nodes[get_filter(u)], result[w.query], query,
                      AnswerSet(query), w.start, w.pos)
      BY <1>13, <1>14 DEF Walking
    <2>2. /\ walk'[u] = w /\ detected_nodes'[get_filter(u)] = detected_nodes[get_filter(u)]
          /\ result'[w.query] = result[w.query]
      <3>1. get_filter(u) \in DOMAIN t_ids /\ get_filter(u) # get_filter(t)
        BY <1>4, <1>14, FilterOfThread
      <3>2. w.query \in AllQueries
        BY <1>3, <2>1
      <3> QED
        BY <1>5, <1>6, <1>7, <1>14, <2>1, <3>1, <3>2
    <2>3. w.query \in DOMAIN Queries \ (waiting \ {q})
      BY <2>1
    <2> HIDE DEF w
    <2> QED
      BY <1>1, <1>8, <2>1, <2>2, <2>3 DEF Walking, AnswerSet
  <1>15. new = Idle \/ Walking(t)'
    <2> SUFFICES ASSUME new # Idle PROVE Walking(t)'
      OBVIOUS
    <2>1. /\ new.query = q /\ At(file.ngrams, vector, Queries[q].text, new)
          /\ Progress(which, filter, r, Queries[q], AnswerSet(Queries[q]), new.start, new.pos)
      OBVIOUS
    <2>2. q \in DOMAIN Queries \ (waiting \ {q})
      OBVIOUS
    <2> QED
      BY <1>1, <1>5, <1>6, <1>7, <1>8, <2>1, <2>2 DEF Walking, AnswerSet
  <1>16. WalksOK'
    <2>1. \A u \in Threads : walk'[u] = Idle \/ Walking(u)'
      BY <1>5, <1>14, <1>15
    <2>2. ASSUME NEW u \in Threads, NEW v \in Threads, u # v, walk'[u] # Idle
          PROVE  walk'[u].query # walk'[v].query
      <3>1. CASE u = t
        <4>1. walk'[u].query = q /\ walk'[v] = walk[v]
          BY <1>5, <2>2, <3>1
        <4>2. walk[v].query # q
          BY <1>12, <1>13, <2>2, <3>1, IdleIs
        <4> QED
          BY <4>1, <4>2
      <3>2. CASE v = t
        <4>1. walk'[u] = walk[u] /\ walk[u].query # q /\ walk[u].query # 0
          BY <1>3, <1>5, <1>13, <2>2, <3>2
        <4>2. walk'[v].query \in {0, q}
          BY <1>5, <3>2, IdleIs DEF Idle, Walk
        <4> QED
          BY <4>1, <4>2
      <3>3. CASE u # t /\ v # t
        BY <1>5, <2>2, <3>3 DEF IInv, WalksOK
      <3> QED
        BY <3>1, <3>2, <3>3
    <2>3. Idle' = Idle
      BY DEF Idle, Walk
    <2> QED
      BY <2>1, <2>2, <2>3 DEF WalksOK
  <1>17. FreeOK'
    <2> SUFFICES ASSUME NEW k \in AllQueries, ~(InBatch /\ k \in DOMAIN Queries \ waiting')
                 PROVE  HasNGrams(result'[k], <<>>)
      BY <1>8 DEF FreeOK
    <2>1. k # q /\ ~(InBatch /\ k \in DOMAIN Queries \ waiting)
      BY <1>1, <1>12
    <2> QED
      BY <1>7, <2>1 DEF IInv, FreeOK
  <1>18. AnsweredOK'
    <2> SUFFICES ASSUME NEW k \in DOMAIN Queries, Answered(k)'
                 PROVE  Done(which, result'[k], Queries[k], AnswerIn(file.ngrams, dynamic, trie, Queries[k]))
      BY <1>1, <1>8 DEF AnsweredOK
    <2>1. k \in DOMAIN Queries \ waiting' /\ \A u \in Threads : walk'[u].query # k
      BY <1>8 DEF Answered
    <2>2. CASE k = q
      <3>1. new.query # q
        BY <1>5, <2>1, <2>2
      <3> QED
        BY <1>7, <2>2, <3>1 DEF AnswerSet
    <2>3. CASE k # q
      <3>1. walk[t].query # k
        BY <1>3, <1>12, <2>3
      <3>2. Answered(k)
        BY <1>1, <1>5, <2>1, <2>3, <3>1 DEF Answered
      <3>3. Done(which, result[k], Queries[k], AnswerSet(Queries[k]))
        BY <3>2 DEF IInv, AnsweredOK
      <3>4. result'[k] = result[k]
        BY <1>3, <1>7, <2>3
      <3> QED
        BY <3>3, <3>4 DEF AnswerSet
    <2> QED
      BY <2>2, <2>3
  <1>19. DisplayedOK'
    <2>1. DisplayedOK
      BY DEF IInv
    <2>2. \A query : InOrder(query)' = InOrder(query)
      BY <1>1 DEF InOrder, AnswerOf
    <2> QED
      BY <1>1, <2>1, <2>2 DEF DisplayedOK, PrintedLines, CountedOnce, InOrder, AnswerOf
  <1> QED
    BY <1>9, <1>10, <1>11, <1>16, <1>17, <1>18, <1>19 DEF IInv

\* What the invariant says of a thread that works on a query.
LEMMA AtWork ==
  ASSUME IInv, NEW t \in Threads, walk[t].query # 0
  PROVE  LET w == walk[t]
             query == Queries[w.query]
             answer == AnswerSet(query)
         IN  /\ InBatch /\ w.query \in DOMAIN Queries \ waiting /\ w # Idle
             /\ IsLoaded(file.ngrams, file.removed, dynamic, trie, vector)
             /\ file \in Files
             /\ answer = AnswerIn(file.ngrams, dynamic, trie, query)
             /\ query.text \in Seq(Word) /\ Text(t) = query.text /\ Len(query.text) \in Nat
             /\ At(file.ngrams, vector, query.text, w)
             /\ w.start \in 1 .. Len(query.text) + 1 /\ w.pos \in w.start .. Len(query.text) + 1
             /\ IsOccurred(Occurrences(query.text, answer), query.text, answer)
             /\ Progress(which, detected_nodes[get_filter(t)], result[w.query], query, answer,
                         w.start, w.pos)
             /\ get_filter(t) \in DOMAIN t_ids
  <1> DEFINE w == walk[t]
             query == Queries[w.query]
             answer == AnswerSet(query)
  <1>1. w # Idle
    BY IdleIs
  <1>2. Walking(t)
    BY <1>1 DEF IInv, WalksOK
  <1>3. /\ InBatch /\ w.query \in DOMAIN Queries \ waiting
        /\ At(file.ngrams, vector, query.text, w)
        /\ Progress(which, detected_nodes[get_filter(t)], result[w.query], query, answer,
                    w.start, w.pos)
    BY <1>2 DEF Walking
  <1>4. IsLoaded(file.ngrams, file.removed, dynamic, trie, vector) /\ file \in Files
    BY DEF IInv, LoadOK
  <1>5. answer = AnswerIn(file.ngrams, dynamic, trie, query)
    BY DEF AnswerSet
  <1>6. batch \in 1 .. Len(Batches)
    BY <1>3, BatchesAre DEF IInv, StateOK, InBatch
  <1>7. query.text \in Seq(Word)
    BY <1>3, <1>6, BatchesAre DEF Queries
  <1>8. Text(t) = query.text
    BY DEF Text
  <1>9. w.start \in 1 .. Len(query.text) + 1 /\ w.pos \in w.start .. Len(query.text) + 1
    BY <1>3 DEF At
  <1>10. Len(query.text) \in Nat
    BY <1>7
  <1>11. IsOccurred(Occurrences(query.text, answer), query.text, answer)
    BY <1>7, OccurrencesAre
  <1>12. get_filter(t) \in DOMAIN t_ids
    BY FilterOfThread
  <1> DEFINE places == IsOccurred(Occurrences(query.text, answer), query.text, answer)
             progress == Progress(which, detected_nodes[get_filter(t)], result[w.query], query,
                                  answer, w.start, w.pos)
  <1>13. places /\ progress
    BY <1>3, <1>11
  <1> HIDE DEF w, query, answer, places, progress
  <1>14. /\ InBatch /\ w.query \in DOMAIN Queries \ waiting /\ w # Idle
         /\ IsLoaded(file.ngrams, file.removed, dynamic, trie, vector)
         /\ file \in Files
         /\ answer = AnswerIn(file.ngrams, dynamic, trie, query)
         /\ query.text \in Seq(Word) /\ Text(t) = query.text /\ Len(query.text) \in Nat
         /\ At(file.ngrams, vector, query.text, w)
         /\ w.start \in 1 .. Len(query.text) + 1 /\ w.pos \in w.start .. Len(query.text) + 1
         /\ places /\ progress /\ get_filter(t) \in DOMAIN t_ids
    BY <1>1, <1>3, <1>4, <1>5, <1>7, <1>8, <1>9, <1>10, <1>12, <1>13
  <1> QED
    BY <1>14 DEF w, query, answer, places, progress

\* The filter and the result of a query are what the search has left in them.
LEMMA ProgressIs ==
  ASSUME NEW selected, NEW filter, NEW r, NEW query, NEW answer, NEW start, NEW pos,
         Progress(selected, filter, r, query, answer, start, pos)
  PROVE  FilterUsed(selected, filter)
  BY DEF Progress, Searched, FilterUsed

\* A value put back changes nothing.
LEMMA PutBack ==
  ASSUME IInv, NEW t \in Threads, NEW q \in AllQueries
  PROVE  /\ detected_nodes = [detected_nodes EXCEPT ![get_filter(t)] = detected_nodes[get_filter(t)]]
         /\ result = [result EXCEPT ![q] = result[q]]
  <1>1. /\ detected_nodes = [i \in DOMAIN t_ids |-> detected_nodes[i]]
        /\ result = [k \in AllQueries |-> result[k]]
    BY DEF IInv, StateOK
  <1>2. get_filter(t) \in DOMAIN t_ids
    BY FilterOfThread
  <1>3. result = [result EXCEPT ![q] = result[q]]
    <2> DEFINE f == result
    <2>1. f = [k \in AllQueries |-> f[k]]
      BY <1>1
    <2> HIDE DEF f
    <2>2. f = [f EXCEPT ![q] = f[q]]
      BY <2>1
    <2> QED
      BY <2>2 DEF f
  <1>4. ASSUME NEW g, g \in DOMAIN t_ids
        PROVE  detected_nodes = [detected_nodes EXCEPT ![g] = detected_nodes[g]]
    <2> DEFINE f == detected_nodes
    <2>1. f = [k \in DOMAIN t_ids |-> f[k]]
      BY <1>1
    <2> HIDE DEF f
    <2>2. f = [f EXCEPT ![g] = f[g]]
      BY <1>4, <2>1
    <2> QED
      BY <2>2 DEF f
  <1> QED
    BY <1>2, <1>3, <1>4

---------------------------------------------------------------------------

\* The word before.
LEMMA OneBack ==
  ASSUME NEW a, NEW b \in Int, a = b + 1
  PROVE  a - 1 = b
  OBVIOUS

\* The final byte or bit of the next word, where the walk finds it.
FinalOf(t) ==
    LET w == walk[t]
    IN  IF w.inside > 0 THEN vector[w.node][w.inside + 1].final
        ELSE Matches(SubSeq(Text(t), w.start, w.pos), Queries[w.query].version)

\* The walk finds the next word.
CanStep(t) == /\ walk[t].query # 0 /\ walk[t].pos <= Len(Text(t))
              /\ Follows(trie, vector, Text(t), walk[t])

\* It goes on behind it.
StepOf(t) == /\ Report(t, FinalOf(t))
             /\ walk' = [walk EXCEPT ![t] = Moved(vector, Text(t), walk[t])]
             /\ UNCHANGED <<loaded, batch, waiting, counted, printed>>

\* One word further: the words from start to pos are a node, and reported if it is final.
LEMMA StepOn ==
  ASSUME IInv, NEW t \in Threads, CanStep(t), StepOf(t)
  PROVE  IInv'
  <1> DEFINE w == walk[t]
             q == w.query
             query == Queries[q]
             text == query.text
             answer == AnswerSet(query)
             ngram == SubSeq(text, w.start, w.pos)
             occurred == Occurrences(text, answer)
             old == detected_nodes[get_filter(t)]
             asked == ngram_unique(which, old, Address[ngram])
             final == FinalOf(t)
             new == Moved(vector, text, w)
  <1>1. /\ InBatch /\ q \in DOMAIN Queries \ waiting /\ w # Idle
        /\ IsLoaded(file.ngrams, file.removed, dynamic, trie, vector)
        /\ file \in Files
        /\ answer = AnswerIn(file.ngrams, dynamic, trie, query)
        /\ text \in Seq(Word) /\ Text(t) = text /\ Len(text) \in Nat
        /\ At(file.ngrams, vector, text, w)
        /\ w.start \in 1 .. Len(text) + 1 /\ w.pos \in w.start .. Len(text) + 1
        /\ IsOccurred(occurred, text, answer)
        /\ Progress(which, old, result[q], query, answer, w.start, w.pos)
    <2>1. walk[t].query # 0
      BY DEF CanStep
    <2> QED
      BY <2>1, AtWork
  <1> HIDE DEF w, query, text, answer, ngram, occurred, old, asked, final, new
  <1>2. w.pos <= Len(text) /\ Follows(trie, vector, text, w)
    BY <1>1 DEF CanStep, w
  <1>3. /\ ngram \in DOMAIN Load(file.ngrams) /\ ngram \in NGram
        /\ final \in BOOLEAN /\ (final <=> ngram \in answer)
    <2>1. /\ ngram \in DOMAIN Load(file.ngrams) /\ ngram \in NGram
          /\ LET fin == IF w.inside > 0 THEN vector[w.node][w.inside + 1].final
                        ELSE IF dynamic THEN Visible(trie, ngram, query.version)
                             ELSE trie[ngram].final
             IN  fin \in BOOLEAN /\ (fin <=> ngram \in AnswerIn(file.ngrams, dynamic, trie, query))
      BY <1>1, <1>2, FinalIs DEF text, ngram
    <2>2. final = (IF w.inside > 0 THEN vector[w.node][w.inside + 1].final
                   ELSE IF dynamic THEN Visible(trie, ngram, query.version)
                        ELSE trie[ngram].final)
      <3>1. final = (IF w.inside > 0 THEN vector[w.node][w.inside + 1].final
                     ELSE Matches(ngram, query.version))
        BY <1>1 DEF FinalOf, final, w, query, ngram
      <3> QED
        BY <3>1 DEF Matches
    <2> QED
      BY <1>1, <2>1, <2>2
  <1>4. ngram \in DOMAIN Address
    BY <1>1, <1>3, AddressAssumption
  <1>5. /\ At(file.ngrams, vector, text, new)
        /\ new.start = w.start /\ new.pos = w.pos + 1 /\ new.query = q
    BY <1>1, <1>2, WalkMoves DEF new
  <1>6. occurred[<<w.start, w.pos>>] = WithNGram(occurred[<<w.start, w.pos - 1>>], ngram, answer)
    <2> DEFINE a == w.start
               b == w.pos
    <2>1. /\ text \in Seq(Word) /\ IsOccurred(occurred, text, answer)
          /\ a \in 1 .. Len(text) + 1 /\ b \in a .. Len(text) + 1 /\ b <= Len(text)
      BY <1>1, <1>2
    <2> HIDE DEF a, b
    <2>2. occurred[<<a, b>>] = WithNGram(occurred[<<a, b - 1>>], SubSeq(text, a, b), answer)
      BY <2>1, OccurredSteps
    <2> QED
      BY <2>2 DEF ngram, a, b
  <1>7. \A a, b : OccurredAt(query, answer, a, b) = occurred[<<a, b - 1>>]
    BY DEF OccurredAt, occurred, text
  <1>8. PICK found : /\ HasNGrams(result[q], found)
                     /\ Searched(which, old, found, occurred[<<w.start, w.pos - 1>>])
    <2>1. \E found : /\ HasNGrams(result[q], found)
                     /\ Searched(which, old, found, OccurredAt(query, answer, w.start, w.pos))
      BY <1>1 DEF Progress
    <2> QED
      BY <1>7, <2>1
  <1>9. q \in AllQueries
    <2>1. batch \in 1 .. Len(Batches)
      BY <1>1, BatchesAre DEF IInv, StateOK, InBatch
    <2> QED
      BY <1>1, <2>1, BatchesAre DEF Queries
  <1>10. /\ detected_nodes = [detected_nodes EXCEPT ![get_filter(t)] = old]
         /\ result = [result EXCEPT ![q] = result[q]]
    BY <1>9, PutBack DEF old
  <1>11. /\ IF ~final THEN UNCHANGED <<detected_nodes, result>>
            ELSE /\ detected_nodes' = [detected_nodes EXCEPT ![get_filter(t)] = asked.filter]
                 /\ result' = IF ~asked.unique THEN result
                              ELSE [result EXCEPT ![q] = result_ngram_detected(result[q], ngram)]
         /\ walk' = [walk EXCEPT ![t] = new]
         /\ UNCHANGED <<loaded, batch, waiting, counted, printed>>
    BY <1>1 DEF StepOf, Report, asked, old, ngram, final, new, w
  <1> HIDE DEF q
  <1>12. ASSUME NEW filter, NEW r, NEW list,
                detected_nodes' = [detected_nodes EXCEPT ![get_filter(t)] = filter],
                result' = [result EXCEPT ![q] = r],
                HasNGrams(r, list),
                Searched(which, filter, list, occurred[<<w.start, w.pos>>])
         PROVE  IInv'
    <2>1. OccurredAt(query, answer, new.start, new.pos) = occurred[<<w.start, w.pos>>]
      <3>1. w.pos \in Int
        <4> DEFINE a == w.start
                   b == w.pos
        <4>1. a \in 1 .. Len(text) + 1 /\ b \in a .. Len(text) + 1
          BY <1>1
        <4> HIDE DEF a, b
        <4>2. b \in Int
          BY <4>1
        <4> QED
          BY <4>2 DEF b
      <3>2. new.pos - 1 = w.pos
        BY <1>5, <3>1, OneBack
      <3>3. OccurredAt(query, answer, new.start, new.pos) = occurred[<<new.start, new.pos - 1>>]
        BY <1>7
      <3> QED
        BY <1>5, <3>2, <3>3
    <2>2. Progress(which, filter, r, query, answer, new.start, new.pos)
      BY <1>12, <2>1 DEF Progress
    <2>3. FilterUsed(which, filter)
      BY <2>2, ProgressIs
    <2>4. WorkerStep(t, q, new, filter, r)
      <3>1. waiting' = waiting \ {q}
        BY <1>1, <1>11
      <3> QED
        BY <1>11, <1>12, <3>1 DEF WorkerStep
    <2>5. walk[t].query = q /\ q \in DOMAIN Queries /\ InBatch /\ new.query = q
      BY <1>1, <1>5 DEF q, w
    <2>6. /\ At(file.ngrams, vector, Queries[q].text, new)
          /\ Progress(which, filter, r, Queries[q], AnswerSet(Queries[q]), new.start, new.pos)
      BY <1>5, <2>2 DEF answer, text, query
    <2> QED
      BY <2>3, <2>4, <2>5, <2>6, WorkerStepKeeps
  <1>13. CASE ~final
    <2>1. detected_nodes' = detected_nodes /\ result' = result
      BY <1>11, <1>13
    <2>2. occurred[<<w.start, w.pos>>] = occurred[<<w.start, w.pos - 1>>]
      BY <1>3, <1>6, <1>13 DEF WithNGram
    <2> DEFINE before == occurred[<<w.start, w.pos - 1>>]
    <2>3. /\ detected_nodes' = [detected_nodes EXCEPT ![get_filter(t)] = old]
          /\ result' = [result EXCEPT ![q] = result[q]]
      BY <1>10, <2>1 DEF q
    <2>4. HasNGrams(result[q], found) /\ Searched(which, old, found, occurred[<<w.start, w.pos>>])
      BY <1>8, <2>2 DEF q
    <2> QED
      BY <1>12, <2>3, <2>4
  <1>14. CASE final
    <2>1. /\ asked.unique \in BOOLEAN
          /\ Searched(which, asked.filter, IF asked.unique THEN Append(found, ngram) ELSE found,
                      occurred[<<w.start, w.pos>>])
      <3>1. ngram \in answer
        BY <1>3, <1>14
      <3>2. Searched(which, old, found, occurred[<<w.start, w.pos - 1>>])
        BY <1>8
      <3> QED
        BY <1>3, <1>4, <1>6, <3>1, <3>2, SearchReports DEF asked
    <2>2. /\ detected_nodes' = [detected_nodes EXCEPT ![get_filter(t)] = asked.filter]
          /\ result' = IF ~asked.unique THEN result
                       ELSE [result EXCEPT ![q] = result_ngram_detected(result[q], ngram)]
      BY <1>11, <1>14 DEF q
    <2>3. HasNGrams(result[q], found)
      BY <1>8 DEF q
    <2>4. CASE asked.unique
      <3>1. HasNGrams(result_ngram_detected(result[q], ngram), Append(found, ngram))
        BY <1>3, <2>3, ResultExtended
      <3>2. result' = [result EXCEPT ![q] = result_ngram_detected(result[q], ngram)]
        BY <2>2, <2>4
      <3>3. Searched(which, asked.filter, Append(found, ngram), occurred[<<w.start, w.pos>>])
        BY <2>1, <2>4
      <3> QED
        BY <1>12, <2>2, <3>1, <3>2, <3>3
    <2>5. CASE ~asked.unique
      <3>1. result' = [result EXCEPT ![q] = result[q]]
        BY <1>10, <2>2, <2>5 DEF q
      <3>2. Searched(which, asked.filter, found, occurred[<<w.start, w.pos>>])
        BY <2>1, <2>5
      <3> QED
        BY <1>12, <2>2, <2>3, <3>1, <3>2
    <2> QED
      BY <2>4, <2>5
  <1> QED
    BY <1>3, <1>13, <1>14

\* ca_locate_bin finds the next word.
LEMMA DescendKeeps ==
  ASSUME IInv, NEW t \in Threads, Descend(t)
  PROVE  IInv'
  <1> DEFINE w == walk[t]
             text == Text(t)
             query == Queries[w.query]
             child == Append(w.node, text[w.pos])
             new == Walk(w.query, w.start, w.pos + 1, child, IF child \in DOMAIN vector THEN 1 ELSE 0)
  <1>1. /\ w.query # 0 /\ w.pos <= Len(text) /\ w.inside = 0 /\ child \in DOMAIN trie
        /\ Report(t, Matches(child, query.version))
        /\ walk' = [walk EXCEPT ![t] = new]
        /\ UNCHANGED <<loaded, batch, waiting, counted, printed>>
    BY DEF Descend, AtWord
  <1>2. /\ text \in Seq(Word) /\ At(file.ngrams, vector, text, w)
        /\ IsLoaded(file.ngrams, file.removed, dynamic, trie, vector)
        /\ text = query.text
    <2>1. walk[t].query # 0
      BY <1>1
    <2> QED
      BY <2>1, AtWork
  <1> HIDE DEF new, child, query, text, w
  <1>3. Follows(trie, vector, text, w)
    BY <1>1 DEF Follows, child
  <1>4. child = SubSeq(text, w.start, w.pos)
    <2>1. /\ w.start \in 1 .. Len(text) + 1 /\ w.pos \in w.start .. Len(text) + 1
          /\ w.node = SubSeq(text, w.start, w.pos - 1)
      BY <1>1, <1>2 DEF At
    <2>2. w.pos \in w.start .. Len(text)
      BY <1>1, <1>2, <2>1
    <2>3. Append(SubSeq(text, w.start, w.pos - 1), text[w.pos]) = SubSeq(text, w.start, w.pos)
      BY <1>2, <2>1, <2>2, NextWord
    <2> QED
      BY <2>1, <2>3 DEF child
  <1>5. FinalOf(t) = Matches(child, query.version)
    <2>1. ~(w.inside > 0)
      BY <1>1
    <2>2. FinalOf(t) = IF w.inside > 0 THEN vector[w.node][w.inside + 1].final
                       ELSE Matches(SubSeq(text, w.start, w.pos), query.version)
      BY DEF FinalOf, w, text, query
    <2> QED
      BY <1>4, <2>1, <2>2
  <1>6. Moved(vector, text, w) = new
    BY <1>1, <1>4 DEF Moved, new
  <1>7. CanStep(t)
    BY <1>1, <1>3 DEF CanStep, w, text
  <1>8. StepOf(t)
    <2>1. walk' = [walk EXCEPT ![t] = Moved(vector, Text(t), walk[t])]
      BY <1>1, <1>6 DEF w, text
    <2>2. Report(t, FinalOf(t))
      BY <1>1, <1>5
    <2> QED
      BY <1>1, <2>1, <2>2 DEF StepOf
  <1> QED
    BY <1>7, <1>8, StepOn

\* The next word of the vector is the next of the text.
LEMMA CompareKeeps ==
  ASSUME IInv, NEW t \in Threads, Compare(t)
  PROVE  IInv'
  <1> DEFINE w == walk[t]
             text == Text(t)
  <1>1. /\ w.query # 0 /\ w.pos <= Len(text) /\ w.inside > 0
        /\ w.inside < Len(vector[w.node])
        /\ vector[w.node][w.inside + 1].word = text[w.pos]
        /\ Report(t, vector[w.node][w.inside + 1].final)
        /\ walk' = [walk EXCEPT ![t].pos = @ + 1, ![t].inside = @ + 1]
        /\ UNCHANGED <<loaded, batch, waiting, counted, printed>>
    BY DEF Compare, AtWord, InVector
  <1>2. At(file.ngrams, vector, text, w)
    <2>1. walk[t].query # 0
      BY <1>1
    <2> QED
      BY <2>1, AtWork
  <1> HIDE DEF w, text
  <1>3. w.inside # 0
    <2> DEFINE n == w.inside
    <2>1. n \in Nat /\ n > 0
      BY <1>1, <1>2 DEF At
    <2> HIDE DEF n
    <2>2. n # 0
      BY <2>1
    <2> QED
      BY <2>2 DEF n
  <1>4. Follows(trie, vector, text, w)
    BY <1>1, <1>3 DEF Follows
  <1>5. FinalOf(t) = vector[w.node][w.inside + 1].final
    BY <1>1 DEF FinalOf, w
  <1>6. walk' = [walk EXCEPT ![t] = Moved(vector, text, w)]
    <2> DEFINE a == w.query
               b == w.start
               c == w.pos
               d == w.node
               e == w.inside
               r == [query |-> a, start |-> b, pos |-> c + 1, node |-> d, inside |-> e]
               new == [query |-> a, start |-> b, pos |-> c + 1, node |-> d, inside |-> e + 1]
    <2>1. w = [query |-> a, start |-> b, pos |-> c, node |-> d, inside |-> e]
      BY <1>2 DEF At, Walk
    <2>2. Moved(vector, text, w) = new
      BY <1>3 DEF Moved, Walk
    <2>3. walk' = [walk EXCEPT ![t] = [[w EXCEPT !.pos = @ + 1] EXCEPT !.inside = @ + 1]]
      <3>1. walk' = [[walk EXCEPT ![t] = [walk[t] EXCEPT !.pos = walk[t].pos + 1]]
                        EXCEPT ![t].inside = @ + 1]
        BY <1>1
      <3>2. DOMAIN walk = Threads
        BY DEF IInv, StateOK
      <3> QED
        BY <3>1, <3>2 DEF w
    <2>4. [w EXCEPT !.pos = @ + 1] = r
      <3> HIDE DEF a, b, c, d, e
      <3> QED
        BY <2>1
    <2>5. [r EXCEPT !.inside = @ + 1] = new
      <3> HIDE DEF a, b, c, d, e
      <3> QED
        OBVIOUS
    <2> HIDE DEF r, new
    <2> QED
      BY <2>2, <2>3, <2>4, <2>5
  <1>7. CanStep(t)
    BY <1>1, <1>4 DEF CanStep, w, text
  <1>8. StepOf(t)
    <2>1. walk' = [walk EXCEPT ![t] = Moved(vector, Text(t), walk[t])]
      BY <1>6 DEF w, text
    <2>2. Report(t, FinalOf(t))
      BY <1>1, <1>5
    <2> QED
      BY <1>1, <2>1, <2>2 DEF StepOf
  <1> QED
    BY <1>7, <1>8, StepOn

\* Nothing that occurs is lost when the walk begins anew one word later.
LEMMA NextNGramKeeps ==
  ASSUME IInv, NEW t \in Threads, NextNGram(t)
  PROVE  IInv'
  <1> DEFINE w == walk[t]
             q == w.query
             query == Queries[q]
             text == query.text
             answer == AnswerSet(query)
             occurred == Occurrences(text, answer)
             old == detected_nodes[get_filter(t)]
             a == w.start
             b == w.pos
             new == Walk(q, a + 1, a + 1, <<>>, 0)
  <1>1. /\ q # 0 /\ a <= Len(Text(t)) /\ ~GoesOn(t)
        /\ walk' = [walk EXCEPT ![t] = new]
        /\ UNCHANGED <<loaded, detected_nodes, batch, waiting, result, counted, printed>>
    BY DEF NextNGram
  <1>2. /\ InBatch /\ q \in DOMAIN Queries \ waiting /\ w # Idle
        /\ IsLoaded(file.ngrams, file.removed, dynamic, trie, vector)
        /\ answer = AnswerIn(file.ngrams, dynamic, trie, query)
        /\ text \in Seq(Word) /\ Text(t) = text /\ Len(text) \in Nat
        /\ At(file.ngrams, vector, text, w)
        /\ a \in 1 .. Len(text) + 1 /\ b \in a .. Len(text) + 1
        /\ IsOccurred(occurred, text, answer)
        /\ Progress(which, old, result[q], query, answer, a, b)
    <2>1. walk[t].query # 0
      BY <1>1
    <2> QED
      BY <2>1, AtWork
  <1> HIDE DEF w, query, text, answer, occurred, old, new
  <1>3. w.pos <= Len(text) => ~Follows(trie, vector, text, w)
    <2>1. w.inside \in Nat
      BY <1>2 DEF At
    <2>2. CASE w.inside = 0
      BY <1>1, <1>2, <2>2 DEF GoesOn, Follows, w
    <2>3. CASE w.inside # 0
      <3>1. w.inside > 0
        <4> DEFINE n == w.inside
        <4>1. n \in Nat /\ n # 0
          BY <2>1, <2>3
        <4> HIDE DEF n
        <4>2. n > 0
          BY <4>1
        <4> QED
          BY <4>2 DEF n
      <3> QED
        BY <1>1, <1>2, <2>3, <3>1 DEF GoesOn, Follows, InVector, w
    <2> QED
      BY <2>2, <2>3
  <1>4. \A k \in b .. Len(text) : SubSeq(text, a, k) \notin answer
    BY <1>2, <1>3, NoneFollows
  <1> HIDE DEF q, a, b
  <1>5. /\ a \in 1 .. Len(text) /\ b \in a .. Len(text) + 1 /\ a + 1 \in 1 .. Len(text) + 1
        /\ a \in Int
    BY <1>1, <1>2
  <1>6. occurred[<<a + 1, a>>] = occurred[<<a, b - 1>>]
    BY <1>2, <1>4, <1>5, OccurredSkips
  <1>7. At(file.ngrams, vector, text, new)
    BY <1>2, <1>5, WalkBegins DEF new
  <1>8. new.query = q /\ new.start = a + 1 /\ new.pos = a + 1
    BY DEF Walk, new
  <1>9. Progress(which, old, result[q], query, answer, new.start, new.pos)
    <2>1. new.pos - 1 = a
      BY <1>5, <1>8, OneBack
    <2>2. /\ OccurredAt(query, answer, new.start, new.pos) = occurred[<<new.start, new.pos - 1>>]
          /\ OccurredAt(query, answer, a, b) = occurred[<<a, b - 1>>]
      BY DEF OccurredAt, occurred, text
    <2>3. OccurredAt(query, answer, new.start, new.pos) = OccurredAt(query, answer, a, b)
      BY <1>6, <1>8, <2>1, <2>2
    <2> QED
      BY <1>2, <2>3 DEF Progress
  <1>10. q \in AllQueries
    <2>1. batch \in 1 .. Len(Batches)
      BY <1>2, BatchesAre DEF IInv, StateOK, InBatch
    <2> QED
      BY <1>2, <2>1, BatchesAre DEF Queries
  <1>11. WorkerStep(t, q, new, old, result[q])
    <2>1. /\ detected_nodes = [detected_nodes EXCEPT ![get_filter(t)] = old]
          /\ result = [result EXCEPT ![q] = result[q]]
      BY <1>10, PutBack DEF old
    <2>2. waiting' = waiting \ {q}
      BY <1>1, <1>2
    <2>3. detected_nodes' = detected_nodes /\ result' = result
      BY <1>1
    <2> QED
      BY <1>1, <2>1, <2>2, <2>3 DEF WorkerStep
  <1>12. FilterUsed(which, old)
    BY <1>9, ProgressIs
  <1>13. walk[t].query = q
    BY DEF q, w
  <1>14. /\ At(file.ngrams, vector, Queries[q].text, new)
         /\ Progress(which, old, result[q], Queries[q], AnswerSet(Queries[q]), new.start, new.pos)
    BY <1>7, <1>9 DEF answer, text, query
  <1> QED
    BY <1>2, <1>8, <1>11, <1>12, <1>13, <1>14, WorkerStepKeeps

\* At the end of the text everything that occurs has been asked for.
LEMMA CompleteSearchKeeps ==
  ASSUME IInv, NEW t \in Threads, CompleteSearch(t)
  PROVE  IInv'
  <1> DEFINE w == walk[t]
             q == w.query
             query == Queries[q]
             text == query.text
             answer == AnswerSet(query)
             old == detected_nodes[get_filter(t)]
             new == result_completed(result[q])
             a == w.start
             b == w.pos
  <1>1. /\ q # 0 /\ a > Len(Text(t))
        /\ walk' = [walk EXCEPT ![t] = Idle]
        /\ result' = [result EXCEPT ![q] = new]
        /\ UNCHANGED <<loaded, detected_nodes, batch, waiting, counted, printed>>
    BY DEF CompleteSearch
  <1>2. /\ InBatch /\ q \in DOMAIN Queries \ waiting /\ w # Idle
        /\ text \in Seq(Word) /\ Text(t) = text /\ Len(text) \in Nat
        /\ a \in 1 .. Len(text) + 1 /\ b \in a .. Len(text) + 1
        /\ Progress(which, old, result[q], query, answer, a, b)
    <2>1. walk[t].query # 0
      BY <1>1
    <2> QED
      BY <2>1, AtWork
  <1>3. walk[t].query = q
    OBVIOUS
  <1> HIDE DEF w, q, query, text, answer, old, new, a, b
  <1>4. a = Len(text) + 1 /\ b = Len(text) + 1
    BY <1>1, <1>2
  <1> DEFINE all == OccurredAt(query, answer, Len(text) + 1, Len(text) + 1)
  <1>5. PICK found : HasNGrams(result[q], found) /\ Searched(which, old, found, all)
    BY <1>2, <1>4 DEF Progress
  <1>6. Done(which, new, query, answer)
    <2>1. IsCompleted(new, found)
      BY <1>5, ResultCompleted DEF new
    <2>2. Outcome(which, found, all)
      BY <1>5 DEF Searched, Outcome
    <2> QED
      BY <2>1, <2>2 DEF Done, text
  <1>7. q \in AllQueries
    <2>1. batch \in 1 .. Len(Batches)
      BY <1>2, BatchesAre DEF IInv, StateOK, InBatch
    <2> QED
      BY <1>2, <2>1, BatchesAre DEF Queries
  <1>8. WorkerStep(t, q, Idle, old, new)
    <2>1. detected_nodes = [detected_nodes EXCEPT ![get_filter(t)] = old]
      BY <1>7, PutBack DEF old
    <2>2. waiting' = waiting \ {q}
      BY <1>1, <1>2
    <2>3. detected_nodes' = detected_nodes
      BY <1>1
    <2> QED
      BY <1>1, <2>1, <2>2, <2>3 DEF WorkerStep
  <1>9. FilterUsed(which, old)
    BY <1>2, ProgressIs
  <1>10. Done(which, new, Queries[q], AnswerSet(Queries[q]))
    BY <1>6 DEF answer, query
  <1> QED
    BY <1>2, <1>3, <1>8, <1>9, <1>10, WorkerStepKeeps

\* A new query finds its filter and its result empty.
LEMMA StartSearchKeeps ==
  ASSUME IInv, NEW t \in Threads, NEW q \in waiting, StartSearch(t, q)
  PROVE  IInv'
  <1> DEFINE query == Queries[q]
             text == query.text
             answer == AnswerSet(query)
             occurred == Occurrences(text, answer)
             old == detected_nodes[get_filter(t)]
             filter == reuse_filter(which, old)
             new == Walk(q, 1, 1, <<>>, 0)
  <1>1. /\ walk[t] = Idle /\ waiting' = waiting \ {q}
        /\ detected_nodes' = [detected_nodes EXCEPT ![get_filter(t)] = filter]
        /\ walk' = [walk EXCEPT ![t] = new]
        /\ UNCHANGED <<loaded, batch, result, counted, printed>>
    BY DEF StartSearch
  <1> HIDE DEF new, filter, old, occurred, answer
  <1>2. InBatch /\ q \in DOMAIN Queries
    BY DEF IInv, StateOK
  <1>3. batch \in 1 .. Len(Batches)
    BY <1>2, BatchesAre DEF IInv, StateOK, InBatch
  <1>4. text \in Seq(Word) /\ q \in AllQueries
    BY <1>2, <1>3, BatchesAre DEF Queries
  <1> HIDE DEF text, query
  <1>5. IsLoaded(file.ngrams, file.removed, dynamic, trie, vector) /\ which \in WHICH_FILTER
    BY DEF IInv, LoadOK
  <1>6. FilterHas(which, filter, {}, {})
    <2>1. FilterUsed(which, old)
      BY FilterOfThread DEF IInv, FiltersOK, old
    <2>2. PICK found, asked : FilterHas(which, old, found, asked)
      BY <2>1 DEF FilterUsed
    <2> QED
      BY <1>5, <2>2, FilterEmpty DEF filter
  <1>7. Searched(which, filter, <<>>, <<>>)
    BY <1>6, SearchBegins
  <1>8. HasNGrams(result[q], <<>>)
    BY <1>4 DEF IInv, FreeOK
  <1>9. 1 \in 1 .. Len(text) + 1 /\ Len(text) \in Nat
    BY <1>4
  <1>10. At(file.ngrams, vector, text, new)
    BY <1>4, <1>5, <1>9, WalkBegins DEF new
  <1>11. OccurredAt(query, answer, 1, 1) = <<>>
    <2>1. IsOccurred(occurred, text, answer)
      BY <1>4, OccurrencesAre DEF occurred
    <2>2. occurred[<<1, 0>>] = <<>>
      BY <1>4, <1>9, <2>1, OccurredSteps
    <2>3. OccurredAt(query, answer, 1, 1) = occurred[<<1, 1 - 1>>]
      BY DEF OccurredAt, occurred, text
    <2>4. 1 - 1 = 0
      OBVIOUS
    <2> QED
      BY <2>2, <2>3, <2>4
  <1>12. new.query = q /\ new.start = 1 /\ new.pos = 1
    BY DEF Walk, new
  <1>13. Progress(which, filter, result[q], query, answer, new.start, new.pos)
    BY <1>7, <1>8, <1>11, <1>12 DEF Progress
  <1>14. WorkerStep(t, q, new, filter, result[q])
    <2>1. result = [result EXCEPT ![q] = result[q]]
      BY <1>4, PutBack
    <2> QED
      BY <1>1, <2>1 DEF WorkerStep
  <1>15. FilterUsed(which, filter)
    BY <1>13, ProgressIs
  <1>16. /\ At(file.ngrams, vector, Queries[q].text, new)
         /\ Progress(which, filter, result[q], Queries[q], AnswerSet(Queries[q]), new.start, new.pos)
    BY <1>10, <1>13 DEF answer, text, query
  <1> QED
    BY <1>1, <1>2, <1>12, <1>14, <1>15, <1>16, WorkerStepKeeps

\* The result of an answered query.
LEMMA AnsweredIs ==
  ASSUME IInv, InBatch, NEW q \in DOMAIN Queries, Answered(q)
  PROVE  \E found : /\ IsCompleted(result[q], found)
                    /\ Outcome(which, found, InOrder(Queries[q]))
  <1> DEFINE query == Queries[q]
             text == query.text
             answer == AnswerSet(query)
             last == Len(text) + 1
  <1>1. Done(which, result[q], query, answer)
    BY DEF IInv, AnsweredOK
  <1>2. PICK found : /\ IsCompleted(result[q], found)
                     /\ Outcome(which, found, OccurredAt(query, answer, last, last))
    <2> HIDE DEF answer
    <2> QED
      BY <1>1 DEF Done
  <1>3. batch \in 1 .. Len(Batches)
    BY BatchesAre DEF IInv, StateOK, InBatch
  <1>4. Len(text) \in Int
    <2>1. text \in Seq(Word)
      BY <1>3, BatchesAre DEF Queries
    <2> HIDE DEF text
    <2> QED
      BY <2>1
  <1>5. OccurredAt(query, answer, last, last) = InOrder(query)
    <2>1. last - 1 = Len(text)
      <3> HIDE DEF text
      <3> QED
        BY <1>4, OneBack
    <2>2. OccurredAt(query, answer, last, last) = Occurrences(text, answer)[<<last, last - 1>>]
      <3> HIDE DEF last, answer
      <3> QED
        BY DEF OccurredAt
    <2>3. InOrder(query) = Occurrences(text, answer)[<<last, Len(text)>>]
      BY DEF InOrder, AnswerOf, AnswerSet, AnswerIn
    <2> QED
      BY <2>1, <2>2, <2>3
  <1> QED
    BY <1>2, <1>5

---------------------------------------------------------------------------
(* Main displays the results.                                               *)

LEMMA DisplayKeeps ==
  ASSUME IInv, rm_display_result
  PROVE  IInv'
  <1>1. /\ InBatch /\ waiting = {} /\ \A t \in Threads : walk[t] = Idle
        /\ counted' = IF Batches[batch].k > 0
                      THEN FlattenSeq([q \in DOMAIN Queries |-> Fetched(Used[q])])
                      ELSE <<>>
        /\ result' = Formatted
        /\ printed' = [q \in DOMAIN Queries |-> StringAt(result'[q], 0)]
        /\ batch' = batch + 1
        /\ waiting' = IF batch = Len(Batches) THEN {} ELSE DOMAIN Batches[batch + 1].queries
        /\ file' = file /\ which' = which /\ trie' = trie /\ vector' = vector
        /\ dynamic' = dynamic /\ detected_nodes' = detected_nodes /\ walk' = walk
    BY DEF rm_display_result, InBatch, loaded
  <1>2. /\ batch \in 1 .. Len(Batches) /\ Len(Batches) \in Nat
        /\ DOMAIN Queries \subseteq AllQueries /\ \A q \in DOMAIN Queries : q # 0
    <2>1. batch \in 1 .. Len(Batches)
      BY <1>1, BatchesAre DEF IInv, StateOK, InBatch
    <2> QED
      BY <2>1, BatchesAre DEF Queries
  <1>3. DOMAIN result = AllQueries
    BY DEF IInv, StateOK
  <1>4. ASSUME NEW q \in DOMAIN Queries
        PROVE  /\ HasNGrams(result'[q], <<>>)
               /\ which # "bloom" => /\ StringAt(result'[q], 0) = Layout(InOrder(Queries[q]))
                                     /\ Fetched(result[q]) = SpacedOut(InOrder(Queries[q]))
    <2>1. Answered(q)
      BY <1>1, <1>2, IdleIs DEF Answered
    <2>2. PICK found : IsCompleted(result[q], found) /\ Outcome(which, found, InOrder(Queries[q]))
      BY <1>1, <2>1, AnsweredIs
    <2>3. result'[q] = result_format(result[q])
      BY <1>1, <1>2, <1>3 DEF Formatted
    <2>4. /\ HasNGrams(result_format(result[q]), <<>>)
          /\ StringAt(result_format(result[q]), 0) = Layout(found)
      BY <2>2, FormattedIs
    <2>5. Fetched(result[q]) = SpacedOut(found)
      BY <2>2, FetchedIs DEF IsCompleted
    <2>6. which # "bloom" => found = InOrder(Queries[q])
      BY <2>2 DEF Outcome
    <2> QED
      BY <2>3, <2>4, <2>5, <2>6
  <1>5. LoadOK'
    BY <1>1 DEF IInv, LoadOK
  <1>6. StateOK'
    <2>1. batch' \in 1 .. Len(Batches) + 1
      BY <1>1, <1>2
    <2>2. result' = [q \in AllQueries |-> result'[q]]
      BY <1>1, <1>3 DEF Formatted
    <2>3. IF InBatch' THEN waiting' \subseteq DOMAIN Queries' ELSE waiting' = {}
      BY <1>1, <1>2 DEF InBatch, Queries
    <2> QED
      BY <1>1, <2>1, <2>2, <2>3 DEF IInv, StateOK
  <1>7. FiltersOK'
    BY <1>1 DEF IInv, FiltersOK
  <1>8. WalksOK'
    <2>1. \A t \in Threads : walk'[t] = Idle
      BY <1>1
    <2>2. Idle' = Idle
      BY DEF Idle, Walk
    <2> QED
      BY <2>1, <2>2 DEF WalksOK
  <1>9. FreeOK'
    <2> SUFFICES ASSUME NEW q \in AllQueries
                 PROVE  HasNGrams(result'[q], <<>>)
      BY DEF FreeOK
    <2>1. CASE q \in DOMAIN Queries
      BY <1>4, <2>1
    <2>2. CASE q \notin DOMAIN Queries
      BY <1>1, <1>3, <2>2 DEF Formatted, IInv, FreeOK
    <2> QED
      BY <2>1, <2>2
  <1>10. AnsweredOK'
    <2> SUFFICES ASSUME NEW q \in DOMAIN Queries', InBatch', Answered(q)'
                 PROVE  FALSE
      BY DEF AnsweredOK
    <2>1. q \in DOMAIN Queries' \ waiting'
      BY DEF Answered
    <2> QED
      BY <1>1, <1>2, <2>1 DEF InBatch, Queries
  <1>11. DisplayedOK'
    <2>1. batch' - 1 = batch /\ Batches[batch' - 1].queries = Queries
      <3>1. batch' - 1 = batch
        BY <1>1, <1>2, OneBack
      <3> QED
        BY <3>1 DEF Queries
    <2>2. \A query : InOrder(query)' = InOrder(query)
      BY <1>1 DEF InOrder, AnswerOf
    <2>3. ASSUME which # "bloom"
          PROVE  printed' = [q \in DOMAIN Queries |-> Layout(InOrder(Queries[q]))]
      BY <1>1, <1>4, <2>3
    <2>4. ASSUME which # "bloom"
          PROVE  counted' = IF Batches[batch].k > 0
                            THEN FlattenSeq([q \in DOMAIN Queries |->
                                               SpacedOut(InOrder(Queries[q]))])
                            ELSE <<>>
      <3>1. \A q \in DOMAIN Queries : Fetched(Used[q]) = SpacedOut(InOrder(Queries[q]))
        BY <1>4, <2>4 DEF Used
      <3>2. [q \in DOMAIN Queries |-> Fetched(Used[q])]
               = [q \in DOMAIN Queries |-> SpacedOut(InOrder(Queries[q]))]
        BY <3>1
      <3> QED
        BY <1>1, <3>2
    <2>5. PrintedLines'
      BY <1>1, <2>1, <2>2, <2>3 DEF PrintedLines, Queries
    <2>6. CountedOnce'
      BY <1>1, <2>1, <2>2, <2>4 DEF CountedOnce, Queries
    <2> QED
      BY <2>5, <2>6 DEF DisplayedOK
  <1> QED
    BY <1>5, <1>6, <1>7, <1>8, <1>9, <1>10, <1>11 DEF IInv

\* The invariant holds at first.
LEMMA InvInit ==
  Init => IInv
  <1> SUFFICES ASSUME Init PROVE IInv
    OBVIOUS
  <1>1. LoadOK
    <2>1. file \in Files /\ which \in WHICH_FILTER
      BY DEF Init
    <2>2. file.ngrams \in SUBSET Paths /\ IsFiniteSet(file.ngrams)
      BY <2>1, FilesAssumption DEF Paths
    <2>3. /\ dynamic \in BOOLEAN
          /\ dynamic => trie = LoadedWithout(file.ngrams, file.removed) /\ DOMAIN vector = {}
          /\ ~dynamic => trie = Compressed(Load(file.ngrams)) /\ vector = Vectors(Load(file.ngrams))
      BY DEF Init
    <2> QED
      BY <2>1, <2>2, <2>3 DEF LoadOK, IsLoaded
  <1>2. batch = 1 /\ 1 \in 1 .. Len(Batches) /\ InBatch /\ Len(Batches) \in Nat
    BY BatchesAre DEF Init, InBatch
  <1>3. StateOK
    <2>1. batch \in 1 .. Len(Batches) + 1
      BY <1>2
    <2>2. /\ detected_nodes = [i \in DOMAIN t_ids |-> detected_nodes[i]]
          /\ walk = [t \in Threads |-> walk[t]]
          /\ result = [q \in AllQueries |-> result[q]]
      BY DEF Init, AllQueries
    <2>3. waiting \subseteq DOMAIN Queries
      BY DEF Init
    <2> QED
      BY <1>2, <2>1, <2>2, <2>3 DEF StateOK
  <1>4. FiltersOK
    <2>1. FilterHas(which, FilterInit(which), {}, {})
      BY <1>1, FilterEmpty DEF LoadOK
    <2>2. \A i \in DOMAIN t_ids : detected_nodes[i] = FilterInit(which)
      BY DEF Init
    <2> QED
      BY <2>1, <2>2 DEF FiltersOK, FilterUsed
  <1>5. WalksOK
    BY DEF Init, WalksOK
  <1>6. FreeOK
    <2>1. HasNGrams(result_init, <<>>)
      BY EmptyResult, ResultIsBuffer, ResultBegins
    <2> QED
      BY <2>1 DEF Init, FreeOK, AllQueries
  <1>7. AnsweredOK
    BY DEF Init, AnsweredOK, Answered
  <1>8. DisplayedOK
    <2>1. ~(batch > 1)
      BY <1>2
    <2> QED
      BY <2>1 DEF DisplayedOK, PrintedLines, CountedOnce
  <1> QED
    BY <1>1, <1>3, <1>4, <1>5, <1>6, <1>7, <1>8 DEF IInv

\* Nothing of it depends on more than the variables.
LEMMA InvStutter ==
  ASSUME IInv, UNCHANGED vars
  PROVE  IInv'
  <1>1. /\ file' = file /\ which' = which /\ trie' = trie /\ vector' = vector
        /\ dynamic' = dynamic /\ detected_nodes' = detected_nodes /\ batch' = batch
        /\ waiting' = waiting /\ walk' = walk /\ result' = result /\ counted' = counted
        /\ printed' = printed
    BY DEF vars, loaded
  <1>2. /\ Queries' = Queries /\ (InBatch' <=> InBatch)
    BY <1>1 DEF Queries, InBatch
  <1>3. LoadOK' /\ StateOK' /\ FiltersOK' /\ FreeOK'
    BY <1>1, <1>2 DEF IInv, LoadOK, StateOK, FiltersOK, FreeOK
  <1>4. WalksOK'
    <2>1. WalksOK
      BY DEF IInv
    <2>2. ASSUME NEW t \in Threads, Walking(t)
          PROVE  Walking(t)'
      BY <1>1, <1>2, <2>2 DEF Walking, AnswerSet
    <2>3. \A t \in Threads : walk'[t] = Idle \/ Walking(t)'
      BY <1>1, <2>1, <2>2 DEF WalksOK
    <2>4. \A t, u \in Threads : t # u /\ walk'[t] # Idle => walk'[t].query # walk'[u].query
      BY <1>1, <2>1 DEF WalksOK
    <2> QED
      BY <2>3, <2>4 DEF WalksOK, Idle, Walk
  <1>5. AnsweredOK'
    BY <1>1, <1>2 DEF IInv, AnsweredOK, Answered, AnswerSet
  <1>6. DisplayedOK'
    <2>1. PrintedLines /\ CountedOnce
      BY DEF IInv, DisplayedOK
    <2>2. PrintedLines'
      BY <1>1, <2>1 DEF PrintedLines, InOrder, AnswerOf
    <2>3. CountedOnce'
      BY <1>1, <2>1 DEF CountedOnce, InOrder, AnswerOf
    <2> QED
      BY <2>2, <2>3 DEF DisplayedOK
  <1> QED
    BY <1>3, <1>4, <1>5, <1>6 DEF IInv

\* Every step keeps it.
LEMMA InvNext ==
  IInv /\ [Next]_vars => IInv'
  <1> SUFFICES ASSUME IInv, [Next]_vars PROVE IInv'
    OBVIOUS
  <1>1. CASE \E t \in Threads : \E q \in waiting : StartSearch(t, q)
    BY <1>1, StartSearchKeeps
  <1>2. CASE \E t \in Threads : Descend(t)
    BY <1>2, DescendKeeps
  <1>3. CASE \E t \in Threads : Compare(t)
    BY <1>3, CompareKeeps
  <1>4. CASE \E t \in Threads : NextNGram(t)
    BY <1>4, NextNGramKeeps
  <1>5. CASE \E t \in Threads : CompleteSearch(t)
    BY <1>5, CompleteSearchKeeps
  <1>6. CASE rm_display_result
    BY <1>6, DisplayKeeps
  <1>7. CASE UNCHANGED vars
    BY <1>7, InvStutter
  <1> QED
    BY <1>1, <1>2, <1>3, <1>4, <1>5, <1>6, <1>7 DEF Next, Ended

---------------------------------------------------------------------------
(* The properties.                                                          *)

\* In every state a result is a buffer.
LEMMA AllResults ==
  ASSUME IInv, NEW q \in AllQueries
  PROVE  result[q] \in Results
  <1>1. CASE ~(InBatch /\ q \in DOMAIN Queries \ waiting)
    BY <1>1 DEF IInv, FreeOK, HasNGrams
  <1>2. CASE InBatch /\ q \in DOMAIN Queries \ waiting
    <2>1. CASE Answered(q)
      BY <1>2, <2>1, AnsweredIs DEF IsCompleted, HasNGrams
    <2>2. CASE ~Answered(q)
      <3>1. PICK t \in Threads : walk[t].query = q
        BY <1>2, <2>2 DEF Answered
      <3>2. q # 0
        <4>1. batch \in 1 .. Len(Batches)
          BY <1>2, BatchesAre DEF IInv, StateOK, InBatch
        <4> QED
          BY <1>2, <4>1, BatchesAre DEF Queries
      <3>3. Progress(which, detected_nodes[get_filter(t)], result[q], Queries[q],
                     AnswerSet(Queries[q]), walk[t].start, walk[t].pos)
        BY <3>1, <3>2, AtWork
      <3> QED
        BY <3>3 DEF Progress, HasNGrams
    <2> QED
      BY <2>1, <2>2
  <1> QED
    BY <1>1, <1>2

\* It implies the types.
LEMMA InvTypes == IInv => TypeOK
  <1> SUFFICES ASSUME IInv PROVE TypeOK
    OBVIOUS
  <1>1. IsLoaded(file.ngrams, file.removed, dynamic, trie, vector) /\ which \in WHICH_FILTER
    BY DEF IInv, LoadOK
  <1>2. \A path \in DOMAIN trie : trie[path].final \in BOOLEAN
    <2>1. /\ \A path \in DOMAIN Load(file.ngrams) : Load(file.ngrams)[path].final \in BOOLEAN
          /\ DOMAIN trie \subseteq DOMAIN Load(file.ngrams)
          /\ \A path \in DOMAIN trie : trie[path].final = Load(file.ngrams)[path].final
      BY <1>1, LoadedNodes
    <2> QED
      BY <2>1
  <1>3. dynamic \in BOOLEAN
    BY <1>1 DEF IsLoaded
  <1>4. batch \in 1 .. Len(Batches) + 1
    BY DEF IInv, StateOK
  <1>5. ASSUME NEW q \in DOMAIN result
        PROVE  result[q].first_available_slot \in 0 .. Bufsize(result[q])
    <2>1. q \in AllQueries
      BY DEF IInv, StateOK
    <2>2. result[q] \in Results
      BY <2>1, AllResults
    <2>3. PICK n \in Nat : IsBuffer(result[q], n)
      BY <2>2 DEF Results
    <2>4. Bufsize(result[q]) = n
      BY <2>3, ResultIsBuffer
    <2> QED
      BY <2>3, <2>4 DEF IsBuffer
  <1>6. ASSUME NEW t \in Threads, walk[t] # Idle
        PROVE  LET w == walk[t]
               IN  /\ w.query \in DOMAIN Queries \ waiting
                   /\ w.start \in 1 .. Len(Text(t)) + 1
                   /\ w.pos \in w.start .. Len(Text(t)) + 1
                   /\ w.inside > 0 =>
                         w.node \in DOMAIN vector /\ w.inside \in DOMAIN vector[w.node]
    <2> DEFINE w == walk[t]
    <2>1. w.query # 0
      <3>1. Walking(t)
        BY <1>6 DEF IInv, WalksOK
      <3>2. batch \in 1 .. Len(Batches)
        BY <3>1, BatchesAre DEF Walking, IInv, StateOK, InBatch
      <3> QED
        BY <3>1, <3>2, BatchesAre DEF Walking, Queries
    <2>2. /\ w.query \in DOMAIN Queries \ waiting
          /\ Text(t) \in Seq(Word) /\ At(file.ngrams, vector, Text(t), w)
          /\ w.start \in 1 .. Len(Text(t)) + 1 /\ w.pos \in w.start .. Len(Text(t)) + 1
      BY <2>1, AtWork
    <2>3. ASSUME w.inside > 0
          PROVE  w.node \in DOMAIN vector /\ w.inside \in DOMAIN vector[w.node]
      <3>1. w.node \in DOMAIN vector
        BY <2>2, <2>3 DEF At
      <3> HIDE DEF w
      <3>2. w.inside \in DOMAIN vector[w.node]
        BY <1>1, <2>2, <2>3, InVectorIs
      <3> QED
        BY <3>1, <3>2
    <2> QED
      BY <2>2, <2>3
  <1> QED
    BY <1>1, <1>2, <1>3, <1>4, <1>5, <1>6 DEF TypeOK

\* What is fetched from the result of an answered query is the answer.
LEMMA InvAnswers == IInv => AnswersExactly
  <1> SUFFICES ASSUME IInv, InBatch, which # "bloom", NEW q \in DOMAIN Queries, Answered(q)
               PROVE  Fetched(result[q]) = SpacedOut(InOrder(Queries[q]))
    BY DEF AnswersExactly, InBatch
  <1>1. PICK found : IsCompleted(result[q], found) /\ Outcome(which, found, InOrder(Queries[q]))
    BY AnsweredIs
  <1>2. Fetched(result[q]) = SpacedOut(found)
    BY <1>1, FetchedIs DEF IsCompleted
  <1>3. found = InOrder(Queries[q])
    BY <1>1 DEF Outcome
  <1> QED
    BY <1>2, <1>3

\* Of lists of n-grams, and of the same lists as strings.
LEMMA SpacedLists ==
  ASSUME NEW list \in Seq(NGram), NEW all \in Seq(NGram)
  PROVE  /\ IsInjective(list) => IsInjective(SpacedOut(list))
         /\ ToSet(list) \subseteq ToSet(all) => ToSet(SpacedOut(list)) \subseteq ToSet(SpacedOut(all))
         /\ \A i \in DOMAIN all : Spaced(all[i]) \in ToSet(SpacedOut(list)) <=> all[i] \in ToSet(list)
  <1>1. /\ DOMAIN SpacedOut(list) = DOMAIN list /\ DOMAIN SpacedOut(all) = DOMAIN all
        /\ \A i \in DOMAIN list : SpacedOut(list)[i] = Spaced(list[i])
        /\ \A i \in DOMAIN all : SpacedOut(all)[i] = Spaced(all[i])
    BY DEF SpacedOut
  <1>2. /\ \A i \in DOMAIN list : list[i] \in Seq(Word) /\ list[i] # <<>>
        /\ \A i \in DOMAIN all : all[i] \in Seq(Word) /\ all[i] # <<>>
    <2>1. /\ \A i \in DOMAIN list : list[i] \in NGram
          /\ \A i \in DOMAIN all : all[i] \in NGram
      OBVIOUS
    <2> QED
      BY <2>1 DEF NGram
  <1> HIDE DEF SpacedOut
  <1>3. ASSUME IsInjective(list)
        PROVE  IsInjective(SpacedOut(list))
    <2> SUFFICES ASSUME NEW a \in DOMAIN list, NEW b \in DOMAIN list,
                        SpacedOut(list)[a] = SpacedOut(list)[b]
                 PROVE  a = b
      BY <1>1 DEF IsInjective
    <2>1. list[a] = list[b]
      BY <1>1, <1>2, SpacedInjective
    <2> QED
      BY <1>3, <2>1 DEF IsInjective
  <1>4. ASSUME ToSet(list) \subseteq ToSet(all)
        PROVE  ToSet(SpacedOut(list)) \subseteq ToSet(SpacedOut(all))
    <2> SUFFICES ASSUME NEW i \in DOMAIN list
                 PROVE  SpacedOut(list)[i] \in ToSet(SpacedOut(all))
      BY <1>1 DEF ToSet
    <2>1. PICK k \in DOMAIN all : list[i] = all[k]
      BY <1>4 DEF ToSet
    <2> QED
      BY <1>1, <2>1 DEF ToSet
  <1>5. ASSUME NEW i \in DOMAIN all
        PROVE  Spaced(all[i]) \in ToSet(SpacedOut(list)) <=> all[i] \in ToSet(list)
    <2>1. ASSUME all[i] \in ToSet(list)
          PROVE  Spaced(all[i]) \in ToSet(SpacedOut(list))
      BY <1>1, <2>1 DEF ToSet
    <2>2. ASSUME Spaced(all[i]) \in ToSet(SpacedOut(list))
          PROVE  all[i] \in ToSet(list)
      <3>1. PICK k \in DOMAIN list : Spaced(list[k]) = Spaced(all[i])
        BY <1>1, <2>2 DEF ToSet
      <3>2. list[k] = all[i]
        BY <1>2, <3>1, SpacedInjective
      <3> QED
        BY <3>2 DEF ToSet
    <2> QED
      BY <2>1, <2>2
  <1> QED
    BY <1>3, <1>4, <1>5

\* Outcome says the same of n-grams as BloomDropsOnlyCovered says of strings.
LEMMA InvBloom == IInv => BloomDropsOnlyCovered
  <1> SUFFICES ASSUME IInv, InBatch, which = "bloom", NEW q \in DOMAIN Queries, Answered(q)
               PROVE  LET answer == InOrder(Queries[q])
                          found == ToSet(Fetched(result[q]))
                          bits(i) == Bits[Address[answer[i]]]
                      IN  /\ IsInjective(Fetched(result[q]))
                          /\ found \subseteq ToSet(SpacedOut(answer))
                          /\ \A i \in DOMAIN answer :
                                Spaced(answer[i]) \in found
                                \/ bits(i) \subseteq
                                      UNION {bits(j) : j \in {j \in 1 .. i - 1 :
                                                                Spaced(answer[j]) \in found}}
    BY DEF BloomDropsOnlyCovered, InBatch
  <1> DEFINE answer == InOrder(Queries[q])
             bits(i) == Bits[Address[answer[i]]]
  <1>1. PICK list : IsCompleted(result[q], list) /\ Outcome(which, list, answer)
    BY AnsweredIs
  <1>2. Fetched(result[q]) = SpacedOut(list) /\ list \in Seq(NGram)
    BY <1>1, FetchedIs DEF IsCompleted, HasNGrams
  <1>3. answer \in Seq(NGram) /\ Covered(list, answer)
    BY <1>1 DEF Outcome
  <1> DEFINE found == ToSet(Fetched(result[q]))
  <1> HIDE DEF answer
  <1>4. /\ IsInjective(list) /\ ToSet(list) \subseteq ToSet(answer)
        /\ \A i \in DOMAIN answer :
              answer[i] \in ToSet(list)
              \/ bits(i) \subseteq UNION {bits(j) : j \in {j \in 1 .. i - 1 : answer[j] \in ToSet(list)}}
    BY <1>3 DEF Covered
  <1>5. /\ IsInjective(Fetched(result[q])) /\ found \subseteq ToSet(SpacedOut(answer))
        /\ \A i \in DOMAIN answer : Spaced(answer[i]) \in found <=> answer[i] \in ToSet(list)
    BY <1>2, <1>3, <1>4, SpacedLists
  <1>6. \A i \in DOMAIN answer : \A j \in 1 .. i - 1 : j \in DOMAIN answer
    BY <1>3
  <1> HIDE DEF found, bits
  <1>7. ASSUME NEW i \in DOMAIN answer
        PROVE  Spaced(answer[i]) \in found
               \/ bits(i) \subseteq UNION {bits(j) : j \in {j \in 1 .. i - 1 : Spaced(answer[j]) \in found}}
    <2>1. {j \in 1 .. i - 1 : Spaced(answer[j]) \in found} = {j \in 1 .. i - 1 : answer[j] \in ToSet(list)}
      BY <1>5, <1>6
    <2> QED
      BY <1>4, <1>5, <2>1
  <1> QED
    BY <1>5, <1>7 DEF found, bits, answer

\* What was displayed is part of the invariant.
LEMMA InvDisplayed == IInv => PrintedLines /\ CountedOnce
  BY DEF IInv, DisplayedOK

---------------------------------------------------------------------------
(* The order is complete.                                                   *)

\* The n-grams between the words of a text, up to a place.
PartsUpTo(text, i, j) ==
    {g \in SubSeqs(text) : \E a \in 1 .. Len(text) : \E b \in a .. Len(text) :
                              g = SubSeq(text, a, b) /\ (a < i \/ (a = i /\ b <= j))}

\* The list has those of the n-grams that are in the set, each once.
Lists(list, ngrams, set) ==
    list \in Seq(NGram) /\ IsInjective(list) /\ ToSet(list) = ngrams \intersect set

\* One n-gram more.
LEMMA ListsOneMore ==
  ASSUME NEW list, NEW ngrams, NEW set, Lists(list, ngrams, set), NEW ngram \in NGram
  PROVE  Lists(WithNGram(list, ngram, ngrams), ngrams, set \union {ngram})
  <1> DEFINE more == Append(list, ngram)
             n == Len(list)
  <1>1. list \in Seq(NGram) /\ IsInjective(list) /\ ToSet(list) = ngrams \intersect set
    BY DEF Lists
  <1>2. CASE ngram \notin ngrams \ ToSet(list)
    <2>1. WithNGram(list, ngram, ngrams) = list
      BY <1>2 DEF WithNGram
    <2>2. ToSet(list) = ngrams \intersect (set \union {ngram})
      BY <1>1, <1>2
    <2> QED
      BY <1>1, <2>1, <2>2 DEF Lists
  <1>3. CASE ngram \in ngrams \ ToSet(list)
    <2>1. WithNGram(list, ngram, ngrams) = more
      BY <1>3 DEF WithNGram
    <2>2. /\ more \in Seq(NGram) /\ DOMAIN more = 1 .. n + 1 /\ DOMAIN list = 1 .. n /\ n \in Nat
          /\ \A i \in 1 .. n : more[i] = list[i]
          /\ more[n + 1] = ngram /\ ToSet(more) = ToSet(list) \union {ngram}
      BY <1>1, AppendedTo
    <2> HIDE DEF more, n
    <2>3. ToSet(more) = ngrams \intersect (set \union {ngram})
      BY <1>1, <1>3, <2>2
    <2>4. IsInjective(more)
      <3> SUFFICES ASSUME NEW a \in 1 .. n + 1, NEW b \in 1 .. n + 1, more[a] = more[b]
                   PROVE  a = b
        BY <2>2 DEF IsInjective
      <3>1. \A i \in 1 .. n : list[i] # ngram
        BY <1>3, <2>2 DEF ToSet
      <3>2. /\ a \in 1 .. n \/ a = n + 1
            /\ b \in 1 .. n \/ b = n + 1
        BY <2>2
      <3>3. \A i, k \in 1 .. n : list[i] = list[k] => i = k
        BY <1>1, <2>2 DEF IsInjective
      <3> QED
        BY <2>2, <3>1, <3>2, <3>3
    <2> QED
      BY <2>1, <2>2, <2>3, <2>4 DEF Lists
  <1> QED
    BY <1>2, <1>3

\* The parts of a text in the order in which the walk passes them.
LEMMA PartsInOrder ==
  ASSUME NEW text \in Seq(Word)
  PROVE  /\ PartsUpTo(text, 1, 0) = {}
         /\ \A i \in 1 .. Len(text) : \A j \in i .. Len(text) :
               PartsUpTo(text, i, j) = PartsUpTo(text, i, j - 1) \union {SubSeq(text, i, j)}
         /\ \A i \in 1 .. Len(text) : PartsUpTo(text, i + 1, i) = PartsUpTo(text, i, Len(text))
         /\ PartsUpTo(text, Len(text) + 1, Len(text)) = SubSeqs(text) \ {<<>>}
  <1> DEFINE last == Len(text)
  <1>1. last \in Nat
    OBVIOUS
  <1>2. PartsUpTo(text, 1, 0) = {}
    <2>1. \A a \in 1 .. last : \A b \in a .. last : ~(a < 1) /\ ~(b <= 0)
      BY <1>1
    <2> QED
      BY <2>1 DEF PartsUpTo
  <1>3. ASSUME NEW i \in 1 .. last, NEW j \in i .. last
        PROVE  PartsUpTo(text, i, j) = PartsUpTo(text, i, j - 1) \union {SubSeq(text, i, j)}
    <2>1. SubSeq(text, i, j) \in SubSeqs(text)
      <3>1. i \in 1 .. last + 1
        BY <1>1
      <3> QED
        BY <1>1, <3>1, IsSubSeq
    <2>2. i \in Int /\ j \in Int /\ \A a \in 1 .. last : \A b \in a .. last :
             (a < i \/ (a = i /\ b <= j)) <=> ((a < i \/ (a = i /\ b <= j - 1)) \/ (a = i /\ b = j))
      BY <1>1
    <2> HIDE DEF last
    <2>3. \A g \in PartsUpTo(text, i, j) :
             g \in PartsUpTo(text, i, j - 1) \/ g = SubSeq(text, i, j)
      BY <2>2 DEF PartsUpTo, last
    <2>4. \A g \in PartsUpTo(text, i, j - 1) : g \in PartsUpTo(text, i, j)
      BY <2>2 DEF PartsUpTo, last
    <2>5. SubSeq(text, i, j) \in PartsUpTo(text, i, j)
      <3>1. j <= j
        BY <2>2
      <3> QED
        BY <2>1, <3>1 DEF PartsUpTo, last
    <2> QED
      BY <2>3, <2>4, <2>5
  <1>4. ASSUME NEW i \in 1 .. last
        PROVE  PartsUpTo(text, i + 1, i) = PartsUpTo(text, i, last)
    <2>1. \A a \in 1 .. last : \A b \in a .. last :
             (a < i + 1 \/ (a = i + 1 /\ b <= i)) <=> (a < i \/ (a = i /\ b <= last))
      BY <1>1
    <2> HIDE DEF last
    <2> QED
      BY <2>1 DEF PartsUpTo, last
  <1>5. PartsUpTo(text, last + 1, last) = SubSeqs(text) \ {<<>>}
    <2>1. \A a \in 1 .. last : \A b \in a .. last :
             /\ a < last + 1 /\ SubSeq(text, a, b) # <<>>
      <3> SUFFICES ASSUME NEW a \in 1 .. last, NEW b \in a .. last
                   PROVE  a < last + 1 /\ SubSeq(text, a, b) # <<>>
        OBVIOUS
      <3>1. a \in 1 .. last + 1 /\ b \in 0 .. last /\ a <= b /\ a < last + 1
        BY <1>1
      <3>2. SubSeq(text, a, b) \in Paths
        BY <3>1, WordsBetween
      <3> QED
        BY <3>1, <3>2 DEF Paths
    <2>2. ASSUME NEW g \in SubSeqs(text), g # <<>>
          PROVE  \E a \in 1 .. last : \E b \in a .. last : g = SubSeq(text, a, b)
      <3>1. PICK i \in 0 .. last, j \in 0 .. last : g = SubSeq(text, i + 1, j)
        BY <2>2 DEF SubSeqs
      <3>2. i + 1 <= j
        <4> SUFFICES ASSUME j < i + 1 PROVE FALSE
          BY <1>1
        <4>1. i + 1 \in 1 .. last + 1 /\ j \in 0 .. last
          BY <1>1
        <4>2. SubSeq(text, i + 1, j) = <<>>
          BY <4>1, WordsBetween
        <4> QED
          BY <2>2, <3>1, <4>2
      <3>3. i + 1 \in 1 .. last /\ j \in i + 1 .. last
        BY <1>1, <3>2
      <3> QED
        BY <3>1, <3>3
    <2> HIDE DEF last
    <2> QED
      BY <2>1, <2>2 DEF PartsUpTo, last
  <1> QED
    BY <1>2, <1>3, <1>4, <1>5

\* The list at the end of the text has every n-gram that occurs in it, each once.
LEMMA OccurrencesComplete ==
  ASSUME NEW text \in Seq(Word), NEW ngrams, NEW occurred, IsOccurred(occurred, text, ngrams)
  PROVE  Lists(occurred[<<Len(text) + 1, Len(text)>>], ngrams, SubSeqs(text) \ {<<>>})
  <1> DEFINE last == Len(text)
             OK(i, j) == Lists(occurred[<<i, j>>], ngrams, PartsUpTo(text, i, j))
             P == {n \in Nat : n <= last => OK(n + 1, n)}
  <1>1. last \in Nat
    OBVIOUS
  <1>2. ASSUME NEW i \in 1 .. last, OK(i, i - 1)
        PROVE  OK(i, last)
    <2> DEFINE Q == {m \in Nat : i - 1 + m <= last => OK(i, i - 1 + m)}
    <2>1. i \in Nat /\ i >= 1 /\ i <= last /\ i \in 1 .. Len(text) + 1
      BY <1>1
    <2>2. 0 \in Q
      <3>1. i - 1 + 0 = i - 1
        BY <2>1
      <3> QED
        BY <1>2, <3>1
    <2>3. ASSUME NEW m \in Q
          PROVE  m + 1 \in Q
      <3> SUFFICES ASSUME i - 1 + (m + 1) <= last
                   PROVE  OK(i, i - 1 + (m + 1))
        OBVIOUS
      <3> DEFINE j == i - 1 + (m + 1)
      <3>1. /\ m \in Nat /\ j \in i .. last /\ j - 1 = i - 1 + m /\ i - 1 + m <= last
            /\ j <= last
        BY <1>1, <2>1
      <3>2. OK(i, i - 1 + m)
        <4>1. i - 1 + m <= last => OK(i, i - 1 + m)
          OBVIOUS
        <4> HIDE DEF OK, Q
        <4> QED
          BY <3>1, <4>1
      <3>3. OK(i, j - 1)
        <4> HIDE DEF OK, j
        <4> QED
          BY <3>1, <3>2
      <3> HIDE DEF j
      <3>4. occurred[<<i, j>>] = WithNGram(occurred[<<i, j - 1>>], SubSeq(text, i, j), ngrams)
        <4>1. j \in i .. Len(text) + 1 /\ j <= Len(text)
          BY <1>1, <2>1, <3>1
        <4> QED
          BY <2>1, <4>1, OccurredSteps
      <3>5. SubSeq(text, i, j) \in NGram
        <4>1. i <= j /\ j \in 0 .. Len(text)
          BY <1>1, <2>1, <3>1
        <4> QED
          BY <2>1, <4>1, WordsBetween
      <3>6. PartsUpTo(text, i, j) = PartsUpTo(text, i, j - 1) \union {SubSeq(text, i, j)}
        BY <3>1, PartsInOrder
      <3>7. OK(i, j)
        <4> DEFINE list == occurred[<<i, j - 1>>]
                   set == PartsUpTo(text, i, j - 1)
                   ngram == SubSeq(text, i, j)
        <4>1. Lists(list, ngrams, set) /\ ngram \in NGram
          BY <3>3, <3>5
        <4> HIDE DEF list, set, ngram
        <4>2. Lists(WithNGram(list, ngram, ngrams), ngrams, set \union {ngram})
          BY <4>1, ListsOneMore
        <4> QED
          BY <3>4, <3>6, <4>2 DEF list, set, ngram
      <3> QED
        BY <3>7 DEF j
    <2>4. Q = Nat
      <3>1. Q \in SUBSET Nat
        OBVIOUS
      <3> HIDE DEF Q
      <3> QED
        BY <2>2, <2>3, <3>1, Induction
    <2> DEFINE m == last - (i - 1)
    <2>5. m \in Nat /\ i - 1 + m = last
      BY <1>1, <2>1
    <2> HIDE DEF m
    <2>6. i - 1 + m <= last => OK(i, i - 1 + m)
      BY <2>4, <2>5
    <2> HIDE DEF OK
    <2> QED
      BY <1>1, <2>5, <2>6
  <1>3. 0 \in P
    <2>1. occurred[<<1, 0>>] = <<>>
      <3>1. 1 \in 1 .. Len(text) + 1
        BY <1>1
      <3> QED
        BY <3>1, OccurredSteps
    <2>2. PartsUpTo(text, 1, 0) = {}
      BY PartsInOrder
    <2>3. <<>> \in Seq(NGram) /\ IsInjective(<<>>) /\ ToSet(<<>>) = {}
      BY DEF IsInjective, ToSet
    <2>4. OK(1, 0)
      BY <2>1, <2>2, <2>3 DEF Lists
    <2>5. 0 + 1 = 1
      OBVIOUS
    <2> HIDE DEF OK
    <2> QED
      BY <2>4, <2>5
  <1>4. ASSUME NEW n \in P
        PROVE  n + 1 \in P
    <2> SUFFICES ASSUME n + 1 <= last PROVE OK(n + 1 + 1, n + 1)
      OBVIOUS
    <2> DEFINE i == n + 1
    <2>1. n \in Nat /\ n <= last /\ i \in 1 .. last /\ i - 1 = n /\ i \in Nat
      BY <1>1
    <2>2. OK(i, n)
      <3>1. n <= last => OK(n + 1, n)
        OBVIOUS
      <3> HIDE DEF OK, P
      <3> QED
        BY <2>1, <3>1
    <2> HIDE DEF i
    <2>3. OK(i, last)
      <3>1. OK(i, i - 1)
        <4> HIDE DEF OK
        <4> QED
          BY <2>1, <2>2
      <3> HIDE DEF OK
      <3> QED
        BY <1>2, <2>1, <3>1
    <2>4. occurred[<<i + 1, i>>] = occurred[<<i, last>>]
      <3>1. /\ i \in 1 .. Len(text) + 1 /\ i \in i .. Len(text) + 1 /\ i <= Len(text)
        BY <1>1, <2>1
      <3> QED
        BY <3>1, OccurredSteps
    <2>5. PartsUpTo(text, i + 1, i) = PartsUpTo(text, i, last)
      BY <2>1, PartsInOrder
    <2>6. OK(i + 1, i)
      BY <2>3, <2>4, <2>5
    <2> QED
      BY <2>6 DEF i
  <1>5. P = Nat
    <2>1. P \in SUBSET Nat
      OBVIOUS
    <2> HIDE DEF P
    <2> QED
      BY <1>3, <1>4, <2>1, Induction
  <1>6. OK(last + 1, last)
    <2> HIDE DEF OK
    <2> QED
      BY <1>1, <1>5
  <1> QED
    BY <1>6, PartsInOrder

\* InOrder is the answer, each n-gram once.
LEMMA InOrderIsAnswer ==
  ASSUME IInv, InBatch, NEW q \in DOMAIN Queries
  PROVE  /\ InOrder(Queries[q]) \in Seq(NGram) /\ IsInjective(InOrder(Queries[q]))
         /\ ToSet(InOrder(Queries[q])) = AnswerOf(Queries[q])
  <1> DEFINE query == Queries[q]
             text == query.text
             answer == AnswerOf(query)
  <1>1. batch \in 1 .. Len(Batches)
    BY BatchesAre DEF IInv, StateOK, InBatch
  <1>2. text \in Seq(Word)
    BY <1>1, BatchesAre DEF Queries
  <1>3. Lists(InOrder(query), answer, SubSeqs(text) \ {<<>>})
    <2> DEFINE last == Len(text)
               occurred == Occurrences(text, answer)
    <2>1. InOrder(query) = occurred[<<last + 1, last>>]
      BY DEF InOrder
    <2>2. IsOccurred(occurred, text, answer)
      BY <1>2, OccurrencesAre
    <2> HIDE DEF occurred, text, answer
    <2>3. Lists(occurred[<<last + 1, last>>], answer, SubSeqs(text) \ {<<>>})
      BY <1>2, <2>2, OccurrencesComplete
    <2> QED
      BY <2>1, <2>3
  <1>4. answer \subseteq SubSeqs(text) \ {<<>>}
    <2>1. CASE dynamic
      BY <2>1 DEF AnswerOf, TrieSearch
    <2>2. CASE ~dynamic
      <3>1. file.ngrams \subseteq Paths
        BY DEF IInv, LoadOK, IsLoaded
      <3> QED
        BY <2>2, <3>1 DEF AnswerOf, Paths
    <2> QED
      BY <2>1, <2>2
  <1> HIDE DEF answer
  <1>5. answer \intersect (SubSeqs(text) \ {<<>>}) = answer
    BY <1>4
  <1> QED
    BY <1>3, <1>5 DEF Lists, answer

\* A search of a loaded trie finds the n-grams of the file, in a dynamic one without those
\* removed when its version has come.
LEMMA SearchOfFile ==
  ASSUME NEW ngrams \in SUBSET Paths, NEW removed,
         NEW text \in Seq(Word), NEW version \in Nat, version < NotDeleted
  PROVE  TrieSearch(LoadedWithout(ngrams, removed), text, version) =
            {g \in ngrams \intersect SubSeqs(text) : version >= 2 => g \notin removed}
  <1> DEFINE t == LoadedWithout(ngrams, removed)
             all == Load(ngrams)
             record == [final |-> TRUE, added |-> 0, deleted |-> NotDeleted]
  <1>2. /\ WellFormed(all) /\ ngrams \subseteq DOMAIN all
        /\ \A path \in DOMAIN all : all[path] = IF path \in ngrams THEN record ELSE NewNode
    BY LoadIs
  <1>3. /\ DOMAIN t = DOMAIN all
        /\ \A path \in DOMAIN t : t[path] = IF path \in removed THEN [all[path] EXCEPT !.deleted = 2]
                                            ELSE all[path]
    BY DEF LoadedWithout
  <1> HIDE DEF all, t
  <1>4. ASSUME NEW path \in DOMAIN t
        PROVE  Visible(t, path, version) <=> path \in ngrams /\ (version >= 2 => path \notin removed)
    <2>1. CASE path \in ngrams
      <3>1. all[path] = record
        BY <1>2, <1>3, <2>1
      <3>2. t[path] = IF path \in removed THEN [final |-> TRUE, added |-> 0, deleted |-> 2]
                      ELSE record
        BY <1>3, <3>1
      <3> QED
        BY <2>1, <3>2 DEF Visible
    <2>2. CASE path \notin ngrams
      <3>1. all[path] = NewNode
        BY <1>2, <1>3, <2>2
      <3>2. t[path].final = FALSE
        BY <1>3, <3>1 DEF NewNode
      <3> QED
        BY <2>2, <3>2 DEF Visible
    <2> QED
      BY <2>1, <2>2
  <1>5. WellFormed(t)
    <2>1. /\ DOMAIN t \subseteq Paths
          /\ \A path \in DOMAIN t : NodesTo(path) \subseteq DOMAIN t
          /\ \A path \in DOMAIN t : HasChild(all, path) \/ all[path].final
      BY <1>2, <1>3 DEF WellFormed
    <2>2. \A path : HasChild(t, path) <=> HasChild(all, path)
      BY <1>3 DEF HasChild, Children
    <2>3. ASSUME NEW path \in DOMAIN t
          PROVE  all[path].final => t[path].final
      <3>1. all[path].final => all[path] = record
        BY <1>2, <1>3 DEF NewNode
      <3> QED
        BY <1>3, <3>1
    <2> QED
      BY <2>1, <2>2, <2>3 DEF WellFormed
  <1>6. TrieSearch(t, text, version) = View(t, version) \cap SubSeqs(text)
    <2>1. text \in Seq(STRING)
      BY DEF Word
    <2> QED
      BY <1>5, <2>1, SearchIsView
  <1>7. View(t, version) = {g \in ngrams : version >= 2 => g \notin removed}
    <2>1. \A path \in ngrams : path \in DOMAIN t
      BY <1>2, <1>3
    <2> QED
      BY <1>4, <2>1 DEF View
  <1> QED
    BY <1>6, <1>7 DEF t

\* What is fetched is the order, and the order has the n-grams of the file, each once.
LEMMA InvOfFile == IInv => AnswersOfFile
  <1> SUFFICES ASSUME IInv, InBatch, which # "bloom", NEW q \in DOMAIN Queries, Answered(q),
                      Queries[q].version < NotDeleted
               PROVE  /\ IsInjective(Fetched(result[q]))
                      /\ ToSet(Fetched(result[q])) = {Spaced(g) : g \in OfFile(Queries[q])}
    BY DEF AnswersOfFile, InBatch
  <1> DEFINE list == InOrder(Queries[q])
             query == Queries[q]
  <1>1. Fetched(result[q]) = SpacedOut(list)
    BY InvAnswers DEF AnswersExactly, InBatch
  <1>2. list \in Seq(NGram) /\ IsInjective(list) /\ ToSet(list) = AnswerOf(query)
    BY InOrderIsAnswer
  <1> HIDE DEF list
  <1>3. IsInjective(SpacedOut(list))
    BY <1>2, SpacedLists
  <1>4. ToSet(SpacedOut(list)) = {Spaced(g) : g \in ToSet(list)}
    BY DEF ToSet, SpacedOut
  <1>5. AnswerOf(query) = OfFile(query)
    <2>1. CASE dynamic
      <3>1. batch \in 1 .. Len(Batches)
        BY BatchesAre DEF IInv, StateOK, InBatch
      <3>2. query.text \in Seq(Word) /\ query.version \in Nat
        <4>1. Queries \in Seq([text : Seq(Word), version : Nat])
          BY <3>1, BatchesAre DEF Queries
        <4>2. query \in [text : Seq(Word), version : Nat]
          <5> DEFINE queries == Queries
                     line == [text : Seq(Word), version : Nat]
          <5>1. queries \in Seq(line) /\ q \in DOMAIN queries
            BY <4>1
          <5> HIDE DEF queries, line
          <5>2. queries[q] \in line
            BY <5>1
          <5> QED
            BY <5>2 DEF queries, line
        <4> QED
          BY <4>2
      <3>3. file.ngrams \in SUBSET Paths /\ trie = LoadedWithout(file.ngrams, file.removed)
        BY <2>1 DEF IInv, LoadOK, IsLoaded
      <3> HIDE DEF query
      <3>4. query.version < NotDeleted
        BY DEF query
      <3> DEFINE text == query.text
                 version == query.version
                 found == {g \in file.ngrams \intersect SubSeqs(text) :
                              version >= 2 => g \notin file.removed}
      <3>5. TrieSearch(trie, text, version) = found
        <4>1. text \in Seq(Word) /\ version \in Nat /\ version < NotDeleted
          BY <3>2, <3>4
        <4> HIDE DEF text, version
        <4> QED
          BY <3>3, <4>1, SearchOfFile
      <3>6. AnswerOf(query) = TrieSearch(trie, text, version)
        BY <2>1 DEF AnswerOf
      <3>7. OfFile(query) = found
        BY <2>1 DEF OfFile
      <3> QED
        BY <3>5, <3>6, <3>7
    <2>2. CASE ~dynamic
      BY <2>2 DEF AnswerOf, OfFile
    <2> QED
      BY <2>1, <2>2
  <1> QED
    BY <1>1, <1>2, <1>3, <1>4, <1>5

---------------------------------------------------------------------------

\* The inductive invariant holds in every reachable state.
THEOREM WalkInvariant == Spec => []IInv
  <1> QED
    BY InvInit, InvNext, PTL DEF Spec

\* The walk stays inside its text and inside the vector of its hyper node, and every
\* result inside its buffer, for all init files, texts, batches and buffer sizes.
THEOREM WalkTypes == Spec => []TypeOK
  <1> QED
    BY WalkInvariant, InvTypes, PTL

\* The threads, word by word, answer what one search of the trie answers, each n-gram
\* once, in the order of the text.
THEOREM WalkAnswers == Spec => []AnswersExactly
  <1> QED
    BY WalkInvariant, InvAnswers, PTL

\* A bloom filter drops an n-gram only behind others of the same query with all its bits.
THEOREM WalkBloom == Spec => []BloomDropsOnlyCovered
  <1> QED
    BY WalkInvariant, InvBloom, PTL

\* The printed line of a query is its answer.
THEOREM WalkPrinted == Spec => []PrintedLines
  <1> QED
    BY WalkInvariant, InvDisplayed, PTL

\* Top k counts the n-grams of the answers.
THEOREM WalkCounted == Spec => []CountedOnce
  <1> QED
    BY WalkInvariant, InvDisplayed, PTL

\* No n-gram of the file that occurs in the line of a query is missing in what it reports,
\* none is there twice, and nothing else is.
THEOREM WalkOfFile == Spec => []AnswersOfFile
  <1> QED
    BY WalkInvariant, InvOfFile, PTL
=============================================================================
