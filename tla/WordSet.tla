------------------------------ MODULE WordSet ------------------------------
(***************************************************************************)
(* What trie.c takes the first level of the trie for: a set of words.      *)
(* LinearHash is checked to implement this module.                         *)
(***************************************************************************)
CONSTANT Words

VARIABLE stored

Init == stored = {}

Insert(word) == stored' = stored \union {word}

Delete(word) == stored' = stored \ {word}

Next == \E word \in Words : Insert(word) \/ Delete(word)

Spec == Init /\ [][Next]_stored
=============================================================================
