---------------------------- MODULE MCNGramBatch ----------------------------
(* Instances of NGramBatch: n-grams that share first words, that extend one *)
(* another and that fork, and texts in which all of them occur.             *)
EXTENDS NGramBatch

ThreeNGrams == {<<"a">>, <<"a", "b">>, <<"a", "b", "a", "b">>}
ForkNGrams == {<<"a", "b">>, <<"a", "b", "a", "b">>, <<"a", "b", "b">>}
OneNGram == {<<"a">>}
LongText == {<<"a", "b", "a", "b", "b">>}
=============================================================================
