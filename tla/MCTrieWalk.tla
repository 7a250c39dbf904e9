----------------------------- MODULE MCTrieWalk -----------------------------
(* Instances of TrieWalk: branches without and with forks, n-grams that are *)
(* part of one another, one that is deleted between the versions of two     *)
(* queries, and texts that repeat words and leave a branch at its end, in   *)
(* its middle and at a fork.                                                *)
EXTENDS TrieWalk

NGrams == {<<"a">>, <<"a", "b">>, <<"a", "b", "a", "b">>, <<"a", "b", "b", "c">>,
           <<"b">>, <<"b", "a", "c">>}
File(ngrams, removed) == [ngrams |-> ngrams, removed |-> removed]
InitFiles == {File(NGrams, {}), File(NGrams, {<<"a", "b">>}), File({}, {}),
              File({<<"a">>, <<"a", "b", "a", "b">>, <<"b", "a", "c">>}, {}),
              File({<<"a", "b">>, <<"a", "b", "b", "c">>, <<"b">>}, {})}

Query(text, version) == [text |-> text, version |-> version]
QueryBatches ==
    <<[queries |-> <<Query(<<"a", "b", "a", "b", "b", "c">>, 1), Query(<<"b", "a", "c">>, 2)>>, k |-> 2],
      [queries |-> <<Query(<<"c">>, 2), Query(<<"a", "b", "b", "c">>, 2)>>, k |-> -1]>>

Workers == {"t0", "t1"}
ThreadIds == 0 :> "t0" @@ 1 :> "t1"

\* The nodes in the order of their addresses, eight bytes each.
Nodes == << <<"a", "b", "b">>, <<"b", "a", "c">>, <<"a", "b">>, <<"b">>, <<"a">>,
            <<"a", "b", "a", "b">>, <<"b", "a">>, <<"a", "b", "b", "c">>, <<"a", "b", "a">> >>
NodeAddress == [path \in ToSet(Nodes) |-> 8 * CHOOSE i \in DOMAIN Nodes : Nodes[i] = path]
AllAddresses == Range(NodeAddress)
\* Hash values that share buckets, and the bits of "b" are those of "a b".
Hashes == [ptr \in AllAddresses |-> ptr \div 8]
BloomBits == [ptr \in AllAddresses |->
                 LET i == ptr \div 8 IN IF i % 4 = 0 THEN {i - 1, i - 2} ELSE {i, i - 1}]
=============================================================================
