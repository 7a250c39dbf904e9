----------------------------- MODULE MCLineInput -----------------------------
(* Instances of LineInput.  With a buffer of four characters at first, the  *)
(* lines need none, one and more doublings, and end just before, at and     *)
(* behind its end; words are separated by several spaces, and spaces come   *)
(* first and last.  Lines of an init file end before, at and behind the     *)
(* newline that STATIC and DYNAMIC leave, and one needs more than the 16    *)
(* characters that a header makes of the buffer.                            *)
EXTENDS LineInput

Text(lines) == FlattenSeq([i \in DOMAIN lines |-> Append(lines[i], NEWLINE)])
UpToTwo(lines) == {<<>>} \union {<<l>> : l \in lines} \union {<<l, m>> : l, m \in lines}

WorkLines == {<<"Q", SPACE, "a", SPACE, "b", "b", SPACE, "a">>, <<"Q", SPACE, SPACE, "a", SPACE, SPACE>>,
              <<"Q", SPACE>>, <<"A", SPACE, "a", "b">>, <<"A", SPACE, "b">>, <<"A", SPACE>>,
              <<"D", SPACE, "a", SPACE, "b">>, <<"D", SPACE, SPACE, "a", "a", "a", "a", "a", "a", "b">>,
              <<"F">>, <<"F", SPACE, "2">>, <<"F", SPACE, SPACE, "1">>, <<"Q", "a">>, <<>>}
InitLines == {<<"a">>, <<"a", "b", SPACE, "a">>, <<SPACE, "b", SPACE, SPACE, "a", "a", "a", "a">>, <<>>,
              <<"b", SPACE, "a", "a", "a">>,
              <<"a", SPACE, "b", "b", "b", "b", "b", "b", "b", "b", "b", "b", SPACE, "a">>}

WorkFiles == {[lm_status |-> "Q", text |-> Text(lines) \o rest] :
                 lines \in UpToTwo(WorkLines),
                 rest \in {<<>>, <<"F">>, <<"Q", SPACE, "a", SPACE, "b">>}}
InitFiles == {[lm_status |-> "I", text |-> head \o Text(lines) \o rest] :
                 head \in {<<>>, StaticLine, DynamicLine},
                 lines \in UpToTwo(InitLines),
                 rest \in {<<>>, <<"a">>, <<"a", SPACE, "b", "b">>,
                          <<"a", SPACE, "b", "b", "b">>, <<"a", SPACE, "b", "b", "b", "b">>}}

AnyFiles == WorkFiles \union InitFiles

\* A line without a word comes behind one whose words were taken.
WithEmptyLines == {f \in AnyFiles : /\ ~Unfinished(f)
                                   /\ Len(Expected(f)) = 2
                                   /\ Expected(f)[1].status = "A" /\ ~NoWords(Expected(f)[1])
                                   /\ NoWords(Expected(f)[2])}
=============================================================================
