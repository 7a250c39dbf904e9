-------------------------------- MODULE Trie --------------------------------
(***************************************************************************)
(* The dynamic trie of trie.c and trie_node.c as a value and the functions *)
(* on it.  A node is named by its path, the non-empty sequence of words    *)
(* that leads to it; a trie maps the paths of its nodes to their fields.   *)
(* The first level, a hash table in the code, and the sorted arrays of the *)
(* other levels hold the children of a path.                               *)
(***************************************************************************)
EXTENDS Integers, SequencesExt

CONSTANT NotDeleted        \* -1 as an unsigned version: above every version

EmptyTrie == [path \in {} |-> [final |-> FALSE, added |-> 0, deleted |-> NotDeleted]]

\* The nodes on the way to a path, its own included.
NodesTo(path) == Prefixes(path) \ {<<>>}

Children(trie, path) == {q \in DOMAIN trie : /\ Len(q) = Len(path) + 1
                                             /\ IsPrefix(path, q)}

\* The walk of the words from the first level down finds every node.
Found(trie, path) == NodesTo(path) \subseteq DOMAIN trie

HasChild(trie, path) == Children(trie, path) # {}

\* Two or more children, or one child and the end of an n-gram (lines 125-133).
HasFork(trie, path) == \/ \E p, q \in Children(trie, path) : p # q
                       \/ HasChild(trie, path) /\ trie[path].final

\* A node made by tn_leaf is not final and its "added" is 0; its "deleted" is not set
\* until it becomes final.
NewNode == [final |-> FALSE, added |-> 0, deleted |-> NotDeleted]

TrieInsert(trie, ngram, version) ==
    [path \in DOMAIN trie \union NodesTo(ngram) |->
        IF path = ngram
        THEN [final |-> TRUE, added |-> version, deleted |-> NotDeleted]
        ELSE IF path \in DOMAIN trie THEN trie[path] ELSE NewNode]

\* The trie that trie_insert makes of the n-grams of an init file, all with version 0 and
\* in any order.
Load(ngrams) ==
    [path \in UNION {NodesTo(g) : g \in ngrams} |->
        IF path \in ngrams THEN [final |-> TRUE, added |-> 0, deleted |-> NotDeleted]
        ELSE NewNode]

TrieMarkDeleted(trie, ngram, version) ==
    IF Found(trie, ngram) /\ trie[ngram].final
    THEN [trie EXCEPT ![ngram].deleted = version]
    ELSE trie

WithoutSubtree(trie, top) == RestrictDomain(trie, LAMBDA path : ~IsPrefix(top, path))

\* What ca_force_delete removes: everything below the last of the given forks.
CutBelow(trie, ngram, forks) ==
    WithoutSubtree(trie, SubSeq(ngram, 1, Max(forks \union {0}) + 1))

\* Mutants: only the last node is removed; a final node with one child is no fork.
TrieDeleteLeafOnly(trie, ngram) ==
    IF ~Found(trie, ngram) THEN trie
    ELSE IF HasChild(trie, ngram) THEN [trie EXCEPT ![ngram].final = FALSE]
    ELSE WithoutSubtree(trie, ngram)

TrieDeleteNoFinalFork(trie, ngram) ==
    IF ~Found(trie, ngram) THEN trie
    ELSE IF HasChild(trie, ngram) THEN [trie EXCEPT ![ngram].final = FALSE]
    ELSE CutBelow(trie, ngram, {n \in 1 .. Len(ngram) - 1 :
                      Cardinality(Children(trie, SubSeq(ngram, 1, n))) > 1})

\* A node with children only stops being final; otherwise everything below the last
\* fork on the way to it goes (the bucket of the hash table counts as a fork).
TrieDelete(trie, ngram) ==
    IF ~Found(trie, ngram) THEN trie
    ELSE IF HasChild(trie, ngram) THEN [trie EXCEPT ![ngram].final = FALSE]
    ELSE CutBelow(trie, ngram, {n \in 1 .. Len(ngram) - 1 :
                                   HasFork(trie, SubSeq(ngram, 1, n))})

\* Mutant: a query of the version of a deletion still sees the n-gram.
VisibleWhenDeleted(trie, path, version) == /\ trie[path].final
                                           /\ trie[path].added <= version
                                           /\ trie[path].deleted >= version

\* An n-gram is part of the trie as seen by a query of the given version.
Visible(trie, path, version) == /\ trie[path].final
                                /\ trie[path].added <= version
                                /\ trie[path].deleted > version

View(trie, version) == {path \in DOMAIN trie : Visible(trie, path, version)}

\* trie_search_dynamic: from each word of the text the walk goes down while it finds a
\* node, and reports the visible ones; the filter drops those it reported before.
TrieSearch(trie, text, version) ==
    {path \in SubSeqs(text) \ {<<>>} :
        Found(trie, path) /\ Visible(trie, path, version)}
=============================================================================
