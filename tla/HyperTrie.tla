----------------------------- MODULE HyperTrie -----------------------------
(***************************************************************************)
(* trie_compress on what was loaded from a STATIC init file: a node whose   *)
(* branch goes down to a leaf without a fork becomes a hyper node, a vector *)
(* of the words of the branch with a final bit each.                        *)
(***************************************************************************)
EXTENDS Trie

Below(t, path) == {q \in DOMAIN t : IsPrefix(path, q)}

\* ca_compress returns true for the children of the path: no fork down to the leaf.
NoForkBelow(t, path) == 
    \A q \in Below(t, path) : \A p, r \in Children(t, q) : p = r

\* The nodes that become hyper nodes: ca_compress tries those in a bucket and those with
\* a sibling (a single child is passed over on the way down), and takes the ones that
\* have a child and no fork below.
HyperNodes(t) ==
    {path \in DOMAIN t : /\ HasChild(t, path)
                         /\ NoForkBelow(t, path)
                         /\ Len(path) = 1 \/ \E q \in Children(t, Front(path)) : q # path}

\* The vector of hyper_node_insert: from the node down by the first child.
Branch(t, path) ==
    LET end == CHOOSE q \in Below(t, path) : ~HasChild(t, q)
    IN  [i \in 1 .. Len(end) - Len(path) + 1 |->
            LET q == SubSeq(end, 1, Len(path) + i - 1)
            IN  [word |-> Last(q), final |-> t[q].final]]

Vectors(t) == [path \in HyperNodes(t) |-> Branch(t, path)]

Compressed(t) ==
    [q \in {q \in DOMAIN t : ~\E path \in HyperNodes(t) : IsStrictPrefix(path, q)} |-> t[q]]
=============================================================================
