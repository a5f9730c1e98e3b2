------------------------------- MODULE Yaml --------------------------------
(***************************************************************************)
(* YAML documents as kyaml (external) keeps them: nodes in memory that     *)
(* refer to their children by pointer.  The heap maps pointers to nodes; a *)
(* pointer is the place its node was read at (the number of a document and *)
(* a path in it), or <<0, n>> for a node made later.  A document as a      *)
(* value, without pointers, is a tree.                                     *)
(*                                                                         *)
(* What matters of a scalar is its tag and its text; a text is a sequence  *)
(* of words, each with the number of times it was base64-encoded.          *)
(***************************************************************************)
EXTENDS Integers, Sequences, FiniteSets, SequencesExt

Text(w) == <<[word |-> w, enc |-> 0]>>
Str(w) == [tag |-> "!!str", text |-> Text(w)]
IntStr(w) == [tag |-> "!!int", text |-> Text(w)]
FloatStr(w) == [tag |-> "!!float", text |-> Text(w)]
NoScalar == [tag |-> "", text |-> <<>>]

\* A node, of a heap or of a tree: its children are pointers or trees, with the
\* key they have in a mapping.
ScalarNode(s) == [kind |-> "scalar", val |-> s, kids |-> <<>>]
MapNode(kids) == [kind |-> "map", val |-> NoScalar, kids |-> kids]
SeqNode(kids) == [kind |-> "seq", val |-> NoScalar, kids |-> kids]
Kid(key, k) == [key |-> key, kid |-> k]

-----------------------------------------------------------------------------
(* Trees and heaps.                                                         *)

Nil == <<>>
Fresh(h) == <<0, Cardinality(DOMAIN h)>>
Put(h, node) == h @@ (Fresh(h) :> node)

RECURSIVE Places(_)

\* The paths in a tree and what is there.
Places(t) ==
    {<<>>} \cup UNION {{<<i>> \o a : a \in Places(t.kids[i].kid)} : i \in DOMAIN t.kids}
There(t, a) == FoldLeft(LAMBDA u, i : u.kids[i].kid, t, a)

\* The heap h with documents read in, numbered from n + 1.
Read(h, n, trees) ==
    h @@ [p \in UNION {{<<n + i>> \o a : a \in Places(trees[i])} : i \in DOMAIN trees} |->
             LET node == There(trees[p[1] - n], Tail(p))
             IN  [node EXCEPT !.kids = [i \in DOMAIN @ |-> Kid(@[i].key, Append(p, i))]]]

RECURSIVE Tree(_, _)

\* The value of the node p: what AsYAML or a writer makes of it.
Tree(h, p) ==
    [h[p] EXCEPT !.kids = [i \in DOMAIN h[p].kids |->
        Kid(h[p].kids[i].key, Tree(h, h[p].kids[i].kid))]]

RECURSIVE Reach(_, _)

\* The nodes of the documents whose roots are in S.
Reach(h, S) ==
    LET more(T) == IF T = S THEN S ELSE Reach(h, T)
    IN  more(S \cup UNION {{k.kid : k \in ToSet(h[p].kids)} : p \in S})

\* Some node of the document at p is below itself.
Cyclic(h, p) == \E q \in Reach(h, {p}) : q \in Reach(h, {k.kid : k \in ToSet(h[q].kids)})

\* Some node of the documents whose roots are in S is linked in from two places.
Shared(h, S) ==
    LET links(R) == UNION {{<<p, i>> : i \in DOMAIN h[p].kids} : p \in R}
        target(l) == h[l[1]].kids[l[2]].kid
    IN  \E L \in {links(Reach(h, S))} : Cardinality(L) # Cardinality({target(l) : l \in L})

-----------------------------------------------------------------------------
(* Operations of RNode.                                                     *)

\* Positions of the children with a key; a mapping has at most one.
At(node, key) == SelectInSeq(node.kids, LAMBDA k : k.key = key)
Has(node, key) == node.kind = "map" /\ At(node, key) # 0
Field(node, key) == node.kids[At(node, key)].kid

\* SetYNode copies the node itself: afterwards both have the same children.
SetYNode(h, p, q) == [h EXCEPT ![p] = h[q]]

\* SetField overwrites a field that is there and links the node in otherwise.
SetField(h, p, key, q) ==
    IF Has(h[p], key) THEN SetYNode(h, Field(h[p], key), q)
    ELSE [h EXCEPT ![p].kids = Append(@, Kid(key, q))]

\* What yaml.v3 holds as the content of a node: the keys of a mapping count.
Content(t) ==
    IF t.kind = "map"
    THEN FlattenSeq([i \in DOMAIN t.kids |-> <<ScalarNode(Str(t.kids[i].key)), t.kids[i].kid>>])
    ELSE [i \in DOMAIN t.kids |-> t.kids[i].kid]

\* The same operation on trees.
PutField(t, key, v) ==
    IF Has(t, key) THEN [t EXCEPT !.kids[At(t, key)].kid = v]
    ELSE [t EXCEPT !.kids = Append(@, Kid(key, v))]

=============================================================================
