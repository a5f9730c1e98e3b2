----------------------------- MODULE JsonPath ------------------------------
(***************************************************************************)
(* JSONPathFilter (pkg/document/plugin/kyamlutils/jsonpathfilter.go): the  *)
(* nodes of a document that a query names, missing fields created on the   *)
(* way when the filter asks for it.  A query is a sequence of steps, the   *)
(* nodes the jsonpath parser (external) makes of its text.                 *)
(***************************************************************************)
EXTENDS Yaml

CONSTANTS
    Number,    \* the words that are numbers, with their values
    WordLess   \* the pairs of words in the order of Go's strings

FieldStep(name) == [t |-> "field", name |-> name]
WildStep == [t |-> "wildcard"]
FilterStep(left, op, right) == [t |-> "filter", left |-> left, op |-> op, right |-> right]
LiteralStep(s) == [t |-> "literal", val |-> s]

\* The parser's three array parameters: [i] means [i:i+1], marked as derived.
Param(v) == [known |-> TRUE, value |-> v, derived |-> FALSE]
NoParam == [known |-> FALSE, value |-> 0, derived |-> FALSE]
ArrayStep(first, last, step) == [t |-> "array", params |-> <<first, last, step>>]
IndexStep(i) ==
    ArrayStep(Param(i), [known |-> TRUE, value |-> i + 1, derived |-> TRUE], NoParam)

-----------------------------------------------------------------------------
(* Comparisons of a filter expression: [pass, err].                         *)

Pass(b) == [pass |-> b, err |-> FALSE]
CompareErr == [pass |-> FALSE, err |-> TRUE]

\* strconv.Atoi and ParseFloat read a text of one word that is a number.
IsNumber(s) == Len(s.text) = 1 /\ s.text[1].enc = 0 /\ s.text[1].word \in DOMAIN Number
AsNumber(s) == Number[s.text[1].word]
Numeric(a, b) == {a.tag, b.tag} \cap {"!!int", "!!float"} # {}

scalarEq(a, b) ==
    IF ~Numeric(a, b) THEN Pass(a.text = b.text)
    ELSE IF IsNumber(a) /\ IsNumber(b) THEN Pass(AsNumber(a) = AsNumber(b)) ELSE CompareErr

lt(a, b) ==
    IF ~Numeric(a, b) THEN Pass(<<a.text[1].word, b.text[1].word>> \in WordLess)
    ELSE IF IsNumber(a) /\ IsNumber(b) THEN Pass(AsNumber(a) < AsNumber(b)) ELSE CompareErr

le(a, b) ==
    LET orEq(less) == IF less.pass \/ less.err THEN less ELSE scalarEq(a, b)
    IN  orEq(lt(a, b))

\* Structures are equal when their contents are, one by one.  A scalar and a
\* structure are compared as scalars, the latter with no text.
RECURSIVE deepEq(_, _)
deepEq(a, b) ==
    LET x == Content(a) y == Content(b)
    IN  IF "scalar" \in {a.kind, b.kind} THEN scalarEq(a.val, b.val)
        ELSE IF Len(x) # Len(y) THEN Pass(FALSE)
        ELSE FoldLeftDomain(LAMBDA r, i : IF r.pass THEN deepEq(x[i], y[i]) ELSE r, Pass(TRUE), x)

Not(c) == [c EXCEPT !.pass = ~@ /\ ~c.err]
compareScalars(op, x, y) ==
    CASE op = "<" -> lt(x, y)
      [] op = ">" -> lt(y, x)
      [] op = "!=" -> Not(scalarEq(x, y))
      [] op = "<=" -> le(x, y)
      [] op = ">=" -> le(y, x)
      [] OTHER -> CompareErr

compare(h, op, a, b) ==
    CASE op = "==" -> deepEq(Tree(h, a), Tree(h, b))
      [] {h[a].kind, h[b].kind} = {"scalar"} -> compareScalars(op, h[a].val, h[b].val)
      [] OTHER -> CompareErr

-----------------------------------------------------------------------------
(* One step of a query.  A walk is [h, ns, err]: the heap, the nodes found  *)
(* so far and whether the walk has failed.                                  *)

Failed(w) == [w EXCEPT !.ns = <<>>, !.err = TRUE]

\* The parser names the document itself, as in {.[0]}, by an empty field.
doField(w, name) ==
    IF name = "" THEN w
    ELSE IF \E i \in DOMAIN w.ns : w.h[w.ns[i]].kind # "map" THEN Failed(w)
    ELSE LET having == SelectSeq(w.ns, LAMBDA p : Has(w.h[p], name))
         IN  [w EXCEPT !.ns = [i \in DOMAIN having |-> Field(w.h[having[i]], name)]]

\* The new node is linked into every parent; at one that is no mapping it stops.
updateMapRNodes(w, ns, name, q) ==
    LET set(a, p) == IF a.err THEN a
                     ELSE IF a.h[p].kind # "map" THEN Failed(a)
                     ELSE [a EXCEPT !.h = SetField(@, p, name, q)]
    IN  FoldLeft(set, w, ns)

\* A field that none of the nodes has is created, as one empty mapping.
createField(w, ns, name) ==
    updateMapRNodes([h |-> Put(w.h, MapNode(<<>>)), ns |-> <<Fresh(w.h)>>, err |-> FALSE],
                    ns, name, Fresh(w.h))
field(w, name, create) ==
    LET orCreate(found) == IF found.ns = <<>> /\ create THEN createField(w, w.ns, name) ELSE found
    IN  orCreate(doField(w, name))

BadBounds == [min |-> -1, max |-> -1, step |-> -1]
defineArrayBoundaries(params, maxLen) ==
    LET p0 == params[1] p1 == params[2] p2 == params[3]
        checked(min, max) ==
            IF \/ min >= maxLen \/ min < 0
               \/ max > maxLen \/ max < 0
               \/ min > max
               \/ p2.known /\ p2.value <= 0
            THEN BadBounds
            ELSE [min |-> min, max |-> max, step |-> IF p2.known THEN p2.value ELSE 1]
    IN  checked(IF p0.value < 0 THEN p0.value + maxLen ELSE IF p0.known THEN p0.value ELSE 0,
                IF p1.value < 0 \/ (p1.value = 0 /\ p1.derived) THEN p1.value + maxLen
                ELSE IF p1.known THEN p1.value ELSE maxLen)

\* An empty slice of one sequence ends the loop over all of them.
doArray(w, params) ==
    LET elements(p, b) ==
            [i \in 1..((b.max - b.min + b.step - 1) \div b.step) |->
                w.h[p].kids[b.min + (i - 1) * b.step + 1].kid]
        add(a, p, b) ==
            IF b = BadBounds THEN [a EXCEPT !.w = Failed(@)]
            ELSE IF b.min = b.max THEN [a EXCEPT !.stop = TRUE]
            ELSE [a EXCEPT !.w.ns = @ \o elements(p, b)]
        next(a, p) ==
            IF a.w.err \/ a.stop THEN a
            ELSE IF w.h[p].kind # "seq" THEN [a EXCEPT !.w = Failed(@)]
            ELSE add(a, p, defineArrayBoundaries(params, Len(w.h[p].kids)))
    IN  FoldLeft(next, [w |-> [w EXCEPT !.ns = <<>>], stop |-> FALSE], w.ns).w

doWildcard(w) ==
    [w EXCEPT !.ns = FlattenSeq([i \in DOMAIN w.ns |->
        [j \in DOMAIN w.h[w.ns[i]].kids |-> w.h[w.ns[i]].kids[j].kid]])]

-----------------------------------------------------------------------------
(* A whole query.                                                           *)

RECURSIVE walk(_, _, _)

\* The elements of the sequences for which the expression holds.  Both of its
\* sides are walked with the same filter, which creates what they miss.
doFilter(w, step, create) ==
    LET side(h, item, steps) == walk([h |-> h, ns |-> <<item>>, err |-> FALSE], steps, create)
        \* the walk of a side ends the test of an item, or with it the whole filter
        ended(a, s) == IF s.err \/ Len(s.ns) > 1 THEN Failed([a EXCEPT !.h = s.h]) ELSE [a EXCEPT !.h = s.h]
        verdict(a, item, c) ==
            IF c.err THEN Failed(a) ELSE IF c.pass THEN [a EXCEPT !.ns = Append(@, item)] ELSE a
        withRight(a, item, left, right) ==
            IF Len(right.ns) # 1 THEN ended(a, right)
            ELSE verdict([a EXCEPT !.h = right.h], item, compare(right.h, step.op, left.ns[1], right.ns[1]))
        withLeft(a, item, left) ==
            IF Len(left.ns) # 1 THEN ended(a, left)
            ELSE withRight(a, item, left, side(left.h, item, step.right))
        test(a, item) == IF a.err THEN a ELSE withLeft(a, item, side(a.h, item, step.left))
        next(a, p) ==
            IF a.err THEN a
            ELSE IF w.h[p].kind # "seq" THEN Failed(a)
            ELSE FoldLeft(LAMBDA x, k : test(x, k.kid), a, w.h[p].kids)
    IN  FoldLeft(next, [w EXCEPT !.ns = <<>>], w.ns)

getByField(w, step, create) ==
    CASE step.t = "literal" -> [w EXCEPT !.h = Put(@, ScalarNode(step.val)), !.ns = <<Fresh(w.h)>>]
      [] step.t = "field" -> field(w, step.name, create)
      [] step.t = "array" -> doArray(w, step.params)
      [] step.t = "filter" -> doFilter(w, step, create)
      [] step.t = "wildcard" -> doWildcard(w)
      [] OTHER -> Failed(w)

walk(w, steps, create) ==
    FoldLeft(LAMBDA a, s : IF a.err THEN a ELSE getByField(a, s, create), w, steps)

\* The nodes a query finds from the node p.
Query(h, p, steps, create) == walk([h |-> h, ns |-> <<p>>, err |-> FALSE], steps, create)

-----------------------------------------------------------------------------
(* The legacy notation, a.b[k=v].c.0, as the sequence of its tokens: the    *)
(* three separators and what stands between them.                           *)

Dot == [t |-> "."]
Open == [t |-> "["]
Close == [t |-> "]"]
Word(w) == [t |-> "word", word |-> w]
IntWord(i) == [t |-> "int", int |-> i]
KeyValue(k, v) == [t |-> "kv", key |-> k, value |-> v]

\* The piece read so far (at most one token) added to the path.  What the parser
\* then refuses, or the code panics on, fails the conversion.
convertField(a) ==
    IF a.piece = <<>> THEN a
    ELSE CASE a.piece[1].t = "int"  -> [a EXCEPT !.piece = <<>>, !.path = Append(@, IndexStep(a.piece[1].int))]
           [] a.piece[1].t = "word" -> [a EXCEPT !.piece = <<>>, !.path = Append(@, FieldStep(a.piece[1].word))]
           [] OTHER -> [a EXCEPT !.err = TRUE]

\* Between brackets an index or a filter needs something before it.
convertFiltering(a) ==
    IF a.piece = <<>> \/ (a.piece[1].t # "word" /\ a.path = <<>>) THEN [a EXCEPT !.err = TRUE]
    ELSE IF a.piece[1].t = "kv"
    THEN [a EXCEPT !.piece = <<>>,
                   !.path = Append(@, FilterStep(<<FieldStep(a.piece[1].key)>>, "==",
                                                 <<LiteralStep(Str(a.piece[1].value))>>))]
    ELSE convertField(a)

convertFromLegacyQuery(tokens) ==
    LET named(a) == \* before a bracket even a number is a name
            [a EXCEPT !.piece = [i \in DOMAIN @ |->
                IF @[i].t = "int" THEN Word(ToString(@[i].int)) ELSE @[i]]]
        next(a, tok) ==
            IF a.err THEN a
            ELSE CASE tok.t = "." /\ ~a.inside -> convertField(a)
                   [] tok.t = "[" /\ ~a.inside -> [convertField(named(a)) EXCEPT !.inside = TRUE]
                   [] tok.t = "]" /\ a.inside -> [convertFiltering(a) EXCEPT !.inside = FALSE]
                   [] (tok.t = "[" /\ a.inside) \/ (tok.t = "]" /\ ~a.inside) -> [a EXCEPT !.err = TRUE]
                   [] OTHER -> [a EXCEPT !.piece = <<tok>>]
        end == FoldLeft(next, [path |-> <<>>, piece |-> <<>>, inside |-> FALSE, err |-> FALSE], tokens)
    IN  convertField(end)

\* The steps of a field reference, in braces or in the legacy notation.
QueryErr == <<[t |-> "error"]>>
Steps(ref) ==
    IF ref.braces THEN ref.steps
    ELSE LET c == convertFromLegacyQuery(ref.tokens) IN IF c.err THEN QueryErr ELSE c.path

=============================================================================
