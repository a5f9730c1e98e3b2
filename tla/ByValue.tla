------------------------------ MODULE ByValue ------------------------------
(***************************************************************************)
(* What the transformers are to do, said without pointers: a reference     *)
(* names addresses of a document, and every one of them is given a copy of *)
(* the value.  The properties of Transform are stated against it.          *)
(***************************************************************************)
EXTENDS Transform

\* One step of an address: the field of a mapping or a place of a sequence.
Key(k) == [key |-> k, pos |-> 0]
Pos(i) == [key |-> "", pos |-> i]
Missing == MapNode(<<>>)

Into(t, e) ==
    IF e.pos > 0 THEN t.kids[e.pos].kid
    ELSE IF Has(t, e.key) THEN Field(t, e.key) ELSE Missing
Sub(t, a) == FoldLeft(Into, t, a)

RECURSIVE PutAt(_, _, _)
PutAt(t, a, v) ==
    IF a = <<>> THEN v
    ELSE LET new == PutAt(Into(t, a[1]), Tail(a), v)
         IN  IF a[1].pos > 0 THEN [t EXCEPT !.kids[a[1].pos].kid = new]
             ELSE PutField(t, a[1].key, new)

\* The places of a sequence of length n that a slice names.
Slice(n, params) ==
    LET from == IF params[1].value < 0 THEN n + params[1].value ELSE params[1].value
        to == IF params[2].derived THEN from + 1
              ELSE IF params[2].value < 0 THEN n + params[2].value
              ELSE IF params[2].known THEN params[2].value ELSE n
        step == IF params[3].known THEN params[3].value ELSE 1
    IN  SelectSeq([i \in 1..n |-> i], LAMBDA i : i > from /\ i <= to /\ (i - 1 - from) % step = 0)

\* A filter compares numbers as numbers and anything else as text.
Holds(op, x, y) ==
    CASE op = "==" -> IF Numeric(x, y) THEN AsNumber(x) = AsNumber(y) ELSE x.text = y.text
      [] op = "!=" -> x.text # y.text
      [] op = "<" -> AsNumber(x) < AsNumber(y)
      [] op = ">" -> AsNumber(x) > AsNumber(y)
      [] op = "<=" -> AsNumber(x) <= AsNumber(y)
      [] op = ">=" -> AsNumber(x) >= AsNumber(y)

\* The children of x that a step other than a field names.
Chosen(x, s) ==
    LET holds(y) == y.kind = "scalar" /\ Holds(s.op, y.val, s.right[1].val)
        all == [i \in DOMAIN x.kids |-> i]
    IN  CASE s.t = "array" -> Slice(Len(x.kids), s.params)
          [] s.t = "filter" -> SelectSeq(all, LAMBDA i :
                                   holds(FoldLeft(LAMBDA u, f : Into(u, Key(f.name)), x.kids[i].kid, s.left)))
          [] s.t = "wildcard" -> all
          [] OTHER -> <<>>

\* The addresses a step leads to.  Fields that no address has are to be created.
Onward(t, as, s, create) ==
    LET each(F(_)) == FlattenSeq([i \in DOMAIN as |-> F(as[i])])
        elements(a, is) == [j \in DOMAIN is |-> Append(a, Pos(is[j]))]
        fields(from) == [i \in DOMAIN from |-> Append(from[i], Key(s.name))]
        orAll(having) == IF having = <<>> /\ create THEN as ELSE having
    IN  IF s.t = "field" THEN fields(orAll(SelectSeq(as, LAMBDA a : Has(Sub(t, a), s.name))))
        ELSE each(LAMBDA a : elements(a, Chosen(Sub(t, a), s)))

Addresses(t, ref, create) ==
    FoldLeft(LAMBDA as, s : Onward(t, as, s, create), <<<<>>>>, Steps(ref))

-----------------------------------------------------------------------------
(* A transformer over documents that are trees.                             *)

Match(t, ref) ==
    LET reads(path, w) == w # "" => Sub(t, [i \in DOMAIN path |-> Key(path[i])]).val.text = Text(w)
    IN  /\ reads(<<"apiVersion">>, ref.apiVersion) /\ reads(<<"apiVersion">>, apiver(ref))
        /\ reads(<<"kind">>, ref.kind)
        /\ reads(<<"metadata", "name">>, ref.name) /\ reads(<<"metadata", "namespace">>, ref.namespace)
        /\ ref.label # "" => reads(<<"metadata", "labels", ref.label>>, "true")

\* A source that is missing: no text, and it changes nothing that is there.
NoValue == [Missing EXCEPT !.kind = "nil"]
Recode(t, by) == ScalarNode([tag |-> "!!str",
    text |-> [i \in DOMAIN t.val.text |-> [t.val.text[i] EXCEPT !.enc = @ + by]]])

ValueOf(docs, source) ==
    LET at(doc, as) ==
            CASE Len(as) = 0 -> NoValue
              [] Len(as) = 1 -> Sub(doc, as[1])
              [] OTHER -> SeqNode([i \in DOMAIN as |-> Kid("", Sub(doc, as[i]))])
        plain(v) == IF IsSecretData(source.objref, SourceRef(source)) THEN Recode(v, 0 - 1) ELSE v
        read(doc) == plain(at(doc, Addresses(doc, SourceRef(source), FALSE)))
    IN  IF source.value # "" THEN ScalarNode(Str(source.value))
        ELSE read(docs[SelectInSeq(docs, LAMBDA t : Match(t, source.objref))])

Subst(t, pattern, v) ==
    LET word(x) == IF <<x>> = Text(pattern) THEN v.val.text ELSE <<x>>
        text(u) == [u EXCEPT !.val.text = FlattenSeq([i \in DOMAIN @ |-> word(@[i])])]
    IN  IF t.kind = "seq" THEN [t EXCEPT !.kids = [i \in DOMAIN @ |-> Kid("", text(@[i].kid))]]
        ELSE text(t)

Changed(t, target, val) ==
    LET new(old, ref, v) ==
            IF v = NoValue THEN old ELSE IF ref.pattern = "" THEN v ELSE Subst(old, ref.pattern, v)
        put(u, ref, v) == FoldLeft(LAMBDA x, a : PutAt(x, a, new(Sub(x, a), ref, v)), u,
                                   Addresses(u, ref, ref.pattern = ""))
    IN  FoldLeft(LAMBDA u, ref : put(u, ref, IF IsSecretData(target.objref, ref) THEN Recode(val, 1) ELSE val),
                 t, target.fieldrefs)

Transformed(docs, config) ==
    LET to(ds, target, v) == [i \in DOMAIN ds |-> IF Match(ds[i], target.objref) THEN Changed(ds[i], target, v) ELSE ds[i]]
        each(ds, v, targets) == FoldLeft(LAMBDA x, target : to(x, target, v), ds, targets)
        one(ds, r) == each(ds, ValueOf(ds, r.source), IF r.targets = None THEN <<r.target>> ELSE r.targets)
    IN  IF config.kind = "ReplacementTransformer" THEN FoldLeft(one, docs, config.replacements)
        ELSE (IF config.setItems = None THEN docs ELSE SelectSeq(docs, LAMBDA t : Match(t, config.setItems)))
             \o config.writes

Expected == FoldLeft(Transformed, Inputs, pipeline)

\* A document without the empty mappings that were left in it.
RECURSIVE Prune(_)
Prune(t) ==
    [t EXCEPT !.kids = SelectSeq([i \in DOMAIN t.kids |-> Kid(t.kids[i].key, Prune(t.kids[i].kid))],
                                 LAMBDA k : k.kid # Missing)]

Output == [i \in DOMAIN items |-> Tree(heap, items[i])]

-----------------------------------------------------------------------------
(* Properties.                                                              *)

ByValue(ds) ==
    \E expected \in {Expected} :
        /\ DOMAIN ds = DOMAIN expected
        /\ \A i \in DOMAIN ds : Prune(ds[i]) = Prune(expected[i])

\* A run that succeeds gives the documents of replacing by value, every target a
\* copy of its source and nothing else changed, unless SetYNode or SetField had
\* linked one node in from two places, which a later replacement then changes in
\* both, or a target was its own source, or a value with a dollar was put in place of
\* a pattern; the empty mappings that a filter leaves behind are not counted
\* (transformer.go:133, 195, jsonpathfilter.go:127).
ResultIsByValue == (pc = "ok" /\ ~shared /\ ~expanded) => ByValue(Output)

\* Without the first exception, and without the second; the code keeps neither.
SharedByValue == (pc = "ok" /\ ~expanded) => ByValue(Output)
ExpandedByValue == (pc = "ok" /\ ~shared) => ByValue(Output)

RECURSIVE Encoded(_, _)
Encoded(t, n) ==
    /\ \A i \in DOMAIN t.val.text : t.val.text[i].enc = n
    /\ \A k \in ToSet(t.kids) : Encoded(k.kid, n)

IsSecret(t) == Into(t, Key("kind")).val.text = Text("Secret")

\* A reference into the data of a document, or to any field.
IntoData(ref) == Steps(ref)[1] \in {FieldStep("data"), WildStep}

\* Every reference into the data of a Secret is one that the code recognises.
SecretsRecognised ==
    \A i \in DOMAIN pipeline : pipeline[i].kind = "ReplacementTransformer" =>
        \A r \in ToSet(pipeline[i].replacements) :
            LET safe(objref, ref) ==
                    IntoData(ref) => objref.kind \notin {"", "Secret"} \/ IsSecretData(objref, ref)
            IN  /\ r.source.value = "" => safe(r.source.objref, SourceRef(r.source))
                /\ \A t \in ToSet(IF r.targets = None THEN <<r.target>> ELSE r.targets) :
                       \A f \in ToSet(t.fieldrefs) : safe(t.objref, f)

EncodedOnce ==
    \A i \in DOMAIN Output : \A k \in ToSet(Output[i].kids) :
        Encoded(k.kid, IF IsSecret(Output[i]) /\ k.key = "data" THEN 1 ELSE 0)

\* However values travel between Secrets and other documents, the data of a Secret
\* is base64-encoded exactly once and nothing else is, as long as the references
\* to it are in the form the code recognises (transformer.go:129, 160).
SecretsEncodedOnce == (pc = "ok" /\ SecretsRecognised) => EncodedOnce

\* Without the condition; the code does not keep it.
AlwaysEncodedOnce == pc = "ok" => EncodedOnce

=============================================================================
