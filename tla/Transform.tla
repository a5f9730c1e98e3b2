----------------------------- MODULE Transform -----------------------------
(***************************************************************************)
(* The document transformers that kustomize (external) runs, one after the *)
(* other, over the documents of a bundle: the templater, which adds        *)
(* documents (pkg/document/plugin/templater), and the replacement          *)
(* transformer, which copies values between fields                         *)
(* (pkg/document/plugin/replacement).  An error of one fails the bundle.   *)
(***************************************************************************)
EXTENDS JsonPath, FiniteSets

CONSTANTS
    Inputs,      \* the documents before the transformers run, as trees
    Pipelines,   \* the sequences of transformer configurations to run
    BadPattern,  \* a pattern that does not compile
    BadTemplate, \* the text of a template that cannot be parsed
    None,        \* what is left out of a configuration
    Dollar       \* the words that begin with a dollar and name no group

\* The configuration of a replacement transformer: conditions on documents, a source
\* and the fields to change.  What it has to hold beyond its shape is checked by New.
IsTarget(ref) ==
    ref = None \/ DOMAIN ref = {"apiVersion", "group", "version", "kind", "name", "namespace", "label"}
IsReplSource(s) == DOMAIN s = {"objref", "fieldref", "value"} /\ IsTarget(s.objref)
IsReplTarget(t) == t = None \/ (DOMAIN t = {"objref", "fieldrefs"} /\ IsTarget(t.objref))
IsReplacement(r) ==
    /\ DOMAIN r = {"source", "target", "targets"} /\ IsReplSource(r.source) /\ IsReplTarget(r.target)
    /\ r.targets = None \/ \A i \in DOMAIN r.targets : IsReplTarget(r.targets[i])

ASSUME PipelinesAssumption ==
    \A run \in Pipelines : \A i \in DOMAIN run :
        run[i].kind = "ReplacementTransformer" =>
            \A k \in DOMAIN run[i].replacements : IsReplacement(run[i].replacements[k])

VARIABLES
    pipeline,  \* the transformers of this run
    turn,      \* the one that runs
    pc,        \* its next step
    heap,      \* the YAML nodes
    items,     \* the documents: pointers to their roots
    rest,      \* replacements it has still to make
    queue,     \* targets of the current replacement still to be changed
    value,     \* what they are changed to: a pointer or nil
    shared,    \* a target was changed while a node had two parents, or the source
               \* of the replacement was changed with it (history)
    expanded   \* a pattern was replaced by a value with a dollar in it (history)

vars == <<pipeline, turn, pc, heap, items, rest, queue, value, shared, expanded>>

Config == pipeline[turn]
TypeOK ==
    /\ pipeline \in Pipelines /\ turn \in 1..Len(pipeline)
    /\ pc \in {"new", "filter", "ok", "error", "crash"}
    /\ \A p \in DOMAIN heap : \A k \in ToSet(heap[p].kids) : k.kid \in DOMAIN heap
    /\ ToSet(items) \subseteq DOMAIN heap
    /\ value \in {Nil} \cup DOMAIN heap /\ {shared, expanded} \subseteq BOOLEAN

Init ==
    /\ pipeline \in Pipelines /\ turn = 1 /\ pc = "new"
    /\ heap = Read(<<>>, 0, Inputs) /\ items = [i \in DOMAIN Inputs |-> <<i>>]
    /\ rest = <<>> /\ queue = <<>> /\ value = Nil /\ shared = FALSE /\ expanded = FALSE

-----------------------------------------------------------------------------
(* DocumentSelector: omitted conditions are "".                             *)

Lookup(h, p, path) ==
    FoldLeft(LAMBDA q, k : IF q # Nil /\ Has(h[q], k) THEN Field(h[q], k) ELSE Nil, p, path)
TextAt(h, q) == IF q = Nil THEN <<>> ELSE h[q].val.text

apiver(ref) ==
    IF ref.group = "" THEN ref.version
    ELSE IF ref.version = "" THEN ref.group ELSE ref.group \o "/" \o ref.version

Conditions(ref) ==
    {c \in {<<<<"apiVersion">>, ref.apiVersion>>, <<<<"apiVersion">>, apiver(ref)>>,
            <<<<"kind">>, ref.kind>>, <<<<"metadata", "name">>, ref.name>>,
            <<<<"metadata", "namespace">>, ref.namespace>>,
            <<<<"metadata", "labels", ref.label>>, IF ref.label = "" THEN "" ELSE "true">>} : c[2] # ""}

Select(h, docs, ref) ==
    SelectSeq(docs, LAMBDA p : \A c \in Conditions(ref) : TextAt(h, Lookup(h, p, c[1])) = Text(c[2]))

-----------------------------------------------------------------------------
(* Values.                                                                  *)

\* A reference is to the data of a Secret only if the kind is given and it has "data"
\* before its first dot: not in braces, nor in the form data[key].
IsSecretData(objref, ref) ==
    /\ objref.kind = "Secret" /\ ~ref.braces /\ ref.tokens[1] = Word("data")
    /\ IF Len(ref.tokens) = 1 THEN ref.pattern = "" ELSE ref.tokens[2] = Dot

\* Both make a new scalar of the text of a node: what is missing or no scalar has
\* none.  [h, p, err].
New(h, n) == [h |-> Put(h, n), p |-> Fresh(h), err |-> FALSE]
Recoded(text, by) ==
    ScalarNode([tag |-> "!!str", text |-> [i \in DOMAIN text |-> [text[i] EXCEPT !.enc = @ + by]]])

encodeValue(h, p) == New(h, Recoded(TextAt(h, p), 1))

decodeValueMutant(h, p) == New(h, Recoded(TextAt(h, p), 0))
decodeValue(h, p) ==
    LET decode(text) == IF \E i \in DOMAIN text : text[i].enc = 0 THEN [h |-> h, p |-> Nil, err |-> TRUE]
                        ELSE New(h, Recoded(text, 0 - 1))
    IN  decode(TextAt(h, p))

\* What a query returns: the node it found, a sequence of them, or nil.
QueryResult(w) ==
    IF w.err \/ w.ns = <<>> THEN [h |-> w.h, p |-> Nil, err |-> w.err]
    ELSE IF Len(w.ns) = 1 THEN [h |-> w.h, p |-> w.ns[1], err |-> FALSE]
    ELSE New(w.h, SeqNode([i \in DOMAIN w.ns |-> Kid("", w.ns[i])]))

MetadataName == [braces |-> TRUE, steps |-> <<FieldStep("metadata"), FieldStep("name")>>]
SourceRef(source) == IF source.fieldref = None THEN MetadataName ELSE source.fieldref

getValue(h, docs, source) ==
    LET plain(v) == IF ~v.err /\ IsSecretData(source.objref, SourceRef(source))
                    THEN decodeValue(v.h, v.p) ELSE v
        read(sources) ==
            IF Len(sources) # 1 THEN [h |-> h, p |-> Nil, err |-> TRUE]
            ELSE plain(QueryResult(Query(h, sources[1], Steps(SourceRef(source)), FALSE)))
    IN  IF source.value # "" THEN New(h, ScalarNode(Str(source.value)))
        ELSE read(Select(h, docs, source.objref))

-----------------------------------------------------------------------------
(* Changing a field: [h, err, panic].                                       *)

\* Every occurrence of the pattern in a text.  What replaces it is a template, in
\* which a word with a dollar stands for a group: for nothing, if there is none.
ReplaceAllString(text, pattern, by) ==
    LET expansion == SelectSeq(by, LAMBDA w : w.enc > 0 \/ w.word \notin Dollar)
    IN  FlattenSeq([i \in DOMAIN text |-> IF <<text[i]>> = Text(pattern) THEN expansion ELSE <<text[i]>>])

\* A field that is missing, and a pattern that does not occur, are no errors.  A
\* pattern that does not compile is found out when there is a text to look in.
Over(a) == a.err \/ a.panic
substituteSubstring(h, tgt, ref, val) ==
    LET subst(a, p) ==
            IF Over(a) THEN a
            ELSE IF a.h[p].kind # "scalar" THEN [a EXCEPT !.err = TRUE]
            ELSE IF ref.pattern = BadPattern THEN [a EXCEPT !.panic = TRUE]
            ELSE [a EXCEPT !.h[p].val.text = ReplaceAllString(@, ref.pattern, h[val].val.text)]
        within(cur) ==
            IF cur.err \/ cur.p = Nil THEN [h |-> h, err |-> cur.err, panic |-> FALSE]
            ELSE FoldLeft(subst, [h |-> cur.h, err |-> FALSE, panic |-> FALSE],
                          IF cur.h[cur.p].kind # "seq" THEN <<cur.p>>
                          ELSE [i \in DOMAIN cur.h[cur.p].kids |-> cur.h[cur.p].kids[i].kid])
    IN  IF val = Nil \/ h[val].kind # "scalar" THEN [h |-> h, err |-> TRUE, panic |-> FALSE]
        ELSE within(QueryResult(Query(h, tgt, Steps(ref), FALSE)))

\* mutateField on every node the query finds, or on the one it creates.
replaceFieldMutant(h, tgt, ref, val) ==
    LET w == Query(h, tgt, Steps(ref), TRUE)
    IN  [h |-> IF w.err \/ w.ns = <<>> \/ val = Nil THEN w.h ELSE SetYNode(w.h, w.ns[1], val),
         err |-> w.err, panic |-> FALSE]
replaceField(h, tgt, ref, val) ==
    LET set(g, p) == IF val = Nil THEN g ELSE SetYNode(g, p, val)
        mutate(w) == [h |-> IF w.err THEN w.h ELSE FoldLeft(set, w.h, w.ns), err |-> w.err, panic |-> FALSE]
    IN  mutate(Query(h, tgt, Steps(ref), TRUE))

\* A target without an object reference is a nil pointer.
replace(h, docs, target, val) ==
    LET change(tgt, ref, v) ==
            IF ref.pattern = "" THEN replaceField(v.h, tgt, ref, v.p)
            ELSE substituteSubstring(v.h, tgt, ref, v.p)
        one(a, tgt, ref) ==
            IF Over(a) THEN a
            ELSE change(tgt, ref, IF IsSecretData(target.objref, ref) THEN encodeValue(a.h, val)
                                  ELSE [h |-> a.h, p |-> val])
        doc(a, tgt) == FoldLeft(LAMBDA b, ref : one(b, tgt, ref), a, target.fieldrefs)
        all(targets) == FoldLeft(doc, [h |-> h, err |-> targets = <<>>, panic |-> FALSE], targets)
    IN  IF target = None \/ target.objref = None THEN [h |-> h, err |-> FALSE, panic |-> TRUE]
        ELSE all(Select(h, docs, target.objref))

-----------------------------------------------------------------------------
(* The replacement transformer.                                             *)

BadConfiguration(r) ==
    \/ r.source = None
    \/ (r.target = None) = (r.targets = None)
    \/ (r.source.objref = None) = (r.source.value = "")

Stop(how) == pc' = how /\ UNCHANGED <<pipeline, turn, heap, items, rest, queue, value, shared, expanded>>
Fail == Stop("error")

\* New: the whole configuration is checked first.
NewReplacement ==
    /\ pc = "new" /\ Config.kind = "ReplacementTransformer"
    /\ IF \E i \in DOMAIN Config.replacements : BadConfiguration(Config.replacements[i]) THEN Fail
       ELSE /\ pc' = "filter" /\ rest' = Config.replacements
            /\ UNCHANGED <<pipeline, turn, heap, items, queue, value, shared, expanded>>

\* The source is read once, before any of its targets changes.
GetValue ==
    /\ pc = "filter" /\ queue = <<>> /\ rest # <<>>
    /\ \E v \in {getValue(heap, items, Head(rest).source)} :
           IF v.err THEN Fail
           ELSE /\ heap' = v.h /\ value' = v.p
                /\ queue' = IF Head(rest).targets = None THEN <<Head(rest).target>> ELSE Head(rest).targets
                /\ rest' = Tail(rest)
                /\ UNCHANGED <<pipeline, turn, pc, items, shared, expanded>>

Replace ==
    /\ pc = "filter" /\ queue # <<>>
    /\ \E r \in {replace(heap, items, Head(queue), value)} :
           IF r.panic THEN Stop("crash")
           ELSE IF r.err THEN Fail
           ELSE /\ heap' = r.h /\ queue' = Tail(queue)
                /\ shared' = \/ shared
                             \/ Shared(IF Len(Head(queue).fieldrefs) > 1 THEN r.h ELSE heap, ToSet(items))
                             \/ value # Nil /\ \E p \in Reach(heap, {value}) : r.h[p] # heap[p]
                /\ expanded' = (expanded \/ \E f \in ToSet(Head(queue).fieldrefs) :
                                    /\ f.pattern # "" /\ ~IsSecretData(Head(queue).objref, f)
                                    /\ \E w \in ToSet(TextAt(heap, value)) : w.enc = 0 /\ w.word \in Dollar)
                /\ UNCHANGED <<pipeline, turn, pc, items, rest, value>>

-----------------------------------------------------------------------------
(* The templater.  A template names the modules it includes, the documents  *)
(* it keeps (setItems; every one of them, if it does not call it) and the   *)
(* documents it writes, which may not be YAML.                              *)

\* loadModules: the Templater documents among the items are templates too, each of
\* which has to be parsed.  The text of one stands for the name that it defines.
TemplaterRef == [apiVersion |-> "airshipit.org/v1alpha1", group |-> "", version |-> "",
                 kind |-> "Templater", name |-> "", namespace |-> "", label |-> ""]
Modules == {TextAt(heap, Lookup(heap, p, <<"template">>)) : p \in ToSet(Select(heap, items, TemplaterRef))}

Template ==
    /\ pc = "new" /\ Config.kind = "Templater"
    /\ IF \/ Text(BadTemplate) \in Modules \/ Config.bad
          \/ ~\A m \in Config.includes : Text(m) \in Modules THEN Fail
       ELSE LET n == Cardinality(DOMAIN heap)
                kept == IF Config.setItems = None THEN items ELSE Select(heap, items, Config.setItems)
            IN  /\ heap' = Read(heap, n, Config.writes)
                /\ items' = kept \o [i \in DOMAIN Config.writes |-> <<n + i>>]
                /\ pc' = "filter" /\ rest' = <<>>
                /\ UNCHANGED <<pipeline, turn, queue, value, shared, expanded>>

-----------------------------------------------------------------------------
\* The documents are written out, and the next transformer reads them in again.  A
\* mapping that was copied into itself has no end.
Ends ==
    /\ pc = "filter" /\ rest = <<>> /\ queue = <<>>
    /\ value' = Nil /\ UNCHANGED <<pipeline, rest, queue, shared, expanded>>
    /\ IF \E p \in ToSet(items) : Cyclic(heap, p) THEN pc' = "crash" /\ UNCHANGED <<turn, heap, items>>
       ELSE IF turn = Len(pipeline) THEN pc' = "ok" /\ UNCHANGED <<turn, heap, items>>
       ELSE /\ pc' = "new" /\ turn' = turn + 1
            /\ heap' = Read(<<>>, 0, [i \in DOMAIN items |-> Tree(heap, items[i])])
            /\ items' = [i \in DOMAIN items |-> <<i>>]

Done == pc \in {"ok", "error", "crash"} /\ UNCHANGED vars

Next == NewReplacement \/ GetValue \/ Replace \/ Template \/ Ends \/ Done

Spec == Init /\ [][Next]_vars
=============================================================================
