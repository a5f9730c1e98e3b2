---------------------------- MODULE MCTransform ----------------------------
(***************************************************************************)
(* Two replacements in a row, each from a small catalogue of sources and   *)
(* targets, over a ConfigMap, a Secret and a Deployment, after a templater *)
(* that adds a second Secret.                                              *)
(***************************************************************************)
EXTENDS ByValue

MCNumber == [n \in {"5", "10"} |-> IF n = "5" THEN 5 ELSE 10]
MCWordLess == {<<"10", "5">>, <<"10", "web">>, <<"5", "web">>}

Sc(w) == ScalarNode(Str(w))
B64(w) == ScalarNode([tag |-> "!!str", text |-> <<[word |-> w, enc |-> 1]>>])
Doc(api, kind, name, kids) ==
    MapNode(<<Kid("apiVersion", Sc(api)), Kid("kind", Sc(kind)),
              Kid("metadata", MapNode(<<Kid("name", Sc(name))>>))>> \o kids)

ConfigMap == Doc("v1", "ConfigMap", "cm",
    <<Kid("data", MapNode(<<Kid("host", Sc("h1")), Kid("cost", Sc("$1")), Kid("all", MapNode(<<Kid("image", Sc("img0"))>>))>>))>>)
SecretDoc(name) == Doc("v1", "Secret", name, <<Kid("data", MapNode(<<Kid("pw", B64(name))>>))>>)
Container1 == MapNode(<<Kid("name", Sc("web")), Kid("port", ScalarNode(IntStr("10"))),
    Kid("image", ScalarNode([tag |-> "!!str", text |-> Text("img") \o Text("TAG")]))>>)
Container2 == MapNode(<<Kid("name", Sc("db")), Kid("port", ScalarNode(IntStr("5")))>>)
Container3 == MapNode(<<Kid("image", Sc("img3"))>>)
Deployment == Doc("apps/v1", "Deployment", "dep",
    <<Kid("spec", SeqNode(<<Kid("", Container1), Kid("", Container2), Kid("", Container3)>>))>>)
\* Every container of this one has a port.
StatefulSet == Doc("apps/v1", "StatefulSet", "set",
    <<Kid("spec", SeqNode(<<Kid("", Container1), Kid("", Container2)>>))>>)
Module(text) == Doc("airshipit.org/v1alpha1", "Templater", "module", <<Kid("template", Sc(text))>>)

MCInputs == <<ConfigMap, SecretDoc("sec"), Deployment, StatefulSet, Module("lib")>>

Ref(kind, name) == [apiVersion |-> "", group |-> "", version |-> "", kind |-> kind, name |-> name,
                    namespace |-> "", label |-> ""]
Legacy(toks) == [braces |-> FALSE, tokens |-> toks, pattern |-> ""]
Braces(steps) == [braces |-> TRUE, steps |-> steps, pattern |-> ""]
From(ref, f) == [objref |-> ref, fieldref |-> f, value |-> ""]
To(ref, fs) == [objref |-> ref, fieldrefs |-> fs]

Pw == Legacy(<<Word("data"), Dot, Word("pw")>>)
PwBracket == Legacy(<<Word("data"), Open, Word("pw"), Close>>)
Cost == Legacy(<<Word("data"), Dot, Word("cost")>>)
PwBraces == Braces(<<FieldStep("data"), FieldStep("pw")>>)
Host == Legacy(<<Word("data"), Dot, Word("host")>>)
All == Legacy(<<Word("data"), Dot, Word("all")>>)
AllImage == Legacy(<<Word("data"), Dot, Word("all"), Dot, Word("image")>>)
Absent == Legacy(<<Word("data"), Dot, Word("absent")>>)
ByName(n) == Legacy(<<Word("spec"), Open, KeyValue("name", n), Close, Dot, Word("image")>>)
Image(i) == Legacy(<<Word("spec"), Dot, IntWord(i), Dot, Word("image")>>)
Tag(f) == [f EXCEPT !.pattern = "TAG"]
Spec1(s) == Braces(<<FieldStep("spec"), s, FieldStep("image")>>)
Port(op, n) == FilterStep(<<FieldStep("port")>>, op, <<LiteralStep(IntStr(n))>>)

Sources ==
    {[objref |-> None, fieldref |-> None, value |-> "lit"],
     From(Ref("ConfigMap", "cm"), Host), From(Ref("ConfigMap", ""), All), From(Ref("ConfigMap", ""), Absent),
     From(Ref("ConfigMap", "cm"), Cost), From(Ref("Secret", "gen"), PwBracket), From(Ref("Secret", "sec"), Pw), From(Ref("", "sec"), Pw), From(Ref("Secret", "gen"), Pw),
     From(Ref("Secret", ""), PwBraces), From(Ref("Deployment", ""), None),
     From(Ref("Deployment", "dep"), Spec1(WildStep))}

Targets ==
    {To(Ref("Deployment", "dep"), <<f>>) : f \in
        {ByName("web"), ByName("none"), Tag(ByName("web")), Image(0), Image(1), Image(-1), Image(3), Spec1(WildStep),
         Spec1(ArrayStep(Param(0), Param(-1), NoParam)), Spec1(ArrayStep(Param(0), NoParam, Param(2))),
         Spec1(Port(">", "5")), [Tag(ByName("web")) EXCEPT !.pattern = "("]}}
    \cup {To(Ref("StatefulSet", ""), <<f>>) : f \in
             {Spec1(Port(">", "5")), Spec1(Port("<=", "10")), Spec1(Port("!=", "10"))}}
    \cup {To(Ref("ConfigMap", ""), <<f>>) : f \in {All, AllImage, Absent, Tag(AllImage)}}
    \cup {To(Ref("ConfigMap", ""), <<Absent, AllImage>>)}
    \cup {To(Ref(k, "sec"), <<f>>) : k \in {"Secret", ""}, f \in {Pw, PwBraces, PwBracket, Tag(Pw)}}
    \cup {To(Ref("Pod", ""), <<Pw>>), To(None, <<Pw>>), None}

Replacement(s, ts) ==
    IF Len(ts) = 1 /\ ts[1] # None THEN [source |-> s, target |-> ts[1], targets |-> None]
    ELSE [source |-> s, target |-> None, targets |-> ts]
Templates == [kind |-> "Templater", bad |-> FALSE, includes |-> {"lib"}, setItems |-> None, writes |-> <<SecretDoc("gen")>>]
Transformer(rs) == [kind |-> "ReplacementTransformer", replacements |-> rs]

\* The second replacement: what may meet the result of the first.
SecondSources ==
    {[objref |-> None, fieldref |-> None, value |-> "lit"], From(Ref("ConfigMap", ""), All),
     From(Ref("ConfigMap", ""), Absent), From(Ref("Secret", "gen"), Pw)}
SecondTargets ==
    {To(Ref("Deployment", "dep"), <<f>>) : f \in {Image(0), Spec1(WildStep)}}
    \cup {To(Ref("ConfigMap", ""), <<AllImage>>), To(Ref("Secret", "sec"), <<Pw>>)}

Two == {<<Replacement(s1, <<t1>>), Replacement(s2, <<t2>>)>> :
            s1 \in Sources, t1 \in Targets, s2 \in SecondSources, t2 \in SecondTargets}
Several == {<<Replacement(s, <<t1, t2>>)>> : s \in Sources, t1 \in SecondTargets, t2 \in SecondTargets}
Bad == {<<Replacement(From(None, None), <<>>)>>}

MCPipelines ==
    {<<Templates, Transformer(rs)>> : rs \in Two \cup Several \cup Bad}
    \cup {<<[Templates EXCEPT !.setItems = Ref("Deployment", ""), !.includes = i],
             Transformer(<<Replacement(s, <<t>>)>>)>> : i \in {{}, {"absent"}}, s \in Sources, t \in SecondTargets}
    \cup {<<[Templates EXCEPT !.writes = <<Module("{{")>>], Templates>>}
=============================================================================
