------------------------------- MODULE MCSite -------------------------------
(* Small instances of Site.  Inventories: hosts in two namespaces, documents *)
(* with mistakes, secrets written both ways.  Phase bundles: a plan with a   *)
(* bare metal phase, a missing, a doubled and an incomplete phase, no plan.  *)
EXTENDS Site, TLC

Doc(kind, ns, name, labels, fields) ==
    [kind |-> kind, ns |-> ns, name |-> name, labels |-> labels, fields |-> fields]

Text(t) == [text |-> t]
Login(t) == [username |-> Text("root"), password |-> Text(t)]
Coded(t) == [username |-> Encoded(Text("root")), password |-> Encoded(Text(t))]
BMH(ns, name, labels, secret) ==
    Doc("BareMetalHost", ns, name, labels,
        "spec.bmc.address" :> "url" @@ "spec.bmc.credentialsName" :> secret)
Secret(ns, name, fields) == Doc("Secret", ns, name, {}, fields)

a == BMH("x", "a", {"worker"}, "s1")
b == BMH("x", "b", {"worker"}, "s2")
a2 == BMH("y", "a", {}, "s1")
NoSecret == BMH("x", "c", {"worker"}, "s3")
NoAddress == Doc("BareMetalHost", "x", "d", {}, "spec.bmc.credentialsName" :> "s1")
NoSystem == Doc("BareMetalHost", "x", "f", {"worker"},
                "spec.bmc.address" :> "noid" @@ "spec.bmc.credentialsName" :> "s1")
AnySecret == BMH("x", "e", {"worker"}, Unset)
S1 == Secret("x", "s1", "stringData" :> Login("one"))
S2 == Secret("x", "s2", "data" :> Coded("two"))
S1y == Secret("y", "s1", "stringData" :> Login("three"))

Worker == ByLabel(NewSelector, {"worker"})
MCBundles == {<<a, b, a2, S1, S2>>, <<a, NoSecret, S1>>, <<a, NoAddress, S1>>,
              <<a, b, S1, S1y, S2>>, <<S1>>, <<AnySecret, S2>>,
              <<a, NoSystem, S1>>}
MCSelectors ==
    {NewSelector, ByName(NewSelector, "a"), Worker, ByNamespace(ByName(NewSelector, "a"), "y")}

Ref(kind, name) == [kind |-> kind, name |-> name, ns |-> Unset]
PhaseDoc(ns, name, ref, cluster) ==
    Doc("Phase", ns, name, {},
        "executorRef" :> ref @@ "clusterName" :> cluster @@ "documentEntryPoint" :> "dir")
Exec(kind, name) == Doc(kind, "x", name, {}, <<>>)
Power(name, op, sel) ==
    Doc("BaremetalManager", "x", name, {}, "operation" :> op @@ "hostSelector" :> sel)
Plan(names) == Doc("PhasePlan", "x", "site", {}, "phases" :> names)
Map == Doc("ClusterMap", "x", "map", {}, <<>>)
Validation == Exec("GenericContainer", "document-validation")

Boot == PhaseDoc("x", "boot", Ref("BaremetalManager", "on"), "k1")
Apply == PhaseDoc("x", "apply", Ref("KubernetesApply", "kapp"), "k2")
Apply2 == PhaseDoc("y", "apply", Ref("KubernetesApply", "kapp"), "k1")
NoRef == Doc("Phase", "x", "apply", {}, "clusterName" :> "k2")
On == Power("on", "power-on", Worker)
Off == Power("on", "power-off", ByName(NewSelector, "a"))
Unknown == Power("on", "unknown", Worker)
Kapp == Exec("KubernetesApply", "kapp")

MCPhaseBundles ==
    {<<Apply, Boot, Plan(<<"boot", "apply">>), On, Kapp, Map, Validation>>,
     <<Apply, Boot, Plan(<<"apply", "gone", "boot">>), Off, Kapp, Map>>,
     <<Apply, Apply2, Boot, Plan(<<"boot", "apply">>), On, Kapp, Map, Validation>>,
     <<NoRef, Boot, Plan(<<"boot", "apply">>), On, Kapp, Map>>,
     <<Apply, Boot, Plan(<<"apply", "boot", "apply">>), On, Kapp, Map, Validation>>,
     <<Apply, Boot, Unknown, Map>>}

MCRequests ==
    {NewPlanRunCommand("site", d) : d \in BOOLEAN} \cup
    {NewPlanValidateCommand("site"), NewPhaseRunCommand("boot", FALSE),
     NewPhaseRunCommand("apply", FALSE), NewPhaseValidateCommand("apply"),
     NewPhaseStatusCommand("apply"), NewPhaseTreeCommand("apply"),
     NewPlanListCommand, NewClusterListCommand} \cup
    {NewRenderCommand(source, "apply") : source \in {"phase", "executor", "config"}} \cup
    {NewPhaseListCommand(c, n) : n \in {Unset, "site"}, c \in {Unset, "k1"}}
=============================================================================
