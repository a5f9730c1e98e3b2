--------------------------- MODULE MCFunctionRun ---------------------------
(* Small instances of FunctionRun: cloud-init with whole and with broken     *)
(* documents, toolbox, clusterctl with providers that share a name, and      *)
(* packages of functions in several directories, in the order a package is   *)
(* read.                                                                     *)
EXTENDS FunctionRun

Doc(kind, ns, name, labels, fields) ==
    [kind |-> kind, ns |-> ns, name |-> name, labels |-> labels, fields |-> fields]
Text(t) == [text |-> t]

User(field, v) ==
    Doc("Secret", "x", "user", {"ephemeral-user-data"}, field :> ("userData" :> v))
Node(name) == Doc("BareMetalHost", "x", "node", {"ephemeral-node"},
    ("spec.networkData.name" :> name) @@ ("spec.networkData.namespace" :> "x"))
Net(ns, name, v) == Doc("Secret", ns, name, {}, "data" :> ("networkData" :> Encoded(Text(v))))

Site1 == <<User("stringData", Text("u1")), Node("net"), Net("x", "net", "n1"), Net("y", "net", "n0")>>
Site2 == <<User("data", Encoded(Text("u2"))), Node("net2"), Net("x", "net2", "n2")>>
\* The host of this site is found by its annotation alone.
Site3 == <<User("stringData", Text("u1")), Net("x", "net", "n1"),
           [Node("net") EXCEPT !.labels = {"annotation"}]>>
Broken == <<User("data", Text("u3")), Node("net"), Net("x", "net", "n3")>>
NoHost == <<User("stringData", Text("u1"))>>

Iso(s, k) == [userSel |-> s, userKey |-> k, netSel |-> NewSelector, netKey |-> Unset]
Plain == Iso(NewSelector, Unset)
Exact == Iso(ByName(NewSelector, "user"), "userData")
ByAnnotation == [Plain EXCEPT !.netSel = [NewSelector EXCEPT !.labels = {"annotation"}]]

Spec1(type, image, limit, m) ==
    [type |-> type, image |-> image, network |-> FALSE, timeout |-> limit, mounts |-> m,
     env |-> <<>>]
Generic(docs, cfg, spec, dry, cluster) ==
    [executor |-> "GenericContainer", entrypoint |-> docs # <<>>, docs |-> docs, config |-> cfg,
     spec |-> spec, dryRun |-> dry, cluster |-> cluster]

CloudJobs ==
    {Generic(Site1, Plain, Spec1("krm", "cloud-init", 1, <<"iso">>), FALSE, Unset),
     Generic(Site3, ByAnnotation, Spec1("krm", "cloud-init", 0, <<"iso">>), FALSE, Unset),
     Generic(Site1, ByAnnotation, Spec1("krm", "cloud-init", 0, <<"iso">>), FALSE, Unset),
     Generic(Site2, Exact, Spec1("krm", "cloud-init", 0, <<"iso">>), FALSE, "known"),
     Generic(Broken, Plain, Spec1("krm", "cloud-init", 0, <<"iso">>), FALSE, Unset),
     Generic(NoHost, Plain, Spec1("krm", "cloud-init", 0, <<"iso">>), FALSE, Unset),
     Generic(Site1, Plain, Spec1("krm", "cloud-init", 0, <<>>), FALSE, "known"),
     Generic(Site1, Plain, Spec1("krm", "cloud-init", 0, <<>>), FALSE, Unset),
     Generic(Site1, Plain, Spec1("krm", "cloud-init", 0, <<"iso">>), TRUE, Unset)}
OtherJobs ==
    {Generic(Site1, [script |-> TRUE],
         [Spec1("krm", "toolbox", 1, <<>>) EXCEPT !.env = ("RESOURCE_KIND_FILTER" :> "Secret")],
         FALSE, "known"),
     Generic(<<>>, [script |-> FALSE], Spec1("krm", "toolbox", 0, <<>>), FALSE, "unknown"),
     Generic(<<>>, [script |-> FALSE], Spec1("krm", "toolbox", 0, <<>>), FALSE, Unset),
     Generic(Site1, Plain, Spec1("airship", "toolbox", 0, <<>>), FALSE, Unset),
     Generic(Site1, Plain, Spec1("other", "toolbox", 0, <<>>), FALSE, Unset)}

Kind(k, name) == Doc(k, "x", name, {}, <<>>)
Provider(name, type, base, what) ==
    [name |-> name, type |-> type, base |-> base, local |-> TRUE,
     docs |-> <<Kind("Metadata", what), Kind("Deployment", what),
                Doc("Plan", "x", what, {"deploy-k8s=false"}, <<>>)>>]
Providers ==
    <<Provider(<<"kubeadm">>, "ControlPlaneProvider", "v1", "kcp"),
      Provider(<<"kubeadm">>, "BootstrapProvider", "v1", "cabpk"),
      Provider(<<"cluster-api">>, "CoreProvider", "v1", "capi"),
      Provider(<<"cluster-api">>, "CoreProvider", "v2", "capi2"),
      Provider(<<"bootstrap", "kubeadm">>, "CoreProvider", "v1", "odd"),
      [Provider(<<"metal3">>, "InfrastructureProvider", "https", "capm3") EXCEPT !.local = FALSE]>>
Cluster(action, parent, providers, dry, limit) ==
    [executor |-> "Clusterctl", action |-> action, parent |-> parent, providers |-> providers,
     spec |-> Spec1("krm", "clusterctl", limit, <<>>), dryRun |-> dry, cluster |-> "known",
     docs |-> <<>>]
ClusterJobs ==
    {Cluster("init", Unset, Providers, TRUE, 0),
     Cluster("move", "known", <<>>, TRUE, 1),
     Cluster("move", Unset, <<>>, FALSE, 0),
     Cluster("init", Unset, <<[Provider(<<"odd">>, "OddProvider", "v1", "odd") EXCEPT !.docs = <<>>]>>,
             FALSE, 0)}

Fn(path, i, defer) ==
    [path |-> path, index |-> i, spec |-> TRUE, image |-> "transform", network |-> FALSE,
     defer |-> defer, env |-> <<>>, config |-> [of |-> <<path, i>>, script |-> FALSE]]
Package(fns, explicit, limit, continue) ==
    [executor |-> "RunFns", docs |-> Site1,
     request |-> [input |-> fns, paths |-> <<>>, functions |-> explicit, network |-> FALSE,
                  timeout |-> limit, env |-> ("MODE" :> "test"), continueOnEmpty |-> continue]]
Root0 == Fn(<<9>>, 0, FALSE)
Root1 == Fn(<<9>>, 1, TRUE)
Scoped == Fn(<<FunctionsDir, 8>>, 0, FALSE)
Deep0 == Fn(<<3, 9>>, 0, TRUE)
Deep1 == Fn(<<3, 9>>, 1, FALSE)
Wide == Fn(<<2, 7>>, 0, FALSE)
\* Two files of the root and one below: the gap pass moves the first function of
\* the one behind the other; and seven functions that it leaves alone.
Seven == <<Fn(<<1>>, 0, FALSE), Fn(<<1>>, 1, FALSE), Fn(<<2>>, 0, FALSE), Fn(<<2>>, 1, FALSE),
           Fn(<<2>>, 2, FALSE), Fn(<<2>>, 3, FALSE), Fn(<<3, 1>>, 0, FALSE)>>
PackageJobs ==
    {Package(Seven, <<>>, 0, TRUE),
     Package([i \in 1..7 |-> Fn(<<1>>, i, FALSE)], <<>>, 0, TRUE),
     Package(<<Root0, Root1, Scoped, Deep0, Deep1>>, <<>>, 0, TRUE),
     Package(<<Root1, Deep0, Wide>>, <<>>, 1, FALSE),
     Package(<<Scoped, Wide, Deep0, Root1>>, <<>>, 0, TRUE),
     Package(<<Root0>>, <<Root1, Wide>>, 0, TRUE),
     Package(<<Root0, [Root1 EXCEPT !.index = BadIndex]>>, <<>>, 0, TRUE),
     Package(<<[Root0 EXCEPT !.image = Unset], [Wide EXCEPT !.spec = FALSE], Deep1>>, <<>>, 0, TRUE),
     Package(<<[Wide EXCEPT !.network = TRUE]>>, <<>>, 0, TRUE),
     Package(<<[Wide EXCEPT !.image = "toolbox", !.config.script = TRUE], Root0>>,
             <<>>, 0, FALSE)}

MCJobs == CloudJobs \cup OtherJobs \cup ClusterJobs \cup PackageJobs

=============================================================================
