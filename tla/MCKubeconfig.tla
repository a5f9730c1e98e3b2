---------------------------- MODULE MCKubeconfig ----------------------------
(* Small instances of Kubeconfig: a management cluster and two workload     *)
(* clusters below it, of which one may name an unknown parent; and a chain  *)
(* of three clusters, where two clusters keep secrets; and maps whose       *)
(* parents form a cycle.                                                    *)
EXTENDS Kubeconfig

CONSTANTS r, x, y, Stranger

MCClusters == {r, x, y}
MCOrders == {q \in [1..3 -> MCClusters] : \A i, j \in 1..3 : q[i] = q[j] => i = j}
MCRequests == {<<r>>, <<x>>, <<x, y>>, <<Stranger>>, <<x, Stranger>>}

RootSources == {<<>>, <<"local">>, <<"capi", "local">>}
ChildSources == {<<"capi">>, <<"local", "capi">>, <<"other", "capi", "local">>}

\* Names of their own, the user every kubeadm cluster has, and a copied kubeconfig.
Named(srv, usr) == [c \in MCClusters |-> [server |-> srv[c], user |-> usr[c]]]
Own == [c \in MCClusters |-> c]
Copied == [c \in MCClusters |-> IF c = y THEN r ELSE c]
MCNamings == {Named(Own, Own), Named(Own, [c \in MCClusters |-> "admin"]), Named(Copied, Copied)}

Tree(px, py) == [c \in MCClusters |-> CASE c = r -> NoCluster [] c = x -> px [] OTHER -> py]
SourcesOf(sr, sx, sy) == [c \in MCClusters |-> CASE c = r -> sr [] c = x -> sx [] OTHER -> sy]

\* One parent for all.
Hub ==
    {[parent |-> Tree(r, py), sources |-> SourcesOf(sr, sx, sy)] :
        py \in {r, Stranger}, sr \in RootSources, sx \in ChildSources, sy \in ChildSources}

\* A cluster below a cluster below the root.
Chain == {[parent |-> Tree(r, x), sources |-> SourcesOf(<<"local">>, <<"capi">>, <<"capi">>)]}

\* The root below a cluster that is below it, and a cluster that is its own parent.
Cycle ==
    {[parent |-> [c \in MCClusters |-> CASE c = r -> pr [] c = x -> r [] OTHER -> py],
      sources |-> SourcesOf(sr, <<"capi">>, <<"local", "capi">>)] :
        pr \in {x, y}, py \in {x, y}, sr \in {<<"capi">>, <<"capi", "local">>}}
HubChainOrCycle == Hub \cup Chain \cup Cycle
=============================================================================
