----------------------------- MODULE Kubeconfig -----------------------------
(***************************************************************************)
(* The kubeconfig of a site, or of some of its clusters                    *)
(* (pkg/k8s/kubeconfig/builder.go), built from the sources the cluster map *)
(* (pkg/cluster/clustermap) lists: a file, the bundle, or the secret that  *)
(* cluster API keeps in the parent cluster.  To read that secret the       *)
(* builder needs the kubeconfig of the parent, which it builds first, and  *)
(* so on: the recursion of buildOne is the stack of this module.           *)
(***************************************************************************)
EXTENDS Naturals, Sequences

CONSTANTS
    Clusters,     \* the clusters of the cluster map
    Maps,         \* the maps considered: records of parent and sources
    Namings,      \* the names that the kubeconfigs of a cluster give its server and user
    Requests,     \* --cluster names asked for, when not the whole site
    Orders,       \* orders in which AllClusters can list the map
    NoCluster,    \* no parent, no client, no context
    Wrong,        \* a server nobody meant, or one with the user of another
    MaxStack      \* bound: calls of buildOne the Go stack has room for

ASSUME ClustersAssumption == NoCluster \notin Clusters /\ Wrong \notin Clusters /\ NoCluster # Wrong
SourceTypes == {"local", "capi", "other"}
IsClusterMap(m) == DOMAIN m.parent = Clusters /\ m.sources \in [Clusters -> Seq(SourceTypes)]
ASSUME MapsAssumption == \A m \in Maps : IsClusterMap(m)
\* An order lists every cluster of the map.
Listed(q) == {q[n] : n \in 1..Len(q)}
ASSUME OrdersAssumption ==
    Orders # {} /\ \A q \in Orders : q \in Seq(Clusters) /\ Listed(q) = Clusters
ASSUME RequestsAssumption == \A q \in Requests : q \in Seq(Listed(q))
ASSUME StackAssumption == MaxStack \in Nat \ {0}

VARIABLES
    \* the site
    parent,      \* parent[c] in the cluster map, which may name an unknown cluster
    sources,     \* sources[c]: the kubeconfig sources of c, in order
    local,       \* clusters whose file or bundle source yields a kubeconfig
    secret,      \* clusters whose parent holds their kubeconfig secret
    names,       \* names[c]: what kubeconfigs of c call their server and their user
    \* the builder
    wide,        \* SiteWide
    queue,       \* clusters still to build
    stack,       \* calls of buildOne: cluster, source index, and where the call is
    site,        \* site[c]: the cluster that context c of siteKubeconf leads to
    client,      \* the cluster b.client talks to
    current,     \* CurrentContext
    result,
    \* observers
    requested,   \* what was asked for
    trouble      \* a step failed that could have succeeded

siteVars == <<parent, sources, local, secret, names>>
vars == <<parent, sources, local, secret, names, wide, queue, stack, site, client, current, result,
          requested, trouble>>

Frames == [c : Clusters, i : Nat \ {0}, at : {"try", "secret"}]

TypeOK ==
    /\ DOMAIN parent = Clusters /\ sources \in [Clusters -> Seq(SourceTypes)]
    /\ local \subseteq Clusters /\ secret \subseteq Clusters
    /\ wide \in BOOLEAN /\ trouble \in BOOLEAN
    /\ stack \in Seq(Frames) /\ Len(stack) <= MaxStack
    /\ site \in [Clusters -> Clusters \cup {NoCluster, Wrong}]
    /\ client \in Clusters \cup {NoCluster, Wrong}
    /\ current \in Clusters \cup {NoCluster}
    /\ result \in {"running", "ok", "error", "fatal", "overflow"}

\* A Go map is listed in any order.
AllClusters == Orders

Init ==
    /\ \E m \in Maps : parent = m.parent /\ sources = m.sources
    /\ local \in SUBSET Clusters /\ secret \in SUBSET Clusters /\ names \in Namings
    /\ \/ wide = TRUE /\ queue \in AllClusters
       \/ wide = FALSE /\ queue \in Requests
    /\ requested = queue
    /\ stack = <<>> /\ site = [c \in Clusters |-> NoCluster]
    /\ client = NoCluster /\ current = NoCluster /\ result = "running"
    /\ trouble = FALSE

-----------------------------------------------------------------------------
(* Calls and returns of buildOne.                                           *)

Running == result = "running"
Frame == stack[Len(stack)]
Below == SubSeq(stack, 1, Len(stack) - 1)
Call(c) == [c |-> c, i |-> 1, at |-> "try"]

\* A name that stands for no cluster of the map is an error, the others are skipped.
InMap(c) == c \in Clusters
AlreadyBuilt(c) == site[c] # NoCluster

\* A request for one cluster names the current context; ctx is empty on an error.
SetCurrent(ctx) ==
    current' = IF ~wide /\ Len(requested) = 1 THEN ctx ELSE current

\* buildKubeconfig goes on with the next cluster.
SkipClusterMutant == queue' = <<>>
SkipCluster == queue' = Tail(queue)

\* ctx after a call that failed.
NoContextMutant == IF InMap(Head(queue)) THEN Head(queue) ELSE NoCluster
NoContext == NoCluster

\* The outermost call returns.
LoopGoesOn(ctx) == stack' = <<>> /\ SetCurrent(ctx) /\ result' = result

\* The source at hand failed: its error is logged and the next one is tried.
Skipped(f) == [f EXCEPT !.i = f.i + 1, !.at = "try"]
SourceFails == stack' = Append(Below, Skipped(Frame)) /\ UNCHANGED <<queue, site, current, result>>

\* The server and the user of cluster c, which leads to d, come into the site's
\* kubeconfig: contexts that have the same names there lead to them as well, and
\* those with one of the names to a server with the user of another.
Overlap(c, e) == names[c].server = names[e].server \/ names[c].user = names[e].user
mergeContextAPI(c, d) ==
    [e \in Clusters |->
        IF e = c \/ (AlreadyBuilt(e) /\ names[e] = names[c]) THEN d
        ELSE IF AlreadyBuilt(e) /\ Overlap(c, e) THEN Wrong ELSE site[e]]

\* buildOne returns the kubeconfig of its cluster, which leads to cluster d: to the
\* loop, or to the call for the child, which can now read its secret.
ReturnsMutant(d) ==
    /\ site' = mergeContextAPI(stack[1].c, d)
    /\ IF Len(stack) = 1 THEN LoopGoesOn(Frame.c) /\ queue' = Tail(queue)
       ELSE /\ stack' = [Below EXCEPT ![Len(Below)].at = "secret"]
            /\ UNCHANGED <<queue, current, result>>
Returns(d) ==
    /\ site' = mergeContextAPI(Frame.c, d)
    /\ IF Len(stack) = 1 THEN LoopGoesOn(Frame.c) /\ queue' = Tail(queue)
       ELSE /\ stack' = [Below EXCEPT ![Len(Below)].at = "secret"]
            /\ UNCHANGED <<queue, current, result>>

Quiet == UNCHANGED <<siteVars, wide, requested>>

-----------------------------------------------------------------------------
(* buildKubeconfig.                                                         *)

NextCluster ==
    /\ Running /\ stack = <<>> /\ queue # <<>>
    /\ LET c == Head(queue) IN
         CASE ~InMap(c) ->
                /\ result' = "error" /\ SetCurrent(NoContext)
                /\ UNCHANGED <<stack, queue>>
           [] InMap(c) /\ AlreadyBuilt(c) -> LoopGoesOn(c) /\ queue' = Tail(queue)
           [] OTHER -> stack' = <<Call(c)>> /\ UNCHANGED <<queue, current, result>>
    /\ UNCHANGED <<site, client, trouble>> /\ Quiet

BuildReturns ==
    /\ Running /\ stack = <<>> /\ queue = <<>> /\ result' = "ok"
    /\ UNCHANGED <<stack, queue, current, site, client, trouble>> /\ Quiet

-----------------------------------------------------------------------------
(* buildOne and trySource.                                                  *)

Trying == Running /\ stack # <<>> /\ Frame.at = "try"
MoreSources == Frame.i <= Len(sources[Frame.c])
Source == sources[Frame.c][Frame.i]

\* ErrAllSourcesFailed: the cluster is left out, or the child's source fails.
AllSourcesFailed ==
    /\ Trying /\ ~MoreSources
    /\ IF Len(stack) = 1 THEN LoopGoesOn(NoContext) /\ SkipCluster
       ELSE /\ stack' = [Below EXCEPT ![Len(Below)] = Skipped(Below[Len(Below)])]
            /\ UNCHANGED <<queue, current, result>>
    /\ UNCHANGED <<site, client, trouble>> /\ Quiet

\* FromFile and FromBundle, with extractContext.
LocalSource ==
    /\ Trying /\ MoreSources /\ Source = "local"
    /\ IF Frame.c \in local THEN Returns(Frame.c) ELSE SourceFails
    /\ UNCHANGED <<client, trouble>> /\ Quiet

\* A source type the builder does not know.
OtherSource ==
    /\ Trying /\ MoreSources /\ Source = "other" /\ SourceFails
    /\ UNCHANGED <<client, trouble>> /\ Quiet

ParentCluster(c) == parent[c]

\* buildOne calls itself for cluster p, which may already be further down the stack.
CallParent(p) ==
    /\ IF Len(stack) < MaxStack THEN stack' = Append(stack, Call(p)) /\ result' = result
       ELSE result' = "overflow" /\ stack' = stack
    /\ UNCHANGED <<queue, site, current>>

\* fromClusterAPI up to the kubeconfig of the parent.
ClusterAPISource ==
    /\ Trying /\ MoreSources /\ Source = "capi"
    /\ LET p == ParentCluster(Frame.c) IN
         CASE ~InMap(p) -> SourceFails
           [] InMap(p) /\ AlreadyBuilt(p) ->
                /\ stack' = [stack EXCEPT ![Len(stack)].at = "secret"]
                /\ UNCHANGED <<queue, site, current, result>>
           [] OTHER -> CallParent(p)
    /\ UNCHANGED <<client, trouble>> /\ Quiet

\* The first client made is kept for every later secret.
Client(p) == IF client # NoCluster THEN client ELSE site[p]

\* FromSecret.  A server that is not the parent has no secret of that name, or one that
\* leads somewhere else.
ReadSecret ==
    /\ Running /\ stack # <<>> /\ Frame.at = "secret"
    /\ LET c == Frame.c
           p == ParentCluster(c) IN
         /\ client' = Client(p)
         /\ \/ client' = p /\ c \in secret /\ Returns(c)
            \/ client' # p /\ Returns(Wrong)
            \/ (client' # p \/ c \notin secret) /\ SourceFails
    /\ UNCHANGED trouble /\ Quiet

\* The temporary file, the client or every poll for the secret fails.
SecretUnreachable ==
    /\ Running /\ stack # <<>> /\ Frame.at = "secret"
    /\ client' \in {client, Client(ParentCluster(Frame.c))}
    /\ trouble' = TRUE /\ SourceFails
    /\ Quiet

\* The temporary file with the parent's kubeconfig cannot be removed.
CleanupFails ==
    /\ Running /\ stack # <<>> /\ Frame.at = "secret"
    /\ result' = "fatal" /\ client' = Client(ParentCluster(Frame.c))
    /\ UNCHANGED <<stack, queue, site, current, trouble>> /\ Quiet

Steps ==
    \/ NextCluster \/ BuildReturns \/ AllSourcesFailed \/ LocalSource \/ OtherSource
    \/ ClusterAPISource \/ ReadSecret \/ SecretUnreachable \/ CleanupFails

Done == ~Running /\ UNCHANGED vars
Next == Steps \/ Done
Spec == Init /\ [][Next]_vars

\* The builder is one goroutine, and every poll has a timeout.
FairSpec == Spec /\ WF_vars(Steps)

-----------------------------------------------------------------------------
(* ValidateClusterMap.                                                      *)

Depth == Len(CHOOSE q \in AllClusters : TRUE)

\* The parents that the inner loop collects on its way up from cluster c, the
\* n-th of them at n: it stops at a cluster without parent, and an unknown one
\* ends the program.
Climb(c) ==
    LET up[n \in 0..Depth + 1] ==
          IF n = 0 THEN c ELSE IF InMap(up[n - 1]) THEN parent[up[n - 1]] ELSE up[n - 1]
    IN  [n \in 1..Depth + 1 |-> up[n]]

\* A parent that was collected before is refused.
CircularMutant(c) == parent[c] = c
Circular(c) ==
    LET parents == Climb(c)
    IN  \E m, n \in DOMAIN parents : m < n /\ parents[m] = parents[n] /\ InMap(parents[n])
ValidateClusterMap ==
    \A c \in Clusters : ~Circular(c) /\ Climb(c)[Depth + 1] \in Clusters \cup {NoCluster}

-----------------------------------------------------------------------------
(* Properties.                                                              *)

\* What the cluster map promises, by rounds: the clusters with a local kubeconfig,
\* then those whose parent is in and holds their secret, and so on.
Has(c, type) == \E i \in 1..Len(sources[c]) : sources[c][i] = type
Buildable[n \in Nat] ==
    IF n = 0 THEN {c \in local : Has(c, "local")}
    ELSE Buildable[n - 1] \cup {c \in secret : Has(c, "capi") /\ parent[c] \in Buildable[n - 1]}
\* Every secret the builder may need is kept by one and the same cluster, and no two
\* clusters give their servers or users the same name.
OneParent ==
    \A c, d \in Clusters :
        (Has(c, "capi") /\ Has(d, "capi") /\ InMap(parent[c]) /\ InMap(parent[d]))
            => parent[c] = parent[d]
DistinctNames == \A c, d \in Clusters : c # d => ~Overlap(c, d)
NoMixUp == OneParent /\ DistinctNames

\* In whatever order the map lists the clusters, a build that succeeds holds a
\* context for exactly those requested clusters that can be reached: a cluster that
\* is not deployed yet does not hide another one, and a parent that was missed once
\* is tried again for the next child (builder.go:96, 164).  The cached client and the
\* merged names limit this to maps with one parent and names of their own.
Complete ==
    (NoMixUp /\ result = "ok" /\ ~trouble) =>
        \A n \in 1..Len(requested) :
            AlreadyBuilt(requested[n]) <=> requested[n] \in Buildable[Depth]

\* A context leads to the cluster it is named after, in any map, with two exceptions:
\* another cluster in the kubeconfig has a name in common with it (builder.go:286, 296),
\* or it comes from a secret and the client that was kept is not for its parent
\* (builder.go:220).
OverwrittenBy(c, d) == d # c /\ AlreadyBuilt(d) /\ Overlap(d, c)
ForeignClient(c) == Has(c, "capi") /\ client \notin {NoCluster, parent[c]}
Genuine ==
    \A c \in Clusters :
        \/ site[c] \in {NoCluster, c}
        \/ \E d \in Clusters : OverwrittenBy(c, d)
        \/ ForeignClient(c)

\* What the code does not keep: every context leads to the cluster it is named after.
AlwaysGenuine == \A c \in Clusters : site[c] \in {NoCluster, c}

\* The current context, if there is one, is in the kubeconfig, also when all sources
\* of the requested cluster failed and the build still succeeds (builder.go:122).
CurrentIsBuilt == current # NoCluster => AlreadyBuilt(current)

\* The recursion over parents and sources ends by itself, whatever fails on the way,
\* except for a map that ValidateClusterMap (map.go:71) would refuse: only a cycle of
\* parents can exhaust the stack.
BuildEnds ==
    <>(result \in {"ok", "error", "fatal"} \/ (result = "overflow" /\ ~ValidateClusterMap))

=============================================================================
