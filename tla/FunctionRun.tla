----------------------------- MODULE FunctionRun ----------------------------
(***************************************************************************)
(* Phases that run functions in containers: the container and clusterctl   *)
(* executors, the dispatch of pkg/container, the KRM runtime, and the      *)
(* programs in the images (cloud-init, toolbox, clusterctl).               *)
(*                                                                         *)
(* The runtime does not talk to the docker daemon: it runs the docker      *)
(* command, under timeout if there is a limit, and the daemon runs the     *)
(* container.  Killing the command leaves the container: it goes on by     *)
(* itself, beside the next run of the phase.                               *)
(*                                                                         *)
(* The kubeconfig file the executors write and remove is in Plan, a        *)
(* container of type airship in Container; here they are steps that may    *)
(* fail.                                                                   *)
(***************************************************************************)
EXTENDS RunFns, CloudInit

CONSTANTS
    Jobs,      \* what a phase, or a caller of the runtime, asks for
    MaxRuns,   \* bound on the number of runs
    NoJob

ASSUME RunsAssumption == MaxRuns \in Nat

\* The documents that configure the executors.  A mount is its source; the options
\* of docker's own runtime are those of Container.
IsSpec(s) ==
    /\ DOMAIN s = {"type", "image", "network", "timeout", "mounts", "env"}
    /\ s.type \in {"airship", "krm", "other", Unset}
    /\ s.network \in BOOLEAN /\ s.timeout \in Nat

\* The configuration is the text of the document or what its configRef names; that
\* of cloud-init has a selector and a key for either kind of data.  The image of
\* clusterctl is run by its own executor.
IsIsoConfiguration(c) ==
    /\ {"userSel", "userKey", "netSel", "netKey"} \subseteq DOMAIN c
    /\ DOMAIN c.userSel = DOMAIN NewSelector /\ DOMAIN c.netSel = DOMAIN NewSelector

IsGenericContainer(j) ==
    /\ {"spec", "config", "docs", "entrypoint"} \subseteq DOMAIN j
    /\ IsSpec(j.spec) /\ IsBundle(j.docs) /\ j.entrypoint \in BOOLEAN
    /\ j.spec.image # "clusterctl"
    /\ j.spec.image = "cloud-init" => IsIsoConfiguration(j.config)

typeMap == [BootstrapProvider |-> "bootstrap", ControlPlaneProvider |-> "control-plane",
            InfrastructureProvider |-> "infrastructure", CoreProvider |-> "core"]
typeName(p) == IF p.type \in DOMAIN typeMap THEN typeMap[p.type] ELSE Unset

\* A URL is remote, or the path of documents of the site.  A name is the sequence of
\* the words that its dashes separate.
IsProvider(p) ==
    /\ DOMAIN p = {"name", "type", "local", "base", "docs"}
    /\ p.local \in BOOLEAN /\ IsBundle(p.docs) /\ IsBundle(p.name)

\* No two local providers have type, name and version in common.
IsClusterctl(j) ==
    /\ j.action \in {"init", "move"} /\ IsSpec(j.spec)
    /\ IsBundle(j.providers)
    /\ \A p \in Docs(j.providers) : IsProvider(p)
    /\ \A m, n \in 1..Len(j.providers) :
          LET p == j.providers[m]
              q == j.providers[n]
          IN  p.local /\ q.local /\ typeName(p) = typeName(q) /\ p.name = q.name /\ p.base = q.base
                  => m = n

\* The functions of a request are documents themselves, no two of them the same.
\* A package is read file by file, which gives the index.
IsRequest(r) ==
    LET given == r.input \o r.paths \o r.functions
    IN  /\ IsBundle(r.input) /\ IsBundle(r.paths) /\ IsBundle(r.functions)
        /\ \A m, n \in 1..Len(given) : given[m].config = given[n].config => m = n
        /\ \A f \in Docs(given) : f.path \in Seq(Nat) \ {<<>>} /\ f.index \in {BadIndex} \cup Nat
        /\ \A n \in 1..Len(r.input) : \A m \in 1..(n - 1) :
              r.input[m].path = r.input[n].path /\ ~BadPair(r.input[m], r.input[n])
                  => r.input[m].index < r.input[n].index

ASSUME JobsAssumption ==
    \A j \in Jobs : /\ j.executor = "GenericContainer" => IsGenericContainer(j)
                    /\ j.executor = "Clusterctl" => IsClusterctl(j)
                    /\ j.executor = "RunFns" =>
                         /\ IsRequest(j.request)
                         /\ \A f \in Docs(j.request.input) \cup Docs(j.request.paths)
                                    \cup Docs(j.request.functions) : f.image # "clusterctl"

\* No type, image or directory is the empty string.
ASSUME NamesAssumption == Unset \notin {"krm", "cloud-init", "clusterctl", "metadata", "core"}

VARIABLES
    run,       \* the number of the current run
    job,       \* what it was asked for
    fpc,       \* where it is
    config,    \* the configuration handed to the function
    mounts,    \* the storage mounts of the container, in order
    filters,   \* the functions to run, as commands
    exits,     \* the functions that ended: command and whether it succeeded
    items,     \* the documents between two functions
    cli,       \* the docker command: none, called, attached
    conts,     \* the daemon's containers, by run and position
    isoFiles,  \* the cloud-init files on the host
    written,   \* the output was written
    alone,     \* no container was left over when the run began
    fresult    \* none, ok, err

fnVars == <<run, job, fpc, config, mounts, filters, exits, items, cli, conts, isoFiles,
          written, alone, fresult>>
daemon == <<conts, isoFiles>>
pipeline == <<filters, exits, items, cli, written>>
begun == <<run, job, alone>>

FileNames == {"user-data", "network-data", "builder-conf"}

FnInit ==
    /\ run = 0 /\ job = NoJob /\ fpc = "idle" /\ config = NoValue /\ mounts = <<>>
    /\ filters = <<>> /\ exits = <<>> /\ items = <<>> /\ cli = "none"
    /\ conts = <<>> /\ isoFiles = [f \in FileNames |-> NoValue]
    /\ written = FALSE /\ alone = TRUE /\ fresult = "none"

FnReturn(r) == fpc' = "done" /\ fresult' = r

\* A call that failed is handed up to the command.
Fail == FnReturn("err") /\ UNCHANGED <<begun, config, mounts, pipeline, daemon>>

StartJob(j) ==
    /\ fpc \in {"idle", "done"} /\ run < MaxRuns
    /\ run' = run + 1 /\ job' = j
    /\ fpc' = IF j.executor = "RunFns" THEN "filters" ELSE "new"
    /\ items' = IF j.executor = "RunFns" THEN j.docs ELSE <<>>
    /\ config' = NoValue /\ mounts' = <<>> /\ filters' = <<>> /\ exits' = <<>>
    /\ cli' = "none" /\ written' = FALSE /\ fresult' = "none"
    /\ alone' = (DOMAIN conts = {})
    /\ UNCHANGED daemon

-----------------------------------------------------------------------------
(* The container executor.                                                  *)

\* Without an entrypoint the bundle is empty; any other error ends it.
NewContainerExecutor ==
    /\ fpc = "new" /\ job.executor = "GenericContainer"
    /\ \/ /\ items' = IF job.entrypoint THEN job.docs ELSE <<>>
          /\ config' = job.config /\ fpc' = "run"
          /\ UNCHANGED <<begun, mounts, filters, exits, cli, written, daemon, fresult>>
       \/ Fail

\* SetKubeConfig: the cluster has to be in the map; the file is mounted after
\* the mounts of the document.
SetKubeConfig ==
    job.spec.mounts \o (IF job.cluster = Unset THEN <<>> ELSE <<"kubeconfig">>)

\* Kubeconfig, input and configuration, and then a dry run is over.
RunContainer ==
    /\ fpc = "run" /\ job.executor = "GenericContainer"
    /\ \/ /\ job.cluster # "unknown"
          /\ mounts' = SetKubeConfig
          /\ IF job.dryRun THEN FnReturn("ok") ELSE fpc' = "client" /\ UNCHANGED fresult
          /\ UNCHANGED <<begun, config, pipeline, daemon>>
       \/ Fail

-----------------------------------------------------------------------------
(* The clusterctl executor.                                                 *)

NewClusterctlMetadataSelector == ByKind(NewSelector, "Metadata")
Deployable(b) == Picked(b, {n \in 1..Len(b) : "deploy-k8s=false" \notin b[n].labels})

\* The directory of a provider below the overrides: type-name, or the name
\* alone for a core provider, then the last element of its path.
componentDirMutant(p) == <<p.name, p.base>>
componentDir(p) ==
    <<IF p.type = "CoreProvider" THEN p.name ELSE <<typeName(p)>> \o p.name, p.base>>

metadataFile(p) == <<componentDir(p), "metadata">>
componentsFile(p) == <<componentDir(p), typeName(p)>>

\* A remote provider is kept, the documents of a local one become two files of
\* the components and its URL the name of the second.  A later provider
\* overwrites the files of an earlier one.
initRepoData(providers) ==
    LET locals == {n \in 1..Len(providers) : providers[n].local}
        metadata(p) == SelectOne(p.docs, NewClusterctlMetadataSelector)
        names(p) == {metadataFile(p), componentsFile(p)}
        writer(file) == providers[Max({n \in locals : file \in names(providers[n])})]
        content(file, p) ==
            IF file = componentsFile(p) THEN Deployable(p.docs) ELSE metadata(p).val
    IN  IF \E n \in locals : Failed(metadata(providers[n])) THEN Failure("metadata")
        ELSE Value([components |-> [file \in UNION {names(providers[n]) : n \in locals} |->
                                        content(file, writer(file))],
                    providers |-> [n \in 1..Len(providers) |->
                        [of |-> providers[n],
                         url |-> IF n \in locals THEN componentsFile(providers[n])
                                 ELSE providers[n].base]]])

NewClusterctlExecutor ==
    /\ fpc = "new" /\ job.executor = "Clusterctl"
    /\ \/ Fail
       \/ \E data \in {initRepoData(job.providers)} :
             /\ ~Failed(data)
             /\ config' = [components |-> data.val.components,
                           providers |-> data.val.providers, options |-> {}]
             /\ fpc' = "run"
             /\ UNCHANGED <<begun, mounts, pipeline, daemon, fresult>>

getKubeconfig == job.spec.mounts \o <<"kubeconfig">>

\* clusterctl init, which is not told of a dry run.
init == job.action = "init" /\ config' = [config EXCEPT !.options = {"init"}]

\* clusterctl move needs the parent that the cluster map gives.
move ==
    /\ job.action = "move" /\ job.parent = "known"
    /\ config' = [config EXCEPT
           !.options = {"move"} \cup (IF job.dryRun THEN {"--dry-run"} ELSE {})]

RunClusterctl ==
    /\ fpc = "run" /\ job.executor = "Clusterctl"
    /\ \/ /\ job.cluster # "unknown"
          /\ init \/ move
          /\ mounts' = getKubeconfig
          /\ fpc' = "client"
          /\ UNCHANGED <<begun, pipeline, daemon, fresult>>
       \/ Fail

-----------------------------------------------------------------------------
(* The dispatch of pkg/container.                                           *)

\* The request of runKRM: one explicit function.
runKRM ==
    [input |-> <<>>, paths |-> <<>>,
     functions |-> <<[path |-> <<1>>, index |-> 0, spec |-> TRUE, image |-> job.spec.image,
                      network |-> job.spec.network, defer |-> FALSE, env |-> job.spec.env,
                      config |-> config]>>,
     network |-> job.spec.network, timeout |-> job.spec.timeout, env |-> <<>>,
     continueOnEmpty |-> TRUE]

request == IF job.executor = "RunFns" THEN job.request ELSE runKRM

\* An unknown type is an error, as is a configuration that is no document.
ClientRun ==
    /\ fpc = "client"
    /\ CASE job.spec.type \in {"airship", Unset} ->
              /\ \E r \in {"ok", "err"} : FnReturn(r)
              /\ UNCHANGED <<begun, config, mounts, pipeline, daemon>>
         [] job.spec.type = "krm" ->
              \/ fpc' = "filters" /\ UNCHANGED <<begun, config, mounts, pipeline, daemon, fresult>>
              \/ Fail
         [] OTHER -> Fail

-----------------------------------------------------------------------------
(* The KRM runtime.                                                         *)

\* Execute up to the pipeline: the input is read, the functions are found.
GetNodesAndFilters ==
    /\ fpc = "filters"
    /\ \/ Fail
       \/ \E known \in BOOLEAN : \E found \in {getFilters(request, known)} :
             /\ ~Failed(found)
             /\ filters' = found.val /\ fpc' = "pipeline"
             /\ UNCHANGED <<begun, config, mounts, exits, items, cli, written, daemon, fresult>>

Position == Len(exits) + 1
Filter == filters[Position]
Id == <<run, Position>>

\* The next filter starts its command.
CallDocker ==
    /\ fpc = "pipeline" /\ cli = "none" /\ Position <= Len(filters)
    /\ cli' = "called"
    /\ UNCHANGED <<begun, fpc, config, mounts, filters, exits, items, written, daemon, fresult>>

\* The functions of this repository print no documents, others do.
Silent(image) == image \in {"cloud-init", "toolbox", "clusterctl"}
OutputOf(image) == IF Silent(image) THEN <<>> ELSE items

\* The command ended.  A failure ends the pipeline unless it is deferred, and
\* then leaves what the function had printed; so does output that cannot be read,
\* of whatever function.  An empty result ends it too, without output, if the
\* request says so.
FilterEnds(ok) ==
    /\ cli' = "none"
    /\ exits' = Append(exits, [of |-> Filter, ok |-> ok])
    /\ \/ /\ ok \/ Filter.defer
          /\ items' \in {OutputOf(Filter.image)} \cup (IF ok THEN {} ELSE {<<>>})
          /\ fpc' = IF items' = <<>> /\ ~request.continueOnEmpty THEN "check" ELSE "pipeline"
          /\ UNCHANGED fresult
       \/ /\ (~ok /\ ~Filter.defer) \/ ~Silent(Filter.image)
          /\ FnReturn("err") /\ UNCHANGED items
    /\ UNCHANGED <<begun, config, mounts, filters, written>>

\* The daemon creates the container, or docker run fails without one.
DockerRun ==
    /\ cli = "called"
    /\ \/ /\ cli' = "attached"
          /\ LET new == [cmd |-> Filter, mounts |-> mounts, items |-> items,
                         stage |-> "created", left |-> {}, local |-> <<>>, ok |-> FALSE]
             IN  conts' = [c \in DOMAIN conts \cup {Id} |-> IF c = Id THEN new ELSE conts[c]]
          /\ UNCHANGED <<begun, fpc, config, mounts, filters, exits, items, written, fresult, isoFiles>>
       \/ FilterEnds(FALSE) /\ UNCHANGED daemon

\* The container exited: docker removes it and ends with its status.
DockerEnds ==
    /\ cli = "attached" /\ conts[Id].stage = "exited"
    /\ FilterEnds(conts[Id].ok)
    /\ conts' = [c \in DOMAIN conts \ {Id} |-> conts[c]]
    /\ UNCHANGED isoFiles

\* timeout kills the docker command, and only that.
TimeoutKillsMutant ==
    /\ cli # "none" /\ Filter.timeout > 1
    /\ FilterEnds(FALSE)
    /\ UNCHANGED daemon
TimeoutKills ==
    /\ cli # "none" /\ Filter.timeout > 0
    /\ FilterEnds(FALSE)
    /\ UNCHANGED daemon

\* After the last filter the result is written to the sink or to stdout.
WriteOutput ==
    /\ fpc = "pipeline" /\ cli = "none" /\ Position > Len(filters)
    /\ \/ /\ written' = TRUE /\ fpc' = "check"
          /\ UNCHANGED <<begun, config, mounts, filters, exits, items, cli, daemon, fresult>>
       \/ Fail

\* Failures that were deferred are failures of the run after all.
CheckExits ==
    /\ fpc = "check"
    /\ FnReturn(IF \E i \in 1..Len(exits) : ~exits[i].ok THEN "err" ELSE "ok")
    /\ UNCHANGED <<begun, config, mounts, pipeline, daemon>>

-----------------------------------------------------------------------------
(* The programs in the containers.  Each step is one of container c.        *)

client == <<begun, fpc, config, mounts, pipeline, fresult>>

Becomes(c, new) == conts' = [conts EXCEPT ![c] = new]
Exit(c, ok) == Becomes(c, [conts[c] EXCEPT !.stage = "exited", !.ok = ok])

\* cloud-init: the data is found before anything is written.  The files go to
\* the first mount, which a program without mounts does not have.
CloudInitProgram(c) ==
    /\ conts[c].stage = "created" /\ conts[c].cmd.image = "cloud-init"
    /\ \E data \in {GetCloudData(conts[c].items, conts[c].cmd.config)} :
          IF Failed(data) \/ conts[c].mounts = <<>> THEN Exit(c, FALSE)
          ELSE Becomes(c, [conts[c] EXCEPT
                   !.stage = "writing", !.left = FileNames,
                   !.local = [f \in FileNames |->
                       CASE f = "user-data" -> data.val.user
                         [] f = "network-data" -> data.val.net
                         [] f = "builder-conf" -> conts[c].cmd.config]])
    /\ UNCHANGED <<isoFiles, client>>

\* util.WriteFiles: one file after the other in the order of a Go map.  A
\* file that cannot be written ends it; below the kubeconfig none can.
WriteFilesMutant(c) ==
    /\ conts[c].stage = "writing"
    /\ IF conts[c].left = {} THEN Exit(c, TRUE) /\ UNCHANGED isoFiles
       ELSE \E f \in conts[c].left :
               /\ Becomes(c, [conts[c] EXCEPT !.left = @ \ {f}])
               /\ isoFiles' \in {isoFiles, [isoFiles EXCEPT ![f] = conts[c].local[f]]}
    /\ UNCHANGED client
WriteFiles(c) ==
    /\ conts[c].stage = "writing"
    /\ IF conts[c].left = {} THEN Exit(c, TRUE) /\ UNCHANGED isoFiles
       ELSE \E f \in conts[c].left :
               \/ /\ Head(conts[c].mounts) # "kubeconfig"
                  /\ Becomes(c, [conts[c] EXCEPT !.left = @ \ {f}])
                  /\ isoFiles' = [isoFiles EXCEPT ![f] = conts[c].local[f]]
               \/ Exit(c, FALSE) /\ UNCHANGED isoFiles
    /\ UNCHANGED client

\* The documents of the kind that the environment asks for, or all.
FilterBundle(b, env) ==
    SelectSeq(b, LAMBDA d : "RESOURCE_KIND_FILTER" \in DOMAIN env
                            => d.kind = env["RESOURCE_KIND_FILTER"])

\* toolbox: script and bundle are written below /tmp of the container.
ToolboxProgram(c) ==
    /\ conts[c].stage = "created" /\ conts[c].cmd.image = "toolbox"
    /\ \/ /\ conts[c].cmd.config.script
          /\ Becomes(c, [conts[c] EXCEPT !.stage = "program",
                 !.local = FilterBundle(conts[c].items, conts[c].cmd.env)])
       \/ Exit(c, FALSE)
    /\ UNCHANGED <<isoFiles, client>>

\* clusterctl: the tree of the providers' files and then the configuration.
ClusterctlProgram(c) ==
    /\ conts[c].stage = "created" /\ conts[c].cmd.image = "clusterctl"
    /\ \/ Becomes(c, [conts[c] EXCEPT !.stage = "program",
                 !.local = conts[c].cmd.config.components])
       \/ Exit(c, FALSE)
    /\ UNCHANGED <<isoFiles, client>>

\* Any other function.
OtherFunction(c) ==
    /\ conts[c].stage = "created"
    /\ conts[c].cmd.image \notin {"cloud-init", "toolbox", "clusterctl"}
    /\ Becomes(c, [conts[c] EXCEPT !.stage = "program"])
    /\ UNCHANGED <<isoFiles, client>>

\* The script or the clusterctl command ends, if it does.
ProgramEnds(c) ==
    /\ conts[c].stage = "program"
    /\ \E ok \in BOOLEAN : Exit(c, ok)
    /\ UNCHANGED <<isoFiles, client>>

\* A container nobody waits for is removed when it exits (--rm).
Removed(c) ==
    /\ conts[c].stage = "exited" /\ (cli = "attached" => c # Id)
    /\ conts' = [d \in DOMAIN conts \ {c} |-> conts[d]]
    /\ UNCHANGED <<isoFiles, client>>

-----------------------------------------------------------------------------
\* The steps of airshipctl itself; those of docker and of the programs.
Own ==
    \/ NewContainerExecutor \/ RunContainer \/ NewClusterctlExecutor \/ RunClusterctl
    \/ ClientRun \/ GetNodesAndFilters \/ CallDocker \/ WriteOutput \/ CheckExits

FnNext ==
    \/ \E j \in Jobs : StartJob(j)
    \/ Own \/ DockerRun \/ DockerEnds \/ TimeoutKills
    \/ \E c \in DOMAIN conts :
          \/ CloudInitProgram(c) \/ WriteFiles(c) \/ ToolboxProgram(c) \/ ClusterctlProgram(c)
          \/ OtherFunction(c) \/ ProgramEnds(c) \/ Removed(c)

FnSpec == FnInit /\ [][FnNext]_fnVars /\ WF_fnVars(Own) /\ WF_fnVars(TimeoutKills)

-----------------------------------------------------------------------------
(* Properties.                                                              *)

Runtime == \/ job.executor = "RunFns"
           \/ job.executor = "Clusterctl" /\ job.spec.type = "krm"
           \/ job.executor = "GenericContainer" /\ job.spec.type = "krm" /\ ~job.dryRun

\* The functions of a request that are to be run, without looking at order.
Declared(r) ==
    {f \in ToSet(r.paths \o r.functions) \cup
           (IF r.paths \o r.functions = <<>> THEN ToSet(r.input) ELSE {}) :
        f.spec /\ f.image # Unset}

Depth(f) == Cardinality({i \in 1..(Len(f.path) - 1) :
                            i < Len(f.path) - 1 \/ f.path[i] # FunctionsDir})
Deeper(f, g) == Depth(f) > Depth(g)
EarlierInFile(f, g) == f.path = g.path /\ ~BadPair(f, g) /\ f.index < g.index

\* Function g of the input was run after function f.
RunAfter(g, f) ==
    /\ ~NoFunctionsFromInput(request)
    /\ \E i, j \in 1..Len(exits) :
          i < j /\ exits[i].of.config = f.config /\ exits[j].of.config = g.config

\* A run of the KRM runtime that reports success has run every function it was
\* given, none failed, not even one whose failure is deferred, and the output
\* was written; only a request that stops at an empty result ends earlier.  Up to
\* twelve functions run in the documented order: deeper directories first, and
\* within a file by index unless the gap pass of sort.Slice moves a function.
\* And output is only written when every function that may not fail succeeded
\* (runfn.go Execute, sortFns, runFunctions).
RunIsWhole ==
    /\ fresult = "ok" /\ Runtime =>
          /\ \A i \in 1..Len(exits) : exits[i].ok
          /\ \/ /\ written
                /\ {exits[i].of.config : i \in 1..Len(exits)} = {f.config : f \in Declared(request)}
                /\ Len(exits) = Cardinality(Declared(request))
             \/ ~request.continueOnEmpty /\ items = <<>>
    /\ exits # <<>> => \A f, g \in Declared(request) :
          RunAfter(g, f) /\ Len(SpecsOf(request.input)) <= MaxInsertion =>
             /\ ~Deeper(g, f)
             /\ Swapped(SpecsOf(request.input)) = {} => ~EarlierInFile(g, f)
    /\ written => /\ Len(exits) = Len(filters)
                  /\ \A i \in 1..Len(exits) : exits[i].ok \/ exits[i].of.defer

\* "If the path is the same, we decide the ordering based on the index annotation"
\* (runfn.go:361), without the exception; the code does not keep it.
FilesInOrder ==
    exits # <<>> => \A f, g \in Declared(request) : RunAfter(g, f) => ~EarlierInFile(g, f)

\* The text that a secret carries under a key, whichever way it is written.
Carries(d, key, text) ==
    \/ "stringData" \in DOMAIN d.fields /\ key \in DOMAIN d.fields["stringData"]
       /\ d.fields["stringData"][key] = text
    \/ "data" \in DOMAIN d.fields /\ key \in DOMAIN d.fields["data"]
       /\ Decode(d.fields["data"][key]) = Value(text)

\* What a selector asks for: the kind and the label if it names nothing itself.
AskedFor(d, sel, kind, label) ==
    /\ Matches(sel, d)
    /\ sel.kind = Unset /\ sel.name = Unset /\ sel.labels = {} => d.kind = kind /\ label \in d.labels
KeyOr(key, default) == IF key = Unset THEN default ELSE key

\* After a successful cloud-init phase that no leftover container disturbed,
\* the three files on the host belong together: the user data is that of the
\* secret asked for, the network data that of the secret that the host asked
\* for names by name and namespace, in clear, and the configuration that of
\* this run (GetCloudData, WriteFiles).  Where nothing else is asked for, secret
\* and host are those of the ephemeral node.
CloudDataOfRun ==
    fresult = "ok" /\ Runtime /\ alone /\ job.executor = "GenericContainer"
    /\ job.spec.image = "cloud-init" =>
        LET docs == ToSet(job.docs)
            iso == job.config
        IN  /\ isoFiles["builder-conf"] = iso
            /\ \E d \in docs :
                  /\ AskedFor(d, iso.userSel, "Secret", "ephemeral-user-data")
                  /\ Carries(d, KeyOr(iso.userKey, "userData"), isoFiles["user-data"])
            /\ \E h, s \in docs :
                  /\ AskedFor(h, iso.netSel, "BareMetalHost", "ephemeral-node")
                  /\ s.kind = "Secret"
                  /\ h.fields["spec.networkData.name"] \in {Unset, s.name}
                  /\ h.fields["spec.networkData.namespace"] \in {Unset, s.ns}
                  /\ Carries(s, KeyOr(iso.netKey, "networkData"), isoFiles["network-data"])

\* A core provider that is called what another's directory is, bootstrap-kubeadm for
\* one: the two have one metadata file.
Namesake(p, q) ==
    /\ p.type = "CoreProvider" /\ q.type # "CoreProvider"
    /\ p.name = <<typeName(q)>> \o q.name /\ p.base = q.base
HasNamesake(p, providers) ==
    \E n \in 1..Len(providers) :
        LET q == providers[n].of
        IN  q.local /\ (Namesake(p, q) \/ Namesake(q, p))

\* When clusterctl starts, the URL of every local provider leads to that
\* provider's own deployable documents, beside its own metadata unless it has a
\* namesake, although providers of different types share names and version
\* directories (initRepoData, buildRepoTree).
OwnComponents ==
    \A c \in DOMAIN conts :
        conts[c].stage = "program" /\ conts[c].cmd.image = "clusterctl" =>
            \A i \in 1..Len(conts[c].cmd.config.providers) :
                LET p == conts[c].cmd.config.providers[i]
                IN  p.of.local =>
                       /\ p.url \in DOMAIN conts[c].local
                       /\ conts[c].local[p.url] = Deployable(p.of.docs)
                       /\ ToSet(conts[c].local[p.url]) =
                             {d \in ToSet(p.of.docs) : "deploy-k8s=false" \notin d.labels}
                       /\ ~HasNamesake(p.of, conts[c].cmd.config.providers) =>
                             conts[c].local[<<p.url[1], "metadata">>] \in ToSet(p.of.docs)

Limit == IF job.executor = "RunFns" THEN job.request.timeout ELSE job.spec.timeout

\* A run with a limit ends, however long its function or the daemon takes
\* (getCommand's timeout).
PhaseEnds == (run > 0 /\ Limit > 0) ~> (fpc = "done")

\* The documented meaning of the limit: no container executes after the run
\* that started it was ended by it.
LimitEndsContainer ==
    \A c \in DOMAIN conts : fpc = "done" => conts[c].stage = "exited"

=============================================================================
