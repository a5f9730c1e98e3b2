----------------------------- MODULE Inventory -----------------------------
(***************************************************************************)
(* The bare metal commands (cmd/baremetal, pkg/inventory) and the          *)
(* BaremetalManager executor: hosts are selected from the inventory bundle *)
(* of the site and one operation runs on them, host after host, under one  *)
(* deadline.  What happens on a host is HostOp, which Redfish implements.  *)
(***************************************************************************)
EXTENDS Documents

CONSTANTS
    Bundles,       \* inventory bundles a site may have
    BaseURLs,      \* addresses with a host and the id of a system
    RemoteTypes,   \* management configuration types a site may have
    Selectors,     \* values of --name, --namespace and --labels
    MaxCommands    \* bound: commands given by hand

ASSUME BoundAssumption == MaxCommands \in Nat

\* kustomize builds a bundle of documents with different ids; a text in a
\* secret is plain or base64.
ASSUME BundleAssumption ==
    \A b \in Bundles :
        /\ IsBundle(b)
        /\ \A m, n \in 1..Len(b) : SameId(b[m], b[n]) => m = n
ASSUME TextAssumption ==
    \A b \in Bundles : \A d \in Docs(b) : d.kind = "Secret" =>
        \A p \in DOMAIN d.fields : \A key \in DOMAIN d.fields[p] :
            LET t == d.fields[p][key] IN "b64" \in DOMAIN t => t = Encoded(t.b64)

VARIABLES
    bundle, remoteType,  \* the inventory of the site, as the command loaded it
    cmd,                 \* the command: who gives it, operation and flags
    pc,                  \* its next step
    hosts,               \* the hosts it selected, in the order of the bundle
    creds,               \* the credentials their clients were made with
    i,                   \* the loop over the hosts
    expired,             \* the deadline of its context has passed
    result,              \* what it returned
    st, goal,            \* st[h], goal[h]: see HostOp
    touched,             \* observer: hosts this command operated
    commands

site == <<bundle, remoteType>>
hostVars == <<st, goal, touched>>
vars == <<bundle, remoteType, cmd, pc, hosts, creds, i, expired, result, st, goal, touched,
          commands>>

Id(d) == <<d.ns, d.name>>
Ids(s) == {Id(s[k]) : k \in 1..Len(s)}
BMHs(b) == Select(b, ByKind(NewSelector, "BareMetalHost"))
AllIds == UNION {Ids(BMHs(b)) : b \in Bundles}

Host(h) == INSTANCE HostOp WITH status <- st[h], goal <- goal[h]

BatchOps == {"reboot", "power-off", "power-on", "eject-virtual-media"}
SingleOps == {"remote-direct", "power-status"}
ExecutorOps == BatchOps \cup {"remote-direct"}
Ops == BatchOps \cup SingleOps \cup {"list-hosts"}

\* Command lines.  The batch commands have --all; a list has no --name, and an
\* output format.
Cmd(via, op, sel, all, dry, table) ==
    [via |-> via, op |-> op, sel |-> sel, all |-> all, dry |-> dry, table |-> table]
NewRebootCommand(sel, all)     == Cmd("cli", "reboot", sel, all, FALSE, TRUE)
NewPowerOffCommand(sel, all)   == Cmd("cli", "power-off", sel, all, FALSE, TRUE)
NewPowerOnCommand(sel, all)    == Cmd("cli", "power-on", sel, all, FALSE, TRUE)
NewEjectMediaCommand(sel, all) == Cmd("cli", "eject-virtual-media", sel, all, FALSE, TRUE)
NewPowerStatusCommand(sel)     == Cmd("cli", "power-status", sel, FALSE, FALSE, TRUE)
NewRemoteDirectCommand(sel)    == Cmd("cli", "remote-direct", sel, FALSE, FALSE, TRUE)
NewListHostsCommand(sel, table) ==
    Cmd("cli", "list-hosts", ByName(sel, Unset), FALSE, FALSE, table)

\* The command that BaremetalManagerExecutor.Run builds from its document; it
\* does not set --all.
toCommandOptions(doc, dry) ==
    Cmd("executor", doc.fields["operation"], doc.fields["hostSelector"], FALSE, dry, TRUE)

Commands ==
    UNION {{NewRebootCommand(s, x), NewPowerOffCommand(s, x), NewPowerOnCommand(s, x),
            NewEjectMediaCommand(s, x), NewListHostsCommand(s, x), NewPowerStatusCommand(s),
            NewRemoteDirectCommand(s)} : s \in Selectors, x \in BOOLEAN}

Batch == cmd.op \in BatchOps
Single == cmd.op \in SingleOps

TypeOK ==
    /\ bundle \in Bundles \cup {<<>>} /\ remoteType \in RemoteTypes \cup {NoValue}
    /\ cmd = Cmd(cmd.via, cmd.op, cmd.sel, cmd.all, cmd.dry, cmd.table)
    /\ pc \in {"idle", "start", "validate", "load", "select", "begin", "busy"}
    /\ Ids(hosts) \subseteq Ids(bundle) /\ DOMAIN creds \subseteq AllIds
    /\ i \in 1..(Len(hosts) + 1) /\ (pc \in {"begin", "busy"} => i <= Len(hosts))
    /\ expired \in BOOLEAN
    /\ result \in {"none", "ok", "error", "invalid", "no_hosts", "unsupported"}
    /\ st \in [AllIds -> {"idle", "running", "ok", "failed"}]
    /\ goal \in [AllIds -> BOOLEAN]
    /\ touched \subseteq AllIds /\ commands \in Nat

Init ==
    /\ bundle = <<>> /\ remoteType = NoValue
    /\ cmd = [via |-> "cli", op |-> "list-hosts", sel |-> NewSelector, all |-> FALSE,
              dry |-> FALSE, table |-> TRUE]
    /\ pc = "idle" /\ hosts = <<>> /\ creds = <<>> /\ i = 1
    /\ expired = FALSE /\ result = "none"
    /\ st = [h \in AllIds |-> "idle"] /\ goal = [h \in AllIds |-> FALSE]
    /\ touched = {} /\ commands = 0

-----------------------------------------------------------------------------
Goto(p) == pc' = p /\ result' = result
Return(res) == pc' = "idle" /\ result' = res

Begin(c) ==
    /\ pc = "idle"
    /\ cmd' = c /\ Goto("start")
    /\ hosts' = <<>> /\ creds' = <<>> /\ i' = 1 /\ expired' = FALSE /\ touched' = {}
    /\ commands' = commands + 1
    /\ UNCHANGED <<site, st, goal>>

\* BaremetalManagerExecutor.Run: the operation is validated, and a dry run ends
\* there.  A command line goes on to its options.
Run ==
    /\ pc = "start"
    /\ IF cmd.via = "cli" THEN Goto("validate")
       ELSE IF cmd.op \notin ExecutorOps THEN Return("error")
       ELSE IF cmd.dry THEN Return("ok")
       ELSE Goto("validate")
    /\ UNCHANGED <<site, cmd, hosts, creds, i, expired, hostVars, commands>>

NoFlags == cmd.sel = NewSelector

\* The host selector flags, which --all excludes.
validateBMHAction == IF cmd.all THEN NoFlags ELSE ~NoFlags
validateSingleHostAction == ~NoFlags

Validate ==
    /\ pc = "validate"
    /\ IF \/ Batch /\ ~validateBMHAction
          \/ Single /\ ~validateSingleHostAction
          \/ cmd.op = "list-hosts" /\ ~cmd.table
       THEN Return("invalid")
       ELSE Goto("load")
    /\ UNCHANGED <<site, cmd, hosts, creds, i, expired, hostVars, commands>>

\* BaremetalInventory: settings, metadata and bundle are read, or one of them
\* is not there or is wrong.
BaremetalInventory ==
    /\ pc = "load"
    /\ \/ Goto("select") /\ bundle' \in Bundles /\ remoteType' \in RemoteTypes
       \/ Return("error") /\ UNCHANGED site
    /\ UNCHANGED <<cmd, hosts, creds, i, expired, hostVars, commands>>

-----------------------------------------------------------------------------
(* Selection.                                                               *)

toDocumentSelector(s) ==
    ByNamespace(ByName(ByLabel(ByKind(NewSelector, "BareMetalHost"), s.labels), s.name), s.ns)

\* The client of a host: its address, its credentials, a driver for its type, which
\* has to make something of the address.
newHost(d) ==
    LET address == GetBMHBMCAddress(d)
        cred    == GetBMHBMCCredentials(d, bundle)
    IN  IF Failed(address) THEN address
        ELSE IF Failed(cred) THEN cred
        ELSE IF remoteType \notin {"redfish", "redfish-dell"} THEN Failure("unsupported")
        ELSE IF address.val \notin BaseURLs THEN Failure("url")
        ELSE cred

Selected == Select(bundle, toDocumentSelector(cmd.sel))

\* The clients of all documents of ds are made before any of them is used.
MakeHostsMutant(ds) ==
    /\ hosts' = SelectSeq(ds, LAMBDA d : ~Failed(newHost(d)))
    /\ hosts' = <<>> => ds = <<>>
    /\ creds' = [h \in Ids(hosts') |->
                    newHost(CHOOSE d \in {ds[k] : k \in 1..Len(ds)} : Id(d) = h).val]
MakeHosts(ds) ==
    /\ \A k \in 1..Len(ds) : ~Failed(newHost(ds[k]))
    /\ hosts' = ds
    /\ creds' = [h \in Ids(ds) |->
                    newHost(CHOOSE d \in {ds[k] : k \in 1..Len(ds)} : Id(d) = h).val]

\* A client that could not be made.
BadHost(ds) == \E k \in 1..Len(ds) : Failed(newHost(ds[k]))

\* RunOperation up to its loop.
SelectBatch ==
    /\ pc = "select" /\ Batch
    /\ \E ds \in {Selected} :
         \/ MakeHosts(ds) /\ ds # <<>> /\ Goto("begin")
         \/ ds = <<>> /\ Return("no_hosts") /\ UNCHANGED <<hosts, creds>>
         \/ BadHost(ds) /\ Return("error") /\ UNCHANGED <<hosts, creds>>
    /\ UNCHANGED <<site, cmd, i, expired, hostVars, commands>>

\* getHost.
SelectSingle ==
    /\ pc = "select" /\ Single
    /\ \E one \in {SelectOne(bundle, toDocumentSelector(cmd.sel))} :
         IF Failed(one) THEN Return("error") /\ UNCHANGED <<hosts, creds>>
         ELSE \/ MakeHosts(<<one.val>>) /\ Goto("begin")
              \/ BadHost(<<one.val>>) /\ Return("error") /\ UNCHANGED <<hosts, creds>>
    /\ UNCHANGED <<site, cmd, i, expired, hostVars, commands>>

\* ListHostsCommand.RunE: hosts are listed from their clients.
ListHosts ==
    /\ pc = "select" /\ cmd.op = "list-hosts"
    /\ \E ds \in {Selected} :
         \/ MakeHosts(ds) /\ Return(IF ds = <<>> THEN "no_hosts" ELSE "ok")
         \/ BadHost(ds) /\ Return("error") /\ UNCHANGED <<hosts, creds>>
    /\ UNCHANGED <<site, cmd, i, expired, hostVars, commands>>

-----------------------------------------------------------------------------
(* The loop over the hosts.                                                 *)

HostAt == Id(hosts[i])

\* A step A of HostOp on the host at hand.
OnHost(A(_)) ==
    /\ \E h \in {HostAt}, s \in {"running", "ok", "failed"}, g \in BOOLEAN :
         /\ st' = [st EXCEPT ![h] = s]
         /\ goal' = [goal EXCEPT ![h] = g]
         /\ expired' = expired
         /\ A(h)
    /\ UNCHANGED <<site, cmd, hosts, creds, commands>>

BeginHost ==
    /\ pc = "begin" /\ Goto("busy")
    /\ OnHost(LAMBDA h : Host(h)!Begin)
    /\ touched' = touched \cup {HostAt} /\ i' = i

HostWorks ==
    /\ pc = "busy" /\ Goto("busy")
    /\ OnHost(LAMBDA h : Host(h)!Work)
    /\ UNCHANGED <<touched, i>>

NextHostMutant ==
    IF i + 1 >= Len(hosts) THEN Return("ok") /\ i' = Len(hosts)
    ELSE Goto("begin") /\ i' = i + 2
NextHost ==
    IF i = Len(hosts) THEN Return("ok") /\ i' = i
    ELSE Goto("begin") /\ i' = i + 1

HostSucceeds ==
    /\ pc = "busy"
    /\ OnHost(LAMBDA h : Host(h)!Succeed)
    /\ NextHost /\ touched' = touched

\* The first host that fails ends the command.
RetryHostMutant ==
    /\ pc = "busy"
    /\ OnHost(LAMBDA h : Host(h)!Fail)
    /\ Goto("begin") /\ UNCHANGED <<touched, i>>
HostFailsMutant ==
    /\ pc = "busy"
    /\ OnHost(LAMBDA h : Host(h)!Fail)
    /\ NextHost /\ touched' = touched
HostFails ==
    /\ pc = "busy"
    /\ OnHost(LAMBDA h : Host(h)!Fail)
    /\ Return("error") /\ UNCHANGED <<touched, i>>

\* context.WithTimeout fires: one deadline for all hosts.
CtxExpires ==
    /\ pc \in {"begin", "busy"} /\ ~expired /\ expired' = TRUE
    /\ UNCHANGED <<site, cmd, pc, hosts, creds, i, result, hostVars, commands>>

Finished == pc = "idle" /\ commands = MaxCommands /\ UNCHANGED vars

Next ==
    \/ \E c \in Commands : commands < MaxCommands /\ Begin(c)
    \/ Run \/ Validate \/ BaremetalInventory
    \/ SelectBatch \/ SelectSingle \/ ListHosts
    \/ BeginHost \/ HostWorks \/ HostSucceeds \/ HostFails
    \/ CtxExpires \/ Finished

Spec == Init /\ [][Next]_vars

-----------------------------------------------------------------------------
(* Properties.                                                              *)

\* A batch command reports success only when every host its flags select, and
\* at least one, is in the state asked for: a host that failed is not papered
\* over by the ones after it (baremetal.go:116).
SuccessCoversAll ==
    (result = "ok" /\ pc = "idle" /\ Batch /\ ~cmd.dry) =>
        /\ Selected # <<>>
        /\ \A h \in Ids(Selected) : st[h] = "ok" /\ goal[h]

\* A failure leaves the hosts in two parts: those before the one that failed
\* are done, those after it are as they were (baremetal.go:116).
FailureSplitsBatch ==
    \A k \in 1..Len(hosts) :
        /\ (Id(hosts[k]) \in touched) = (k < i \/ (k = i /\ pc # "begin" /\ touched # {}))
        /\ k < i => st[Id(hosts[k])] = "ok" /\ goal[Id(hosts[k])]

\* A command operates hosts only after every document of its selection was
\* found to have an address, credentials and a driver (baremetal.go:59), and a
\* command for a single host only when its flags select no other
\* (command.go:117).
TouchedOnlyIfSound ==
    touched # {} =>
        /\ \A k \in 1..Len(Selected) : ~Failed(newHost(Selected[k]))
        /\ Single => Len(Selected) = 1 /\ touched = Ids(Selected)

Secrets == {d \in Docs(bundle) : d.kind = "Secret"}

\* A client logs in with the texts of the secret its host names, decoded
\* (dochelper_utils.go:26), and only if no other secret of the site, in whatever
\* namespace, has that name; a host that gives an empty name logs in with those of
\* the only secret there is (selectors.go:180).
OwnCredentials ==
    \A k \in 1..Len(hosts) : \E secret \in Secrets :
        /\ LET name == hosts[k].fields["spec.bmc.credentialsName"]
           IN  {s \in Secrets : name \in {Unset, s.name}} = {secret}
        /\ \E place \in DOMAIN secret.fields :
             LET text == secret.fields[place]["password"]
                 used == creds[Id(hosts[k])].pass
             IN  text = IF place = "data" THEN Encoded(used) ELSE used

=============================================================================
