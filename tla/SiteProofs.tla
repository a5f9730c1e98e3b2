----------------------------- MODULE SiteProofs -----------------------------
(***************************************************************************)
(* Proofs about Site: what bare metal commands and plan runs do, for every *)
(* inventory, every phase bundle and every number of commands, and that    *)
(* each of them runs out of steps.                                         *)
(***************************************************************************)
EXTENDS Site, DocumentsProofs

-----------------------------------------------------------------------------
(* Bare metal commands.                                                     *)

\* Nothing is chosen before the selection, and a command that works on hosts is
\* one that operates them.
ControlInv ==
    /\ pc \in {"start", "validate", "load", "select"} => hosts = <<>> /\ touched = {} /\ i = 1
    /\ pc = "select" => bundle \in Bundles
    /\ pc \in {"begin", "busy"} => Batch \/ Single
    /\ pc = "busy" => touched # {}
    /\ hosts = <<>> => touched = {}

\* The hosts of a command are the ones its flags select in the inventory it has
\* loaded, and each of them has a client.
ChosenInv ==
    hosts # <<>> =>
        /\ bundle \in Bundles
        /\ IF Single THEN \E d : OnlyOne(bundle, toDocumentSelector(cmd.sel), d) /\ hosts = <<d>>
           ELSE hosts = Selected
        /\ \A k \in 1..Len(hosts) :
             ~Failed(newHost(hosts[k])) /\ creds[Id(hosts[k])] = newHost(hosts[k]).val

\* The loop has operated the hosts up to i, and those before i with success.
LoopInv == touched \subseteq Ids(hosts) /\ FailureSplitsBatch

InvInv == TypeOK /\ ControlInv /\ ChosenInv /\ LoopInv /\ SuccessCoversAll

\* A selector of hosts matches hosts only.
LEMMA HostsMatch ==
    ASSUME NEW sel, NEW d, Matches(toDocumentSelector(sel), d)
    PROVE  d.kind = "BareMetalHost" /\ Matches(ByKind(NewSelector, "BareMetalHost"), d)
<1>1. toDocumentSelector(sel).kind = "BareMetalHost"
  BY DEF toDocumentSelector, ByNamespace, ByName, ByLabel, ByKind, NewSelector
<1>2. d.kind = "BareMetalHost"
  BY <1>1, UnsetAssumption DEF Matches
<1>3. ByKind(NewSelector, "BareMetalHost") =
        [kind |-> "BareMetalHost", name |-> Unset, ns |-> Unset, labels |-> {}]
  BY DEF ByKind, NewSelector
<1> QED
  BY <1>2, <1>3 DEF Matches

\* The hosts selected from an inventory are hosts of it, and differ in their ids.
LEMMA SelectedHosts ==
    ASSUME NEW b \in Bundles, NEW sel
    PROVE  LET ds == Select(b, toDocumentSelector(sel))
           IN  /\ ds \in Seq(Docs(b))
               /\ \A k \in 1..Len(ds) : ds[k].kind = "BareMetalHost"
               /\ \A j, k \in 1..Len(ds) : Id(ds[j]) = Id(ds[k]) => j = k
               /\ Ids(ds) \subseteq AllIds
<1> DEFINE t == toDocumentSelector(sel)
           ds == Select(b, t)
           K == {n \in 1..Len(b) : Matches(t, b[n])}
           hs == BMHs(b)
           H == {n \in 1..Len(b) : Matches(ByKind(NewSelector, "BareMetalHost"), b[n])}
<1>1. IsBundle(b) /\ \A m, n \in 1..Len(b) : SameId(b[m], b[n]) => m = n
  BY BundleAssumption
<1>2. PICK f : IsPicking(b, K, ds, f)
  BY <1>1, SelectPlaces
<1>3. PICK g : IsPicking(b, H, hs, g)
  BY <1>1, SelectPlaces DEF BMHs
<1>4. ds \in Seq(Docs(b)) /\ \A k \in 1..Len(ds) : ds[k].kind = "BareMetalHost"
  BY <1>1, SelectElements, HostsMatch
<1>5. \A n \in K : n \in 1..Len(b) /\ n \in H
  BY HostsMatch
<1> HIDE DEF ds, hs, K, H
<1>6. \A k \in 1..Len(ds) : f[k] \in K /\ ds[k] = b[f[k]]
  BY <1>2 DEF IsPicking
<1>7. ASSUME NEW j \in 1..Len(ds), NEW k \in 1..Len(ds), Id(ds[j]) = Id(ds[k]) PROVE j = k
  <2>1. SameId(b[f[j]], b[f[k]])
    <3>1. ds[j].ns = ds[k].ns /\ ds[j].name = ds[k].name
      BY <1>7 DEF Id
    <3> QED
      BY <3>1, <1>4, <1>6 DEF SameId
  <2>2. f[j] = f[k]
    BY <2>1, <1>1, <1>5, <1>6
  <2>3. Len(ds) \in Nat /\ f[j] \in Int /\ (j < k => f[j] < f[k]) /\ (k < j => f[k] < f[j])
    BY <1>2, <1>5, <1>6 DEF IsPicking
  <2> QED
    BY <2>2, <2>3
<1>8. ASSUME NEW k \in 1..Len(ds) PROVE Id(ds[k]) \in Ids(hs)
  <2>1. f[k] \in H
    BY <1>5, <1>6
  <2>2. PICK u \in 1..Len(hs) : g[u] = f[k]
    BY <2>1, <1>3 DEF IsPicking
  <2>3. hs[u] = ds[k]
    BY <2>2, <1>3, <1>6 DEF IsPicking
  <2> QED
    BY <2>3 DEF Ids
<1>9. Ids(ds) \subseteq AllIds
  BY <1>8 DEF Ids, AllIds, hs
<1> QED
  BY <1>4, <1>7, <1>9 DEF ds

\* What a command operates on: such a selection, or the only host in it.
Chosen(b, sel, hs) ==
    hs = Select(b, toDocumentSelector(sel)) \/ \E d : OnlyOne(b, toDocumentSelector(sel), d) /\ hs = <<d>>

LEMMA ChosenAreHosts ==
    ASSUME NEW b \in Bundles, NEW sel, NEW hs, Chosen(b, sel, hs)
    PROVE  /\ hs \in Seq(Docs(b)) /\ Len(hs) \in Nat
           /\ hs # <<>> => Len(hs) \in Nat \ {0}
           /\ \A k \in 1..Len(hs) : hs[k].kind = "BareMetalHost"
           /\ \A j, k \in 1..Len(hs) : Id(hs[j]) = Id(hs[k]) => j = k
           /\ Ids(hs) \subseteq AllIds
<1> DEFINE ds == Select(b, toDocumentSelector(sel))
<1>1. /\ ds \in Seq(Docs(b))
      /\ \A k \in 1..Len(ds) : ds[k].kind = "BareMetalHost"
      /\ \A j, k \in 1..Len(ds) : Id(ds[j]) = Id(ds[k]) => j = k
      /\ Ids(ds) \subseteq AllIds
  BY SelectedHosts
<1>2. hs = ds
  <2>1. CASE \E d : OnlyOne(b, toDocumentSelector(sel), d) /\ hs = <<d>>
    <3>1. PICK d : OnlyOne(b, toDocumentSelector(sel), d) /\ hs = <<d>>
      BY <2>1
    <3>2. Len(ds) = 1 /\ ds[1] = d
      BY <3>1, BundleAssumption, OnlyOneSelected
    <3> HIDE DEF ds
    <3>3. ds = <<d>>
      BY <1>1, <3>2
    <3> QED
      BY <3>1, <3>3
  <2> QED
    BY <2>1 DEF Chosen
<1> HIDE DEF ds
<1>3. Len(hs) \in Nat /\ (hs # <<>> => Len(hs) \in Nat \ {0})
  BY <1>1, <1>2
<1> QED
  BY <1>1, <1>2, <1>3

LEMMA ChosenHosts ==
    ASSUME ChosenInv, hosts # <<>>
    PROVE  /\ hosts \in Seq(Docs(bundle)) /\ Len(hosts) \in Nat \ {0}
           /\ \A k \in 1..Len(hosts) : hosts[k].kind = "BareMetalHost"
           /\ \A j, k \in 1..Len(hosts) : Id(hosts[j]) = Id(hosts[k]) => j = k
           /\ Ids(hosts) \subseteq AllIds
<1>1. bundle \in Bundles /\ Chosen(bundle, cmd.sel, hosts)
  BY DEF ChosenInv, Chosen, Selected
<1> QED
  BY <1>1, ChosenAreHosts

HostAction == BeginHost \/ HostWorks \/ HostSucceeds \/ HostFails
IsCmd(c) == c = Cmd(c.via, c.op, c.sel, c.all, c.dry, c.table)

\* What Site does to the inventory.
InventoryNext ==
    \/ \E c : IsCmd(c) /\ Begin(c)
    \/ Run \/ Validate \/ BaremetalInventory \/ SelectBatch \/ SelectSingle \/ ListHosts
    \/ HostAction \/ CtxExpires

LEMMA CommandsAreCmds ==
    /\ \A c \in Commands : IsCmd(c)
    /\ \A doc, dry : IsCmd(toCommandOptions(doc, dry))
<1>1. \A via, op, sel, all, dry, table : IsCmd(Cmd(via, op, sel, all, dry, table))
  BY DEF IsCmd, Cmd
<1>2. \A sel, all : /\ IsCmd(NewRebootCommand(sel, all)) /\ IsCmd(NewPowerOffCommand(sel, all))
                    /\ IsCmd(NewPowerOnCommand(sel, all)) /\ IsCmd(NewEjectMediaCommand(sel, all))
                    /\ IsCmd(NewPowerStatusCommand(sel)) /\ IsCmd(NewRemoteDirectCommand(sel))
                    /\ IsCmd(NewListHostsCommand(sel, all))
  BY <1>1, Zenon DEF NewRebootCommand, NewPowerOffCommand, NewPowerOnCommand,
     NewEjectMediaCommand, NewPowerStatusCommand, NewRemoteDirectCommand, NewListHostsCommand
<1>3. \A c \in Commands : IsCmd(c)
  <2> SUFFICES ASSUME NEW c \in Commands PROVE IsCmd(c)
    OBVIOUS
  <2>1. PICK sel \in Selectors, all \in BOOLEAN :
          c \in {NewRebootCommand(sel, all), NewPowerOffCommand(sel, all),
                NewPowerOnCommand(sel, all), NewEjectMediaCommand(sel, all),
                NewListHostsCommand(sel, all), NewPowerStatusCommand(sel),
                NewRemoteDirectCommand(sel)}
    BY DEF Commands
  <2> QED
    BY <2>1, <1>2
<1>4. \A doc, dry : IsCmd(toCommandOptions(doc, dry))
  BY <1>1, Zenon DEF toCommandOptions
<1> QED
  BY <1>3, <1>4

LEMMA InventorySteps ==
    ASSUME [SiteNext]_siteVars
    PROVE  [InventoryNext]_vars
<1>1. ASSUME NEW c \in Commands, GivenByHand(c) PROVE InventoryNext
  BY <1>1, CommandsAreCmds DEF GivenByHand, InventoryNext
<1>2. ASSUME PhaseStarts PROVE InventoryNext \/ UNCHANGED vars
  BY <1>2, CommandsAreCmds DEF PhaseStarts, InventoryNext
<1>3. ASSUME HostStep \/ HostWorks \/ HostSucceeds \/ HostFails \/ CtxExpires
      PROVE  InventoryNext
  BY <1>3 DEF HostStep, InventoryNext, HostAction
<1> QED
  BY <1>1, <1>2, <1>3 DEF SiteNext, siteVars, Requested, PhaseEnds, SiteFinished

\* An operation on a host changes what is known of that host only.
LEMMA HostChange ==
    ASSUME HostAction, TypeOK, ControlInv, ChosenInv
    PROVE  /\ pc \in {"begin", "busy"} /\ hosts # <<>> /\ i \in 1..Len(hosts)
           /\ HostAt \in AllIds /\ HostAt \in Ids(hosts)
           /\ UNCHANGED <<bundle, remoteType, cmd, hosts, creds, commands, expired>>
           /\ \E s \in {"running", "ok", "failed"}, g \in BOOLEAN :
                st' = [st EXCEPT ![HostAt] = s] /\ goal' = [goal EXCEPT ![HostAt] = g]
<1>1. pc \in {"begin", "busy"}
  BY DEF HostAction, BeginHost, HostWorks, HostSucceeds, HostFails
<1>2. i \in 1..(Len(hosts) + 1) /\ i <= Len(hosts)
  BY <1>1 DEF TypeOK
<1>3. hosts # <<>>
  BY <1>2
<1>4. Len(hosts) \in Nat \ {0} /\ Ids(hosts) \subseteq AllIds
  BY <1>3, ChosenHosts
<1>5. i \in 1..Len(hosts)
  BY <1>2, <1>4
<1>6. HostAt \in Ids(hosts)
  BY <1>5 DEF HostAt, Ids
<1>7. ASSUME BeginHost
      PROVE  /\ UNCHANGED <<bundle, remoteType, cmd, hosts, creds, commands, expired>>
             /\ \E s \in {"running", "ok", "failed"}, g \in BOOLEAN :
                  st' = [st EXCEPT ![HostAt] = s] /\ goal' = [goal EXCEPT ![HostAt] = g]
  BY <1>7 DEF BeginHost, OnHost, site
<1>8. ASSUME HostWorks
      PROVE  /\ UNCHANGED <<bundle, remoteType, cmd, hosts, creds, commands, expired>>
             /\ \E s \in {"running", "ok", "failed"}, g \in BOOLEAN :
                  st' = [st EXCEPT ![HostAt] = s] /\ goal' = [goal EXCEPT ![HostAt] = g]
  BY <1>8 DEF HostWorks, OnHost, site
<1>9. ASSUME HostSucceeds
      PROVE  /\ UNCHANGED <<bundle, remoteType, cmd, hosts, creds, commands, expired>>
             /\ \E s \in {"running", "ok", "failed"}, g \in BOOLEAN :
                  st' = [st EXCEPT ![HostAt] = s] /\ goal' = [goal EXCEPT ![HostAt] = g]
  BY <1>9 DEF HostSucceeds, OnHost, site
<1>10. ASSUME HostFails
       PROVE  /\ UNCHANGED <<bundle, remoteType, cmd, hosts, creds, commands, expired>>
              /\ \E s \in {"running", "ok", "failed"}, g \in BOOLEAN :
                   st' = [st EXCEPT ![HostAt] = s] /\ goal' = [goal EXCEPT ![HostAt] = g]
  BY <1>10 DEF HostFails, OnHost, site
<1> QED
  BY <1>1, <1>3, <1>4, <1>5, <1>6, <1>7, <1>8, <1>9, <1>10 DEF HostAction

\* An operation that succeeds leaves the host in the state asked for.
LEMMA HostSuccess ==
    ASSUME HostSucceeds, TypeOK, ControlInv, ChosenInv
    PROVE  st'[HostAt] = "ok" /\ goal'[HostAt] = TRUE
<1>1. HostAt \in AllIds
  BY HostChange DEF HostAction
<1>2. st \in [AllIds -> {"idle", "running", "ok", "failed"}] /\ goal \in [AllIds -> BOOLEAN]
  BY DEF TypeOK
<1>3. st'[HostAt] = "ok" /\ goal'[HostAt] = TRUE
  BY <1>1, <1>2 DEF HostSucceeds, OnHost, Host!Succeed
<1> QED
  BY <1>3

\* Hosts with clients are made in one step.
LEMMA Clients ==
    ASSUME NEW ds, MakeHosts(ds), \A j, k \in 1..Len(ds) : Id(ds[j]) = Id(ds[k]) => j = k
    PROVE  /\ hosts' = ds /\ DOMAIN creds' = Ids(ds)
           /\ \A k \in 1..Len(ds) : ~Failed(newHost(ds[k])) /\ creds'[Id(ds[k])] = newHost(ds[k]).val
<1>1. /\ \A k \in 1..Len(ds) : ~Failed(newHost(ds[k]))
      /\ hosts' = ds
      /\ creds' = [h \in Ids(ds) |->
                     newHost(CHOOSE d \in {ds[k] : k \in 1..Len(ds)} : Id(d) = h).val]
  BY DEF MakeHosts
<1>2. ASSUME NEW k \in 1..Len(ds)
      PROVE  creds'[Id(ds[k])] = newHost(ds[k]).val
  <2> DEFINE all == {ds[j] : j \in 1..Len(ds)}
             c == CHOOSE d \in all : Id(d) = Id(ds[k])
  <2>1. ds[k] \in all
    OBVIOUS
  <2>2. c \in all /\ Id(c) = Id(ds[k])
    BY <2>1
  <2>3. c = ds[k]
    BY <2>2
  <2>4. Id(ds[k]) \in Ids(ds)
    BY DEF Ids
  <2> QED
    BY <1>1, <2>3, <2>4
<1> QED
  BY <1>1, <1>2

\* A selection returns, with no hosts, or goes on with hosts that have clients.
LEMMA SelectionStep ==
    ASSUME SelectBatch \/ SelectSingle \/ ListHosts, ControlInv
    PROVE  /\ pc = "select" /\ bundle \in Bundles
           /\ UNCHANGED <<bundle, remoteType, cmd, i, expired, st, goal, touched, commands>>
           /\ \/ /\ pc' = "idle" /\ result' \in {"no_hosts", "error"}
                 /\ UNCHANGED <<hosts, creds>>
              \/ /\ IF Single THEN \E d : OnlyOne(bundle, toDocumentSelector(cmd.sel), d) /\ hosts' = <<d>>
                    ELSE hosts' = Selected
                 /\ Chosen(bundle, cmd.sel, hosts') /\ DOMAIN creds' = Ids(hosts')
                 /\ \A k \in 1..Len(hosts') : /\ ~Failed(newHost(hosts'[k]))
                                               /\ creds'[Id(hosts'[k])] = newHost(hosts'[k]).val
                 /\ \/ pc' = "begin" /\ hosts' # <<>> /\ (Batch \/ Single) /\ result' = result
                    \/ pc' = "idle" /\ ~Batch /\ ~Single /\ result' \in {"no_hosts", "ok"}
<1>1. pc = "select" /\ bundle \in Bundles
  BY DEF SelectBatch, SelectSingle, ListHosts, ControlInv
<1>2. UNCHANGED <<bundle, remoteType, cmd, i, expired, st, goal, touched, commands>>
  BY DEF SelectBatch, SelectSingle, ListHosts, site, hostVars
<1>3. ASSUME NEW ds, Chosen(bundle, cmd.sel, ds), MakeHosts(ds)
      PROVE  /\ hosts' = ds /\ DOMAIN creds' = Ids(ds)
             /\ \A k \in 1..Len(ds) : ~Failed(newHost(ds[k])) /\ creds'[Id(ds[k])] = newHost(ds[k]).val
  BY <1>1, <1>3, ChosenAreHosts, Clients
<1>4. Chosen(bundle, cmd.sel, Selected)
  BY DEF Chosen, Selected
<1>5. CASE SelectBatch
  <2>1. Batch /\ ~Single
    BY <1>5 DEF SelectBatch, Batch, Single, BatchOps, SingleOps
  <2>2. CASE MakeHosts(Selected) /\ Selected # <<>> /\ Goto("begin")
    BY <1>1, <1>2, <1>3, <1>4, <2>1, <2>2 DEF Goto
  <2>3. CASE Return("no_hosts") /\ UNCHANGED <<hosts, creds>>
    BY <1>1, <1>2, <2>3 DEF Return
  <2>4. CASE Return("error") /\ UNCHANGED <<hosts, creds>>
    BY <1>1, <1>2, <2>4 DEF Return
  <2> QED
    BY <1>5, <2>2, <2>3, <2>4 DEF SelectBatch
<1>6. CASE SelectSingle
  <2>1. Single /\ ~Batch
    BY <1>6 DEF SelectSingle, Batch, Single, BatchOps, SingleOps
  <2> DEFINE one == SelectOne(bundle, toDocumentSelector(cmd.sel))
  <2>2. CASE ~Failed(one) /\ MakeHosts(<<one.val>>) /\ Goto("begin")
    <3>1. OnlyOne(bundle, toDocumentSelector(cmd.sel), one.val)
      BY <2>2, SelectOneIs
    <3>2. Chosen(bundle, cmd.sel, <<one.val>>)
      BY <3>1 DEF Chosen
    <3>3. <<one.val>> # <<>>
      OBVIOUS
    <3> HIDE DEF one
    <3> QED
      BY <1>1, <1>2, <1>3, <2>1, <2>2, <3>1, <3>2, <3>3 DEF Goto
  <2>3. CASE Return("error") /\ UNCHANGED <<hosts, creds>>
    BY <1>1, <1>2, <2>3 DEF Return
  <2> QED
    BY <1>6, <2>2, <2>3 DEF SelectSingle
<1>7. CASE ListHosts
  <2>1. ~Single /\ ~Batch
    BY <1>7 DEF ListHosts, Batch, Single, BatchOps, SingleOps
  <2>2. CASE MakeHosts(Selected) /\ Return(IF Selected = <<>> THEN "no_hosts" ELSE "ok")
    BY <1>1, <1>2, <1>3, <1>4, <2>1, <2>2 DEF Return
  <2>3. CASE Return("error") /\ UNCHANGED <<hosts, creds>>
    BY <1>1, <1>2, <2>3 DEF Return
  <2> QED
    BY <1>7, <2>2, <2>3 DEF ListHosts
<1> QED
  BY <1>5, <1>6, <1>7

\* The steps that choose nothing and operate nothing.
QuietStep == Run \/ Validate \/ BaremetalInventory \/ CtxExpires

LEMMA Quiet ==
    ASSUME QuietStep, InvInv
    PROVE  /\ UNCHANGED <<cmd, hosts, creds, i, st, goal, touched, commands>>
           /\ \/ UNCHANGED <<bundle, remoteType>>
              \/ pc = "load" /\ hosts = <<>> /\ bundle' \in Bundles /\ remoteType' \in RemoteTypes
           /\ \/ pc \in {"start", "validate", "load"} /\ expired' = expired
                 /\ \/ pc' \in {"validate", "load", "select"} /\ result' = result
                    \/ pc' = "idle" /\ result' \in {"ok", "error", "invalid"}
                 /\ (pc' = "select" => bundle' \in Bundles)
                 /\ ((pc' = "idle" /\ result' = "ok") => cmd.dry)
              \/ pc \in {"begin", "busy"} /\ expired' = TRUE /\ UNCHANGED <<pc, result>>
<1>1. CASE Run
  BY <1>1 DEF Run, Goto, Return, site, hostVars
<1>2. CASE Validate
  BY <1>2 DEF Validate, Goto, Return, site, hostVars
<1>3. CASE BaremetalInventory
  BY <1>3 DEF BaremetalInventory, Goto, Return, site, hostVars, InvInv, ControlInv
<1>4. CASE CtxExpires
  BY <1>4 DEF CtxExpires, site, hostVars
<1> QED
  BY <1>1, <1>2, <1>3, <1>4 DEF QuietStep

\* Where an operation on a host leads.
LEMMA HostLeads ==
    ASSUME HostAction, InvInv
    PROVE  \/ BeginHost /\ pc = "begin" /\ pc' = "busy" /\ touched' = touched \cup {HostAt}
                /\ i' = i /\ result' = result
           \/ /\ pc = "busy" /\ touched' = touched
              /\ \/ pc' = "busy" /\ i' = i /\ result' = result
                 \/ HostSucceeds /\ i = Len(hosts) /\ pc' = "idle" /\ result' = "ok" /\ i' = i
                 \/ HostSucceeds /\ i # Len(hosts) /\ pc' = "begin" /\ result' = result /\ i' = i + 1
                 \/ HostFails /\ pc' = "idle" /\ result' = "error" /\ i' = i
<1>1. CASE BeginHost
  BY <1>1 DEF BeginHost, Goto
<1>2. CASE HostWorks
  BY <1>2 DEF HostWorks, Goto
<1>3. CASE HostSucceeds
  BY <1>3 DEF HostSucceeds, NextHost, Goto, Return
<1>4. CASE HostFails
  BY <1>4 DEF HostFails, Return
<1> QED
  BY <1>1, <1>2, <1>3, <1>4 DEF HostAction

LEMMA ControlStep ==
    ASSUME InvInv, [InventoryNext]_vars
    PROVE  ControlInv'
<1> USE DEF ControlInv, Batch, Single
<1>1. CASE UNCHANGED vars
  BY <1>1 DEF InvInv, vars
<1>2. ASSUME NEW c, Begin(c) PROVE ControlInv'
  BY <1>2 DEF Begin, Goto
<1>3. CASE QuietStep
  BY <1>3, Quiet DEF InvInv
<1>4. CASE SelectBatch \/ SelectSingle \/ ListHosts
  BY <1>4, SelectionStep DEF InvInv
<1>5. CASE HostAction
  <2>1. UNCHANGED <<bundle, cmd, hosts>> /\ hosts # <<>> /\ pc \in {"begin", "busy"}
    BY <1>5, HostChange DEF InvInv
  <2>2. pc' \in {"begin", "busy", "idle"}
    BY <1>5, HostLeads
  <2>3. (Batch \/ Single)'
    BY <2>1 DEF InvInv
  <2>4. pc' = "busy" => touched' # {}
    BY <1>5, HostLeads DEF InvInv
  <2> QED
    BY <2>1, <2>2, <2>3, <2>4
<1> QED
  BY <1>1, <1>2, <1>3, <1>4, <1>5 DEF InventoryNext, QuietStep

LEMMA ChosenStep ==
    ASSUME InvInv, [InventoryNext]_vars
    PROVE  ChosenInv'
<1>0. ASSUME UNCHANGED <<bundle, remoteType, cmd, hosts, creds>> PROVE ChosenInv'
  BY <1>0 DEF InvInv, ChosenInv, Selected, Single, newHost
<1>00. ASSUME hosts' = <<>> PROVE ChosenInv'
  BY <1>00 DEF ChosenInv
<1>1. CASE UNCHANGED vars
  BY <1>0, <1>1 DEF vars
<1>2. ASSUME NEW c, Begin(c) PROVE ChosenInv'
  BY <1>00, <1>2 DEF Begin
<1>3. CASE QuietStep
  BY <1>0, <1>00, <1>3, Quiet
<1>4. CASE SelectBatch \/ SelectSingle \/ ListHosts
  <2>1. UNCHANGED <<bundle, remoteType, cmd>> /\ bundle \in Bundles
    BY <1>4, SelectionStep DEF InvInv
  <2>2. CASE UNCHANGED <<hosts, creds>>
    BY <1>0, <2>1, <2>2
  <2>3. CASE /\ IF Single THEN \E d : OnlyOne(bundle, toDocumentSelector(cmd.sel), d) /\ hosts' = <<d>>
                ELSE hosts' = Selected
             /\ \A k \in 1..Len(hosts') : /\ ~Failed(newHost(hosts'[k]))
                                           /\ creds'[Id(hosts'[k])] = newHost(hosts'[k]).val
    BY <2>1, <2>3 DEF ChosenInv, Selected, Single, newHost
  <2> QED
    BY <1>4, <2>2, <2>3, SelectionStep DEF InvInv
<1>5. CASE HostAction
  BY <1>0, <1>5, HostChange DEF InvInv
<1> QED
  BY <1>1, <1>2, <1>3, <1>4, <1>5 DEF InventoryNext, QuietStep

Results == {"none", "ok", "error", "invalid", "no_hosts", "unsupported"}

LEMMA TypeStep ==
    ASSUME InvInv, [InventoryNext]_vars
    PROVE  TypeOK'
<1>0. TypeOK
  BY DEF InvInv
<1>1. CASE UNCHANGED vars
  BY <1>0, <1>1 DEF TypeOK, vars, Ids
<1>2. ASSUME NEW c, IsCmd(c), Begin(c) PROVE TypeOK'
  <2>1. Len(<<>>) = 0 /\ DOMAIN <<>> = {} /\ Ids(<<>>) = {}
    BY DEF Ids
  <2>2. hosts' = <<>> /\ creds' = <<>> /\ Ids(hosts)' = {} /\ cmd' = c
    BY <1>2, <2>1 DEF Begin, Ids
  <2>3. cmd' = Cmd(cmd'.via, cmd'.op, cmd'.sel, cmd'.all, cmd'.dry, cmd'.table)
    BY <1>2, <2>2 DEF IsCmd
  <2>4. i' \in 1..(Len(hosts') + 1) /\ pc' = "start"
    BY <1>2, <2>1, <2>2 DEF Begin, Goto
  <2>5. DOMAIN creds' \subseteq AllIds
    BY <2>1, <2>2
  <2>6. /\ UNCHANGED <<bundle, remoteType, st, goal, result>> /\ expired' = FALSE
        /\ touched' = {} /\ commands' = commands + 1
    BY <1>2 DEF Begin, Goto, site
  <2>7. (Ids(hosts) \subseteq Ids(bundle))' /\ (DOMAIN creds \subseteq AllIds)'
    BY <2>2, <2>5
  <2>8. (cmd = Cmd(cmd.via, cmd.op, cmd.sel, cmd.all, cmd.dry, cmd.table))'
    BY <2>3
  <2>9. (pc \in {"begin", "busy"} => i <= Len(hosts))'
    BY <2>4
  <2>10. (bundle \in Bundles \cup {<<>>} /\ remoteType \in RemoteTypes \cup {NoValue})'
    <3>1. bundle \in Bundles \cup {<<>>} /\ remoteType \in RemoteTypes \cup {NoValue}
      BY <1>0 DEF TypeOK
    <3>2. bundle' = bundle /\ remoteType' = remoteType
      BY <2>6
    <3> QED
      BY <3>1, <3>2, Zenon
  <2>12. /\ (pc \in {"idle", "start", "validate", "load", "select", "begin", "busy"})'
         /\ (result \in {"none", "ok", "error", "invalid", "no_hosts", "unsupported"})'
    BY <1>0, <2>4, <2>6 DEF TypeOK
  <2>13. (expired \in BOOLEAN)' /\ (touched \subseteq AllIds)' /\ (commands \in Nat)'
    <3>1. commands \in Nat
      BY <1>0 DEF TypeOK
    <3>2. commands' \in Nat
      BY <2>6, <3>1
    <3>3. expired' \in BOOLEAN
      BY <2>6, Zenon
    <3> QED
      BY <2>6, <3>2, <3>3, Zenon
  <2>11. (st \in [AllIds -> {"idle", "running", "ok", "failed"}] /\ goal \in [AllIds -> BOOLEAN])'
    BY <1>0, <2>6 DEF TypeOK
  <2> QED
    BY <2>4, <2>7, <2>8, <2>9, <2>10, <2>11, <2>12, <2>13 DEF TypeOK
<1>3. CASE QuietStep
  <2>1. UNCHANGED <<cmd, hosts, creds, i, st, goal, touched, commands>>
    BY <1>3, Quiet
  <2>2. bundle' \in Bundles \cup {<<>>} /\ remoteType' \in RemoteTypes \cup {NoValue}
    BY <1>0, <1>3, Quiet DEF TypeOK
  <2>3. Ids(hosts)' \subseteq Ids(bundle)'
    <3>1. CASE UNCHANGED <<bundle, remoteType>>
      BY <1>0, <2>1, <3>1 DEF TypeOK, Ids
    <3>2. CASE hosts = <<>>
      <4>1. Ids(hosts)' = {}
        BY <2>1, <3>2 DEF Ids
      <4> QED
        BY <4>1
    <3> QED
      BY <1>3, <3>1, <3>2, Quiet
  <2>4. /\ pc' \in {"idle", "start", "validate", "load", "select", "begin", "busy"}
        /\ expired' \in BOOLEAN /\ result' \in Results
        /\ pc' \in {"begin", "busy"} => i <= Len(hosts)
    BY <1>0, <1>3, Quiet DEF TypeOK, Results
  <2> QED
    BY <1>0, <2>1, <2>2, <2>3, <2>4 DEF TypeOK, Results
<1>4. CASE SelectBatch \/ SelectSingle \/ ListHosts
  <2>1. /\ UNCHANGED <<bundle, remoteType, cmd, i, expired, st, goal, touched, commands>>
        /\ pc = "select" /\ bundle \in Bundles /\ i = 1
    BY <1>4, SelectionStep DEF InvInv, ControlInv
  <2>2. CASE pc' = "idle" /\ result' \in {"no_hosts", "error"} /\ UNCHANGED <<hosts, creds>>
    BY <1>0, <2>1, <2>2 DEF TypeOK, Ids
  <2>3. CASE /\ Chosen(bundle, cmd.sel, hosts') /\ DOMAIN creds' = Ids(hosts')
             /\ \/ pc' = "begin" /\ hosts' # <<>> /\ result' = result
                \/ pc' = "idle" /\ result' \in {"no_hosts", "ok"}
    <3>1. /\ hosts' \in Seq(Docs(bundle)) /\ Len(hosts') \in Nat /\ Ids(hosts') \subseteq AllIds
          /\ hosts' # <<>> => Len(hosts') \in Nat \ {0}
      BY <2>1, <2>3, ChosenAreHosts
    <3>2. \A k \in 1..Len(hosts') : hosts'[k] \in Docs(bundle)
      BY <3>1
    <3>3. Ids(hosts') \subseteq Ids(bundle)
      BY <3>2 DEF Ids, Docs
    <3>4. i \in 1..(Len(hosts') + 1) /\ (pc' \in {"begin", "busy"} => i <= Len(hosts'))
      BY <2>1, <2>3, <3>1
    <3>5. pc' \in {"begin", "idle"} /\ result' \in Results
      BY <1>0, <2>3 DEF TypeOK, Results
    <3>6. DOMAIN creds' \subseteq AllIds
      BY <2>3, <3>1
    <3> QED
      BY <1>0, <2>1, <3>3, <3>4, <3>5, <3>6 DEF TypeOK, Results, Ids
  <2> QED
    BY <1>4, <2>2, <2>3, SelectionStep DEF InvInv
<1>5. CASE HostAction
  <2>1. /\ UNCHANGED <<bundle, remoteType, cmd, hosts, creds, commands, expired>>
        /\ HostAt \in AllIds /\ i \in 1..Len(hosts) /\ hosts # <<>>
    BY <1>5, HostChange DEF InvInv
  <2>2. PICK s \in {"running", "ok", "failed"}, g \in BOOLEAN :
          st' = [st EXCEPT ![HostAt] = s] /\ goal' = [goal EXCEPT ![HostAt] = g]
    BY <1>5, HostChange DEF InvInv
  <2>3. st' \in [AllIds -> {"idle", "running", "ok", "failed"}] /\ goal' \in [AllIds -> BOOLEAN]
    BY <1>0, <2>2 DEF TypeOK
  <2>4. touched' \subseteq AllIds
    BY <1>0, <1>5, <2>1, HostLeads DEF TypeOK
  <2>5. Len(hosts) \in Nat
    BY <2>1, ChosenHosts DEF InvInv
  <2>6. i' \in 1..(Len(hosts) + 1) /\ (pc' \in {"begin", "busy"} => i' <= Len(hosts))
    BY <1>5, <2>1, <2>5, HostLeads
  <2>7. pc' \in {"begin", "busy", "idle"} /\ result' \in Results
    BY <1>0, <1>5, HostLeads DEF TypeOK, Results
  <2> QED
    BY <1>0, <2>1, <2>3, <2>4, <2>6, <2>7 DEF TypeOK, Results, Ids
<1> QED
  BY <1>1, <1>2, <1>3, <1>4, <1>5 DEF InventoryNext, QuietStep

LEMMA LoopStep ==
    ASSUME InvInv, [InventoryNext]_vars
    PROVE  LoopInv'
<1>0. LoopInv
  BY DEF InvInv
<1>00. ASSUME hosts' = <<>>, touched' = {} PROVE LoopInv'
  BY <1>00 DEF LoopInv, FailureSplitsBatch, Ids
<1>1. CASE UNCHANGED vars
  BY <1>0, <1>1 DEF LoopInv, FailureSplitsBatch, Ids, Id, vars
<1>2. ASSUME NEW c, Begin(c) PROVE LoopInv'
  BY <1>00, <1>2 DEF Begin
<1>3. CASE QuietStep
  <2>1. UNCHANGED <<cmd, hosts, creds, i, st, goal, touched, commands>>
    BY <1>3, Quiet
  <2>2. CASE pc \in {"start", "validate", "load"}
    BY <1>00, <2>1, <2>2 DEF InvInv, ControlInv
  <2>3. CASE UNCHANGED pc
    BY <1>0, <2>1, <2>3 DEF LoopInv, FailureSplitsBatch, Ids, Id
  <2> QED
    BY <1>3, <2>2, <2>3, Quiet
<1>4. CASE SelectBatch \/ SelectSingle \/ ListHosts
  <2>1. UNCHANGED <<i, st, goal, touched>> /\ i = 1 /\ touched = {} /\ pc' \in {"begin", "idle"}
    BY <1>4, SelectionStep DEF InvInv, ControlInv
  <2>2. \A k \in 1..Len(hosts') : ~(k < 1)
    OBVIOUS
  <2> QED
    BY <2>1, <2>2 DEF LoopInv, FailureSplitsBatch
<1>5. CASE HostAction
  <2>1. /\ UNCHANGED hosts /\ hosts # <<>> /\ i \in 1..Len(hosts) /\ HostAt \in Ids(hosts)
        /\ HostAt \in AllIds
    BY <1>5, HostChange DEF InvInv
  <2>2. /\ Len(hosts) \in Nat
        /\ \A j, k \in 1..Len(hosts) : Id(hosts[j]) = Id(hosts[k]) => j = k
    BY <2>1, ChosenHosts DEF InvInv
  <2>3. touched' \subseteq Ids(hosts)
    BY <1>0, <1>5, <2>1, HostLeads DEF LoopInv
  <2>4. \A h : h # HostAt => st'[h] = st[h] /\ goal'[h] = goal[h]
    <3>1. PICK s \in {"running", "ok", "failed"}, g \in BOOLEAN :
            st' = [st EXCEPT ![HostAt] = s] /\ goal' = [goal EXCEPT ![HostAt] = g]
      BY <1>5, HostChange DEF InvInv
    <3> QED
      BY <3>1 DEF InvInv, TypeOK
  <2>5. ASSUME NEW k \in 1..Len(hosts)
        PROVE  /\ (Id(hosts[k]) \in touched)' = (k < i \/ (k = i /\ pc # "begin" /\ touched # {}))'
               /\ k < i' => st'[Id(hosts[k])] = "ok" /\ goal'[Id(hosts[k])]
    <3>1. /\ (Id(hosts[k]) \in touched) = (k < i \/ (k = i /\ pc # "begin" /\ touched # {}))
          /\ k < i => st[Id(hosts[k])] = "ok" /\ goal[Id(hosts[k])]
      BY <1>0 DEF LoopInv, FailureSplitsBatch
    <3>2. /\ Id(hosts[k]) = HostAt <=> k = i
          /\ Id(hosts[k])' = Id(hosts[k])
      BY <2>1, <2>2 DEF HostAt, Id
    <3>3. CASE pc = "begin" /\ pc' = "busy" /\ touched' = touched \cup {HostAt} /\ i' = i
      <4>1. k < i => k # i
        BY <2>1
      <4> QED
        BY <2>4, <3>1, <3>2, <3>3, <4>1
    <3>4. CASE /\ pc = "busy" /\ touched' = touched /\ pc' \in {"busy", "idle"} /\ i' = i
      <4>1. (k < i => k # i) /\ touched # {}
        BY <2>1, <3>4 DEF InvInv, ControlInv
      <4> QED
        BY <2>4, <3>1, <3>2, <3>4, <4>1
    <3>5. CASE pc = "busy" /\ touched' = touched /\ HostSucceeds /\ pc' = "begin" /\ i' = i + 1
      <4>1. (k < i + 1 <=> k < i \/ k = i) /\ (k < i => k # i) /\ touched # {}
        BY <2>1, <3>5 DEF InvInv, ControlInv
      <4>2. st'[HostAt] = "ok" /\ goal'[HostAt] = TRUE
        BY <3>5, HostSuccess DEF InvInv
      <4> QED
        BY <2>4, <3>1, <3>2, <3>5, <4>1, <4>2
    <3> QED
      BY <1>5, <3>3, <3>4, <3>5, HostLeads
  <2> QED
    BY <2>1, <2>3, <2>5 DEF LoopInv, FailureSplitsBatch, Ids, Id
<1> QED
  BY <1>1, <1>2, <1>3, <1>4, <1>5 DEF InventoryNext, QuietStep

LEMMA SuccessStep ==
    ASSUME InvInv, [InventoryNext]_vars
    PROVE  SuccessCoversAll'
<1>0. SuccessCoversAll
  BY DEF InvInv
<1>00. ASSUME pc' # "idle" \/ result' # "ok" \/ ~Batch' \/ (cmd.dry)' PROVE SuccessCoversAll'
  BY <1>00 DEF SuccessCoversAll
<1>1. CASE UNCHANGED vars
  BY <1>0, <1>1 DEF SuccessCoversAll, Batch, Selected, Ids, Id, vars
<1>2. ASSUME NEW c, Begin(c) PROVE SuccessCoversAll'
  BY <1>00, <1>2 DEF Begin, Goto
<1>3. CASE QuietStep
  <2>1. cmd' = cmd
    BY <1>3, Quiet
  <2>2. pc' # "idle" \/ result' # "ok" \/ cmd.dry
    BY <1>3, Quiet
  <2> QED
    BY <1>00, <2>1, <2>2
<1>4. CASE SelectBatch \/ SelectSingle \/ ListHosts
  <2>1. cmd' = cmd /\ (pc' # "idle" \/ result' # "ok" \/ ~Batch)
    BY <1>4, SelectionStep DEF InvInv
  <2> QED
    BY <1>00, <2>1 DEF Batch
<1>5. CASE HostAction
  <2>1. UNCHANGED <<bundle, cmd, hosts>> /\ hosts # <<>>
    BY <1>5, HostChange DEF InvInv
  <2>2. CASE pc' # "idle" \/ result' # "ok"
    BY <1>00, <2>2
  <2>3. CASE HostSucceeds /\ i = Len(hosts) /\ pc' = "idle" /\ i' = i
    <3>1. LoopInv'
      BY <1>5, LoopStep DEF InventoryNext
    <3>2. Len(hosts) \in Nat
      BY <2>1, ChosenHosts DEF InvInv
    <3>3. st'[HostAt] = "ok" /\ goal'[HostAt] = TRUE
      BY <2>3, HostSuccess DEF InvInv
    <3>4. ASSUME NEW k \in 1..Len(hosts)
          PROVE  st'[Id(hosts[k])] = "ok" /\ goal'[Id(hosts[k])]
      <4>1. CASE k = i
        BY <3>3, <4>1 DEF HostAt
      <4>2. CASE k # i
        <5>1. k < i'
          BY <2>3, <3>2, <4>2
        <5> QED
          BY <2>1, <3>1, <5>1 DEF LoopInv, FailureSplitsBatch, Id
      <4> QED
        BY <4>1, <4>2
    <3>5. ASSUME Batch PROVE Selected = hosts
      <4>1. ~Single
        BY <3>5 DEF Batch, Single, BatchOps, SingleOps
      <4> QED
        BY <2>1, <4>1 DEF InvInv, ChosenInv
    <3>6. Batch' = Batch /\ Selected' = Selected
      BY <2>1 DEF Batch, Selected
    <3>7. \A h \in Ids(hosts) : st'[h] = "ok" /\ goal'[h]
      BY <3>4 DEF Ids
    <3>8. Ids(Selected)' = Ids(Selected)
      BY <2>1 DEF Ids, Id, Selected
    <3> QED
      BY <2>1, <3>5, <3>6, <3>7, <3>8 DEF SuccessCoversAll
  <2> QED
    BY <1>5, <2>2, <2>3, HostLeads
<1> QED
  BY <1>1, <1>2, <1>3, <1>4, <1>5 DEF InventoryNext, QuietStep

LEMMA InventoryInit == Init => InvInv
<1> SUFFICES ASSUME Init PROVE InvInv
  OBVIOUS
<1>1. hosts = <<>> /\ touched = {} /\ Len(<<>>) = 0 /\ DOMAIN <<>> = {} /\ Ids(<<>>) = {}
  BY DEF Init, Ids
<1>2. cmd = Cmd(cmd.via, cmd.op, cmd.sel, cmd.all, cmd.dry, cmd.table)
  BY DEF Init, Cmd
<1>3. i \in 1..(Len(hosts) + 1)
  BY <1>1 DEF Init
<1>4. TypeOK
  BY <1>1, <1>2, <1>3 DEF Init, TypeOK
<1>5. ControlInv /\ ChosenInv /\ SuccessCoversAll
  BY <1>1 DEF Init, ControlInv, ChosenInv, SuccessCoversAll
<1>6. LoopInv
  BY <1>1 DEF LoopInv, FailureSplitsBatch
<1> QED
  BY <1>4, <1>5, <1>6 DEF InvInv

LEMMA InventoryInvariant == SiteSpec => []InvInv
<1>1. SiteInit => InvInv
  BY InventoryInit DEF SiteInit
<1>2. InvInv /\ [SiteNext]_siteVars => InvInv'
  BY InventorySteps, TypeStep, ControlStep, ChosenStep, LoopStep, SuccessStep DEF InvInv
<1> QED
  BY <1>1, <1>2, PTL DEF SiteSpec

\* Every variable of the inventory holds what its declaration says
\* (inventory/baremetal.go).
THEOREM SiteTypeCorrect == SiteSpec => []TypeOK
<1>1. InvInv => TypeOK
  BY DEF InvInv
<1> QED
  BY <1>1, InventoryInvariant, PTL

\* A batch command that reports success has every host it selects in the state
\* asked for (inventory/baremetal.go:116).
THEOREM SuccessCoversAllHolds == SiteSpec => []SuccessCoversAll
<1>1. InvInv => SuccessCoversAll
  BY DEF InvInv
<1> QED
  BY <1>1, InventoryInvariant, PTL

\* A failure leaves the hosts before it done and the hosts after it alone
\* (inventory/baremetal.go:116).
THEOREM FailureSplitsBatchHolds == SiteSpec => []FailureSplitsBatch
<1>1. InvInv => FailureSplitsBatch
  BY DEF InvInv, LoopInv
<1> QED
  BY <1>1, InventoryInvariant, PTL

\* No host is operated before every document of the selection was found to be
\* sound, and a command for one host operates the only one there is
\* (inventory/baremetal.go:59, inventory/command.go:117).
THEOREM TouchedOnlyIfSoundHolds == SiteSpec => []TouchedOnlyIfSound
<1>1. InvInv => TouchedOnlyIfSound
  <2> SUFFICES ASSUME InvInv, touched # {}
               PROVE  /\ \A k \in 1..Len(Selected) : ~Failed(newHost(Selected[k]))
                      /\ Single => Len(Selected) = 1 /\ touched = Ids(Selected)
    BY DEF TouchedOnlyIfSound
  <2>1. hosts # <<>> /\ touched \subseteq Ids(hosts)
    BY DEF InvInv, ControlInv, LoopInv
  <2>2. /\ bundle \in Bundles
        /\ \A k \in 1..Len(hosts) : ~Failed(newHost(hosts[k]))
    BY <2>1 DEF InvInv, ChosenInv
  <2>3. CASE ~Single
    BY <2>1, <2>2, <2>3 DEF InvInv, ChosenInv
  <2>4. CASE Single
    <3>1. PICK d : OnlyOne(bundle, toDocumentSelector(cmd.sel), d) /\ hosts = <<d>>
      BY <2>1, <2>4 DEF InvInv, ChosenInv
    <3>2. Len(Selected) = 1 /\ Selected[1] = d
      BY <2>2, <3>1, BundleAssumption, OnlyOneSelected DEF Selected
    <3>3. Selected = hosts
      <4>1. Selected \in Seq(Docs(bundle))
        BY <2>2, BundleAssumption, SelectElements DEF Selected
      <4> QED
        BY <3>1, <3>2, <4>1
    <3>4. Ids(hosts) = {Id(d)}
      BY <3>1 DEF Ids
    <3> QED
      BY <2>1, <2>2, <3>2, <3>3, <3>4
  <2> QED
    BY <2>3, <2>4
<1> QED
  BY <1>1, InventoryInvariant, PTL

-----------------------------------------------------------------------------
(* Credentials.                                                             *)

\* A secret that a name stands for in bundle b.
SecretsOf(b) == {d \in Docs(b) : d.kind = "Secret"}
StandsFor(b, n, secret) == {s \in SecretsOf(b) : n \in {Unset, s.name}} = {secret}

\* The text in a secret from which a client took what it uses.
TakenFrom(secret, key, used) ==
    \E place \in DOMAIN secret.fields :
        secret.fields[place][key] = IF place = "data" THEN Encoded(used) ELSE used

LEMMA SecretFound ==
    ASSUME NEW b, NEW n, NEW secret, OnlyOne(b, NewBMCCredentialsSelector(n), secret)
    PROVE  secret \in SecretsOf(b) /\ StandsFor(b, n, secret)
<1> DEFINE sel == NewBMCCredentialsSelector(n)
<1>1. sel = [kind |-> "Secret", name |-> n, ns |-> Unset, labels |-> {}]
  <2>1. ByKind(NewSelector, "Secret") = [kind |-> "Secret", name |-> Unset, ns |-> Unset, labels |-> {}]
    BY DEF ByKind, NewSelector
  <2>2. sel = [[kind |-> "Secret", name |-> Unset, ns |-> Unset, labels |-> {}] EXCEPT !.name = n]
    BY <2>1, Zenon DEF NewBMCCredentialsSelector, ByName
  <2> HIDE DEF sel
  <2> QED
    BY <2>2
<1> HIDE DEF sel
<1>2. Matches(sel, secret) /\ \E k \in 1..Len(b) : b[k] = secret
  BY DEF OnlyOne, sel
<1>3. secret.kind = "Secret" /\ n \in {Unset, secret.name}
  BY <1>1, <1>2, UnsetAssumption DEF Matches
<1>4. secret \in SecretsOf(b)
  BY <1>2, <1>3 DEF SecretsOf, Docs
<1>5. ASSUME NEW d \in SecretsOf(b), n \in {Unset, d.name} PROVE d = secret
  <2>1. PICK k \in 1..Len(b) : b[k] = d /\ d.kind = "Secret"
    BY DEF SecretsOf, Docs
  <2>2. Matches(sel, d)
    BY <1>1, <1>5, <2>1 DEF Matches
  <2> QED
    BY <2>1, <2>2 DEF OnlyOne, sel
<1> QED
  BY <1>3, <1>4, <1>5 DEF StandsFor

LEMMA KeyTaken ==
    ASSUME NEW b \in Bundles, NEW secret \in SecretsOf(b), NEW key,
           ~Failed(GetSecretDataKey(secret, key))
    PROVE  TakenFrom(secret, key, GetSecretDataKey(secret, key).val)
<1> DEFINE res == GetSecretDataKey(secret, key)
           Text(p) == secret.fields[p][key]
<1>1. CASE "stringData" \in DOMAIN secret.fields
  <2>1. res = Value(Text("stringData"))
    BY <1>1 DEF GetSecretDataKey, Failed, Failure
  <2>2. res.val = Text("stringData")
    BY <2>1, ValueOf, Zenon
  <2> QED
    BY <1>1, <2>2 DEF TakenFrom
<1>2. CASE "stringData" \notin DOMAIN secret.fields
  <2>1. /\ "data" \in DOMAIN secret.fields /\ key \in DOMAIN secret.fields["data"]
        /\ res = Decode(Text("data"))
    BY <1>2 DEF GetSecretDataKey, Failed, Failure
  <2>2. "b64" \in DOMAIN Text("data") /\ res = Value(Text("data").b64)
    <3>1. ~Failed(Decode(Text("data")))
      BY <2>1
    <3> QED
      BY <2>1, <3>1 DEF Decode, Failed, Failure
  <2>3. res.val = Text("data").b64
    BY <2>2, ValueOf, Zenon
  <2>4. Text("data") = Encoded(Text("data").b64)
    BY <2>1, <2>2, TextAssumption DEF SecretsOf
  <2> QED
    BY <2>1, <2>3, <2>4 DEF TakenFrom
<1> QED
  BY <1>1, <1>2

LEMMA CredentialsTaken ==
    ASSUME NEW b \in Bundles, NEW d, ~Failed(GetBMHBMCCredentials(d, b))
    PROVE  \E secret \in SecretsOf(b) :
             /\ StandsFor(b, d.fields["spec.bmc.credentialsName"], secret)
             /\ TakenFrom(secret, "password", GetBMHBMCCredentials(d, b).val.pass)
<1> DEFINE name   == GetString(d, "spec.bmc.credentialsName")
           found  == SelectOne(b, NewBMCCredentialsSelector(name.val))
           user   == GetSecretDataKey(found.val, "username")
           pass   == GetSecretDataKey(found.val, "password")
           creds0 == GetBMHBMCCredentials(d, b)
<1>1. ~Failed(name) /\ ~Failed(found) /\ ~Failed(pass) /\ creds0 = Value([user |-> user.val, pass |-> pass.val])
  <2>1. creds0 = IF Failed(name) THEN name
                 ELSE IF Failed(found) THEN found
                 ELSE IF Failed(user) THEN user
                 ELSE IF Failed(pass) THEN pass
                 ELSE Value([user |-> user.val, pass |-> pass.val])
    BY Zenon DEF GetBMHBMCCredentials
  <2>2. ~Failed(creds0)
    OBVIOUS
  <2> HIDE DEF name, found, user, pass, creds0
  <2> QED
    BY <2>1, <2>2
<1>2. creds0.val.pass = pass.val
  <2> HIDE DEF pass, user, creds0
  <2> QED
    BY <1>1 DEF Value
<1>3. name.val = d.fields["spec.bmc.credentialsName"]
  <2>1. name = IF "spec.bmc.credentialsName" \in DOMAIN d.fields
               THEN Value(d.fields["spec.bmc.credentialsName"]) ELSE Failure("no_field")
    BY DEF GetString
  <2> HIDE DEF name
  <2>2. name = Value(d.fields["spec.bmc.credentialsName"])
    BY <1>1, <2>1 DEF Failed, Failure
  <2> QED
    BY <2>2 DEF Value
<1>4. OnlyOne(b, NewBMCCredentialsSelector(name.val), found.val)
  BY <1>1, SelectOneIs
<1>5. found.val \in SecretsOf(b) /\ StandsFor(b, name.val, found.val)
  BY <1>4, SecretFound
<1>6. TakenFrom(found.val, "password", pass.val)
  BY <1>1, <1>5, KeyTaken
<1> QED
  BY <1>2, <1>3, <1>5, <1>6

\* A client uses the password of the only secret that its host's name stands for
\* (document/dochelper_utils.go:26).
THEOREM OwnCredentialsHolds == SiteSpec => []OwnCredentials
<1>1. InvInv => OwnCredentials
  <2> SUFFICES ASSUME InvInv, NEW k \in 1..Len(hosts)
               PROVE  \E secret \in SecretsOf(bundle) :
                        /\ StandsFor(bundle, hosts[k].fields["spec.bmc.credentialsName"], secret)
                        /\ TakenFrom(secret, "password", creds[Id(hosts[k])].pass)
    BY DEF OwnCredentials, Secrets, SecretsOf, StandsFor, TakenFrom
  <2>1. hosts # <<>>
    OBVIOUS
  <2>2. /\ bundle \in Bundles /\ ~Failed(newHost(hosts[k]))
        /\ creds[Id(hosts[k])] = newHost(hosts[k]).val
    BY <2>1 DEF InvInv, ChosenInv
  <2> DEFINE cred == GetBMHBMCCredentials(hosts[k], bundle)
  <2>3. ~Failed(cred) /\ newHost(hosts[k]) = cred
    <3>1. newHost(hosts[k]) =
            IF Failed(GetBMHBMCAddress(hosts[k])) THEN GetBMHBMCAddress(hosts[k])
            ELSE IF Failed(cred) THEN cred
            ELSE IF remoteType \notin {"redfish", "redfish-dell"} THEN Failure("unsupported")
            ELSE IF GetBMHBMCAddress(hosts[k]).val \notin BaseURLs THEN Failure("url")
            ELSE cred
      BY Zenon DEF newHost
    <3>2. Failed(Failure("unsupported")) /\ Failed(Failure("url"))
      BY DEF Failed, Failure
    <3> HIDE DEF cred
    <3> QED
      BY <2>2, <3>1, <3>2
  <2> QED
    BY <2>2, <2>3, CredentialsTaken
<1> QED
  BY <1>1, InventoryInvariant, PTL

-----------------------------------------------------------------------------
(* Plans and phases.                                                        *)

\* What the selectors of API objects and of references to them match.
LEMMA ObjectSelectors ==
    /\ \A k, n : ByObject([kind |-> k, name |-> n]) = [kind |-> k, name |-> n, ns |-> Unset, labels |-> {}]
    /\ \A ref : ByObjectReference(ref) = [kind |-> ref.kind, name |-> ref.name, ns |-> ref.ns, labels |-> {}]
<1>1. \A k : ByKind(NewSelector, k) = [kind |-> k, name |-> Unset, ns |-> Unset, labels |-> {}]
  BY DEF ByKind, NewSelector
<1>2. \A k, n : ByName(ByKind(NewSelector, k), n) = [kind |-> k, name |-> n, ns |-> Unset, labels |-> {}]
  <2> SUFFICES ASSUME NEW k, NEW n
               PROVE  ByName(ByKind(NewSelector, k), n) = [kind |-> k, name |-> n, ns |-> Unset, labels |-> {}]
    OBVIOUS
  <2>1. ByName(ByKind(NewSelector, k), n) =
          [[kind |-> k, name |-> Unset, ns |-> Unset, labels |-> {}] EXCEPT !.name = n]
    BY <1>1, Zenon DEF ByName
  <2> QED
    BY <2>1
<1>3. \A k, n : ByObject([kind |-> k, name |-> n]) = [kind |-> k, name |-> n, ns |-> Unset, labels |-> {}]
  BY <1>2 DEF ByObject
<1>4. ASSUME NEW ref
      PROVE  ByObjectReference(ref) = [kind |-> ref.kind, name |-> ref.name, ns |-> ref.ns, labels |-> {}]
  <2>1. ByObjectReference(ref) =
          [[kind |-> ref.kind, name |-> ref.name, ns |-> Unset, labels |-> {}] EXCEPT !.ns = ref.ns]
    BY <1>2, Zenon DEF ByObjectReference, ByNamespace
  <2> QED
    BY <2>1
<1> QED
  BY <1>3, <1>4

\* An API object that was found has its kind and its name, and no other has.
LEMMA ObjectFound ==
    ASSUME NEW b, NEW k \in {"Phase", "PhasePlan"}, NEW n, NEW d,
           OnlyOne(b, ByObject([kind |-> k, name |-> n]), d)
    PROVE  /\ d \in Docs(b) /\ d.kind = k /\ Names(n, d)
           /\ \A e \in Docs(b) : e.kind = k /\ Names(n, e) => e = d
<1> DEFINE sel == ByObject([kind |-> k, name |-> n])
<1>1. sel = [kind |-> k, name |-> n, ns |-> Unset, labels |-> {}]
  BY ObjectSelectors
<1> HIDE DEF sel
<1>2. Matches(sel, d) /\ \E m \in 1..Len(b) : b[m] = d
  BY DEF OnlyOne, sel
<1>3. d.kind = k /\ Names(n, d)
  BY <1>1, <1>2, UnsetAssumption DEF Matches, Names
<1>4. ASSUME NEW e \in Docs(b), e.kind = k, Names(n, e) PROVE e = d
  <2>1. PICK m \in 1..Len(b) : b[m] = e
    BY DEF Docs
  <2>2. Matches(sel, e)
    BY <1>1, <1>4 DEF Matches, Names
  <2> QED
    BY <2>1, <2>2 DEF OnlyOne, sel
<1> QED
  BY <1>2, <1>3, <1>4 DEF Docs

Elements(s) == {s[k] : k \in 1..Len(s)}

LEMMA PlanFound ==
    ASSUME NEW b \in PhaseBundles, NEW n, ~Failed(PlanOf(b, n))
    PROVE  LET p == PlanOf(b, n).val
           IN  /\ p \in Docs(b) /\ p.kind = "PhasePlan" /\ Names(n, p)
               /\ p.fields["phases"] \in Seq(Elements(p.fields["phases"]))
<1> DEFINE p == PlanOf(b, n).val
<1>1. OnlyOne(b, ByObject([kind |-> "PhasePlan", name |-> n]), p)
  BY SelectOneIs DEF PlanOf
<1>2. p \in Docs(b) /\ p.kind = "PhasePlan" /\ Names(n, p)
  BY <1>1, ObjectFound
<1> HIDE DEF p
<1>3. p.fields["phases"] \in Seq(Elements(p.fields["phases"]))
  BY <1>2, PhaseBundleAssumption DEF Elements
<1> QED
  BY <1>2, <1>3 DEF p

LEMMA PhaseFound ==
    ASSUME NEW b, NEW n, ~Failed(Phase(b, n))
    PROVE  LET ph == Phase(b, n).val
           IN  /\ OnlyOne(b, ByObject([kind |-> "Phase", name |-> n]), ph)
               /\ "executorRef" \in DOMAIN ph.fields
<1> DEFINE one == SelectOne(b, ByObject([kind |-> "Phase", name |-> n]))
<1>1. Phase(b, n) = IF ~Failed(one) /\ "executorRef" \notin DOMAIN one.val.fields
                    THEN Failure("no_executor_ref") ELSE one
  BY Zenon DEF Phase
<1>2. Failed(Failure("no_executor_ref"))
  BY DEF Failed, Failure
<1>3. ~Failed(one) => OnlyOne(b, ByObject([kind |-> "Phase", name |-> n]), one.val)
  BY SelectOneIs
<1> HIDE DEF one
<1> QED
  BY <1>1, <1>2, <1>3

LEMMA ExecutorFound ==
    ASSUME NEW b, NEW ph, ~Failed(Executor(b, ph))
    PROVE  LET ex  == Executor(b, ph).val
               ref == ph.fields["executorRef"]
           IN  ex \in Docs(b) /\ ref.kind \in {Unset, ex.kind} /\ Names(ref.name, ex)
<1> DEFINE sel == ByObjectReference(ph.fields["executorRef"])
           doc == SelectOne(b, sel)
<1>1. Executor(b, ph) = doc /\ ~Failed(doc)
  <2> DEFINE map == ClusterMap(b)
  <2>1. Executor(b, ph) = IF Failed(doc) THEN doc
                          ELSE IF doc.val.kind \notin Registry THEN Failure("no_executor")
                          ELSE IF Failed(map) THEN map
                          ELSE doc
    BY Zenon DEF Executor
  <2>2. Failed(Failure("no_executor"))
    BY DEF Failed, Failure
  <2> HIDE DEF doc, map
  <2> QED
    BY <2>1, <2>2
<1>2. OnlyOne(b, sel, doc.val)
  BY <1>1, SelectOneIs
<1> DEFINE ex == doc.val
<1> HIDE DEF doc
<1>3. Matches(sel, ex) /\ ex \in Docs(b)
  BY <1>2 DEF OnlyOne, Docs
<1>4. sel.kind = ph.fields["executorRef"].kind /\ sel.name = ph.fields["executorRef"].name
  BY ObjectSelectors
<1> HIDE DEF sel
<1> QED
  BY <1>1, <1>3, <1>4 DEF Matches, Names

\* Executor ex is the one of the phase of that name.
RunBy(b, name, ex) ==
    /\ ~Failed(Phase(b, name))
    /\ ~Failed(Executor(b, Phase(b, name).val)) /\ ex = Executor(b, Phase(b, name).val).val

PlanNames == PlanOf(snap, req.name).val.fields["phases"]

\* The names that are left are those after the first d.
Left(names, left, d) ==
    /\ left \in Seq(Elements(names)) /\ Len(left) = Len(names) - d
    /\ \A k \in 1..Len(left) : left[k] = names[d + k]

\* A plan command has started the executors of the first phases of its plan, has
\* the others before it, and has succeeded only when there are no others.
ProgressInv ==
    /\ snap \in PhaseBundles /\ snap \in seen /\ ~Failed(PlanOf(snap, req.name))
    /\ ran \in Seq(Docs(snap)) /\ Len(ran) <= Len(PlanNames)
    /\ \A n \in 1..Len(ran) : RunBy(snap, PlanNames[n], ran[n])
    /\ ppc = "lookup" => Left(PlanNames, steps, Len(ran))
    /\ ppc = "running" => Len(ran) > 0 /\ Left(PlanNames, steps, Len(ran) - 1)
    /\ presult = "ok" => Len(ran) = Len(PlanNames)

\* A command works on one bundle, which was on disk since it began.
CommandInv ==
    /\ ppc \in {"idle", "load", "lookup", "running"}
    /\ ppc # "idle" => disk \in PhaseBundles /\ disk \in seen /\ presult = "running"
    /\ ppc = "load" => ran = <<>>

PlanInv ==
    /\ CommandInv
    /\ (req.verb \in PlanVerbs /\ (ppc \in {"lookup", "running"} \/ ran # <<>> \/ presult = "ok"))
         => ProgressInv

\* What Site does to the phases.
PhasesNext ==
    \/ \E c : Request(c)
    \/ NewHelper \/ PlanDone \/ Edit \/ StartPhase
    \/ \E ok : EndPhase(ok)

LEMMA PhasesSteps ==
    ASSUME [SiteNext]_siteVars
    PROVE  [PhasesNext]_phVars
<1>1. ASSUME NEW c, Requested(c) PROVE PhasesNext
  BY <1>1 DEF Requested, PhasesNext
<1>2. ASSUME PhaseStarts PROVE PhasesNext
  BY <1>2 DEF PhaseStarts, PhasesNext
<1>3. ASSUME PhaseEnds PROVE PhasesNext
  BY <1>3 DEF PhaseEnds, PhasesNext
<1> QED
  BY <1>1, <1>2, <1>3 DEF SiteNext, siteVars, PhaseStep, PhasesNext, SiteFinished

\* A command that has loaded its bundle has an answer, or goes on.
LEMMA HelperStep ==
    ASSUME NewHelper
    PROVE  /\ ppc = "load" /\ UNCHANGED <<disk, req, phase, exec, ran, seen, requests, edits>>
           /\ ppc' = "idle" \/ (ppc' = "lookup" /\ presult' = presult)
           /\ req.verb \in PlanVerbs =>
                \/ ppc' = "idle" /\ presult' = "error"
                \/ /\ snap' = disk /\ ~Failed(PlanOf(disk, req.name)) /\ ppc' = "lookup"
                   /\ steps' = PlanOf(disk, req.name).val.fields["phases"] /\ presult' = presult
<1>1. ppc = "load" /\ UNCHANGED <<disk, req, phase, exec, ran, seen, requests, edits>>
  BY DEF NewHelper
<1>2. ASSUME NEW v, Listed(v) PROVE ppc' = "idle" /\ (Failed(v) => presult' = "error")
  BY <1>2 DEF Listed, PReturn
<1>3. ASSUME NEW names, GoOn(names) PROVE ppc' = "lookup" /\ presult' = presult /\ steps' = names
  BY <1>3 DEF GoOn
<1>4. ASSUME FindPlan(disk)
      PROVE  \/ ppc' = "idle" /\ presult' = "error"
             \/ /\ ~Failed(PlanOf(disk, req.name)) /\ ppc' = "lookup"
                /\ steps' = PlanOf(disk, req.name).val.fields["phases"] /\ presult' = presult
  BY <1>2, <1>3, <1>4 DEF FindPlan
<1>5. CASE PReturn("error")
  BY <1>1, <1>5 DEF PReturn
<1>6. CASE /\ snap' = disk
           /\ CASE req.verb = "phase list"    -> ListCommand(disk)
                [] req.verb = "plan list"     -> PlanListCommand(disk)
                [] req.verb = "cluster list"  -> ClusterListCommand(disk)
                [] req.verb = "render config" -> renderConfigBundle(disk)
                [] req.verb = "plan run"       -> PlanRunCommand(disk)
                [] req.verb = "plan validate"  -> PlanValidateCommand(disk)
                [] req.verb = "phase validate" -> ValidateCommand
                [] req.verb = "phase status"   -> StatusCommand
                [] OTHER                      -> RunCommand
  <2>1. CASE req.verb \in PlanVerbs
    <3>1. FindPlan(disk)
      BY <1>6, <2>1 DEF PlanVerbs, PlanRunCommand, PlanValidateCommand
    <3> QED
      BY <1>1, <1>4, <1>6, <3>1
  <2>2. CASE req.verb \in {"phase list", "plan list", "cluster list", "render config"}
    <3>1. \E v : Listed(v)
      BY <1>6, <2>2 DEF ListCommand, PlanListCommand, ClusterListCommand, renderConfigBundle
    <3> QED
      BY <1>1, <1>2, <2>2, <3>1 DEF PlanVerbs
  <2>3. CASE req.verb \notin PlanVerbs \cup {"phase list", "plan list", "cluster list", "render config"}
    <3>1. \E names : GoOn(names)
      BY <1>6, <2>3 DEF ValidateCommand, StatusCommand, RunCommand, PlanVerbs
    <3> QED
      BY <1>1, <1>3, <2>3, <3>1
  <2> QED
    BY <2>1, <2>2, <2>3
<1> QED
  BY <1>5, <1>6 DEF NewHelper

\* Of a phase of a plan the executor is started, or nothing is.
LEMMA StartStep ==
    ASSUME StartPhase
    PROVE  /\ ppc = "lookup" /\ steps # <<>> /\ UNCHANGED <<disk, snap, req, steps, seen>>
           /\ \/ ppc' = "idle" /\ ran' = ran /\ (presult' = "error" \/ ByEntryPoint)
              \/ /\ ppc' = "running" /\ presult' = presult
                 /\ RunBy(snap, Head(steps), Executor(snap, Phase(snap, Head(steps)).val).val)
                 /\ ran' = Append(ran, Executor(snap, Phase(snap, Head(steps)).val).val)
<1>1. ppc = "lookup" /\ steps # <<>> /\ UNCHANGED <<disk, snap, req, steps, seen>>
  BY DEF StartPhase
<1> DEFINE ph == Phase(snap, Head(steps))
           ex == Executor(snap, ph.val)
<1>2. IF Failed(ph) THEN PReturn("error") /\ UNCHANGED <<phase, exec, ran>>
      ELSE IF ByEntryPoint THEN ShowEntryPoint(ph.val)
      ELSE StartExecutor(ph.val, ex)
  BY DEF StartPhase, LookupBundle
<1>3. RunBy(snap, Head(steps), ex.val) <=> ~Failed(ph) /\ ~Failed(ex)
  BY DEF RunBy
<1> HIDE DEF ph, ex
<1>4. CASE Failed(ph) \/ ByEntryPoint
  BY <1>1, <1>2, <1>4 DEF PReturn, ShowEntryPoint
<1>5. CASE ~Failed(ph) /\ StartExecutor(ph.val, ex)
  <2>1. CASE Failed(ex)
    BY <1>1, <1>5, <2>1 DEF StartExecutor, PReturn
  <2>2. CASE ~Failed(ex)
    <3>1. ran' = Append(ran, ex.val) /\ ppc' = "running" /\ presult' = presult
      BY <1>5, <2>2 DEF StartExecutor
    <3> QED
      BY <1>1, <1>3, <1>5, <2>2, <3>1 DEF ex, ph
  <2> QED
    BY <2>1, <2>2
<1> QED
  BY <1>2, <1>4, <1>5

LEMMA CommandStep ==
    ASSUME CommandInv, [PhasesNext]_phVars
    PROVE  CommandInv'
<1> USE DEF CommandInv
<1>1. CASE UNCHANGED phVars
  BY <1>1 DEF phVars
<1>2. ASSUME NEW c, Request(c) PROVE CommandInv'
  BY <1>2 DEF Request
<1>3. CASE NewHelper
  BY <1>3, HelperStep
<1>4. CASE PlanDone
  BY <1>4 DEF PlanDone, PReturn
<1>5. CASE Edit
  BY <1>5 DEF Edit
<1>6. CASE StartPhase
  BY <1>6, StartStep
<1>7. ASSUME NEW ok, EndPhase(ok) PROVE CommandInv'
  BY <1>7 DEF EndPhase, PReturn
<1> QED
  BY <1>1, <1>2, <1>3, <1>4, <1>5, <1>6, <1>7 DEF PhasesNext

\* A step that starts no executor.
LEMMA ProgressKept ==
    ASSUME ProgressInv, UNCHANGED <<snap, req, ran>>, snap \in seen',
           ppc' = "lookup" => Left(PlanNames, steps', Len(ran)),
           ppc' = "running" => Len(ran) > 0 /\ Left(PlanNames, steps', Len(ran) - 1),
           presult' = "ok" => Len(ran) = Len(PlanNames)
    PROVE  ProgressInv'
BY DEF ProgressInv, PlanNames

PlanGoing == req.verb \in PlanVerbs /\ (ppc \in {"lookup", "running"} \/ ran # <<>> \/ presult = "ok")

LEMMA ProgressStep ==
    ASSUME PlanInv, [PhasesNext]_phVars, PlanGoing'
    PROVE  ProgressInv'
<1>0. CommandInv /\ (PlanGoing => ProgressInv)
  BY DEF PlanInv, PlanGoing
<1> DEFINE names == PlanNames
<1>00. ASSUME ProgressInv
       PROVE  /\ snap \in PhaseBundles /\ snap \in seen /\ ~Failed(PlanOf(snap, req.name))
              /\ names \in Seq(Elements(names)) /\ Len(names) \in Nat
              /\ ran \in Seq(Docs(snap)) /\ Len(ran) \in Nat
  <2>1. snap \in PhaseBundles /\ snap \in seen /\ ~Failed(PlanOf(snap, req.name))
    BY <1>00 DEF ProgressInv
  <2>2. names \in Seq(Elements(names))
    BY <2>1, PlanFound DEF PlanNames
  <2>3. ran \in Seq(Docs(snap))
    BY <1>00 DEF ProgressInv
  <2> HIDE DEF names
  <2> QED
    BY <2>1, <2>2, <2>3
<1>1. CASE UNCHANGED phVars
  <2>1. ProgressInv
    BY <1>0, <1>1 DEF phVars, PlanGoing
  <2> QED
    BY <1>1, <2>1 DEF phVars, ProgressInv, PlanNames, Left
<1>2. ASSUME NEW c, Request(c) PROVE FALSE
  BY <1>2 DEF Request, PlanGoing
<1>3. CASE NewHelper
  <2>1. /\ ran = <<>> /\ ran' = ran /\ req' = req /\ seen' = seen /\ presult = "running"
        /\ disk \in PhaseBundles /\ disk \in seen
    BY <1>0, <1>3, HelperStep DEF CommandInv
  <2>2. /\ snap' = disk /\ ~Failed(PlanOf(disk, req.name)) /\ ppc' = "lookup"
        /\ steps' = PlanOf(disk, req.name).val.fields["phases"] /\ presult' = "running"
    BY <1>3, <2>1, HelperStep DEF PlanGoing
  <2> DEFINE ns == PlanOf(disk, req.name).val.fields["phases"]
  <2>3. ns \in Seq(Elements(ns))
    BY <2>1, <2>2, PlanFound
  <2>4. PlanNames' = ns
    BY <2>1, <2>2 DEF PlanNames
  <2>5. steps' = ns
    BY <2>2
  <2> HIDE DEF ns
  <2>6. Len(ns) \in Nat /\ Len(ran') = 0 /\ ran' \in Seq(Docs(disk))
    BY <2>1, <2>3
  <2>7. Left(ns, ns, 0)
    BY <2>3, <2>6 DEF Left
  <2>8. (ppc = "lookup" => Left(PlanNames, steps, Len(ran)))'
    BY <2>4, <2>5, <2>6, <2>7
  <2>9. \A n \in 1..Len(ran') : FALSE
    BY <2>6
  <2>10. (\A n \in 1..Len(ran) : RunBy(snap, PlanNames[n], ran[n]))'
    BY <2>9
  <2>11. (Len(ran) <= Len(PlanNames))'
    BY <2>4, <2>6
  <2> QED
    BY <2>1, <2>2, <2>6, <2>8, <2>10, <2>11 DEF ProgressInv
<1>4. CASE PlanDone
  <2>1. /\ ppc = "lookup" /\ steps = <<>> /\ UNCHANGED <<snap, req, ran, seen>>
        /\ ppc' = "idle" /\ presult' = "ok"
    BY <1>4 DEF PlanDone, PReturn
  <2>2. ProgressInv
    BY <1>0, <2>1 DEF PlanGoing
  <2>3. Left(names, steps, Len(ran))
    BY <2>1, <2>2 DEF ProgressInv
  <2> HIDE DEF names
  <2>4. Len(ran) = Len(names)
    BY <1>00, <2>1, <2>2, <2>3 DEF Left
  <2> QED
    BY <1>00, <2>1, <2>2, <2>4, ProgressKept DEF names
<1>5. CASE Edit
  <2>1. /\ ppc # "idle" /\ UNCHANGED <<snap, req, ran, steps, ppc, presult>> /\ seen \subseteq seen'
    BY <1>5 DEF Edit
  <2>2. ProgressInv
    BY <1>0, <2>1 DEF PlanGoing
  <2> QED
    BY <1>00, <2>1, <2>2, ProgressKept DEF ProgressInv
<1>6. CASE StartPhase
  <2>1. /\ ppc = "lookup" /\ steps # <<>> /\ UNCHANGED <<snap, req, steps, seen>>
    BY <1>6, StartStep
  <2>2. ProgressInv /\ ~ByEntryPoint /\ presult = "running"
    BY <1>0, <2>1 DEF PlanGoing, PlanVerbs, ByEntryPoint, CommandInv
  <2>3. CASE ppc' = "idle" /\ ran' = ran /\ presult' = "error"
    BY <1>00, <2>1, <2>2, <2>3, ProgressKept
  <2> DEFINE ex == Executor(snap, Phase(snap, Head(steps)).val).val
  <2>4. CASE ppc' = "running" /\ presult' = presult /\ RunBy(snap, Head(steps), ex) /\ ran' = Append(ran, ex)
    <3>1. Left(names, steps, Len(ran))
      BY <2>1, <2>2 DEF ProgressInv
    <3>2. ex \in Docs(snap)
      BY <2>4, ExecutorFound DEF RunBy
    <3> HIDE DEF names, ex
    <3>3. steps \in Seq(Elements(names)) /\ Len(steps) \in Nat \ {0} /\ Head(steps) = steps[1]
      BY <2>1, <3>1 DEF Left
    <3>4. Head(steps) = names[Len(ran) + 1] /\ Len(ran) + 1 <= Len(names)
      BY <1>00, <2>2, <3>1, <3>3 DEF Left
    <3>5. /\ ran' \in Seq(Docs(snap)) /\ Len(ran') = Len(ran) + 1
          /\ \A n \in 1..Len(ran') : ran'[n] = IF n = Len(ran) + 1 THEN ex ELSE ran[n]
      BY <1>00, <2>2, <2>4, <3>2
    <3>6. ASSUME NEW n \in 1..Len(ran') PROVE RunBy(snap, names[n], ran'[n])
      <4>1. CASE n = Len(ran) + 1
        BY <2>4, <3>4, <3>5, <4>1
      <4>2. CASE n # Len(ran) + 1
        <5>1. n \in 1..Len(ran)
          BY <1>00, <2>2, <3>5, <4>2
        <5> QED
          BY <2>2, <3>5, <4>2, <5>1 DEF ProgressInv, names
      <4> QED
        BY <4>1, <4>2
    <3>7. names' = names /\ names = PlanNames
      BY <2>1 DEF names, PlanNames
    <3>8. Left(names, steps, Len(ran') - 1) /\ Len(ran') > 0 /\ Len(ran') <= Len(names)
      <4>1. Len(ran') - 1 = Len(ran)
        BY <1>00, <2>2, <3>5
      <4> QED
        BY <1>00, <2>2, <3>1, <3>4, <3>5, <4>1
    <3>9. PlanNames' = names
      BY <3>7 DEF names
    <3>10. (\A n \in 1..Len(ran) : RunBy(snap, PlanNames[n], ran[n]))'
      BY <2>1, <3>6, <3>9
    <3>11. (ppc = "running" => Len(ran) > 0 /\ Left(PlanNames, steps, Len(ran) - 1))'
      BY <2>1, <3>8, <3>9
    <3>12. (Len(ran) <= Len(PlanNames))' /\ (ran \in Seq(Docs(snap)))'
      BY <2>1, <3>5, <3>8, <3>9
    <3>13. (snap \in PhaseBundles /\ snap \in seen /\ ~Failed(PlanOf(snap, req.name)))'
      BY <1>00, <2>1, <2>2
    <3> QED
      BY <2>2, <2>4, <3>10, <3>11, <3>12, <3>13 DEF ProgressInv
  <2> QED
    BY <1>6, <2>2, <2>3, <2>4, StartStep
<1>7. ASSUME NEW ok, EndPhase(ok) PROVE ProgressInv'
  <2>1. /\ ppc = "running" /\ UNCHANGED <<snap, req, ran, seen>>
        /\ \/ steps' = Tail(steps) /\ ppc' = "lookup" /\ presult' = presult
           \/ ppc' = "idle" /\ presult' = "error"
    BY <1>7 DEF EndPhase, PReturn
  <2>2. ProgressInv /\ presult = "running"
    BY <1>0, <2>1 DEF PlanGoing, CommandInv
  <2>3. CASE ppc' = "idle" /\ presult' = "error"
    BY <1>00, <2>1, <2>2, <2>3, ProgressKept
  <2>4. CASE steps' = Tail(steps) /\ ppc' = "lookup" /\ presult' = presult
    <3>1. Len(ran) > 0 /\ Left(names, steps, Len(ran) - 1) /\ Len(ran) <= Len(names)
      BY <2>1, <2>2 DEF ProgressInv
    <3> HIDE DEF names
    <3>2. steps \in Seq(Elements(names)) /\ Len(steps) = Len(names) - (Len(ran) - 1)
      BY <3>1 DEF Left
    <3>3. steps # <<>>
      BY <1>00, <2>2, <3>1, <3>2
    <3>4. /\ Tail(steps) \in Seq(Elements(names)) /\ Len(Tail(steps)) = Len(steps) - 1
          /\ \A k \in 1..Len(Tail(steps)) : Tail(steps)[k] = steps[k + 1] /\ k + 1 \in 1..Len(steps)
      BY <3>2, <3>3
    <3>5. \A k \in 1..Len(steps) : steps[k] = names[Len(ran) - 1 + k]
      BY <3>1 DEF Left
    <3>6. ASSUME NEW k \in 1..Len(Tail(steps)) PROVE Tail(steps)[k] = names[Len(ran) + k]
      <4>1. Tail(steps)[k] = steps[k + 1] /\ k + 1 \in 1..Len(steps)
        BY <3>4
      <4>2. Len(ran) - 1 + (k + 1) = Len(ran) + k
        BY <1>00, <2>2
      <4> QED
        BY <3>5, <4>1, <4>2
    <3>7. Left(names, Tail(steps), Len(ran))
      <4>1. Len(Tail(steps)) = Len(names) - Len(ran)
        BY <1>00, <2>2, <3>2, <3>4
      <4> QED
        BY <3>4, <3>6, <4>1 DEF Left
    <3>8. Left(PlanNames, steps', Len(ran))
      BY <2>4, <3>7 DEF names
    <3> QED
      BY <1>00, <2>1, <2>2, <2>4, <3>8, ProgressKept
  <2> QED
    BY <2>1, <2>3, <2>4
<1> QED
  BY <1>1, <1>2, <1>3, <1>4, <1>5, <1>6, <1>7 DEF PhasesNext

LEMMA PlanInvariant == SiteSpec => []PlanInv
<1>1. SiteInit => PlanInv
  BY DEF SiteInit, PhInit, PlanInv, CommandInv, PlanVerbs
<1>2. PlanInv /\ [SiteNext]_siteVars => PlanInv'
  <2> SUFFICES ASSUME PlanInv, [SiteNext]_siteVars PROVE PlanInv'
    OBVIOUS
  <2>1. [PhasesNext]_phVars
    BY PhasesSteps
  <2>2. CommandInv'
    BY <2>1, CommandStep DEF PlanInv
  <2>3. PlanGoing' => ProgressInv'
    BY <2>1, ProgressStep
  <2> QED
    BY <2>2, <2>3 DEF PlanInv, PlanGoing
<1> QED
  BY <1>1, <1>2, PTL DEF SiteSpec

\* What a plan run starts are the executors of the phases of its plan, all from
\* one version of the manifests (phase/client.go:277).
THEOREM RunFollowsPlanHolds == SiteSpec => []RunFollowsPlan
<1>1. PlanInv => RunFollowsPlan
  <2> SUFFICES ASSUME PlanInv, req.verb \in PlanVerbs, ran # <<>> PROVE RunFollowsPlan
    BY DEF RunFollowsPlan
  <2>1. ProgressInv
    BY DEF PlanInv
  <2> DEFINE p == PlanOf(snap, req.name).val
  <2>2. /\ snap \in PhaseBundles /\ snap \in seen /\ ~Failed(PlanOf(snap, req.name))
        /\ Len(ran) <= Len(p.fields["phases"])
        /\ \A n \in 1..Len(ran) : RunBy(snap, p.fields["phases"][n], ran[n])
    BY <2>1 DEF ProgressInv, PlanNames
  <2>3. p \in Docs(snap) /\ p.kind = "PhasePlan" /\ Names(req.name, p)
    BY <2>2, PlanFound
  <2> HIDE DEF p
  <2>4. ASSUME NEW n \in 1..Len(ran)
        PROVE  LET phases == {d \in Docs(snap) : d.kind = "Phase" /\ Names(p.fields["phases"][n], d)}
               IN  /\ Cardinality(phases) = 1
                   /\ \A d \in phases :
                        /\ "executorRef" \in DOMAIN d.fields
                        /\ d.fields["executorRef"].kind \in {Unset, ran[n].kind}
                        /\ Names(d.fields["executorRef"].name, ran[n])
                        /\ ran[n] \in Docs(snap)
    <3> DEFINE name == p.fields["phases"][n]
               ph == Phase(snap, name).val
               phases == {d \in Docs(snap) : d.kind = "Phase" /\ Names(name, d)}
    <3>1. ~Failed(Phase(snap, name)) /\ ~Failed(Executor(snap, ph)) /\ ran[n] = Executor(snap, ph).val
      BY <2>2 DEF RunBy
    <3>2. OnlyOne(snap, ByObject([kind |-> "Phase", name |-> name]), ph) /\ "executorRef" \in DOMAIN ph.fields
      BY <3>1, PhaseFound
    <3>3. ran[n] \in Docs(snap) /\ ph.fields["executorRef"].kind \in {Unset, ran[n].kind}
          /\ Names(ph.fields["executorRef"].name, ran[n])
      BY <3>1, ExecutorFound
    <3> HIDE DEF ph, name
    <3>4. phases = {ph}
      BY <3>2, ObjectFound
    <3>5. Cardinality(phases) = 1
      BY <3>4, FS_Singleton
    <3> QED
      BY <3>2, <3>3, <3>4, <3>5 DEF name
  <2> QED
    BY <2>2, <2>3, <2>4 DEF RunFollowsPlan
<1> QED
  BY <1>1, PlanInvariant, PTL

\* The phases listed for a plan, when each of them is the only one of its name.
LEMMA PlanListed ==
    ASSUME NEW b \in PhaseBundles, NEW plan, plan # Unset, ~Failed(PlanOf(b, plan)),
           \A k \in 1..Len(PlanOf(b, plan).val.fields["phases"]) :
               ~Failed(Phase(b, PlanOf(b, plan).val.fields["phases"][k]))
    PROVE  LET names == PlanOf(b, plan).val.fields["phases"]
           IN  ListPhases(b, Unset, plan) = Value([k \in 1..Len(names) |-> Phase(b, names[k]).val])
<1> DEFINE names  == PlanOf(b, plan).val.fields["phases"]
           all    == Select(b, ByObject([kind |-> "Phase", name |-> Unset]))
           Doc(n) == SelectOne(all, ByObject([kind |-> "Phase", name |-> n]))
           K      == {k \in DOMAIN names : ~Failed(Doc(names[k]))}
           there  == Picked(names, K)
<1>1. names \in Seq(Elements(names))
  BY PlanFound
<1>2. ListPhases(b, Unset, plan) =
        IF Failed(PlanOf(b, plan)) THEN PlanOf(b, plan)
        ELSE IF \E k \in DOMAIN names : Doc(names[k]).err = "multiple" THEN Failure("multiple")
        ELSE Value([k \in 1..Len(there) |-> Doc(there[k]).val])
  BY Zenon DEF ListPhases, getDocsByPhasePlan, SelectBundle
<1>3. ASSUME NEW k \in 1..Len(names) PROVE Doc(names[k]) = Value(Phase(b, names[k]).val)
  <2> DEFINE ph == Phase(b, names[k]).val
             sel == ByObject([kind |-> "Phase", name |-> names[k]])
  <2>1. OnlyOne(b, sel, ph)
    BY PhaseFound
  <2>2. ph.kind = "Phase"
    <3> HIDE DEF ph, names
    <3>1. OnlyOne(b, ByObject([kind |-> "Phase", name |-> names[k]]), ph) /\ "Phase" \in {"Phase", "PhasePlan"}
      BY <2>1
    <3> QED
      BY <3>1, ObjectFound, Zenon
  <2>3. Matches(ByObject([kind |-> "Phase", name |-> Unset]), ph)
    <3>1. ByObject([kind |-> "Phase", name |-> Unset]) =
            [kind |-> "Phase", name |-> Unset, ns |-> Unset, labels |-> {}]
      BY ObjectSelectors
    <3> HIDE DEF ph
    <3> QED
      BY <2>2, <3>1 DEF Matches
  <2>4. OnlyOne(all, sel, ph)
    <3>1. IsBundle(b)
      BY PhaseBundleAssumption
    <3> HIDE DEF sel, ph
    <3> QED
      BY <2>1, <2>3, <3>1, OnlyOneOfSelection
  <2> QED
    BY <2>4, SelectOneIs
<1> HIDE DEF names, Doc, there
<1>4. DOMAIN names = 1..Len(names)
  BY <1>1
<1>5. \A k \in 1..Len(names) : ~Failed(Doc(names[k])) /\ Doc(names[k]).err = ""
  <2>1. \A v : Value(v).err = "" /\ ~Failed(Value(v))
    BY DEF Value, Failed
  <2> QED
    BY <1>3, <2>1
<1>6. there = names
  <2>1. K = 1..Len(names)
    BY <1>4, <1>5
  <2>2. Picked(names, 1..Len(names)) = names
    BY <1>1, PickedAll
  <2> QED
    BY <2>1, <2>2 DEF there
<1>7. ~ \E k \in DOMAIN names : Doc(names[k]).err = "multiple"
  BY <1>4, <1>5
<1>8. ListPhases(b, Unset, plan) = Value([k \in 1..Len(names) |-> Doc(names[k]).val])
  BY <1>2, <1>6, <1>7
<1>9. \A k \in 1..Len(names) : Doc(names[k]).val = Phase(b, names[k]).val
  BY <1>3, ValueOf
<1>10. [k \in 1..Len(names) |-> Doc(names[k]).val] = [k \in 1..Len(names) |-> Phase(b, names[k]).val]
  BY <1>9
<1> QED
  BY <1>8, <1>10 DEF names

\* What a listing of the plan shows is what a successful run of it has worked
\* through (phase/helper.go:191, phase/client.go:277).
THEOREM ListAgreesWithRunHolds == SiteSpec => []ListAgreesWithRun
<1>1. PlanInv => ListAgreesWithRun
  <2> DEFINE listed == ListPhases(snap, Unset, req.name)
             names == PlanNames
  <2> SUFFICES ASSUME PlanInv, req.verb \in PlanVerbs, presult = "ok", req.name # Unset
               PROVE  /\ ~Failed(listed) /\ Len(listed.val) = Len(ran)
                      /\ \A n \in 1..Len(ran) : Executor(snap, listed.val[n]).val = ran[n]
    BY DEF ListAgreesWithRun
  <2>1. ProgressInv
    BY DEF PlanInv
  <2>2. /\ snap \in PhaseBundles /\ ~Failed(PlanOf(snap, req.name)) /\ Len(ran) = Len(names)
        /\ \A n \in 1..Len(ran) : RunBy(snap, names[n], ran[n])
    BY <2>1 DEF ProgressInv
  <2>3. Len(names) \in Nat
    <3>1. names \in Seq(Elements(names))
      BY <2>2, PlanFound DEF PlanNames
    <3> HIDE DEF names
    <3> QED
      BY <3>1
  <2>4. listed = Value([k \in 1..Len(names) |-> Phase(snap, names[k]).val])
    BY <2>2, PlanListed DEF RunBy, PlanNames
  <2> HIDE DEF listed, names
  <2> DEFINE ps == [k \in 1..Len(names) |-> Phase(snap, names[k]).val]
  <2>5. listed.val = ps /\ ~Failed(listed)
    BY <2>4, ValueOf, Zenon
  <2>6. Len(ps) = Len(names) /\ \A n \in 1..Len(names) : ps[n] = Phase(snap, names[n]).val
    BY <2>3
  <2> HIDE DEF ps
  <2>7. \A n \in 1..Len(ran) : Executor(snap, ps[n]).val = ran[n]
    BY <2>2, <2>6 DEF RunBy
  <2> QED
    BY <2>2, <2>5, <2>6, <2>7
<1> QED
  BY <1>1, PlanInvariant, PTL

-----------------------------------------------------------------------------
(* One host at a time.                                                      *)

\* The host at hand, once its operation has begun, is the only one being operated.
OneAtATime == \A h \in AllIds : st[h] = "running" <=> (pc = "busy" /\ h = HostAt)

LEMMA OneAtATimeStep ==
    ASSUME InvInv, OneAtATime, [InventoryNext]_vars PROVE OneAtATime'
<1>1. ASSUME UNCHANGED st, pc # "busy", pc' # "busy" PROVE OneAtATime'
  BY <1>1 DEF OneAtATime
<1>2. CASE UNCHANGED vars
  BY <1>2 DEF OneAtATime, vars, HostAt, Id
<1>3. ASSUME NEW c, Begin(c) PROVE OneAtATime'
  BY <1>1, <1>3 DEF Begin, Goto
<1>4. CASE QuietStep
  <2>1. UNCHANGED <<hosts, i, st>>
    BY <1>4, Quiet
  <2>2. UNCHANGED pc \/ (pc # "busy" /\ pc' # "busy")
    BY <1>4, Quiet
  <2> QED
    BY <1>1, <2>1, <2>2 DEF OneAtATime, HostAt, Id
<1>5. CASE SelectBatch \/ SelectSingle \/ ListHosts
  BY <1>1, <1>5, SelectionStep DEF InvInv
<1>6. CASE HostAction
  <2>1. /\ pc \in {"begin", "busy"} /\ HostAt \in AllIds /\ hosts' = hosts
        /\ st \in [AllIds -> {"idle", "running", "ok", "failed"}]
        /\ \A h \in AllIds \ {HostAt} : st'[h] = st[h]
    BY <1>6, HostChange DEF InvInv, TypeOK
  <2>2. \A h \in AllIds \ {HostAt} : st'[h] # "running"
    BY <2>1 DEF OneAtATime
  <2>3. CASE BeginHost \/ HostWorks
    <3>1. st'[HostAt] = "running" /\ pc' = "busy" /\ i' = i
      BY <2>1, <2>3 DEF BeginHost, HostWorks, OnHost, Host!Begin, Host!Work, Goto
    <3>2. HostAt' = HostAt
      BY <2>1, <3>1 DEF HostAt, Id
    <3> QED
      BY <2>1, <2>2, <3>1, <3>2 DEF OneAtATime
  <2>4. CASE HostSucceeds \/ HostFails
    <3>1. st'[HostAt] \in {"ok", "failed"}
      BY <2>1, <2>4 DEF HostSucceeds, HostFails, OnHost, Host!Succeed, Host!Fail
    <3>2. pc' # "busy"
      BY <2>4 DEF HostSucceeds, HostFails, NextHost, Goto, Return
    <3> QED
      BY <2>1, <2>2, <3>1, <3>2 DEF OneAtATime
  <2> QED
    BY <1>6, <2>3, <2>4 DEF HostAction
<1> QED
  BY <1>2, <1>3, <1>4, <1>5, <1>6 DEF InventoryNext, QuietStep

\* A command operates one host after the other and leaves none behind at work
\* (baremetal.go:116): no operation is in progress but that of the host at hand.
THEOREM OneHostAtATime == SiteSpec => []OneAtATime
<1>1. SiteInit => OneAtATime
  BY DEF SiteInit, Init, OneAtATime
<1>2. InvInv /\ OneAtATime /\ [SiteNext]_siteVars => OneAtATime'
  BY InventorySteps, OneAtATimeStep
<1> QED
  BY <1>1, <1>2, InventoryInvariant, PTL DEF SiteSpec

-----------------------------------------------------------------------------
(* A command ends.                                                          *)

\* How far a phase or plan command is from its end: the phases to come, and of each its
\* executor to start and to end.
PhaseStage ==
    CASE ppc = "load"                  -> 2
      [] ppc \in {"lookup", "running"} -> 1
      [] OTHER                         -> 0
PhasesLeft == 2 * Len(steps) + (IF ppc = "lookup" THEN 1 ELSE 0)

\* How far a bare metal command is from its end: the hosts to come, and of each its
\* operation to begin and to end.
HostStage ==
    CASE pc = "start"             -> 5
      [] pc = "validate"          -> 4
      [] pc = "load"              -> 3
      [] pc = "select"            -> 2
      [] pc \in {"begin", "busy"} -> 1
      [] OTHER                    -> 0
HostsLeft ==
    IF pc \notin {"begin", "busy"} THEN 0
    ELSE 2 * (Len(hosts) - i) + (IF pc = "begin" THEN 1 ELSE 0)

PhasesLower == PhaseStage' < PhaseStage \/ (PhaseStage' = PhaseStage /\ PhasesLeft' < PhasesLeft)
HostsLower  == HostStage' < HostStage \/ (HostStage' = HostStage /\ HostsLeft' < HostsLeft)

\* A command is given; the phases to do get less; they stay and the hosts to do get less;
\* or it is a step of somebody else, which leaves both as they are.
SiteDescends ==
    \/ \E c \in Requests : Requested(c)
    \/ \E c \in Commands : GivenByHand(c)
    \/ PhasesLower
    \/ HostsLower /\ UNCHANGED phVars
    \/ (Edit \/ HostWorks \/ CtxExpires) /\ UNCHANGED <<ppc, steps, pc, hosts, i>>

\* A phase command never waits for a bare metal command but its own: hosts are operated
\* meanwhile only for the phase that is running, and its result is that of the command
\* made from the phase's executor.
WaitsForOwn ==
    /\ ppc \in {"idle", "load", "lookup", "running"}
    /\ pc # "idle" => ppc \in {"idle", "running"}
    /\ ppc = "running" =>
         /\ steps # <<>>
         /\ pc # "idle" => BareMetal(exec) /\ Runs
         /\ BareMetal(exec) /\ Runs => cmd = toCommandOptions(exec, req.dry)
    /\ requests = 0 => ppc = "idle"

StepsInv == requests \in Nat /\ steps \in Seq(Elements(steps)) /\ (ppc = "load" => disk \in PhaseBundles)

LEMMA ElementsOf == ASSUME NEW S, NEW s \in Seq(S) PROVE s \in Seq(Elements(s))
BY DEF Elements

\* What a command has to do, once its bundle is loaded.
LEMMA HelperLeaves ==
    ASSUME NewHelper, disk \in PhaseBundles
    PROVE  /\ ppc = "load" /\ ppc' \in {"idle", "lookup"} /\ requests' = requests
           /\ steps' = steps \/ steps' \in Seq(Elements(steps'))
<1>1. /\ ppc = "load" /\ requests' = requests
      /\ ppc' \in {"idle", "lookup"}
  BY HelperStep
<1>2. ASSUME NEW v, Listed(v) PROVE steps' \in Seq(Elements(steps'))
  BY <1>2 DEF Listed
<1>3. CASE UNCHANGED steps
  BY <1>1, <1>3
<1>4. CASE ListCommand(disk) \/ PlanListCommand(disk) \/ ClusterListCommand(disk)
             \/ renderConfigBundle(disk)
  BY <1>1, <1>2, <1>4 DEF ListCommand, PlanListCommand, ClusterListCommand, renderConfigBundle
<1>5. CASE FindPlan(disk)
  <2>1. \/ \E v : Listed(v)
        \/ ~Failed(PlanOf(disk, req.name)) /\ GoOn(PlanOf(disk, req.name).val.fields["phases"])
    BY <1>5 DEF FindPlan
  <2> QED
    BY <1>1, <1>2, <2>1, PlanFound DEF GoOn
<1>6. CASE GoOn(<<req.name>>)
  <2>1. steps' = <<req.name>>
    BY <1>6 DEF GoOn
  <2> QED
    BY <1>1, <2>1 DEF Elements
<1> QED
  BY <1>1, <1>3, <1>4, <1>5, <1>6 DEF NewHelper, PlanRunCommand, PlanValidateCommand, ValidateCommand,
     StatusCommand, RunCommand

LEMMA WaitsStep ==
    ASSUME WaitsForOwn, StepsInv, InvInv, [SiteNext]_siteVars
    PROVE  WaitsForOwn' /\ StepsInv'
<1> USE DEF WaitsForOwn, StepsInv
<1>1. CASE UNCHANGED siteVars
  BY <1>1 DEF siteVars, vars, phVars, Elements, Runs
<1>2. ASSUME NEW c, Requested(c) PROVE WaitsForOwn' /\ StepsInv'
  <2>1. steps' = <<>> /\ requests' = requests + 1 /\ ppc' = "load" /\ disk' \in PhaseBundles /\ pc' = "idle"
    BY <1>2 DEF Requested, Request, vars
  <2> QED
    BY <2>1
<1>3. CASE NewHelper /\ UNCHANGED vars
  <2>1. /\ ppc = "load" /\ ppc' \in {"idle", "lookup"} /\ requests' = requests
        /\ steps' = steps \/ steps' \in Seq(Elements(steps'))
    BY <1>3, HelperStep, HelperLeaves
  <2>2. steps' \in Seq(Elements(steps'))
    BY <2>1
  <2>3. WaitsForOwn'
    BY <1>3, <2>1 DEF vars
  <2> QED
    BY <2>1, <2>2, <2>3
<1>4. CASE (PlanDone \/ Edit) /\ UNCHANGED vars
  BY <1>4 DEF PlanDone, PReturn, Edit, vars, Elements, Runs
<1>5. CASE PhaseStarts
  <2>1. /\ ppc = "lookup" /\ steps # <<>> /\ UNCHANGED <<steps, requests>> /\ ppc' \in {"idle", "running"}
    BY <1>5, StartStep DEF PhaseStarts, StartPhase
  <2>2. pc = "idle" /\ req' = req
    BY <1>5, <2>1 DEF PhaseStarts, StartPhase
  <2>3. CASE ppc' = "running" /\ BareMetal(exec') /\ Runs
    <3>1. cmd' = toCommandOptions(exec', req'.dry) /\ Runs' /\ BareMetal(exec)'
      BY <1>5, <2>2, <2>3 DEF PhaseStarts, Begin, Runs, BareMetal
    <3> QED
      BY <2>1, <2>3, <3>1 DEF Elements
  <2>4. CASE ~(ppc' = "running" /\ BareMetal(exec') /\ Runs)
    <3>1. pc' = "idle" /\ (Runs' <=> Runs)
      BY <1>5, <2>2, <2>4 DEF PhaseStarts, vars, Runs
    <3> QED
      BY <2>1, <2>4, <3>1 DEF Elements, BareMetal
  <2> QED
    BY <2>3, <2>4
<1>6. CASE PhaseEnds
  <2>1. pc' = "idle" /\ ppc = "running" /\ requests' = requests /\ ppc' \in {"lookup", "idle"}
        /\ (steps' = steps \/ steps' = Tail(steps))
    BY <1>6 DEF PhaseEnds, vars, EndPhase, PReturn
  <2>2. steps' \in Seq(Elements(steps))
    BY <2>1
  <2> QED
    BY <2>1, <2>2, ElementsOf
<1>7. ASSUME NEW c \in Commands, GivenByHand(c), UNCHANGED phVars PROVE WaitsForOwn' /\ StepsInv'
  BY <1>7 DEF GivenByHand, phVars, Elements
<1>8. CASE /\ HostStep \/ HostWorks \/ HostSucceeds \/ HostFails \/ CtxExpires
           /\ UNCHANGED phVars
  <2>1. pc # "idle"
    BY <1>8 DEF HostStep, Run, Validate, BaremetalInventory, SelectBatch, SelectSingle, ListHosts, BeginHost,
       HostWorks, HostSucceeds, HostFails, CtxExpires
  <2>2. cmd' = cmd
    BY <1>8, SelectionStep, Quiet, HostChange DEF HostStep, QuietStep, HostAction, InvInv
  <2> QED
    BY <1>8, <2>1, <2>2 DEF phVars, Elements, Runs
<1> QED
  BY <1>1, <1>2, <1>3, <1>4, <1>5, <1>6, <1>7, <1>8 DEF SiteNext, PhaseStep, SiteFinished

LEMMA WaitsInvariant == SiteSpec => [](WaitsForOwn /\ StepsInv)
<1>1. SiteInit => WaitsForOwn /\ StepsInv
  BY DEF SiteInit, Init, PhInit, WaitsForOwn, StepsInv
<1>2. InvInv /\ WaitsForOwn /\ StepsInv /\ [SiteNext]_siteVars => (WaitsForOwn /\ StepsInv)'
  BY WaitsStep
<1> QED
  BY <1>1, <1>2, InventoryInvariant, PTL DEF SiteSpec

LEMMA SiteMeasure ==
    ASSUME InvInv, StepsInv
    PROVE  PhaseStage \in 0..2 /\ PhasesLeft \in Nat /\ HostStage \in 0..5 /\ HostsLeft \in Nat
<1>1. PhaseStage \in 0..2 /\ HostStage \in 0..5
  BY DEF PhaseStage, HostStage
<1>2. PhasesLeft \in Nat
  <2>1. Len(steps) \in Nat
    BY DEF StepsInv
  <2> QED
    BY <2>1 DEF PhasesLeft
<1>3. HostsLeft \in Nat
  <2>1. i \in 1..(Len(hosts) + 1) /\ (pc \in {"begin", "busy"} => i <= Len(hosts))
    BY DEF InvInv, TypeOK
  <2>2. CASE pc \notin {"begin", "busy"}
    BY <2>2 DEF HostsLeft
  <2>3. CASE pc \in {"begin", "busy"}
    <3>1. i \in 1..Len(hosts)
      BY <2>1, <2>3
    <3>2. Len(hosts) - i \in Nat
      BY <3>1
    <3> QED
      BY <2>3, <3>2 DEF HostsLeft
  <2> QED
    BY <2>2, <2>3
<1> QED
  BY <1>1, <1>2, <1>3

\* A step of a bare metal command.
LEMMA HostsStep ==
    ASSUME InvInv, HostStep \/ HostSucceeds \/ HostFails
    PROVE  HostsLower
<1>1. ASSUME HostStage' < HostStage PROVE HostsLower
  BY <1>1 DEF HostsLower
<1>2. CASE Run \/ Validate \/ BaremetalInventory
  <2>1. \/ pc = "start" /\ pc' \in {"validate", "idle"}
        \/ pc = "validate" /\ pc' \in {"load", "idle"}
        \/ pc = "load" /\ pc' \in {"select", "idle"}
    BY <1>2 DEF Run, Validate, BaremetalInventory, Goto, Return
  <2>2. HostStage' < HostStage
    BY <2>1 DEF HostStage
  <2> QED
    BY <1>1, <2>2
<1>3. CASE SelectBatch \/ SelectSingle \/ ListHosts
  <2>1. pc = "select" /\ pc' \in {"begin", "idle"}
    BY <1>3, SelectionStep DEF InvInv
  <2>2. HostStage' < HostStage
    BY <2>1 DEF HostStage
  <2> QED
    BY <1>1, <2>2
<1>4. CASE BeginHost \/ HostSucceeds \/ HostFails
  <2>1. /\ pc \in {"begin", "busy"} /\ i \in 1..Len(hosts) /\ hosts' = hosts
    BY <1>4, HostChange DEF HostAction, InvInv
  <2>2. \/ pc = "begin" /\ pc' = "busy" /\ i' = i
        \/ pc = "busy" /\ pc' = "idle"
        \/ pc = "busy" /\ pc' = "begin" /\ i' = i + 1
    BY <1>4 DEF BeginHost, HostSucceeds, HostFails, NextHost, Goto, Return
  <2>3. CASE pc' = "idle"
    <3>1. HostStage' < HostStage
      BY <2>1, <2>3 DEF HostStage
    <3> QED
      BY <1>1, <3>1
  <2>4. CASE pc' # "idle"
    <3>1. HostStage' = HostStage
      BY <2>1, <2>2, <2>4 DEF HostStage
    <3>2. Len(hosts) \in Nat /\ i \in Nat /\ Len(hosts)' = Len(hosts)
      BY <2>1 DEF InvInv, TypeOK
    <3> DEFINE l == Len(hosts)
    <3>3. \/ HostsLeft = 2 * (l - i) + 1 /\ HostsLeft' = 2 * (l - i) + 0
          \/ HostsLeft = 2 * (l - i) + 0 /\ HostsLeft' = 2 * (l - (i + 1)) + 1
      BY <2>2, <2>4, <3>2 DEF HostsLeft
    <3>4. l \in Int
      BY <3>2
    <3> HIDE DEF l
    <3>5. HostsLeft' < HostsLeft
      BY <3>2, <3>3, <3>4
    <3> QED
      BY <3>1, <3>5 DEF HostsLower
  <2> QED
    BY <2>3, <2>4
<1> QED
  BY <1>2, <1>3, <1>4 DEF HostStep

LEMMA PhasesStep ==
    ASSUME WaitsForOwn, StepsInv, NewHelper \/ PlanDone \/ StartPhase \/ (\E ok : EndPhase(ok))
    PROVE  PhasesLower
<1>1. ASSUME PhaseStage' < PhaseStage PROVE PhasesLower
  BY <1>1 DEF PhasesLower
<1>2. ASSUME \/ ppc = "load" /\ ppc' \in {"idle", "lookup"}
             \/ ppc \in {"lookup", "running"} /\ ppc' = "idle"
      PROVE  PhasesLower
  <2>1. PhaseStage' < PhaseStage
    BY <1>2 DEF PhaseStage
  <2> QED
    BY <1>1, <2>1
<1>3. Len(steps) \in Nat /\ steps \in Seq(Elements(steps))
  BY DEF StepsInv
<1>4. CASE NewHelper
  BY <1>2, <1>4, HelperStep
<1>5. CASE PlanDone
  BY <1>2, <1>5 DEF PlanDone, PReturn
<1> DEFINE l == Len(steps)
<1>6. CASE StartPhase
  <2>1. ppc = "lookup" /\ ppc' \in {"idle", "running"} /\ steps' = steps
    BY <1>6, StartStep
  <2>2. CASE ppc' = "running"
    <3>1. PhaseStage' = PhaseStage
      BY <2>1, <2>2 DEF PhaseStage
    <3>2. PhasesLeft = 2 * l + 1 /\ PhasesLeft' = 2 * l + 0
      BY <2>1, <2>2 DEF PhasesLeft
    <3>3. l \in Int
      BY <1>3
    <3> HIDE DEF l
    <3>4. PhasesLeft' < PhasesLeft
      BY <3>2, <3>3
    <3> QED
      BY <3>1, <3>4 DEF PhasesLower
  <2> QED
    BY <1>2, <2>1, <2>2
<1>7. ASSUME NEW ok, EndPhase(ok) PROVE PhasesLower
  <2>1. ppc = "running" /\ (ppc' = "idle" \/ (ppc' = "lookup" /\ steps' = Tail(steps)))
    BY <1>7 DEF EndPhase, PReturn
  <2>2. CASE ppc' = "lookup"
    <3>1. PhaseStage' = PhaseStage
      BY <2>1, <2>2 DEF PhaseStage
    <3>2. Len(steps') = l - 1
      BY <1>3, <2>1, <2>2 DEF WaitsForOwn
    <3>3. PhasesLeft = 2 * l + 0 /\ PhasesLeft' = 2 * (l - 1) + 1
      BY <2>1, <2>2, <3>2 DEF PhasesLeft
    <3>4. l \in Int
      BY <1>3
    <3> HIDE DEF l
    <3>5. PhasesLeft' < PhasesLeft
      BY <3>3, <3>4
    <3> QED
      BY <3>1, <3>5 DEF PhasesLower
  <2> QED
    BY <1>2, <2>1, <2>2
<1> QED
  BY <1>4, <1>5, <1>6, <1>7

LEMMA SiteDescendsStep ==
    ASSUME InvInv, WaitsForOwn, StepsInv, [SiteNext]_siteVars
    PROVE  [SiteDescends]_siteVars
<1> SUFFICES ASSUME SiteNext PROVE SiteDescends \/ UNCHANGED siteVars
  OBVIOUS
<1>1. ASSUME NEW c \in Requests, Requested(c) PROVE SiteDescends
  BY <1>1 DEF SiteDescends
<1>2. ASSUME NEW c \in Commands, GivenByHand(c) PROVE SiteDescends
  BY <1>2 DEF SiteDescends
<1>3. CASE PhaseStep \/ PhaseStarts \/ PhaseEnds
  <2>1. NewHelper \/ PlanDone \/ StartPhase \/ \E ok : EndPhase(ok)
    BY <1>3 DEF PhaseStep, PhaseStarts, PhaseEnds
  <2> QED
    BY <2>1, PhasesStep DEF SiteDescends
<1>4. CASE Edit /\ UNCHANGED vars
  BY <1>4 DEF Edit, SiteDescends, vars
<1>5. CASE (HostWorks \/ CtxExpires) /\ UNCHANGED phVars
  <2>1. UNCHANGED <<pc, hosts, i>>
    BY <1>5 DEF HostWorks, CtxExpires, OnHost, Goto
  <2> QED
    BY <1>5, <2>1 DEF SiteDescends, phVars
<1>6. CASE (HostStep \/ HostSucceeds \/ HostFails) /\ UNCHANGED phVars
  BY <1>6, HostsStep DEF SiteDescends
<1>7. CASE SiteFinished
  BY <1>7 DEF SiteFinished
<1> QED
  BY <1>1, <1>2, <1>3, <1>4, <1>5, <1>6, <1>7 DEF SiteNext

\* A phase, plan or bare metal command comes to its end (client.go:277, baremetal.go:116):
\* every step of the program lowers the phases and the hosts that it has yet to work on,
\* whatever the hosts do and however the manifests change, and what a phase command waits
\* for, and returns the result of, is the command of its own phase.
THEOREM CommandsDescend ==
    SiteSpec => /\ [](/\ PhaseStage \in 0..2 /\ PhasesLeft \in Nat
                      /\ HostStage \in 0..5 /\ HostsLeft \in Nat /\ WaitsForOwn)
                /\ [][SiteDescends]_siteVars
BY SiteMeasure, SiteDescendsStep, WaitsInvariant, InventoryInvariant, PTL DEF SiteSpec

=============================================================================
