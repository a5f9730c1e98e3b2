------------------------------- MODULE Phases -------------------------------
(***************************************************************************)
(* How the phase, plan and cluster commands find what they work on         *)
(* (pkg/phase: helper.go, client.go, command.go, render.go).  A command    *)
(* loads the phase bundle of the site once, looks phases, plans and        *)
(* executors up in it, and runs the executors one after the other; the     *)
(* manifests on disk may change at any time.                               *)
(***************************************************************************)
EXTENDS Documents

CONSTANTS
    PhaseBundles,   \* the phase bundles considered, as kustomize builds them
    Requests,       \* the commands considered
    MaxRequests,    \* bound: commands of one history
    MaxEdits        \* bound: changes of the manifests

\* A bundle is a sequence of documents, and a plan lists its phases in one.
ASSUME PhaseBundleAssumption ==
    \A b \in PhaseBundles :
        /\ IsBundle(b)
        /\ \A d \in Docs(b) : d.kind = "PhasePlan" =>
             LET names == d.fields["phases"]
             IN  names \in Seq({names[k] : k \in 1..Len(names)})

VARIABLES
    disk,      \* the phase bundle as it would be built now
    snap,      \* the bundle the command loaded
    req,       \* the command
    ppc,       \* its next step
    steps,     \* names of the phases it has yet to work on
    phase,     \* document of the phase at hand
    exec,      \* document of its executor
    ran,       \* observer: executors this command started
    answer,    \* what a listing printed
    presult,   \* what the command returned
    seen,      \* observer: the bundles on disk since the command began
    requests, edits

phVars == <<disk, snap, req, ppc, steps, phase, exec, ran, answer, presult, seen, requests,
            edits>>

-----------------------------------------------------------------------------
(* Lookups (Helper).                                                        *)

\* The phase of that name; it has to name an executor.  The namespace of the
\* phase id is not part of the selector.
Phase(b, name) ==
    LET one == SelectOne(b, ByObject([kind |-> "Phase", name |-> name]))
    IN  IF ~Failed(one) /\ "executorRef" \notin DOMAIN one.val.fields
        THEN Failure("no_executor_ref") ELSE one

PlanOf(b, name) == SelectOne(b, ByObject([kind |-> "PhasePlan", name |-> name]))

ListPlans(b) == Select(b, ByObject([kind |-> "PhasePlan", name |-> Unset]))

\* The phases of a plan that are in the bundle rest, in the order of the plan;
\* a phase that is not there is left out, one that is there twice is an error.
getDocsByPhasePlanMutant(b, name, rest) ==
    LET p     == PlanOf(b, name)
        names == {p.val.fields["phases"][k] : k \in DOMAIN p.val.fields["phases"]}
    IN  IF Failed(p) THEN p ELSE Value(SelectSeq(rest, LAMBDA d : d.name \in names))
getDocsByPhasePlan(b, name, rest) ==
    LET p      == PlanOf(b, name)
        names  == p.val.fields["phases"]
        Doc(n) == SelectOne(rest, ByObject([kind |-> "Phase", name |-> n]))
        there  == Picked(names, {k \in DOMAIN names : ~Failed(Doc(names[k]))})
    IN  IF Failed(p) THEN p
        ELSE IF \E k \in DOMAIN names : Doc(names[k]).err = "multiple" THEN Failure("multiple")
        ELSE Value([k \in 1..Len(there) |-> Doc(there[k]).val])

\* Phases of a cluster, if one is given, and of a plan, if one is given.
ListPhases(b, cluster, plan) ==
    LET all  == SelectBundle(b, ByObject([kind |-> "Phase", name |-> Unset]))
        rest == IF cluster = Unset THEN all
                ELSE SelectByFieldValue(all, "clusterName", {cluster})
    IN  IF plan = Unset THEN Value(rest) ELSE getDocsByPhasePlan(b, plan, rest)

ClusterMap(b) == SelectOne(b, ByObject([kind |-> "ClusterMap", name |-> Unset]))

\* The kinds that RegisterExecutor knows.
Registry == {"Clusterctl", "KubernetesApply", "GenericContainer", "BootConfiguration",
             "BaremetalManager"}

\* The executor of a phase: its document, a factory for its kind, the cluster map.
Executor(b, ph) ==
    LET doc == SelectOne(b, ByObjectReference(ph.fields["executorRef"]))
        map == ClusterMap(b)
    IN  IF Failed(doc) THEN doc
        ELSE IF doc.val.kind \notin Registry THEN Failure("no_executor")
        ELSE IF Failed(map) THEN map
        ELSE doc

\* Where the documents of the phase are.
DocumentRoot(ph) == GetString(ph, "documentEntryPoint")

\* The executor document of the validator container.
Validator(b) == SelectOne(b, ByName(ByKind(NewSelector, "GenericContainer"), "document-validation"))

-----------------------------------------------------------------------------
(* The commands.                                                            *)

PhInit ==
    /\ disk = <<>> /\ snap = <<>>
    /\ req = [verb |-> "none", name |-> Unset, cluster |-> Unset, dry |-> FALSE]
    /\ ppc = "idle" /\ steps = <<>> /\ phase = NoValue /\ exec = NoValue
    /\ ran = <<>> /\ answer = NoValue /\ presult = "none" /\ seen = {disk}
    /\ requests = 0 /\ edits = 0

\* The commands, as their arguments and flags give them.
Req(verb, name, cluster, dry) == [verb |-> verb, name |-> name, cluster |-> cluster, dry |-> dry]
NewPhaseRunCommand(name, dry)    == Req("phase run", name, Unset, dry)
NewPhaseValidateCommand(name)    == Req("phase validate", name, Unset, FALSE)
NewPhaseStatusCommand(name)      == Req("phase status", name, Unset, FALSE)
NewPhaseTreeCommand(name)        == Req("phase tree", name, Unset, FALSE)
NewRenderCommand(source, name)   == Req("render " \o source, name, Unset, FALSE)
NewPhaseListCommand(cluster, plan) == Req("phase list", plan, cluster, FALSE)
NewPlanListCommand               == Req("plan list", Unset, Unset, FALSE)
NewPlanRunCommand(name, dry)     == Req("plan run", name, Unset, dry)
NewPlanValidateCommand(name)     == Req("plan validate", name, Unset, FALSE)
NewClusterListCommand            == Req("cluster list", Unset, Unset, FALSE)

PReturn(res) == ppc' = "idle" /\ presult' = res

\* A command is given; since the last one the manifests may have become any.
Request(c) ==
    /\ ppc = "idle" /\ requests < MaxRequests
    /\ req' = c /\ ppc' = "load" /\ presult' = "running"
    /\ steps' = <<>> /\ phase' = NoValue /\ exec' = NoValue /\ ran' = <<>> /\ answer' = NoValue
    /\ disk' \in PhaseBundles /\ seen' = {disk'} /\ requests' = requests + 1
    /\ UNCHANGED <<snap, edits>>

\* Somebody edits or pulls the manifests while a command runs.
Edit ==
    /\ ppc # "idle" /\ edits < MaxEdits /\ edits' = edits + 1
    /\ disk' \in PhaseBundles \ {disk} /\ seen' = seen \cup {disk'}
    /\ UNCHANGED <<snap, req, ppc, steps, phase, exec, ran, answer, presult, requests>>

\* What each command does with the bundle b that it loaded: a listing is
\* answered at once, a plan has to be found, a phase is looked up next.
Listed(v) == answer' = v /\ steps' = <<>> /\ PReturn(IF Failed(v) THEN "error" ELSE "ok")
GoOn(names) == steps' = names /\ answer' = NoValue /\ ppc' = "lookup" /\ presult' = presult

ListCommand(b)        == Listed(ListPhases(b, req.cluster, req.name))
PlanListCommand(b)    == Listed(Value(ListPlans(b)))
ClusterListCommand(b) == Listed(ClusterMap(b))
renderConfigBundle(b) == Listed(Value(SelectBundle(b, NewSelector)))
FindPlan(b) ==
    LET p == PlanOf(b, req.name)
    IN  IF Failed(p) THEN Listed(p) ELSE GoOn(p.val.fields["phases"])
PlanRunCommand(b) == FindPlan(b)
PlanValidateCommand(b) == FindPlan(b)
RunCommand      == GoOn(<<req.name>>)
ValidateCommand == GoOn(<<req.name>>)
StatusCommand   == GoOn(<<req.name>>)

\* NewHelper: configuration, metadata and phase bundle are read, or one of them
\* or a flag is wrong; then the command goes on.
NewHelper ==
    /\ ppc = "load"
    /\ \/ PReturn("error") /\ UNCHANGED <<snap, steps, answer>>
       \/ /\ snap' = disk
          /\ CASE req.verb = "phase list"    -> ListCommand(disk)
               [] req.verb = "plan list"     -> PlanListCommand(disk)
               [] req.verb = "cluster list"  -> ClusterListCommand(disk)
               [] req.verb = "render config" -> renderConfigBundle(disk)
               [] req.verb = "plan run"       -> PlanRunCommand(disk)
               [] req.verb = "plan validate"  -> PlanValidateCommand(disk)
               [] req.verb = "phase validate" -> ValidateCommand
               [] req.verb = "phase status"   -> StatusCommand
               [] OTHER                      -> RunCommand
    /\ UNCHANGED <<disk, req, phase, exec, ran, seen, requests, edits>>

\* The bundle in which the next phase is looked up.
LookupBundleMutant == disk
LookupBundle == snap

\* The tree, and the documents of the phase itself, are read at its entry point.
ByEntryPoint == req.verb \in {"phase tree", "render phase"}
ShowEntryPoint(ph) ==
    /\ phase' = ph /\ UNCHANGED <<exec, ran>>
    /\ \E there \in BOOLEAN :
         PReturn(IF Failed(DocumentRoot(ph)) \/ ~there THEN "error" ELSE "ok")

\* Everything else is done by the executor.
StartExecutor(ph, ex) ==
    IF Failed(ex) THEN PReturn("error") /\ UNCHANGED <<phase, exec, ran>>
    ELSE /\ phase' = ph /\ exec' = ex.val /\ ran' = Append(ran, ex.val)
         /\ ppc' = "running" /\ presult' = presult

\* PhaseByID for the next phase, and its executor.
StartPhase ==
    /\ ppc = "lookup" /\ steps # <<>>
    /\ \E ph \in {Phase(LookupBundle, Head(steps))} :
         IF Failed(ph) THEN PReturn("error") /\ UNCHANGED <<phase, exec, ran>>
         ELSE IF ByEntryPoint THEN ShowEntryPoint(ph.val)
         ELSE \E ex \in {Executor(LookupBundle, ph.val)} : StartExecutor(ph.val, ex)
    /\ UNCHANGED <<disk, snap, req, steps, answer, seen, requests, edits>>

\* The plan is done.
PlanDone ==
    /\ ppc = "lookup" /\ steps = <<>> /\ PReturn("ok")
    /\ UNCHANGED <<disk, snap, req, steps, phase, exec, ran, answer, seen, requests, edits>>

\* A validation needs the validator container too.
validate(ok) ==
    ok /\ req.verb \in {"phase validate", "plan validate"} => ~Failed(Validator(snap))

\* No executor implements Status.
Status(ok) == ok => req.verb # "phase status"

\* The executor has run, has rendered or has validated the phase.
EndPhase(ok) ==
    /\ ppc = "running" /\ validate(ok) /\ Status(ok)
    /\ IF ok THEN steps' = Tail(steps) /\ ppc' = "lookup" /\ presult' = presult
       ELSE PReturn("error") /\ steps' = steps
    /\ UNCHANGED <<disk, snap, req, phase, exec, ran, answer, seen, requests, edits>>

-----------------------------------------------------------------------------
(* Properties.                                                              *)

PlanVerbs == {"plan run", "plan validate"}

\* An empty name stands for any.
Names(n, d) == n \in {Unset, d.name}

\* The executors a plan run starts are, in order, the ones that the phases of
\* the plan refer to in one version of the manifests, in which each of those
\* phases is the only one of its name: an edit during the run does not mix two
\* versions (client.go:277).
RunFollowsPlan ==
    (req.verb \in PlanVerbs /\ ran # <<>>) =>
        \E b \in seen : \E p \in Docs(b) :
            /\ p.kind = "PhasePlan" /\ Names(req.name, p)
            /\ Len(ran) <= Len(p.fields["phases"])
            /\ \A n \in 1..Len(ran) :
                 LET phases == {d \in Docs(b) : d.kind = "Phase" /\ Names(p.fields["phases"][n], d)}
                 IN  /\ Cardinality(phases) = 1
                     /\ \A d \in phases :
                          /\ "executorRef" \in DOMAIN d.fields
                          /\ d.fields["executorRef"].kind \in {Unset, ran[n].kind}
                          /\ Names(d.fields["executorRef"].name, ran[n])
                          /\ ran[n] \in Docs(b)

\* What "phase list --plan" would have shown for the same manifests is what a
\* successful plan run has worked through, phase by phase (helper.go:191,
\* client.go:277); without a name it lists the phases of all plans.
ListAgreesWithRun ==
    (req.verb \in PlanVerbs /\ presult = "ok" /\ req.name # Unset) =>
        LET listed == ListPhases(snap, Unset, req.name)
        IN  /\ ~Failed(listed) /\ Len(listed.val) = Len(ran)
            /\ \A n \in 1..Len(ran) : Executor(snap, listed.val[n]).val = ran[n]

=============================================================================
