-------------------------------- MODULE Plan --------------------------------
(***************************************************************************)
(* airshipctl plan run and plan validate (pkg/phase), with the executors   *)
(* of the phases (pkg/phase/executors).                                    *)
(*                                                                         *)
(* A plan is a list of phases that run one after the other.  A command can *)
(* fail or be killed at any step and be given again, from the start or     *)
(* with --resume-from.  What a command leaves behind is the state of the   *)
(* site, a temporary kubeconfig file and the validator's schema cache.     *)
(***************************************************************************)
EXTENDS Naturals, Sequences

CONSTANTS
    Phases,       \* phase names
    Known,        \* those with a Phase document in the bundle
    Plans,        \* the plans considered
    NoPhase,      \* no --resume-from was given
    Typo,         \* a --resume-from that names no phase
    MaxCmds       \* bound: commands of one history

ASSUME PhasesAssumption == Known \subseteq Phases /\ NoPhase \notin Phases /\ Typo \notin Phases
ASSUME PlansAssumption == Plans \subseteq Seq(Phases)
ASSUME BoundAssumption == MaxCmds \in Nat

VARIABLES
    \* the manifests
    plan,        \* the phases of the plan document
    kind,        \* kind[ph]: executor of phase ph
    kubecfg,     \* phases whose executor asks the builder for a kubeconfig file
    \* the command
    cmd, dry, resume,
    k,           \* index of the current phase in plan
    pc,          \* next step
    status,      \* what the executor is about to return
    env,         \* VALIDATOR_PREVENT_CLEANUP is set
    result,      \* what the command returned
    \* what outlives it
    tmp,         \* the command's temporary kubeconfig file exists
    cache,       \* the validator's schema directory exists
    cmds,
    \* observers, by index in plan
    touched,     \* phases whose executor started to change the site
    completed,   \* phases that succeeded, in a real run
    skipped,     \* phases some --resume-from asked to skip
    doneNow,     \* phases that succeeded in this command
    dryTouched   \* phases that changed the site in a dry run

manifests == <<plan, kind, kubecfg>>
command   == <<cmd, dry, resume, env>>
observers == <<touched, completed, skipped, doneNow, dryTouched>>
vars == <<plan, kind, kubecfg, cmd, dry, resume, k, pc, status, env, result, tmp, cache, cmds,
          touched, completed, skipped, doneNow, dryTouched>>

Kinds == {"apply", "init", "move", "container", "ephemeral", "baremetal"}
Clusterctl == {"init", "move"}
Indices == 1..Len(plan)

TypeOK ==
    /\ plan \in Plans /\ kind \in [Phases -> Kinds] /\ kubecfg \subseteq Phases
    /\ cmd \in {"run", "validate"} /\ dry \in BOOLEAN
    /\ resume \in Phases \cup {NoPhase, Typo}
    /\ pc \in {"idle", "lookup", "file", "context", "prepare", "change", "cleanup",
               "check", "validator"}
    /\ k \in Nat /\ (pc # "idle" => k \in Indices)
    /\ status \in {"ok", "error"} /\ env \in BOOLEAN
    /\ result \in {"none", "running", "ok", "error", "fatal", "crashed"}
    /\ tmp \in BOOLEAN /\ cache \in BOOLEAN /\ cmds \in 0..MaxCmds
    /\ touched \subseteq Indices /\ completed \subseteq Indices /\ skipped \subseteq Indices
    /\ doneNow \subseteq Indices /\ dryTouched \subseteq Indices

\* clusterctl always needs a kubeconfig, the bootstrap and bare metal executors never do.
Init ==
    /\ plan \in Plans /\ kind \in [Phases -> Kinds]
    /\ kubecfg \in SUBSET Phases
    /\ \A ph \in Phases :
         /\ kind[ph] \in Clusterctl => ph \in kubecfg
         /\ kind[ph] \in {"ephemeral", "baremetal"} => ph \notin kubecfg
    /\ cmd = "run" /\ dry = FALSE /\ resume = NoPhase
    /\ k = 1 /\ pc = "idle" /\ status = "ok" /\ env = FALSE /\ result = "none"
    /\ tmp = FALSE /\ cache = FALSE /\ cmds = 0
    /\ touched = {} /\ completed = {} /\ skipped = {} /\ doneNow = {} /\ dryTouched = {}

Kind == kind[plan[k]]

-----------------------------------------------------------------------------
(* Plan.Run: the loop over the phases.                                      *)

\* Where the loop starts: at the first phase of that name, if there is one.
Occurs(name) == \E j \in Indices : plan[j] = name
IsFirst(name, j) == plan[j] = name /\ \A n \in 1..(j - 1) : plan[n] # name
Resumed(name) ==
    IF Occurs(name) THEN CHOOSE j \in Indices : IsFirst(name, j) ELSE 1

\* "skip all phases before the specified one" (cmd/plan/run.go:68).
SkippedBy(name) == {j \in Indices : Occurs(name) /\ \A n \in 1..j : plan[n] # name}

\* The loop makes another turn after phase number n.
MoreStepsMutant(n) == n + 1 < Len(plan)
MoreSteps(n) == n < Len(plan)

Return(res) == pc' = "idle" /\ result' = res /\ k' = k

\* The current phase has succeeded: the next one, or the end of the plan.
StepSucceeds ==
    /\ doneNow' = doneNow \cup {k}
    /\ IF MoreSteps(k) THEN pc' = "lookup" /\ k' = k + 1 /\ result' = result
       ELSE Return("ok")

StepFailsMutant ==
    /\ doneNow' = doneNow
    /\ IF MoreSteps(k) THEN pc' = "lookup" /\ k' = k + 1 /\ result' = result
       ELSE Return("error")
StepFails == doneNow' = doneNow /\ Return("error")

\* A plan command is given.  Loading the configuration and the plan can fail.
Begin(c, d, name) ==
    /\ pc = "idle" /\ cmds < MaxCmds /\ cmds' = cmds + 1
    /\ c = "validate" => ~d /\ name = NoPhase
    /\ cmd' = c /\ dry' = d /\ resume' = name
    /\ doneNow' = {} /\ tmp' = FALSE /\ status' = "ok"
    /\ k' = Resumed(name) /\ env' = (c = "validate")
    /\ \/ /\ pc' = "idle" /\ result' = "error" /\ skipped' = skipped
       \/ /\ pc' = IF plan = <<>> THEN "idle" ELSE "lookup"
          /\ result' = IF plan = <<>> THEN "ok" ELSE "running"
          /\ skipped' = skipped \cup (IF d THEN {} ELSE SkippedBy(name))
    /\ UNCHANGED <<manifests, cache, touched, completed, dryTouched>>

-----------------------------------------------------------------------------
(* phase.Run.                                                               *)

Quiet == UNCHANGED <<manifests, command, cache, cmds, touched, skipped, dryTouched>>

Goto(p) == pc' = p /\ UNCHANGED <<k, result, doneNow>>

\* The executor returns res; its deferred cleanup comes first.
ExecutorReturns(res) == status' = res /\ Goto("cleanup")

\* First step of the executor's Run.
Entry ==
    CASE plan[k] \notin kubecfg -> "prepare"
      [] Kind \in Clusterctl -> "file"
      [] OTHER -> "context"

\* Phase n is the last one: the validator may clean up after it.
IsLastMutant(n) == n = Len(plan) + 1
IsLast(n) == n = Len(plan)

\* PhaseByID and Executor: the documents are there, or not.
Lookup ==
    /\ pc = "lookup"
    /\ env' = (env /\ ~(cmd = "validate" /\ IsLast(k)))
    /\ \/ plan[k] \in Known /\ cmd = "run" /\ Goto(Entry)
       \/ plan[k] \in Known /\ cmd = "validate" /\ Goto("check")
       \/ StepFails
    /\ UNCHANGED <<manifests, cmd, dry, resume, cache, cmds, touched, skipped, dryTouched,
                   status, tmp, completed>>

\* The context name from the cluster map: first in two executors, and second in
\* clusterctl, which then has a file to clean up.
ContextFailsMutant == StepFails /\ UNCHANGED status
ContextFails == ExecutorReturns("error")

Context ==
    /\ pc = "context"
    /\ \/ Goto(IF Kind \in Clusterctl THEN "prepare" ELSE "file") /\ UNCHANGED status
       \/ ContextFails
    /\ UNCHANGED <<tmp, completed>> /\ Quiet

\* GetFile: the kubeconfig is built and written to a temporary file.  A failed
\* write removes the file again.
File ==
    /\ pc = "file"
    /\ \/ /\ tmp' = TRUE /\ UNCHANGED status
          /\ Goto(IF Kind \in Clusterctl THEN "context" ELSE "prepare")
       \/ tmp' = tmp /\ ExecutorReturns("error")
       \/ tmp' = TRUE /\ Return("fatal") /\ UNCHANGED <<status, doneNow>>
    /\ UNCHANGED completed /\ Quiet

\* The executors that return here in a dry run.
DrySkips == dry /\ Kind \in {"container", "ephemeral", "baremetal"}

\* Documents, configuration and parent cluster of the executor.
Prepare ==
    /\ pc = "prepare"
    /\ \/ ~(dry /\ Kind = "ephemeral") /\ ExecutorReturns("error")
       \/ DrySkips /\ ExecutorReturns("ok")
       \/ ~DrySkips /\ Goto("change") /\ UNCHANGED status
    /\ UNCHANGED <<tmp, completed>> /\ Quiet

\* The executors that tell the container about the dry run.  init() is not told.
DryRunPassed == Kind \in {"apply", "move"}

\* The container or the bare metal operation runs.  It may fail half-way.
Change ==
    /\ pc = "change"
    /\ touched' = IF dry THEN touched ELSE touched \cup {k}
    /\ dryTouched' = IF dry /\ ~DryRunPassed THEN dryTouched \cup {k} ELSE dryTouched
    /\ ExecutorReturns("ok") \/ ExecutorReturns("error")
    /\ UNCHANGED <<manifests, command, cache, cmds, skipped, tmp, completed>>

\* The deferred cleanup; a file that cannot be removed ends the program.
Cleanup ==
    /\ pc = "cleanup"
    /\ \/ /\ tmp' = FALSE
          /\ IF status = "ok" THEN StepSucceeds ELSE StepFails
          /\ completed' = IF status = "ok" /\ ~dry THEN completed \cup {k} ELSE completed
       \/ tmp /\ Return("fatal") /\ UNCHANGED <<tmp, doneNow, completed>>
    /\ status' = status /\ Quiet

-----------------------------------------------------------------------------
(* Plan.Validate.                                                           *)

\* The executor's Validate and Render, and the validator's documents.  Validate
\* of the ephemeral executor is not implemented.
Check ==
    /\ pc = "check"
    /\ \/ Kind # "ephemeral" /\ Goto("validator")
       \/ StepFails
    /\ UNCHANGED <<status, tmp, completed>> /\ Quiet

\* The validator container: it does not start, finds no fault, or finds one.
Validator ==
    /\ pc = "validator"
    /\ \/ cache' = cache /\ StepFails
       \/ cache' = FALSE /\ StepFails
       \/ cache' = env /\ StepSucceeds
    /\ UNCHANGED <<manifests, command, cmds, touched, skipped, dryTouched, status, tmp, completed>>

-----------------------------------------------------------------------------
\* The process is killed (in the middle of Change: after it); a validator that was
\* running may have created or removed its directory.
Crash ==
    /\ pc # "idle" /\ Return("crashed")
    /\ cache' \in {cache} \cup (IF pc = "validator" THEN BOOLEAN ELSE {})
    /\ UNCHANGED <<manifests, command, status, tmp, cmds, observers>>

\* Every command of this history has ended.
Finished == pc = "idle" /\ cmds = MaxCmds /\ UNCHANGED vars

Next ==
    \/ \E c \in {"run", "validate"}, d \in BOOLEAN, n \in Phases \cup {NoPhase, Typo} : Begin(c, d, n)
    \/ Lookup \/ Context \/ File \/ Prepare \/ Change \/ Cleanup \/ Check \/ Validator
    \/ Crash \/ Finished

Spec == Init /\ [][Next]_vars

-----------------------------------------------------------------------------
(* Properties.                                                              *)

\* However often a plan fails, is killed and is resumed, no phase starts to change
\* the site unless every phase before it has succeeded, or was skipped because a
\* --resume-from asked for it (Plan.Run, pkg/phase/client.go:266).
RunsInOrder == \A j \in touched : 1..(j - 1) \subseteq completed \cup skipped

\* A command that returns nil has done its work for every phase of the plan, but
\* for those before the phase it was told to resume from (client.go:243, 266).
SuccessMeansAll ==
    (pc = "idle" /\ result = "ok") =>
        \A j \in Indices : j \in doneNow <=> j \notin SkippedBy(resume)

\* No temporary kubeconfig, which holds the keys of the site's clusters, is left
\* behind by a command that returns, whatever step of it failed: every executor's
\* early return goes through the cleanup (clusterctl.go:192, kubeconfig.go:240).
NoTempLeft == (pc = "idle" /\ result \in {"ok", "error"}) => ~tmp

\* A plan validated without error leaves no schemas behind, which would decide the
\* next validation: the validator keeps them between the phases of a plan only
\* (client.go:244, krm-functions/kubeval-validator/image/main.go:167).
CacheGone ==
    (pc = "idle" /\ cmd = "validate" /\ result = "ok" /\ plan # <<>>) => ~cache

\* "--dry-run: simulate phase execution" (cmd/plan/run.go:69): a dry run does not
\* change the site.
DryRunChangesNothing == dryTouched = {}

=============================================================================
