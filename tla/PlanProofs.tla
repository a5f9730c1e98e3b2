----------------------------- MODULE PlanProofs -----------------------------
(***************************************************************************)
(* Proofs about Plan, for every set of plans, phases and executors and for *)
(* histories of any length: the order of the phases is kept, success       *)
(* covers every phase, neither a kubeconfig nor a schema cache is left, and*)
(* a dry run changes the site in the phases of clusterctl init alone.      *)
(***************************************************************************)
EXTENDS Plan, WellFoundedInduction, TLAPS

-----------------------------------------------------------------------------
(* The inductive invariant.                                                 *)

\* Which steps belong to which command.
CommandInv ==
    /\ pc \in {"file", "context", "prepare", "change", "cleanup"} => cmd = "run"
    /\ pc \in {"check", "validator"} => cmd = "validate"
    /\ cmd = "validate" => ~dry

\* Between two executors there is no temporary file; clusterctl alone writes it
\* before it looks up the context.
TmpInv ==
    /\ pc \in {"lookup", "file", "check", "validator"} => ~tmp
    /\ (pc = "context" /\ Kind \notin Clusterctl) => ~tmp

\* In a real run everything before the current phase is behind us.
OrderInv ==
    (pc # "idle" /\ cmd = "run" /\ ~dry) => 1..(k - 1) \subseteq completed \cup skipped

\* What this command has done so far: the phases from the start of the loop to the
\* current one.
DoneInv ==
    pc # "idle" =>
        \A j \in Indices :
            /\ j < k => (j \in doneNow <=> j \notin SkippedBy(resume))
            /\ j >= k => j \notin doneNow /\ j \notin SkippedBy(resume)

\* The validator is told to keep its cache for every phase but the last.
EnvInv ==
    cmd = "validate" =>
        /\ pc = "lookup" => env
        /\ pc \in {"check", "validator"} => (env <=> k # Len(plan))

IndInv ==
    /\ TypeOK /\ CommandInv /\ TmpInv /\ OrderInv /\ DoneInv /\ EnvInv
    /\ RunsInOrder /\ SuccessMeansAll /\ NoTempLeft /\ CacheGone

-----------------------------------------------------------------------------
(* Where a resumed plan starts.                                             *)

LessThan == {q \in Nat \X Nat : q[1] < q[2]}

\* A set of natural numbers that is not empty has a least element.
LEMMA LeastElement ==
  ASSUME NEW S \in SUBSET Nat, S # {}
  PROVE  \E n \in S : \A m \in S : n <= m
<1>1. IsWellFoundedOn(LessThan, Nat)
  <2>1. IsWellFoundedOn(OpToRel(<, Nat), Nat)
    BY NatLessThanWellFounded
  <2>2. OpToRel(<, Nat) = LessThan
    BY DEF OpToRel, LessThan
  <2> QED BY <2>1, <2>2
<1>2. PICK n \in S : \A m \in S : ~ (<<m, n>> \in LessThan)
  BY <1>1, WFMin
<1>3. ASSUME NEW m \in S PROVE n <= m
  <2>1. m \in Nat /\ n \in Nat OBVIOUS
  <2>2. <<m, n>> \notin LessThan BY <1>2
  <2>3. ~(m < n) BY <2>1, <2>2 DEF LessThan
  <2> QED BY <2>1, <2>3
<1> QED BY <1>3

\* A name that occurs in the plan occurs there for a first time.
LEMMA FirstOccurrence ==
  ASSUME plan \in Seq(Phases), NEW name, Occurs(name)
  PROVE  \E j \in Indices : IsFirst(name, j)
<1> DEFINE At == {j \in Indices : plan[j] = name}
<1>1. Len(plan) \in Nat OBVIOUS
<1>2. At \in SUBSET Nat BY <1>1 DEF Indices
<1>3. At # {} BY DEF Occurs
<1>4. PICK j \in At : \A m \in At : j <= m
  <2> HIDE DEF At
  <2> QED BY <1>2, <1>3, LeastElement
<1>5. j \in Indices /\ plan[j] = name BY <1>4
<1>6. ASSUME NEW n \in 1..(j - 1) PROVE plan[n] # name
  <2>1. n \in Indices /\ n < j /\ j \in Nat BY <1>1, <1>5 DEF Indices
  <2>2. plan[n] = name => n \in At BY <2>1
  <2> QED BY <1>4, <2>1, <2>2
<1> QED BY <1>5, <1>6 DEF IsFirst

\* --resume-from: the loop starts at the first phase that is not skipped, whatever
\* the name.
LEMMA ResumeFacts ==
  ASSUME plan \in Seq(Phases), NEW name
  PROVE  /\ Resumed(name) \in Nat
         /\ plan # <<>> => Resumed(name) \in Indices
         /\ \A j \in 1..(Resumed(name) - 1) : j \in SkippedBy(name)
         /\ \A j \in Indices : j >= Resumed(name) => j \notin SkippedBy(name)
<1>1. Len(plan) \in Nat /\ (plan # <<>> => Len(plan) >= 1) OBVIOUS
<1>2. CASE Occurs(name)
  <2> DEFINE f == Resumed(name)
  <2>1. f \in Indices /\ IsFirst(name, f)
    BY <1>2, FirstOccurrence DEF Resumed
  <2>2. f \in 1..Len(plan) /\ plan[f] = name /\ \A n \in 1..(f - 1) : plan[n] # name
    BY <2>1 DEF IsFirst, Indices
  <2> HIDE DEF f
  <2>3. \A j \in 1..(f - 1) : j \in SkippedBy(name)
    BY <1>1, <1>2, <2>2 DEF SkippedBy, Indices
  <2>4. \A j \in Indices : j >= f => j \notin SkippedBy(name)
    BY <1>1, <2>2 DEF SkippedBy, Indices
  <2>5. f \in Nat /\ f \in Indices BY <2>1, <2>2, <1>1
  <2> QED BY <2>3, <2>4, <2>5 DEF f
<1>3. CASE ~Occurs(name)
  <2>1. Resumed(name) = 1 BY <1>3 DEF Resumed
  <2>2. SkippedBy(name) = {} BY <1>3 DEF SkippedBy
  <2> QED BY <1>1, <2>1, <2>2 DEF Indices
<1> QED BY <1>2, <1>3

-----------------------------------------------------------------------------
(* Initial states.                                                          *)

\* No command has been given yet.
LEMMA InitInd == Init => IndInv
<1> SUFFICES ASSUME Init PROVE IndInv OBVIOUS
<1>1. plan \in Seq(Phases) /\ Len(plan) \in Nat
  BY PlansAssumption DEF Init
<1>2. TypeOK
  <2>1. /\ plan \in Plans /\ kind \in [Phases -> Kinds] /\ kubecfg \subseteq Phases
        /\ cmd = "run" /\ dry = FALSE /\ resume = NoPhase
        /\ k = 1 /\ pc = "idle" /\ status = "ok" /\ env = FALSE /\ result = "none"
        /\ tmp = FALSE /\ cache = FALSE /\ cmds = 0
        /\ touched = {} /\ completed = {} /\ skipped = {} /\ doneNow = {} /\ dryTouched = {}
    BY DEF Init
  <2>2. 0 \in 0..MaxCmds BY BoundAssumption
  <2> QED BY <2>1, <2>2 DEF TypeOK
<1> QED BY <1>2 DEF Init, IndInv, CommandInv, TmpInv, OrderInv, DoneInv, EnvInv,
       RunsInOrder, SuccessMeansAll, NoTempLeft, CacheGone

-----------------------------------------------------------------------------
(* Type correctness.                                                        *)

\* What the provers need to know of the plan and the position in it.
LEMMA TypeFacts ==
  ASSUME TypeOK
  PROVE  /\ plan \in Seq(Phases) /\ Len(plan) \in Nat /\ k \in Nat
         /\ pc # "idle" => k \in 1..Len(plan)
  BY PlansAssumption DEF TypeOK, Indices

\* What the end of a phase does to the loop.
Stepped ==
    /\ doneNow' \in {doneNow, doneNow \cup {k}}
    /\ \/ pc' = "idle" /\ k' = k /\ result' \in {"ok", "error", "fatal"}
       \/ pc' = "lookup" /\ k' = k + 1 /\ k < Len(plan) /\ result' = result

\* Every step keeps the types; the loop's index stays inside the plan.
LEMMA TypeStep == TypeOK /\ [Next]_vars => TypeOK'
<1> SUFFICES ASSUME TypeOK, [Next]_vars PROVE TypeOK' OBVIOUS
<1> USE TypeFacts
<1>1. CASE UNCHANGED vars
  BY <1>1 DEF TypeOK, vars, Indices
<1>2. ASSUME NEW c \in {"run", "validate"}, NEW d \in BOOLEAN,
             NEW n \in Phases \cup {NoPhase, Typo}, Begin(c, d, n)
      PROVE  TypeOK'
  <2>1. Resumed(n) \in Nat /\ (plan # <<>> => Resumed(n) \in Indices)
    BY ResumeFacts
  <2>2. SkippedBy(n) \subseteq Indices BY DEF SkippedBy
  <2>3. plan' = plan /\ Indices' = Indices BY <1>2 DEF Begin, manifests, Indices
  <2>4. k' \in Nat /\ (pc' # "idle" => k' \in Indices')
    BY <1>2, <2>1, <2>3 DEF Begin
  <2>5. skipped' \subseteq Indices'
    BY <1>2, <2>2, <2>3 DEF Begin, TypeOK
  <2>6. cmds' \in 0..MaxCmds BY <1>2, BoundAssumption DEF Begin, TypeOK
  <2>7. env' \in BOOLEAN /\ dry' \in BOOLEAN /\ tmp' \in BOOLEAN BY <1>2 DEF Begin
  <2>8. /\ pc' \in {"idle", "lookup"} /\ result' \in {"ok", "error", "running"}
        /\ UNCHANGED <<kind, kubecfg, cache, touched, completed, dryTouched>>
        /\ doneNow' = {} /\ status' = "ok" /\ resume' = n /\ cmd' = c
    BY <1>2 DEF Begin, manifests
  <2> QED BY <2>3, <2>4, <2>5, <2>6, <2>7, <2>8 DEF TypeOK
<1> USE DEF TypeOK, Indices, manifests, command, Goto, Return, Quiet, StepFails
<1>3. CASE Lookup
  <2>1. pc' \in {"idle", "file", "context", "prepare", "check"} BY <1>3 DEF Lookup, Entry
  <2> QED BY <1>3, <2>1 DEF Lookup
<1>4. CASE Context BY <1>4 DEF Context, ContextFails, ExecutorReturns
<1>5. CASE File BY <1>5 DEF File, ExecutorReturns
<1>6. CASE Prepare
  <2>1. /\ pc # "idle" /\ pc' \in {"cleanup", "change"} /\ status' \in {status, "ok", "error"}
        /\ UNCHANGED <<plan, kind, kubecfg, cmd, dry, resume, k, env, result, tmp, cache, cmds,
                       touched, completed, skipped, doneNow, dryTouched>>
    BY <1>6 DEF Prepare, ExecutorReturns, DrySkips
  <2> QED BY <2>1
<1>7. CASE Change BY <1>7 DEF Change, ExecutorReturns
<1>8. CASE Cleanup
  <2>1. /\ pc # "idle" /\ tmp' \in {tmp, FALSE}
        /\ completed' \in {completed, completed \cup {k}}
        /\ UNCHANGED <<plan, kind, kubecfg, cmd, dry, resume, status, env, cache, cmds,
                       touched, skipped, dryTouched>>
    BY <1>8 DEF Cleanup
  <2>2. Stepped BY <1>8, <2>1 DEF Cleanup, StepSucceeds, MoreSteps, Stepped
  <2>3. /\ k' \in Nat /\ (pc' # "idle" => k' \in Indices') /\ pc' \in {"idle", "lookup"}
        /\ result' \in {result, "ok", "error", "fatal"}
    BY <2>1, <2>2 DEF Stepped
  <2>4. k \in Indices BY <2>1
  <2>5. doneNow' \subseteq Indices' /\ completed' \subseteq Indices'
    BY <2>1, <2>2, <2>4 DEF Stepped
  <2>6. tmp' \in BOOLEAN /\ cache' \in BOOLEAN BY <2>1
  <2> QED BY <2>1, <2>3, <2>5, <2>6
<1>9. CASE Check BY <1>9 DEF Check
<1>10. CASE Validator
  <2>1. /\ pc # "idle" /\ cache' \in {cache, FALSE, env}
        /\ UNCHANGED <<plan, kind, kubecfg, cmd, dry, resume, status, env, tmp, cmds,
                       touched, completed, skipped, dryTouched>>
    BY <1>10 DEF Validator
  <2>2. Stepped BY <1>10, <2>1 DEF Validator, StepSucceeds, MoreSteps, Stepped
  <2>3. /\ k' \in Nat /\ (pc' # "idle" => k' \in Indices') /\ pc' \in {"idle", "lookup"}
        /\ result' \in {result, "ok", "error", "fatal"}
    BY <2>1, <2>2 DEF Stepped
  <2>4. k \in Indices BY <2>1
  <2>5. doneNow' \subseteq Indices' /\ completed' \subseteq Indices'
    BY <2>1, <2>2, <2>4 DEF Stepped
  <2>6. tmp' \in BOOLEAN /\ cache' \in BOOLEAN BY <2>1
  <2> QED BY <2>1, <2>3, <2>5, <2>6
<1>11. CASE Crash BY <1>11 DEF Crash, observers
<1>12. CASE Finished BY <1>12 DEF Finished, vars
<1> QED BY <1>1, <1>2, <1>3, <1>4, <1>5, <1>6, <1>7, <1>8, <1>9, <1>10, <1>11, <1>12 DEF Next

-----------------------------------------------------------------------------
(* Commands, temporary files and the environment.                           *)

\* A run never reaches the steps of a validation, nor a validation those of a run.
LEMMA CommandStep == TypeOK /\ CommandInv /\ [Next]_vars => CommandInv'
<1> SUFFICES ASSUME TypeOK, CommandInv, [Next]_vars PROVE CommandInv' OBVIOUS
<1> USE DEF CommandInv, manifests, command, Goto, Return, Quiet, StepFails, ExecutorReturns
<1>1. CASE UNCHANGED vars BY <1>1 DEF vars
<1>2. ASSUME NEW c \in {"run", "validate"}, NEW d \in BOOLEAN,
             NEW n \in Phases \cup {NoPhase, Typo}, Begin(c, d, n)
      PROVE  CommandInv'
  <2>1. pc' \in {"idle", "lookup"} /\ cmd' = c /\ dry' = d /\ (c = "validate" => ~d)
    BY <1>2 DEF Begin
  <2> QED BY <2>1
<1>3. CASE Lookup
  <2>1. \/ pc' = "idle"
        \/ pc' \in {"file", "context", "prepare"} /\ cmd = "run"
        \/ pc' = "check" /\ cmd = "validate"
    BY <1>3 DEF Lookup, Entry
  <2> QED BY <1>3, <2>1 DEF Lookup
<1>4. CASE Context BY <1>4 DEF Context, ContextFails
<1>5. CASE File BY <1>5 DEF File
<1>6. CASE Prepare BY <1>6 DEF Prepare, DrySkips
<1>7. CASE Change BY <1>7 DEF Change
<1>8. CASE Cleanup BY <1>8 DEF Cleanup, StepSucceeds
<1>9. CASE Check BY <1>9 DEF Check
<1>10. CASE Validator BY <1>10 DEF Validator, StepSucceeds
<1>11. CASE Crash BY <1>11 DEF Crash
<1>12. CASE Finished BY <1>12 DEF Finished, vars
<1> QED BY <1>1, <1>2, <1>3, <1>4, <1>5, <1>6, <1>7, <1>8, <1>9, <1>10, <1>11, <1>12 DEF Next

\* Only executors hold the file, and none of their returns bypasses the cleanup.
LEMMA TmpStep ==
  TypeOK /\ TmpInv /\ NoTempLeft /\ [Next]_vars => TmpInv' /\ NoTempLeft'
<1> SUFFICES ASSUME TypeOK, TmpInv, NoTempLeft, [Next]_vars
             PROVE  TmpInv' /\ NoTempLeft'
  OBVIOUS
<1> USE DEF TmpInv, NoTempLeft, manifests, command, Goto, Return, Quiet, StepFails,
        ExecutorReturns
<1>1. CASE UNCHANGED vars BY <1>1 DEF vars, Kind
<1>2. ASSUME NEW c \in {"run", "validate"}, NEW d \in BOOLEAN,
             NEW n \in Phases \cup {NoPhase, Typo}, Begin(c, d, n)
      PROVE  TmpInv' /\ NoTempLeft'
  <2>1. ~tmp' BY <1>2 DEF Begin
  <2> QED BY <2>1
<1>3. CASE Lookup
  <2>1. ~tmp /\ tmp' = tmp BY <1>3 DEF Lookup
  <2> QED BY <2>1
<1>4. CASE Context
  <2>1. pc' \in {"prepare", "cleanup"} \/ (pc' = "file" /\ Kind \notin Clusterctl)
    BY <1>4 DEF Context, ContextFails
  <2> QED BY <1>4, <2>1 DEF Context
<1>5. CASE File
  <2>1. \/ pc' \in {"prepare", "cleanup"}
        \/ pc' = "context" /\ Kind \in Clusterctl /\ k' = k
        \/ pc' = "idle" /\ result' = "fatal"
    BY <1>5 DEF File
  <2>2. UNCHANGED <<plan, kind>> BY <1>5 DEF File
  <2> QED BY <2>1, <2>2 DEF Kind
<1>6. CASE Prepare BY <1>6 DEF Prepare, DrySkips
<1>7. CASE Change BY <1>7 DEF Change
<1>8. CASE Cleanup
  <2>1. ~tmp' \/ (pc' = "idle" /\ result' = "fatal") BY <1>8 DEF Cleanup
  <2> QED BY <2>1
<1>9. CASE Check
  <2>1. ~tmp /\ tmp' = tmp BY <1>9 DEF Check
  <2> QED BY <2>1
<1>10. CASE Validator
  <2>1. ~tmp /\ tmp' = tmp BY <1>10 DEF Validator
  <2> QED BY <2>1
<1>11. CASE Crash BY <1>11 DEF Crash
<1>12. CASE Finished BY <1>12 DEF Finished, vars, Kind
<1> QED BY <1>1, <1>2, <1>3, <1>4, <1>5, <1>6, <1>7, <1>8, <1>9, <1>10, <1>11, <1>12 DEF Next

\* The variable is dropped exactly when the last phase is looked up, so the last
\* validator of a successful validation removes the cache.
LEMMA EnvStep ==
  TypeOK /\ CommandInv /\ EnvInv /\ CacheGone /\ [Next]_vars => EnvInv' /\ CacheGone'
<1> SUFFICES ASSUME TypeOK, CommandInv, EnvInv, CacheGone, [Next]_vars
             PROVE  EnvInv' /\ CacheGone'
  OBVIOUS
<1> USE TypeFacts DEF CommandInv, EnvInv, CacheGone, manifests, command, Goto, Return, Quiet,
        StepFails, ExecutorReturns
<1>1. CASE UNCHANGED vars BY <1>1 DEF vars
<1>2. ASSUME NEW c \in {"run", "validate"}, NEW d \in BOOLEAN,
             NEW n \in Phases \cup {NoPhase, Typo}, Begin(c, d, n)
      PROVE  EnvInv' /\ CacheGone'
  <2>1. /\ plan' = plan /\ cmd' = c /\ pc' \in {"idle", "lookup"}
        /\ env' = (c = "validate")
        /\ pc' = "idle" => result' = "error" \/ plan = <<>>
    BY <1>2 DEF Begin
  <2>2. EnvInv' BY <2>1
  <2> QED BY <2>1, <2>2
<1>3. CASE Lookup
  <2>1. CASE cmd = "validate"
    <3>1. /\ pc' \in {"idle", "check"} /\ (pc' = "idle" => result' = "error")
          /\ UNCHANGED <<plan, cmd, cache>> /\ (pc' = "check" => k' = k)
      BY <1>3, <2>1 DEF Lookup
    <3>2. env' <=> k # Len(plan)
      BY <1>3, <2>1 DEF Lookup, IsLast
    <3> QED BY <3>1, <3>2
  <2>2. CASE cmd # "validate"
    <3>1. cmd' = cmd BY <1>3 DEF Lookup
    <3> QED BY <2>2, <3>1
  <2> QED BY <2>1, <2>2
<1>4. CASE Context BY <1>4 DEF Context
<1>5. CASE File BY <1>5 DEF File
<1>6. CASE Prepare BY <1>6 DEF Prepare
<1>7. CASE Change BY <1>7 DEF Change
<1>8. CASE Cleanup BY <1>8 DEF Cleanup
<1>9. CASE Check BY <1>9 DEF Check
<1>10. CASE Validator
  <2>1. UNCHANGED <<plan, cmd, env>> /\ (env <=> k # Len(plan))
    BY <1>10 DEF Validator
  <2>2. CASE pc' = "idle" /\ result' = "ok"
    <3>1. cache' = env /\ ~(k < Len(plan))
      BY <1>10, <2>2 DEF Validator, StepSucceeds, MoreSteps
    <3>2. k \in 1..Len(plan) BY <1>10 DEF Validator
    <3>3. ~env BY <2>1, <3>1, <3>2
    <3> QED BY <2>2, <3>1, <3>3
  <2>3. CASE pc' = "idle" /\ result' # "ok" BY <2>3
  <2>4. CASE pc' = "lookup"
    <3>1. cache' = env /\ k < Len(plan)
      BY <1>10, <2>4 DEF Validator, StepSucceeds, MoreSteps
    <3>2. env BY <2>1, <3>1
    <3> QED BY <2>1, <2>4, <3>2
  <2>5. pc' \in {"idle", "lookup"} BY <1>10 DEF Validator, StepSucceeds
  <2> QED BY <2>2, <2>3, <2>4, <2>5
<1>11. CASE Crash BY <1>11 DEF Crash
<1>12. CASE Finished BY <1>12 DEF Finished, vars
<1> QED BY <1>1, <1>2, <1>3, <1>4, <1>5, <1>6, <1>7, <1>8, <1>9, <1>10, <1>11, <1>12 DEF Next

-----------------------------------------------------------------------------
(* The order of the plan.                                                   *)

\* A phase is reached by the success of the one before it, or by a resume.
LEMMA OrderStep ==
  TypeOK /\ CommandInv /\ OrderInv /\ RunsInOrder /\ [Next]_vars => OrderInv' /\ RunsInOrder'
<1> SUFFICES ASSUME TypeOK, CommandInv, OrderInv, RunsInOrder, [Next]_vars
             PROVE  OrderInv' /\ RunsInOrder'
  OBVIOUS
<1> USE TypeFacts DEF OrderInv, RunsInOrder, manifests, command, Goto, Return, Quiet, StepFails,
        ExecutorReturns
<1>1. CASE UNCHANGED vars BY <1>1 DEF vars
<1>2. ASSUME NEW c \in {"run", "validate"}, NEW d \in BOOLEAN,
             NEW n \in Phases \cup {NoPhase, Typo}, Begin(c, d, n)
      PROVE  OrderInv' /\ RunsInOrder'
  <2>1. UNCHANGED <<touched, completed>> /\ skipped \subseteq skipped' BY <1>2 DEF Begin
  <2>2. RunsInOrder' BY <2>1
  <2>3. ASSUME pc' # "idle", cmd' = "run", ~dry'
        PROVE  1..(k' - 1) \subseteq completed' \cup skipped'
    <3>1. k' = Resumed(n) /\ SkippedBy(n) \subseteq skipped' BY <1>2, <2>3 DEF Begin
    <3>2. \A j \in 1..(Resumed(n) - 1) : j \in SkippedBy(n) BY ResumeFacts
    <3> QED BY <3>1, <3>2
  <2> QED BY <2>2, <2>3
<1>3. CASE Lookup BY <1>3 DEF Lookup
<1>4. CASE Context BY <1>4 DEF Context, ContextFails
<1>5. CASE File BY <1>5 DEF File
<1>6. CASE Prepare BY <1>6 DEF Prepare, DrySkips
<1>7. CASE Change
  <2>1. UNCHANGED <<k, dry, cmd, completed, skipped>> /\ pc = "change" /\ cmd = "run"
    BY <1>7 DEF Change, CommandInv
  <2>2. OrderInv' BY <2>1
  <2>3. touched' \subseteq touched \cup {k} /\ (dry => touched' = touched)
    BY <1>7 DEF Change
  <2>4. ~dry => 1..(k - 1) \subseteq completed \cup skipped BY <2>1
  <2>5. dry \in BOOLEAN BY DEF TypeOK
  <2>6. RunsInOrder' BY <2>1, <2>3, <2>4, <2>5
  <2> QED BY <2>2, <2>6
<1>8. CASE Cleanup
  <2>1. /\ UNCHANGED <<dry, cmd, touched, skipped>> /\ completed \subseteq completed'
        /\ pc = "cleanup" /\ cmd = "run"
    BY <1>8 DEF Cleanup, CommandInv
  <2>2. RunsInOrder' BY <2>1
  <2>3. ASSUME pc' # "idle", ~dry
        PROVE  1..(k' - 1) \subseteq completed' \cup skipped'
    <3>1. k' = k + 1 /\ completed' = completed \cup {k}
      BY <1>8, <2>3 DEF Cleanup, StepSucceeds
    <3>2. 1..(k - 1) \subseteq completed \cup skipped BY <2>1, <2>3
    <3>3. \A j \in 1..k : j \in 1..(k - 1) \/ j = k OBVIOUS
    <3> QED BY <2>1, <3>1, <3>2, <3>3
  <2> QED BY <2>1, <2>2, <2>3
<1>9. CASE Check BY <1>9 DEF Check
<1>10. CASE Validator
  <2>1. UNCHANGED <<cmd, touched, completed, skipped>> /\ cmd = "validate"
    BY <1>10 DEF Validator, CommandInv
  <2> QED BY <2>1
<1>11. CASE Crash BY <1>11 DEF Crash, observers
<1>12. CASE Finished BY <1>12 DEF Finished, vars
<1> QED BY <1>1, <1>2, <1>3, <1>4, <1>5, <1>6, <1>7, <1>8, <1>9, <1>10, <1>11, <1>12 DEF Next

-----------------------------------------------------------------------------
(* What a command has done.                                                 *)

\* Nothing changes the plan or the request while a command runs.
LEMMA SameSkip ==
  ASSUME plan' = plan, resume' = resume
  PROVE  Indices' = Indices /\ SkippedBy(resume)' = SkippedBy(resume)
  BY DEF Indices, SkippedBy, Occurs

\* Work is recorded phase by phase, so a loop that comes to its end has covered
\* everything it was not told to skip.
LEMMA DoneStep ==
  TypeOK /\ DoneInv /\ SuccessMeansAll /\ [Next]_vars => DoneInv' /\ SuccessMeansAll'
<1> SUFFICES ASSUME TypeOK, DoneInv, SuccessMeansAll, [Next]_vars
             PROVE  DoneInv' /\ SuccessMeansAll'
  OBVIOUS
<1> USE TypeFacts
\* A step inside a phase.
<1>a. ASSUME UNCHANGED <<plan, resume, k, doneNow>>, pc # "idle",
             pc' # "idle" \/ result' # "ok"
      PROVE  DoneInv' /\ SuccessMeansAll'
  <2>1. Indices' = Indices /\ SkippedBy(resume)' = SkippedBy(resume) BY <1>a, SameSkip
  <2> QED BY <1>a, <2>1 DEF DoneInv, SuccessMeansAll
\* The end of a phase that succeeded.
<1>b. ASSUME UNCHANGED <<plan, resume>>, pc # "idle", StepSucceeds
      PROVE  DoneInv' /\ SuccessMeansAll'
  <2>1. Indices' = Indices /\ SkippedBy(resume)' = SkippedBy(resume) BY <1>b, SameSkip
  <2>2. k \in Indices /\ Indices = 1..Len(plan) /\ doneNow' = doneNow \cup {k}
    BY <1>b DEF StepSucceeds, Indices
  <2>3. \A j \in Indices : /\ j <= k => (j \in doneNow' <=> j \notin SkippedBy(resume))
                           /\ j > k => j \notin doneNow' /\ j \notin SkippedBy(resume)
    BY <1>b, <2>2 DEF DoneInv
  <2>4. CASE k < Len(plan)
    <3>1. pc' = "lookup" /\ k' = k + 1 BY <1>b, <2>4 DEF StepSucceeds, MoreSteps
    <3>2. \A j \in Indices : (j < k + 1 <=> j <= k) /\ (j >= k + 1 <=> j > k) BY <2>2
    <3> QED BY <2>1, <2>3, <3>1, <3>2 DEF DoneInv, SuccessMeansAll
  <2>5. CASE ~(k < Len(plan))
    <3>1. pc' = "idle" BY <1>b, <2>5 DEF StepSucceeds, MoreSteps, Return
    <3>2. \A j \in Indices : j <= k BY <2>2, <2>5
    <3> QED BY <2>1, <2>3, <3>1, <3>2 DEF DoneInv, SuccessMeansAll
  <2> QED BY <2>4, <2>5
<1>1. CASE UNCHANGED vars
  <2>1. UNCHANGED <<plan, resume, k, doneNow, pc, result>> BY <1>1 DEF vars
  <2>2. Indices' = Indices /\ SkippedBy(resume)' = SkippedBy(resume) BY <2>1, SameSkip
  <2> QED BY <2>1, <2>2 DEF DoneInv, SuccessMeansAll
<1>2. ASSUME NEW c \in {"run", "validate"}, NEW d \in BOOLEAN,
             NEW n \in Phases \cup {NoPhase, Typo}, Begin(c, d, n)
      PROVE  DoneInv' /\ SuccessMeansAll'
  <2>1. /\ plan' = plan /\ resume' = n /\ k' = Resumed(n) /\ doneNow' = {}
        /\ pc' = "idle" => result' = "error" \/ plan = <<>>
    BY <1>2 DEF Begin, manifests
  <2>2. Indices' = Indices /\ SkippedBy(resume)' = SkippedBy(n)
    BY <2>1 DEF Indices, SkippedBy, Occurs
  <2>3. /\ Resumed(n) \in Nat
        /\ \A j \in 1..(Resumed(n) - 1) : j \in SkippedBy(n)
        /\ \A j \in Indices : j >= Resumed(n) => j \notin SkippedBy(n)
    BY ResumeFacts
  <2>4. \A j \in Indices : j < Resumed(n) => j \in 1..(Resumed(n) - 1)
    BY <2>3 DEF Indices
  <2>5. DoneInv' BY <2>1, <2>2, <2>3, <2>4 DEF DoneInv
  <2>6. plan = <<>> => Indices = {} BY DEF Indices
  <2>7. SuccessMeansAll' BY <2>1, <2>2, <2>6 DEF SuccessMeansAll
  <2> QED BY <2>5, <2>7
<1>3. CASE Lookup
  BY <1>3, <1>a DEF Lookup, Goto, StepFails, Return, manifests, Entry
<1>4. CASE Context
  BY <1>4, <1>a DEF Context, ContextFails, ExecutorReturns, Goto, Quiet, manifests, command
<1>5. CASE File
  BY <1>5, <1>a DEF File, ExecutorReturns, Goto, Return, Quiet, manifests, command
<1>6. CASE Prepare
  BY <1>6, <1>a DEF Prepare, ExecutorReturns, Goto, Quiet, manifests, command
<1>7. CASE Change
  BY <1>7, <1>a DEF Change, ExecutorReturns, Goto, manifests, command
<1>8. CASE Cleanup
  BY <1>8, <1>a, <1>b DEF Cleanup, StepFails, Return, Quiet, manifests, command
<1>9. CASE Check
  BY <1>9, <1>a DEF Check, Goto, StepFails, Return, Quiet, manifests, command
<1>10. CASE Validator
  BY <1>10, <1>a, <1>b DEF Validator, StepFails, Return, manifests, command
<1>11. CASE Crash
  BY <1>11, <1>a DEF Crash, Return, manifests, command, observers
<1>12. CASE Finished BY <1>1, <1>12 DEF Finished
<1> QED BY <1>1, <1>2, <1>3, <1>4, <1>5, <1>6, <1>7, <1>8, <1>9, <1>10, <1>11, <1>12 DEF Next

-----------------------------------------------------------------------------
(* The theorems.                                                            *)

\* The conjunction of the parts is inductive.
LEMMA IndStep == IndInv /\ [Next]_vars => IndInv'
  BY TypeStep, CommandStep, TmpStep, OrderStep, DoneStep, EnvStep DEF IndInv

\* IndInv is an invariant of every history of plan commands.
LEMMA Inductive == Spec => []IndInv
  BY InitInd, IndStep, PTL DEF Spec

\* Type correctness: in particular the loop of Plan.Run and Plan.Validate never
\* indexes a phase outside the plan (client.go:276).
THEOREM PlanTypeCorrect == Spec => []TypeOK
<1>1. IndInv => TypeOK BY DEF IndInv
<1> QED BY Inductive, <1>1, PTL

\* For every plan and every history of failures, kills and resumes, a phase changes
\* the site only after every earlier phase succeeded or was asked to be skipped.
THEOREM PlanRunsInOrder == Spec => []RunsInOrder
<1>1. IndInv => RunsInOrder BY DEF IndInv
<1> QED BY Inductive, <1>1, PTL

\* For every plan and every --resume-from, duplicates and unknown names included, a
\* command that returns nil did exactly the phases it was not told to skip.
THEOREM PlanSuccessMeansAll == Spec => []SuccessMeansAll
<1>1. IndInv => SuccessMeansAll BY DEF IndInv
<1> QED BY Inductive, <1>1, PTL

\* Whatever executor fails and at whatever step, a command that returns leaves no
\* temporary kubeconfig behind.
THEOREM PlanNoTempLeft == Spec => []NoTempLeft
<1>1. IndInv => NoTempLeft BY DEF IndInv
<1> QED BY Inductive, <1>1, PTL

\* A plan of any length that validates without error leaves no schema cache.
THEOREM PlanCacheGone == Spec => []CacheGone
<1>1. IndInv => CacheGone BY DEF IndInv
<1> QED BY Inductive, <1>1, PTL

-----------------------------------------------------------------------------
(* What a dry run changes.                                                  *)

\* Only a phase of clusterctl init has changed the site in a dry run.
OnlyInitIgnoresDryRun == \A j \in dryTouched : j \in Indices /\ kind[plan[j]] = "init"

\* The executors that skip a dry run are out of it before they reach the site.
SkippedInv == pc = "change" => ~DrySkips

LEMMA DryInit == Init => OnlyInitIgnoresDryRun /\ SkippedInv
BY DEF Init, OnlyInitIgnoresDryRun, SkippedInv

\* A step towards the site goes through Prepare, where the dry run is looked at.
LEMMA SkippedStep == TypeOK /\ SkippedInv /\ [Next]_vars => SkippedInv'
<1> SUFFICES ASSUME TypeOK, SkippedInv, [Next]_vars, pc' = "change" PROVE ~DrySkips'
  BY DEF SkippedInv
<1>1. CASE Prepare
  <2>1. ~DrySkips /\ UNCHANGED <<plan, kind, dry, k>>
    BY <1>1 DEF Prepare, ExecutorReturns, Goto, Quiet, manifests, command
  <2> QED
    BY <2>1 DEF DrySkips, Kind
<1>2. CASE UNCHANGED vars
  BY <1>2 DEF vars, SkippedInv, DrySkips, Kind
<1>3. ASSUME NEW c \in {"run", "validate"}, NEW d \in BOOLEAN,
             NEW n \in Phases \cup {NoPhase, Typo}, Begin(c, d, n)
      PROVE  FALSE
  BY <1>3 DEF Begin
<1>4. CASE Lookup \/ Check
  BY <1>4 DEF Lookup, Check, Entry, Goto, StepFails, Return
<1>5. CASE Context \/ File
  BY <1>5 DEF Context, ContextFails, File, ExecutorReturns, Goto, Return
<1>6. CASE Change
  BY <1>6 DEF Change, ExecutorReturns, Goto
<1>7. CASE Cleanup \/ Validator
  BY <1>7 DEF Cleanup, Validator, StepSucceeds, StepFails, Return
<1>8. CASE Crash \/ Finished
  BY <1>2, <1>8 DEF Crash, Return, Finished
<1> QED
  BY <1>1, <1>2, <1>3, <1>4, <1>5, <1>6, <1>7, <1>8 DEF Next

LEMMA DryStep == TypeOK /\ SkippedInv /\ OnlyInitIgnoresDryRun /\ [Next]_vars => OnlyInitIgnoresDryRun'
<1> SUFFICES ASSUME TypeOK, SkippedInv, OnlyInitIgnoresDryRun, [Next]_vars
             PROVE  OnlyInitIgnoresDryRun'
  OBVIOUS
<1>1. UNCHANGED <<plan, kind>>
  BY DEF Next, Begin, Lookup, Context, File, Prepare, Change, Cleanup, Check, Validator, Crash,
     Finished, Quiet, manifests, vars
<1>2. CASE dryTouched' = dryTouched
  BY <1>1, <1>2 DEF OnlyInitIgnoresDryRun, Indices
<1>3. CASE Change
  <2>1. k \in Indices /\ Kind \in Kinds
    BY <1>3, TypeFacts DEF Change, TypeOK, Indices, Kind
  <2>2. dry /\ ~DryRunPassed => Kind = "init"
    BY <1>3, <2>1 DEF SkippedInv, Change, DrySkips, DryRunPassed, Kinds
  <2>3. dryTouched' = dryTouched \/ (dryTouched' = dryTouched \cup {k} /\ Kind = "init")
    BY <1>3, <2>2 DEF Change
  <2> QED
    BY <1>1, <1>2, <2>1, <2>3 DEF OnlyInitIgnoresDryRun, Indices, Kind
<1>4. Change \/ dryTouched' = dryTouched
  BY DEF Next, Begin, Lookup, Context, File, Prepare, Cleanup, Check, Validator, Crash, observers,
     Finished, Quiet, manifests, vars
<1> QED
  BY <1>2, <1>3, <1>4

\* Whatever the plan and however often it is simulated, a dry run changes the site in
\* no phase but those of clusterctl init, which is not told that it is one
\* (executors/clusterctl.go:175).  That is the only reason for which
\* DryRunChangesNothing fails.
THEOREM DryRunChangesOnlyInit == Spec => []OnlyInitIgnoresDryRun
BY DryInit, SkippedStep, DryStep, PlanTypeCorrect, PTL DEF Spec

=============================================================================
