-------------------------- MODULE ContainerProofs --------------------------
(***************************************************************************)
(* Proofs about the two runtimes of pkg/container.  Of a run by the docker *)
(* daemon, for every number of retries: what a success stands for, that    *)
(* neither a container nor a goroutine is left behind, and that no wait is *)
(* in vain.  Of phases that run functions, for all jobs and any number of  *)
(* runs: a success has run every function once and in order, clusterctl    *)
(* finds the files of each provider, cloud-init writes the data of its own *)
(* run, only a time limit leaves a container behind, and a run that has a  *)
(* limit to wait for runs out of steps.                                    *)
(***************************************************************************)
EXTENDS Container, FunctionRun, DocumentsProofs

-----------------------------------------------------------------------------
(* The inductive invariant.                                                 *)

\* Which code belongs to which kind of run, and when the result is known.
ControlInv ==
    /\ pc \in {"attach", "start_failed", "stdin", "wait", "drain", "drain_failed", "output"}
          => Generic
    /\ pc \in {"inspect", "help", "artifacts"} => ~Generic
    /\ pc = "inspect" => mode \in {"create", "delete"}
    /\ pc = "help" => mode = "help"
    /\ pc \notin {"remove", "done"} => result = "running"
    /\ pc = "remove" => (result = "running") = ~Generic
    /\ pc = "done" => result # "running"

\* Where the container is when the main goroutine is at pc.
ContInv ==
    /\ pc \in {"pull", "prepare", "create"} => cont = "none"
    /\ pc \in {"attach", "start", "start_failed"} => cont = "created"
    /\ pc \in {"stdin", "wait", "drain_failed", "inspect", "help"} => cont \in {"running", "exited"}
    /\ pc \in {"drain", "output"} => cont = "exited"
    /\ pc = "remove" /\ ~Generic => cont \in {"running", "exited"}
    /\ pc = "artifacts" => cont = "removed"

\* The two goroutines run only where the main goroutine will still wait for them.
GoroutineInv ==
    /\ stdin = "copying" => Generic /\ pc \in {"start", "start_failed", "stdin"}
    /\ Generic /\ pc \in {"start", "start_failed", "stdin"} => stdin # "none"
    /\ logs = "following" => pc \in {"wait", "drain", "drain_failed"}
    /\ pc \in {"wait", "drain", "drain_failed"} => logs # "none"

\* What has been established on the way to a success of a generic container ...
GenericInv ==
    Generic =>
        /\ pc \in {"wait", "drain", "output"} => stdin = "copied"
        /\ pc \in {"drain", "output"} => code = 0
        /\ pc = "output" => logs = "ok"
        /\ result = "ok" => /\ code = 0 /\ cont \in {"exited", "removed"}
                            /\ stdin = "copied" /\ logs = "ok" /\ out = "full"

\* ... and of a bootstrap container.
BootstrapInv ==
    ~Generic =>
        /\ mode \in {"create", "delete"} /\ pc = "remove" => cont = "exited"
        /\ mode \in {"create", "delete"} /\ pc \in {"remove", "artifacts"} => code = 0
        /\ result = "ok" =>
              /\ cont = "removed"
              /\ mode \in {"create", "delete"} => code = 0 /\ artifact

\* A generic run does not end with its container in place, unless the daemon
\* refused to remove it.
CleanupInv == pc = "done" /\ Generic => cont \in {"none", "removed"} \/ rmFailed

IndInv ==
    /\ TypeOK /\ ControlInv /\ ContInv /\ GoroutineInv
    /\ GenericInv /\ BootstrapInv /\ CleanupInv

-----------------------------------------------------------------------------
\* No container, no goroutine.
LEMMA InitInd == Init => IndInv
<1> SUFFICES ASSUME Init PROVE IndInv OBVIOUS
<1>1. TypeOK
  <2>1. attempt \in 0..MaxRetries
    BY RetriesAssumption DEF Init
  <2> QED BY <2>1 DEF Init, TypeOK, Modes, Bootstrap
<1>2. ControlInv /\ ContInv /\ GoroutineInv
  BY DEF Init, ControlInv, ContInv, GoroutineInv, Generic, Modes, Bootstrap
<1>3. GenericInv /\ BootstrapInv /\ CleanupInv
  BY DEF Init, GenericInv, BootstrapInv, CleanupInv
<1> QED BY <1>1, <1>2, <1>3 DEF IndInv

\* The common steps up to the container: NewContainer to Create.
LEMMA BeginSteps ==
    ASSUME IndInv, NewContainer \/ Prepare \/ VerifyInputs \/ Create
    PROVE  IndInv'
<1> USE DEF Generic, Keep, Goto, Return, host, io, files, NoContainer, ImagePull
<1> USE DEF NewContainer, Prepare, VerifyInputs, Create
<1>1. TypeOK'
  BY DEF IndInv, TypeOK, ControlInv
<1>2. ControlInv'
  BY DEF IndInv, ControlInv
<1>3. ContInv'
  BY DEF IndInv, ContInv
<1>4. GoroutineInv'
  BY DEF IndInv, GoroutineInv
<1>5. GenericInv' /\ BootstrapInv'
  BY DEF IndInv, ControlInv, GenericInv, BootstrapInv
<1>6. CleanupInv'
  BY DEF IndInv, ContInv, CleanupInv
<1> QED BY <1>1, <1>2, <1>3, <1>4, <1>5, <1>6 DEF IndInv
\* The container is attached to and started; the input is waited for.
LEMMA StartSteps ==
    ASSUME IndInv, Attach \/ Start \/ StartFailed \/ Stdin
    PROVE  IndInv'
<1> USE DEF Generic, Keep, Goto, Return, host, io, files, Started, CloseConn
<1> USE DEF Attach, Start, StartFailed, Stdin
<1>1. TypeOK'
  BY DEF IndInv, TypeOK, ControlInv
<1>2. ControlInv'
  BY DEF IndInv, ControlInv
<1>3. ContInv'
  BY DEF IndInv, ContInv, ControlInv
<1>4. GoroutineInv'
  BY DEF IndInv, GoroutineInv, ControlInv
<1>5. GenericInv' /\ BootstrapInv'
  BY DEF IndInv, TypeOK, ControlInv, ContInv, GoroutineInv, GenericInv, BootstrapInv
<1>6. CleanupInv'
  BY DEF IndInv, ControlInv, ContInv, CleanupInv
<1> QED BY <1>1, <1>2, <1>3, <1>4, <1>5, <1>6 DEF IndInv

\* Waiting for a generic container, its log and its output.
LEMMA WaitSteps ==
    ASSUME IndInv, Wait \/ DrainFailed \/ Drain \/ Output
    PROVE  IndInv'
<1> USE DEF Generic, Keep, Goto, Return, host, io, files, Finished, GetContainerLogs, writeSink
<1> USE DEF Wait, DrainFailed, Drain, Output
<1>1. TypeOK'
  BY DEF IndInv, TypeOK, ControlInv
<1>2. ControlInv'
  BY DEF IndInv, ControlInv
<1>3. ContInv'
  BY DEF IndInv, ContInv, ControlInv
<1>4. GoroutineInv'
  BY DEF IndInv, GoroutineInv, ControlInv
<1>5. GenericInv' /\ BootstrapInv'
  BY DEF IndInv, TypeOK, ControlInv, ContInv, GoroutineInv, GenericInv, BootstrapInv
<1>6. CleanupInv'
  BY DEF IndInv, ControlInv, ContInv, CleanupInv
<1> QED BY <1>1, <1>2, <1>3, <1>4, <1>5, <1>6 DEF IndInv

\* Waiting for a bootstrap container, or not.
LEMMA BootstrapSteps ==
    ASSUME IndInv, Inspect \/ Help \/ Artifacts
    PROVE  IndInv'
<1> USE DEF Generic, Keep, Goto, Return, host, io, files, InspectContainer, MorePolls
<1> USE DEF Inspect, Help, Artifacts
<1>1. TypeOK'
  <2>1. attempt' \in 0..MaxRetries
    BY RetriesAssumption DEF IndInv, TypeOK
  <2>2. help' \in BOOLEAN
    BY DEF IndInv, TypeOK
  <2> QED BY <2>1, <2>2 DEF IndInv, TypeOK, ControlInv
<1>2. ControlInv'
  BY DEF IndInv, ControlInv
<1>3. ContInv'
  BY DEF IndInv, ContInv, ControlInv
<1>4. GoroutineInv'
  BY DEF IndInv, GoroutineInv, ControlInv
<1>5. GenericInv' /\ BootstrapInv'
  BY DEF IndInv, TypeOK, ControlInv, ContInv, GoroutineInv, GenericInv, BootstrapInv
<1>6. CleanupInv'
  BY DEF IndInv, ControlInv, ContInv, CleanupInv
<1> QED BY <1>1, <1>2, <1>3, <1>4, <1>5, <1>6 DEF IndInv

\* The container is removed, or the daemon refuses.
LEMMA RemoveStep ==
    ASSUME IndInv, RmContainer
    PROVE  IndInv'
<1> USE DEF Generic, Keep, Goto, Return, host, io, files
<1> USE DEF RmContainer
<1>1. TypeOK'
  <2>1. rmFailed' \in BOOLEAN
    BY DEF IndInv, TypeOK
  <2> QED BY <2>1 DEF IndInv, TypeOK, ControlInv
<1>2. ControlInv'
  BY DEF IndInv, ControlInv
<1>3. ContInv'
  BY DEF IndInv, ContInv, ControlInv
<1>4. GoroutineInv'
  BY DEF IndInv, GoroutineInv, ControlInv
<1>5. GenericInv' /\ BootstrapInv'
  BY DEF IndInv, TypeOK, ControlInv, ContInv, GoroutineInv, GenericInv, BootstrapInv
<1>6. CleanupInv'
  BY DEF IndInv, ControlInv, ContInv, CleanupInv
<1> QED BY <1>1, <1>2, <1>3, <1>4, <1>5, <1>6 DEF IndInv

\* The goroutines end and the container exits, at any time.
LEMMA OtherSteps ==
    ASSUME IndInv, StdinEnds \/ LogsEnd \/ ContainerExits
    PROVE  IndInv'
<1> USE DEF Generic, Keep, Goto, Return, host, io, files
<1> USE DEF StdinEnds, LogsEnd, ContainerExits
<1>1. TypeOK'
  BY DEF IndInv, TypeOK, ControlInv
<1>2. ControlInv'
  BY DEF IndInv, ControlInv
<1>3. ContInv'
  BY DEF IndInv, ContInv, ControlInv
<1>4. GoroutineInv'
  BY DEF IndInv, GoroutineInv, ControlInv
<1>5. GenericInv' /\ BootstrapInv'
  BY DEF IndInv, TypeOK, ControlInv, ContInv, GoroutineInv, GenericInv, BootstrapInv
<1>6. CleanupInv'
  BY DEF IndInv, ControlInv, ContInv, CleanupInv
<1> QED BY <1>1, <1>2, <1>3, <1>4, <1>5, <1>6 DEF IndInv

-----------------------------------------------------------------------------
\* Every step keeps the invariant.
LEMMA NextInd == IndInv /\ [Next]_vars => IndInv'
<1> SUFFICES ASSUME IndInv, [Next]_vars PROVE IndInv' OBVIOUS
<1>1. CASE NewContainer \/ Prepare \/ VerifyInputs \/ Create
  BY <1>1, BeginSteps
<1>2. CASE Attach \/ Start \/ StartFailed \/ Stdin
  BY <1>2, StartSteps
<1>3. CASE Wait \/ DrainFailed \/ Drain \/ Output
  BY <1>3, WaitSteps
<1>4. CASE Inspect \/ Help \/ Artifacts
  BY <1>4, BootstrapSteps
<1>5. CASE RmContainer
  BY <1>5, RemoveStep
<1>6. CASE StdinEnds \/ LogsEnd \/ ContainerExits
  BY <1>6, OtherSteps
<1>7. CASE UNCHANGED vars
  BY <1>7 DEF vars, IndInv, TypeOK, ControlInv, ContInv, GoroutineInv, GenericInv,
              BootstrapInv, CleanupInv, Generic
<1> QED BY <1>1, <1>2, <1>3, <1>4, <1>5, <1>6, <1>7 DEF Next, Main, Done

\* It holds in every state of every run.
LEMMA Inductive == Spec => []IndInv
<1> QED BY InitInd, NextInd, PTL DEF Spec

-----------------------------------------------------------------------------
\* The variables of a run keep their types, and the attempts their limit.
THEOREM ContainerTypeCorrect == Spec => []TypeOK
<1>1. IndInv => TypeOK BY DEF IndInv
<1> QED BY <1>1, Inductive, PTL

\* A run that returns nil is one whose container ended with exit code zero, after
\* all input was written and all output read; a bootstrap has its artifact
\* (api.go:117, command.go:187).
THEOREM ContainerSuccessIsReal == Spec => []SuccessIsReal
<1>1. IndInv => SuccessIsReal
  BY DEF IndInv, GenericInv, BootstrapInv, SuccessIsReal, Generic
<1> QED BY <1>1, Inductive, PTL

\* However a generic run ends, no container is left unless the daemon refuses to
\* remove it (api.go:134).
THEOREM ContainerNotLeft == Spec => []NoContainerLeft
<1>1. IndInv => NoContainerLeft
  BY DEF IndInv, CleanupInv, NoContainerLeft
<1> QED BY <1>1, Inductive, PTL

\* No goroutine outlives the run (api.go:199, container_docker.go:306).
THEOREM ContainerNoGoroutineLeft == Spec => []NoGoroutineLeft
<1>1. IndInv => NoGoroutineLeft
  BY DEF IndInv, GoroutineInv, NoGoroutineLeft
<1> QED BY <1>1, Inductive, PTL

-----------------------------------------------------------------------------
(* A run by the docker daemon returns: nobody waits in a circle, and there  *)
(* is an end to the steps.                                                  *)

\* What the main goroutine waits for can come about.  It waits for the input only
\* after the start of the container, or after the start failed, when the connection
\* breaks; where it waits for the log, the container has read the end of its input
\* and is left to exit.
WaitIsServed ==
    /\ pc = "stdin" => cont # "created"
    /\ pc \in {"wait", "drain", "drain_failed"} => conn = "closed" /\ cont \in {"running", "exited"}
    /\ logs = "following" => conn = "closed" /\ cont \in {"running", "exited"}

\* The steps left to the main goroutine.
MainStepsLeft ==
    CASE pc = "pull"         -> MaxRetries + 13
      [] pc = "prepare"      -> MaxRetries + 12
      [] pc = "create"       -> MaxRetries + 11
      [] pc = "attach"       -> MaxRetries + 10
      [] pc = "start"        -> MaxRetries + 9
      [] pc = "inspect"      -> MaxRetries - attempt + 3
      [] pc = "stdin"        -> 6
      [] pc = "wait"         -> 5
      [] pc = "drain"        -> 4
      [] pc \in {"start_failed", "drain_failed", "output", "help"} -> 3
      [] pc = "remove"       -> 2
      [] pc = "artifacts"    -> 1
      [] pc = "done"         -> 0

\* And those of container, stdin goroutine and log goroutine, one each.
StepsLeft ==
    MainStepsLeft + (IF cont \in {"none", "created", "running"} THEN 1 ELSE 0)
                  + (IF stdin \in {"none", "copying"} THEN 1 ELSE 0)
                  + (IF logs \in {"none", "following"} THEN 1 ELSE 0)

MaxSteps == MaxRetries + 16

\* The connection is closed before anything of the container is waited for.
LEMMA ServedStep ==
    ASSUME IndInv, IndInv', WaitIsServed, [Next]_vars PROVE WaitIsServed'
<1>1. pc' = "stdin" => cont' # "created"
  BY DEF IndInv, ContInv
<1>2. pc' \in {"wait", "drain", "drain_failed"} => cont' \in {"running", "exited"}
  <2>1. pc' = "wait" => pc = "stdin" \/ pc = "wait"
    BY DEF Next, Main, Done, vars, Keep, Goto, Return, NoContainer, ImagePull, Started, writeSink,
           NewContainer, Prepare, VerifyInputs, Create, Attach, Start, StartFailed, Stdin, Wait, DrainFailed,
           Drain, Output, RmContainer, Inspect, Help, Artifacts, StdinEnds, LogsEnd, ContainerExits
  <2>2. pc' = "wait" => cont' \in {"running", "exited"}
    BY <2>1 DEF Next, Main, Done, vars, Keep, Goto, Return, NoContainer, ImagePull, Started, writeSink,
           NewContainer, Prepare, VerifyInputs, Create, Attach, Start, StartFailed, Stdin, Wait, DrainFailed,
           Drain, Output, RmContainer, Inspect, Help, Artifacts, StdinEnds, LogsEnd, ContainerExits, host,
           IndInv, ContInv
  <2> QED
    BY <2>2 DEF IndInv, ContInv
<1>3. pc' \in {"wait", "drain", "drain_failed"} => conn' = "closed"
  BY DEF WaitIsServed, Next, Main, Done, vars, Keep, Goto, Return, NoContainer, ImagePull, Started, writeSink,
         NewContainer, Prepare, VerifyInputs, Create, Attach, Start, StartFailed, Stdin, Wait, DrainFailed,
         Drain, Output, RmContainer, Inspect, Help, Artifacts, StdinEnds, LogsEnd, ContainerExits, io, CloseConn
<1>4. logs' = "following" => pc' \in {"wait", "drain", "drain_failed"}
  BY DEF IndInv, GoroutineInv
<1> QED
  BY <1>1, <1>2, <1>3, <1>4 DEF WaitIsServed

\* Whatever a run by the docker daemon waits for can come about (container_docker.go:262,
\* api.go:199): the waits of main goroutine, container and the two goroutines form no
\* circle.
THEOREM ContainerWaitsAreServed == Spec => []WaitIsServed
<1>1. Init => WaitIsServed
  BY DEF Init, WaitIsServed
<1> QED
  BY <1>1, Inductive, ServedStep, PTL DEF Spec

\* A goroutine that is not started yet has not ended.
FreshInv ==
    /\ pc \in {"pull", "prepare", "create", "attach"} => stdin = "none"
    /\ pc \in {"pull", "prepare", "create", "attach", "start", "start_failed", "stdin"} => logs = "none"

\* No step changes that.
LEMMA FreshHolds == Spec => []FreshInv
<1>1. Init => FreshInv
  BY DEF Init, FreshInv
<1>2. IndInv /\ FreshInv /\ [Next]_vars => FreshInv'
  <2> SUFFICES ASSUME IndInv, FreshInv, [Next]_vars PROVE FreshInv'
    OBVIOUS
  <2> USE DEF FreshInv, Keep, Goto, Return, NoContainer, host, io, files
  <2>1. CASE NewContainer \/ Prepare \/ VerifyInputs \/ Create \/ Attach
    BY <2>1 DEF NewContainer, ImagePull, Prepare, VerifyInputs, Create, Attach
  <2>2. CASE Start \/ StartFailed \/ Stdin
    BY <2>2 DEF Start, Started, StartFailed, Stdin
  <2>3. CASE Wait \/ DrainFailed \/ Drain \/ Output
    BY <2>3 DEF Wait, DrainFailed, Drain, Output, writeSink
  <2>4. CASE RmContainer \/ Inspect \/ Help \/ Artifacts
    BY <2>4 DEF RmContainer, Inspect, Help, Artifacts
  <2>5. CASE StdinEnds \/ LogsEnd \/ ContainerExits
    BY <2>5 DEF StdinEnds, LogsEnd, ContainerExits, IndInv, GoroutineInv
  <2>6. CASE UNCHANGED vars
    BY <2>6 DEF vars
  <2> QED
    BY <2>1, <2>2, <2>3, <2>4, <2>5, <2>6 DEF Next, Main, Done
<1> QED
  BY <1>1, <1>2, Inductive, PTL DEF Spec

\* Step by step.
LEMMA StepsDecrease ==
    ASSUME IndInv, FreshInv, Next PROVE StepsLeft' < StepsLeft \/ UNCHANGED vars
<1> DEFINE C == IF cont \in {"none", "created", "running"} THEN 1 ELSE 0
           I == IF stdin \in {"none", "copying"} THEN 1 ELSE 0
           L == IF logs \in {"none", "following"} THEN 1 ELSE 0
           M == MainStepsLeft
<1>0. MaxRetries \in Nat /\ attempt \in 0..MaxRetries
  BY RetriesAssumption DEF IndInv, TypeOK
<1>1. C \in {0, 1} /\ I \in {0, 1} /\ L \in {0, 1} /\ C' \in {0, 1} /\ I' \in {0, 1} /\ L' \in {0, 1}
  OBVIOUS
<1>2. StepsLeft = M + C + I + L /\ StepsLeft' = M' + C' + I' + L'
  BY DEF StepsLeft
<1>3. M \in Nat /\ M <= MaxRetries + 13
  BY <1>0 DEF MainStepsLeft, IndInv, TypeOK
<1>4. CASE Main
  <2>0. /\ cont' \in {"none", "created", "running"} => cont \in {"none", "created", "running"}
        /\ stdin' \in {"none", "copying"} => stdin \in {"none", "copying"}
        /\ logs' \in {"none", "following"} => logs \in {"none", "following"}
    <3> USE DEF host, io, files
    <3>1. CASE NewContainer \/ Prepare \/ VerifyInputs \/ Create
      BY <3>1 DEF NewContainer, Prepare, VerifyInputs, Create, IndInv, ContInv
    <3>2. CASE Attach \/ Start \/ StartFailed \/ Stdin
      BY <3>2 DEF Attach, Start, StartFailed, Stdin, IndInv, ContInv, FreshInv
    <3>3. CASE Wait \/ DrainFailed \/ Drain \/ Output
      BY <3>3 DEF Wait, DrainFailed, Drain, Output
    <3>4. CASE RmContainer \/ Inspect \/ Help \/ Artifacts
      BY <3>4 DEF RmContainer, Inspect, Help, Artifacts
    <3> QED
      BY <1>4, <3>1, <3>2, <3>3, <3>4 DEF Main
  <2>1. C' <= C /\ I' <= I /\ L' <= L
    BY <2>0
  <2>2. M' \in Nat /\ M' < M
    <3> USE <1>0 DEF MainStepsLeft, Keep, Goto, Return, NoContainer
    <3>1. CASE NewContainer \/ Prepare \/ VerifyInputs \/ Create \/ Attach
      BY <3>1 DEF NewContainer, ImagePull, Prepare, VerifyInputs, Create, Attach
    <3>2. CASE Start \/ StartFailed \/ Stdin
      BY <3>2 DEF Start, Started, StartFailed, Stdin
    <3>3. CASE Wait \/ DrainFailed \/ Drain \/ Output
      BY <3>3 DEF Wait, DrainFailed, Drain, Output, writeSink
    <3>4. CASE RmContainer \/ Help \/ Artifacts
      BY <3>4 DEF RmContainer, Help, Artifacts, IndInv, ControlInv, Generic
    <3>5. CASE Inspect
      BY <3>5 DEF Inspect, MorePolls
    <3> QED
      BY <1>4, <3>1, <3>2, <3>3, <3>4, <3>5 DEF Main
  <2> HIDE DEF C, I, L, M
  <2>3. M' + C' + I' + L' < M + C + I + L
    <3>1. /\ C \in Int /\ I \in Int /\ L \in Int /\ M \in Int
          /\ C' \in Int /\ I' \in Int /\ L' \in Int /\ M' \in Int
      BY <1>1, <1>3, <2>2
    <3>2. \A a, b, c, d \in Int : a < b /\ c <= d => a + c < b + d /\ a + c \in Int /\ b + d \in Int
      OBVIOUS
    <3>3. M' + C' < M + C /\ M' + C' \in Int /\ M + C \in Int
      BY <2>1, <2>2, <3>1, <3>2, Zenon
    <3>4. M' + C' + I' < M + C + I /\ M' + C' + I' \in Int /\ M + C + I \in Int
      BY <2>1, <3>1, <3>2, <3>3, Zenon
    <3> QED
      BY <2>1, <3>1, <3>2, <3>4, Zenon
  <2> QED
    BY <1>2, <2>3, Zenon
<1>5. CASE StdinEnds \/ LogsEnd \/ ContainerExits
  <2>1. M' = M
    BY <1>5 DEF StdinEnds, LogsEnd, ContainerExits, Keep, MainStepsLeft
  <2>2. CASE StdinEnds
    <3>1. C' = C /\ I' = 0 /\ I = 1 /\ L' = L
      BY <2>2 DEF StdinEnds, host
    <3> HIDE DEF C, I, L, M
    <3> QED
      BY <1>1, <1>2, <1>3, <2>1, <3>1
  <2>3. CASE LogsEnd
    <3>1. C' = C /\ I' = I /\ L' = 0 /\ L = 1
      BY <2>3 DEF LogsEnd, host
    <3> HIDE DEF C, I, L, M
    <3> QED
      BY <1>1, <1>2, <1>3, <2>1, <3>1
  <2>4. CASE ContainerExits
    <3>1. C' = 0 /\ C = 1 /\ I' = I /\ L' = L
      BY <2>4 DEF ContainerExits, io
    <3> HIDE DEF C, I, L, M
    <3> QED
      BY <1>1, <1>2, <1>3, <2>1, <3>1
  <2> QED
    BY <1>5, <2>2, <2>3, <2>4
<1> QED
  BY <1>4, <1>5 DEF Next, Done

\* A run makes at most MaxSteps steps, each of which brings its end closer: however
\* often a bootstrap container is inspected, and whatever the daemon answers.
THEOREM ContainerRunsAreBounded ==
    Spec => [](StepsLeft \in 0..MaxSteps) /\ [][StepsLeft' < StepsLeft]_vars
<1>1. IndInv => StepsLeft \in 0..MaxSteps
  <2> SUFFICES ASSUME IndInv PROVE StepsLeft \in 0..MaxSteps
    OBVIOUS
  <2>1. MaxRetries \in Nat /\ attempt \in 0..MaxRetries
    BY RetriesAssumption DEF IndInv, TypeOK
  <2>2. MainStepsLeft \in Nat /\ MainStepsLeft <= MaxRetries + 13
    BY <2>1 DEF MainStepsLeft, IndInv, TypeOK
  <2> QED
    BY <2>1, <2>2 DEF StepsLeft, MaxSteps
<1>2. IndInv /\ FreshInv /\ [Next]_vars => [StepsLeft' < StepsLeft]_vars
  BY StepsDecrease
<1> QED
  BY <1>1, <1>2, Inductive, FreshHolds, PTL DEF Spec

-----------------------------------------------------------------------------
(* KRM functions: which commands a request comes to.                        *)

\* A sequence grows by one element.
LEMMA AppendBundle ==
    ASSUME NEW s, IsBundle(s), NEW e
    PROVE  /\ IsBundle(Append(s, e)) /\ Len(Append(s, e)) = Len(s) + 1
           /\ \A n \in 1..Len(s) : Append(s, e)[n] = s[n]
           /\ Append(s, e)[Len(s) + 1] = e
<1> DEFINE T == Docs(s) \cup {e}
           a == Append(s, e)
<1>1. s \in Seq(T) /\ e \in T
  BY DEF IsBundle
<1> HIDE DEF T
<1>2. /\ a \in Seq(T) /\ Len(a) = Len(s) + 1 /\ Len(s) \in Nat
      /\ \A n \in 1..Len(s) : a[n] = s[n]
      /\ a[Len(s) + 1] = e
  BY <1>1
<1> HIDE DEF a
<1>3. a = [n \in 1..Len(a) |-> a[n]] /\ \A n \in 1..Len(a) : a[n] \in Docs(a)
  BY <1>2 DEF Docs
<1>4. IsBundle(a)
  BY <1>2, <1>3 DEF IsBundle
<1> QED
  BY <1>2, <1>4 DEF a

\* A sequence given by its elements.
LEMMA BundleIs ==
    ASSUME NEW s, NEW L \in Nat, DOMAIN s = 1..L, s = [n \in 1..L |-> s[n]]
    PROVE  IsBundle(s) /\ Len(s) = L
<1>1. \A n \in 1..L : s[n] \in {s[k] : k \in 1..L}
  OBVIOUS
<1>2. s \in Seq({s[k] : k \in 1..L})
  BY <1>1
<1>3. Len(s) = L
  BY <1>2
<1> QED
  BY <1>2, <1>3 DEF IsBundle, Docs

\* The functions that are run, of those given.
Imaged(fns) == {n \in 1..Len(fns) : fns[n].spec /\ fns[n].image # Unset}
ToRun(fns) == Picked(fns, Imaged(fns))

\* The functions that are run are among those given.
LEMMA ToRunElements ==
    ASSUME NEW fns, IsBundle(fns)
    PROVE  IsBundle(ToRun(fns)) /\ \A f \in Docs(ToRun(fns)) : f \in Docs(fns)
<1> DEFINE p == ToRun(fns)
<1>1. PICK g : IsPicking(fns, Imaged(fns), p, g)
  <2>1. Imaged(fns) \subseteq 1..Len(fns)
    BY DEF Imaged
  <2>2. Len(fns) \in Nat
    BY DEF IsBundle
  <2> QED
    BY <2>1, <2>2, PickedPlaces DEF ToRun
<1> HIDE DEF p
<1>2. Len(p) \in Nat /\ p = [u \in 1..Len(p) |-> fns[g[u]]] /\ g \in [1..Len(p) -> 1..Len(fns)]
  BY <1>1 DEF IsPicking, Imaged
<1>3. p = [u \in 1..Len(p) |-> p[u]] /\ DOMAIN p = 1..Len(p)
  BY <1>2
<1>4. IsBundle(p)
  BY <1>2, <1>3, BundleIs
<1>5. \A f \in Docs(p) : f \in Docs(fns)
  BY <1>2 DEF Docs
<1> QED
  BY <1>4, <1>5 DEF p

\* The commands of the functions fns, run by user u.
CommandsOf(r, u, fns) == [n \in 1..Len(fns) |-> getCommand(r, fns[n], u)]

\* getFunctionFilters makes the commands of the functions to be run, in their order.
LEMMA FunctionFilters ==
    ASSUME NEW r, NEW known, NEW fns, ~Failed(getFunctionFilters(r, known, fns))
    PROVE  getFunctionFilters(r, known, fns).val
              = CommandsOf(r, getUIDGID(TRUE, known).val, ToRun(fns))
<1> DEFINE u == getUIDGID(TRUE, known).val
           c == [n \in 1..Len(ToRun(fns)) |-> getCommand(r, ToRun(fns)[n], u)]
           needed == {n \in 1..Len(fns) : fns[n].spec}
<1>1. Imaged(fns) = {n \in needed : fns[n].image # Unset}
  BY DEF Imaged
<1>2. getFunctionFilters(r, known, fns) = Value(c)
  <2>1. \A e : Failed(Failure(e)) <=> e # ""
    BY DEF Failed, Failure
  <2> QED
    BY <1>1, <2>1 DEF getFunctionFilters, ToRun
<1> QED
  BY <1>2, ValueOf DEF CommandsOf

-----------------------------------------------------------------------------
(* KRM functions: the insertion sort.                                       *)

\* An element is put in at place m of a sequence.
LEMMA InsertedAt ==
    ASSUME NEW s, IsBundle(s), NEW m \in 1..(Len(s) + 1), NEW e,
           NEW t, t = InsertAt(s, m, e)
    PROVE  /\ IsBundle(t) /\ Len(t) = Len(s) + 1
           /\ \A n \in 1..(Len(s) + 1) : t[n] = IF n < m THEN s[n]
                                                ELSE IF n = m THEN e ELSE s[n - 1]
<1> DEFINE L == Len(s)
           T == Docs(s) \cup {e}
           x == SubSeq(s, 1, m - 1)
           y == SubSeq(s, m, L)
<1>1. s \in Seq(T) /\ e \in T /\ L \in Nat /\ m \in Nat /\ 1 <= m /\ m <= L + 1
  BY DEF IsBundle
<1>2. t = (x \o <<e>>) \o y
  BY DEF InsertAt
<1> HIDE DEF T
<1>3. x \in Seq(T) /\ Len(x) = m - 1 /\ \A n \in 1..(m - 1) : x[n] = s[n]
  BY <1>1
<1>4. y \in Seq(T) /\ Len(y) = L + 1 - m /\ \A n \in 1..(L + 1 - m) : y[n] = s[m + n - 1]
  BY <1>1
<1> HIDE DEF x, y, L
<1> DEFINE xe == x \o <<e>>
<1>5. /\ xe \in Seq(T) /\ Len(xe) = m
      /\ \A n \in 1..(m - 1) : xe[n] = s[n]
      /\ xe[m] = e
  <2>1. <<e>> \in Seq(T) /\ Len(<<e>>) = 1 /\ <<e>>[1] = e
    BY <1>1
  <2> QED
    BY <1>1, <1>3, <2>1
<1> HIDE DEF xe
<1>6. /\ xe \o y \in Seq(T) /\ Len(xe \o y) = L + 1
      /\ \A n \in 1..m : (xe \o y)[n] = xe[n]
      /\ \A n \in (m + 1)..(L + 1) : (xe \o y)[n] = y[n - m]
  <2>1. /\ xe \o y \in Seq(T) /\ Len(xe \o y) = Len(xe) + Len(y)
        /\ \A n \in 1..(Len(xe) + Len(y)) :
             (xe \o y)[n] = IF n <= Len(xe) THEN xe[n] ELSE y[n - Len(xe)]
    BY <1>4, <1>5, ConcatProperties
  <2>2. Len(xe) + Len(y) = L + 1
    BY <1>1, <1>4, <1>5
  <2> QED
    BY <1>1, <1>5, <2>1, <2>2
<1>7. t = xe \o y
  BY <1>2 DEF xe
<1>8. \A n \in (m + 1)..(L + 1) : t[n] = s[n - 1]
  <2> SUFFICES ASSUME NEW n \in (m + 1)..(L + 1) PROVE t[n] = s[n - 1]
    OBVIOUS
  <2>1. n - m \in 1..(L + 1 - m) /\ m + (n - m) - 1 = n - 1
    BY <1>1
  <2> QED
    BY <1>4, <1>6, <1>7, <2>1
<1>9. \A n \in 1..(L + 1) : t[n] = IF n < m THEN s[n] ELSE IF n = m THEN e ELSE s[n - 1]
  <2> SUFFICES ASSUME NEW n \in 1..(L + 1)
               PROVE  t[n] = IF n < m THEN s[n] ELSE IF n = m THEN e ELSE s[n - 1]
    OBVIOUS
  <2>1. CASE n < m
    <3>1. n \in 1..m /\ n \in 1..(m - 1)
      BY <1>1, <2>1
    <3> QED
      BY <1>5, <1>6, <1>7, <2>1, <3>1
  <2>2. CASE n = m
    BY <1>1, <1>5, <1>6, <1>7, <2>2
  <2>3. CASE m < n
    <3>1. n \in (m + 1)..(L + 1) /\ ~(n < m) /\ n # m
      BY <1>1, <2>3
    <3>2. t[n] = s[n - 1]
      BY <1>8, <3>1
    <3> QED
      BY <3>1, <3>2, Zenon
  <2>4. n < m \/ n = m \/ m < n
    BY <1>1
  <2> QED
    BY <2>1, <2>2, <2>3, <2>4, Zenon
<1>10. t = [n \in 1..(L + 1) |-> t[n]] /\ DOMAIN t = 1..(L + 1)
  <2>1. t \in Seq(T) /\ Len(t) = L + 1
    BY <1>6, <1>7
  <2>2. t \in [1..(L + 1) -> T]
    BY <2>1, LenProperties
  <2> QED
    BY <2>2
<1>11. IsBundle(t) /\ Len(t) = L + 1
  BY <1>1, <1>10, BundleIs
<1> QED
  BY <1>9, <1>11 DEF L

\* The function that insertionSort defines by recursion, for the functions up to n.
Sorting(fns, up, n) ==
    up = [k \in 0..n |-> IF k = 0 THEN Value(<<>>) ELSE Insert(up[k - 1], fns[k])]

\* The recursive function of insertionSort has its values.
LEMMA SortingExists ==
    ASSUME NEW fns, NEW n \in Nat
    PROVE  \E up : Sorting(fns, up, n)
<1> DEFINE Bad == {k \in Nat : ~ \E up : Sorting(fns, up, k)}
<1> SUFFICES ASSUME Bad # {} PROVE FALSE
  OBVIOUS
<1>1. PICK m \in Bad : \A k \in Bad : ~(k < m)
  BY LeastNat, Zenon
<1>2. CASE m = 0
  <2> DEFINE g == [k \in 0..0 |-> Value(<<>>)]
  <2>1. Sorting(fns, g, 0)
    BY DEF Sorting
  <2> QED
    BY <1>1, <1>2, <2>1
<1>3. CASE m # 0
  <2>1. m - 1 \in Nat /\ m - 1 \notin Bad
    BY <1>1, <1>3
  <2>2. PICK up : Sorting(fns, up, m - 1)
    BY <2>1
  <2> DEFINE g == [k \in 0..m |-> IF k < m THEN up[k] ELSE Insert(up[m - 1], fns[m])]
  <2>3. ASSUME NEW k \in 0..m
        PROVE  g[k] = IF k = 0 THEN Value(<<>>) ELSE Insert(g[k - 1], fns[k])
    <3>1. CASE k = m
      BY <3>1, <1>3, <1>1
    <3>2. CASE k < m
      <4>1. k \in 0..(m - 1)
        BY <3>2, <1>1
      <4>2. up[k] = IF k = 0 THEN Value(<<>>) ELSE Insert(up[k - 1], fns[k])
        BY <4>1, <2>2 DEF Sorting
      <4>3. g[k] = up[k]
        BY <4>1, <3>2
      <4>4. k # 0 => g[k - 1] = up[k - 1]
        BY <4>1, <3>2, <1>1
      <4> QED
        BY <4>2, <4>3, <4>4
    <3> QED
      BY <3>1, <3>2, <1>1
  <2> HIDE DEF g
  <2>4. g = [k \in 0..m |-> g[k]]
    BY DEF g
  <2>5. Sorting(fns, g, m)
    BY <2>3, <2>4 DEF Sorting
  <2> QED
    BY <1>1, <2>5
<1> QED
  BY <1>2, <1>3

\* insertionSort returns the last of the sorted beginnings.
LEMMA SortingIs ==
    ASSUME NEW fns, Len(fns) \in Nat
    PROVE  \E up : Sorting(fns, up, Len(fns)) /\ insertionSort(fns) = up[Len(fns)]
<1> DEFINE F == CHOOSE up : Sorting(fns, up, Len(fns))
<1>1. Sorting(fns, F, Len(fns))
  BY SortingExists
<1>2. insertionSort(fns) = F[Len(fns)]
  BY DEF insertionSort, Sorting
<1> QED
  BY <1>1, <1>2

\* A nonempty set of numbers up to a bound has its maximum.
LEMMA MaxIs ==
    ASSUME NEW L \in Nat, NEW A, A \subseteq 0..L, A # {}
    PROVE  Max(A) \in A /\ \A k \in A : k <= Max(A)
<1> DEFINE B == {n \in 0..L : L - n \in A}
<1>1. B # {} /\ B \subseteq Nat
  <2>1. PICK a \in A : TRUE
    OBVIOUS
  <2>2. L - a \in 0..L /\ L - (L - a) = a
    BY <2>1
  <2>3. L - a \in B
    BY <2>1, <2>2
  <2> QED
    BY <2>3
<1> HIDE DEF B
<1>2. PICK m \in B : \A n \in B : ~(n < m)
  BY <1>1, LeastNat, Zenon
<1>3. L - m \in A
  BY <1>2 DEF B
<1>4. \A k \in A : L - m >= k
  <2> SUFFICES ASSUME NEW k \in A PROVE L - m >= k
    OBVIOUS
  <2>1. L - k \in 0..L /\ L - (L - k) = k
    OBVIOUS
  <2>2. L - k \in B
    BY <2>1 DEF B
  <2>3. m \in 0..L /\ ~(L - k < m)
    BY <1>2, <2>2 DEF B
  <2> QED
    BY <2>1, <2>3
<1>5. Max(A) \in A /\ \A k \in A : Max(A) >= k
  <2>1. \E x \in A : \A y \in A : x >= y
    BY <1>3, <1>4
  <2> QED
    BY <2>1, Zenon DEF Max
<1> QED
  BY <1>5

\* Place k of s is the last one with an element that f is not less than.
LastNotLess(s, k, f) ==
    /\ k # 0 => ~less(f, s[k]) /\ ~BadPair(f, s[k])
    /\ \A j \in (k + 1)..Len(s) : less(f, s[j]) /\ ~BadPair(f, s[j])

\* An element is put in after the last one that it is not less than.
LEMMA InsertIs ==
    ASSUME NEW s, IsBundle(s), NEW f, ~Failed(Insert(Value(s), f))
    PROVE  \E k \in 0..Len(s) : /\ Insert(Value(s), f) = Value(InsertAt(s, k + 1, f))
                                /\ LastNotLess(s, k, f)
<1> DEFINE A == {0} \cup {k \in 1..Len(s) : ~less(f, s[k])}
           m == Max(A)
           bad == \E j \in (IF m = 0 THEN 1 ELSE m)..Len(s) : BadPair(f, s[j])
<1>1. Len(s) \in Nat
  BY DEF IsBundle
<1>2. m \in A /\ \A k \in A : k <= m
  <2>1. A \subseteq 0..Len(s) /\ A # {}
    BY <1>1
  <2> HIDE DEF A
  <2> QED
    BY <1>1, <2>1, MaxIs
<1>3. Insert(Value(s), f) = IF bad THEN Failure("index") ELSE Value(InsertAt(s, m + 1, f))
  <2> HIDE DEF A
  <2>1. Value(s).val = s /\ ~Failed(Value(s))
    BY ValueOf
  <2> QED
    BY <2>1, Zenon DEF Insert, A
<1>4. ~bad
  <2> HIDE DEF bad, A, m
  <2> SUFFICES ASSUME bad PROVE FALSE
    OBVIOUS
  <2>1. Insert(Value(s), f) = Failure("index")
    BY <1>3
  <2>2. Failure("index").err = "index"
    BY DEF Failure
  <2>3. Insert(Value(s), f).err = "index"
    BY <2>1, <2>2
  <2> QED
    BY <2>3 DEF Failed
<1>5. Insert(Value(s), f) = Value(InsertAt(s, m + 1, f))
  BY <1>3, <1>4
<1> HIDE DEF m
<1>6. m \in 0..Len(s) /\ (m # 0 => m \in 1..Len(s) /\ ~less(f, s[m]))
  BY <1>1, <1>2
<1>7. m # 0 => ~BadPair(f, s[m])
  BY <1>1, <1>4, <1>6
<1>8. \A j \in (m + 1)..Len(s) : less(f, s[j]) /\ ~BadPair(f, s[j])
  <2> SUFFICES ASSUME NEW j \in (m + 1)..Len(s) PROVE less(f, s[j]) /\ ~BadPair(f, s[j])
    OBVIOUS
  <2>1. j \in 1..Len(s) /\ ~(j <= m) /\ m <= j
    BY <1>1, <1>6
  <2>2. j \notin A
    BY <1>2, <2>1
  <2>3. j \in (IF m = 0 THEN 1 ELSE m)..Len(s)
    BY <1>1, <1>6, <2>1
  <2> QED
    BY <1>4, <2>1, <2>2, <2>3
<1> QED
  BY <1>5, <1>6, <1>7, <1>8 DEF LastNotLess

\* Of two directories the deeper one is first, then the one with the lesser name.
Precedes(d, e) == IF Len(d) # Len(e) THEN Len(d) > Len(e) ELSE before(d, e)

\* No two directories precede each other, and a third one cannot be beside both of
\* two of which one precedes the other.
LEMMA PrecedesOrder ==
    ASSUME NEW a \in Seq(Nat), NEW b \in Seq(Nat), NEW c \in Seq(Nat)
    PROVE  /\ Precedes(a, b) => ~Precedes(b, a)
           /\ Precedes(a, c) => Precedes(a, b) \/ Precedes(b, c)
<1>1. Len(a) \in Nat /\ Len(b) \in Nat /\ Len(c) \in Nat
  OBVIOUS
<1>2. \A j \in 1..Len(a) : a[j] \in Nat
  OBVIOUS
<1>3. \A j \in 1..Len(b) : b[j] \in Nat
  OBVIOUS
<1>4. \A j \in 1..Len(c) : c[j] \in Nat
  OBVIOUS
<1>5. ASSUME Precedes(a, b), Precedes(b, a) PROVE FALSE
  <2>1. Len(a) = Len(b) /\ before(a, b) /\ before(b, a)
    BY <1>1, <1>5 DEF Precedes
  <2>2. PICK m \in 1..Len(a) : a[m] < b[m] /\ \A j \in 1..(m - 1) : a[j] = b[j]
    BY <2>1 DEF before
  <2>3. PICK n \in 1..Len(a) : b[n] < a[n] /\ \A j \in 1..(n - 1) : b[j] = a[j]
    BY <2>1 DEF before
  <2>4. a[m] \in Nat /\ b[m] \in Nat /\ a[n] \in Nat /\ b[n] \in Nat
    BY <1>2, <1>3, <2>1
  <2>5. m < n => m \in 1..(n - 1)
    BY <1>1
  <2>6. n < m => n \in 1..(m - 1)
    BY <1>1
  <2>7. m < n \/ n < m \/ m = n
    BY <1>1
  <2> QED
    BY <2>2, <2>3, <2>4, <2>5, <2>6, <2>7
<1>6. ASSUME Precedes(a, c), ~Precedes(a, b), ~Precedes(b, c) PROVE FALSE
  <2>1. Len(a) = Len(b) /\ Len(b) = Len(c) /\ before(a, c) /\ ~before(a, b) /\ ~before(b, c)
    BY <1>1, <1>6 DEF Precedes
  <2>2. PICK m \in 1..Len(a) : a[m] < c[m] /\ \A j \in 1..(m - 1) : a[j] = c[j]
    BY <2>1 DEF before
  <2> DEFINE D == {j \in 1..m : a[j] # b[j]}
  <2>3. CASE D = {}
    <3>1. /\ b[m] < c[m]
          /\ \A j \in 1..(m - 1) : b[j] = c[j]
      <4>1. m \in 1..m /\ \A j \in 1..(m - 1) : j \in 1..m
        BY <1>1
      <4>2. \A j \in 1..m : a[j] = b[j]
        BY <2>3
      <4> HIDE DEF D
      <4> QED
        BY <2>2, <4>1, <4>2
    <3> QED
      BY <2>1, <3>1 DEF before
  <2>4. CASE D # {}
    <3>1. PICK n \in D : \A j \in D : ~(j < n)
      <4>1. D \subseteq Nat
        OBVIOUS
      <4> QED
        BY <2>4, <4>1, LeastNat, Zenon
    <3>2. n \in 1..Len(a) /\ n <= m /\ a[n] # b[n] /\ a[n] \in Nat /\ b[n] \in Nat /\ c[n] \in Nat
      BY <1>1, <1>2, <1>3, <1>4, <2>1, <3>1
    <3>3. \A j \in 1..(n - 1) : a[j] = b[j]
      <4> SUFFICES ASSUME NEW j \in 1..(n - 1) PROVE a[j] = b[j]
        OBVIOUS
      <4>1. j \in 1..m /\ j < n
        BY <1>1, <3>2
      <4> QED
        BY <3>1, <4>1
    <3>4. CASE a[n] < b[n]
      BY <2>1, <3>2, <3>3, <3>4 DEF before
    <3>5. CASE b[n] < a[n]
      <4>1. a[n] <= c[n]
        <5>1. n < m => n \in 1..(m - 1)
          BY <1>1, <3>2
        <5>2. n < m \/ n = m
          BY <1>1, <3>2
        <5> QED
          BY <2>2, <3>2, <5>1, <5>2
      <4>2. b[n] < c[n]
        BY <3>2, <3>5, <4>1
      <4>3. \A j \in 1..(n - 1) : b[j] = c[j]
        <5> SUFFICES ASSUME NEW j \in 1..(n - 1) PROVE b[j] = c[j]
          OBVIOUS
        <5>1. j \in 1..(m - 1)
          BY <1>1, <3>2
        <5> QED
          BY <2>2, <3>3, <5>1
      <4> QED
        BY <2>1, <3>2, <4>2, <4>3 DEF before
    <3> QED
      BY <3>2, <3>4, <3>5
  <2> QED
    BY <2>3, <2>4
<1> QED
  BY <1>5, <1>6

\* p has the first n functions; g tells which one is where.
IsSorting(fns, n, p, g) ==
    /\ IsBundle(p) /\ Len(p) = n
    /\ g \in [1..n -> 1..n]
    /\ \A u, v \in 1..n : g[u] = g[v] => u = v
    /\ \A m \in 1..n : \E u \in 1..n : g[u] = m
    /\ \A u \in 1..n : p[u] = fns[g[u]]

\* The places when the next function is put in after the first k.
Placed(g, n, k) ==
    [u \in 1..(n + 1) |-> IF u <= k THEN g[u] ELSE IF u = k + 1 THEN n + 1 ELSE g[u - 1]]

\* Inserting one more function keeps the beginning a permutation without bad pairs.
LEMMA SortStep ==
    ASSUME NEW fns, NEW n \in Nat, NEW p, NEW g, IsSorting(fns, n, p, g), NEW k \in 0..n
    PROVE  IsSorting(fns, n + 1, InsertAt(p, k + 1, fns[n + 1]), Placed(g, n, k))
<1> DEFINE t == InsertAt(p, k + 1, fns[n + 1])
           h == Placed(g, n, k)
<1>1. /\ IsBundle(t) /\ Len(t) = n + 1
      /\ \A u \in 1..(n + 1) : t[u] = IF u <= k THEN p[u]
                                     ELSE IF u = k + 1 THEN fns[n + 1] ELSE p[u - 1]
  <2> DEFINE e == fns[n + 1]
             m == k + 1
  <2>1. IsBundle(p) /\ Len(p) = n
    BY DEF IsSorting
  <2>2. m \in 1..(Len(p) + 1)
    BY <2>1
  <2>3. t = InsertAt(p, m, e)
    OBVIOUS
  <2> HIDE DEF t, e, m
  <2>4. /\ IsBundle(t) /\ Len(t) = Len(p) + 1
        /\ \A u \in 1..(Len(p) + 1) : t[u] = IF u < m THEN p[u] ELSE IF u = m THEN e ELSE p[u - 1]
    BY <2>1, <2>2, <2>3, InsertedAt
  <2>5. \A u \in 1..(n + 1) : u < m <=> u <= k
    BY DEF m
  <2> QED
    BY <2>1, <2>4, <2>5 DEF e, m
<1>2. \A u \in 1..(n + 1) : h[u] = IF u <= k THEN g[u] ELSE IF u = k + 1 THEN n + 1 ELSE g[u - 1]
  BY DEF Placed
<1>3. DOMAIN h = 1..(n + 1) /\ h = [u \in 1..(n + 1) |-> h[u]]
  BY DEF Placed
<1> HIDE DEF t, h
<1>4. \A u \in 1..n : g[u] \in 1..n /\ p[u] = fns[g[u]]
  BY DEF IsSorting
<1>5. ASSUME NEW u \in 1..(n + 1)
      PROVE  /\ u <= k => u \in 1..n /\ h[u] = g[u] /\ t[u] = p[u]
             /\ u = k + 1 => h[u] = n + 1 /\ t[u] = fns[n + 1]
             /\ k + 1 < u => u - 1 \in 1..n /\ h[u] = g[u - 1] /\ t[u] = p[u - 1]
  BY <1>1, <1>2
<1>6. ASSUME NEW u \in 1..(n + 1) PROVE h[u] \in 1..(n + 1) /\ t[u] = fns[h[u]]
  <2>1. CASE u <= k
    <3>1. u \in 1..n /\ h[u] = g[u] /\ t[u] = p[u]
      BY <1>5, <2>1
    <3>2. g[u] \in 1..n /\ p[u] = fns[g[u]]
      BY <1>4, <3>1
    <3> QED
      BY <3>1, <3>2
  <2>2. CASE u = k + 1
    BY <1>5, <2>2
  <2>3. CASE k + 1 < u
    <3>1. u - 1 \in 1..n /\ h[u] = g[u - 1] /\ t[u] = p[u - 1]
      BY <1>5, <2>3
    <3>2. g[u - 1] \in 1..n /\ p[u - 1] = fns[g[u - 1]]
      BY <1>4, <3>1
    <3> QED
      BY <3>1, <3>2
  <2> QED
    BY <2>1, <2>2, <2>3
<1>7. ASSUME NEW u \in 1..(n + 1), NEW v \in 1..(n + 1), h[u] = h[v] PROVE u = v
  <2>1. h[u] = n + 1 <=> u = k + 1
    BY <1>4, <1>5
  <2>2. h[v] = n + 1 <=> v = k + 1
    BY <1>4, <1>5
  <2>3. CASE u = k + 1 \/ v = k + 1
    BY <1>7, <2>1, <2>2, <2>3
  <2>4. CASE u # k + 1 /\ v # k + 1
    <3> DEFINE x == IF u <= k THEN u ELSE u - 1
               y == IF v <= k THEN v ELSE v - 1
    <3>1. x \in 1..n /\ h[u] = g[x]
      BY <1>5, <2>4
    <3>2. y \in 1..n /\ h[v] = g[y]
      BY <1>5, <2>4
    <3>3. x = y
      <4> HIDE DEF x, y
      <4>1. g[x] = g[y]
        BY <1>7, <3>1, <3>2
      <4>2. \A a, b \in 1..n : g[a] = g[b] => a = b
        BY DEF IsSorting
      <4> QED
        BY <3>1, <3>2, <4>1, <4>2
    <3> QED
      BY <2>4, <3>3
  <2> QED
    BY <2>3, <2>4
<1>8. ASSUME NEW m \in 1..(n + 1) PROVE \E u \in 1..(n + 1) : h[u] = m
  <2>1. CASE m = n + 1
    <3>1. k + 1 \in 1..(n + 1)
      OBVIOUS
    <3> QED
      BY <1>5, <2>1, <3>1
  <2>2. CASE m # n + 1
    <3>1. PICK x \in 1..n : g[x] = m
      BY <2>2 DEF IsSorting
    <3>2. CASE x <= k
      <4>1. x \in 1..(n + 1)
        OBVIOUS
      <4> QED
        BY <1>5, <3>1, <3>2, <4>1
    <3>3. CASE k < x
      <4>1. x + 1 \in 1..(n + 1) /\ k + 1 < x + 1 /\ x + 1 - 1 = x
        BY <3>3
      <4> QED
        BY <1>5, <3>1, <4>1
    <3> QED
      BY <3>2, <3>3
  <2> QED
    BY <2>1, <2>2
<1>9. h \in [1..(n + 1) -> 1..(n + 1)]
  BY <1>3, <1>6
<1> QED
  BY <1>1, <1>6, <1>7, <1>8, <1>9 DEF IsSorting, t, h

\* The functions of a package as it is read: in one file by their index.
AsRead(fns) ==
    \A n \in 1..Len(fns) :
        /\ fns[n].path \in Seq(Nat) \ {<<>>} /\ fns[n].index \in {BadIndex} \cup Nat
        /\ \A m \in 1..(n - 1) :
              fns[m].path = fns[n].path /\ ~BadPair(fns[m], fns[n])
                  => fns[m].index < fns[n].index

Typed(fns) ==
    \A n \in 1..Len(fns) : fns[n].path \in Seq(Nat) \ {<<>>} /\ fns[n].index \in {BadIndex} \cup Nat

\* No function precedes one that is before it.
InDepth(p) ==
    \A v \in 1..Len(p) : \A u \in 1..(v - 1) : ~Precedes(scope(p[v].path), scope(p[u].path))

\* Those of one file are as they were.
InFile(p, g) ==
    \A v \in 1..Len(p) : \A u \in 1..(v - 1) : p[u].path = p[v].path => g[u] < g[v]

\* The front of a path.
LEMMA FrontIs ==
    ASSUME NEW T, NEW s \in Seq(T), s # <<>>
    PROVE  /\ Front(s) \in Seq(T) /\ Len(Front(s)) = Len(s) - 1
           /\ \A n \in 1..(Len(s) - 1) : Front(s)[n] = s[n]
<1>1. Len(s) \in Nat /\ Len(s) # 0
  OBVIOUS
<1> DEFINE m == Len(s) - 1
<1>2. Front(s) = SubSeq(s, 1, m)
  BY Zenon DEF Front
<1>3. m \in 0..Len(s)
  BY <1>1
<1> HIDE DEF m
<1>4. SubSeq(s, 1, m) \in Seq(T) /\ Len(SubSeq(s, 1, m)) = m
  BY <1>1, <1>3
<1>5. \A n \in 1..m : SubSeq(s, 1, m)[n] = s[n]
  BY <1>1, <1>3
<1> QED
  BY <1>2, <1>4, <1>5 DEF m

\* The scope of a path is its directories, less a last one called functions.
LEMMA ScopeIs ==
    ASSUME NEW path \in Seq(Nat), path # <<>>
    PROVE  /\ scope(path) \in Seq(Nat)
           /\ Len(scope(path)) = IF Len(path) > 1 /\ path[Len(path) - 1] = FunctionsDir
                                 THEN Len(path) - 2 ELSE Len(path) - 1
<1> DEFINE d == Front(path)
<1>1. d \in Seq(Nat) /\ Len(d) = Len(path) - 1 /\ \A n \in 1..(Len(path) - 1) : d[n] = path[n]
  BY FrontIs
<1>2. Len(path) \in Nat /\ Len(path) # 0
  OBVIOUS
<1>3. scope(path) = IF d # <<>> /\ Last(d) = FunctionsDir THEN Front(d) ELSE d
  BY DEF scope
<1> HIDE DEF d
<1>4. d # <<>> <=> Len(path) > 1
  BY <1>1, <1>2
<1>5. d # <<>> => Last(d) = path[Len(path) - 1]
  <2>1. Last(d) = d[Len(d)]
    BY Zenon DEF Last
  <2> DEFINE m == Len(path) - 1
  <2>2. d # <<>> => m \in 1..m
    BY <1>2, <1>4
  <2>3. Len(d) = m /\ \A n \in 1..m : d[n] = path[n]
    BY <1>1
  <2> HIDE DEF m
  <2>4. d # <<>> => Last(d) = path[m]
    BY <2>1, <2>2, <2>3
  <2> QED
    BY <2>4 DEF m
<1>6. d # <<>> => Front(d) \in Seq(Nat) /\ Len(Front(d)) = Len(path) - 2
  <2> SUFFICES ASSUME d # <<>> PROVE Front(d) \in Seq(Nat) /\ Len(Front(d)) = Len(path) - 2
    OBVIOUS
  <2>1. Front(d) \in Seq(Nat) /\ Len(Front(d)) = Len(d) - 1
    BY <1>1, FrontIs
  <2> QED
    BY <1>1, <1>2, <2>1
<1> QED
  BY <1>1, <1>3, <1>4, <1>5, <1>6

\* What sort.Slice's comparison comes to for functions of a package.
LEMMA LessIs ==
    ASSUME NEW f, NEW e, ~BadPair(f, e)
    PROVE  /\ f.path = e.path => (less(f, e) <=> f.index < e.index)
           /\ f.path # e.path => (less(f, e) <=> Precedes(scope(f.path), scope(e.path)))
  BY DEF less, Precedes

\* Inserting one more function keeps the beginning in order.
LEMMA OrderStep ==
    ASSUME NEW fns, Typed(fns), Len(fns) \in Nat,
           NEW n \in Nat, NEW m \in 1..Len(fns), m = n + 1,
           NEW p, NEW g, IsSorting(fns, n, p, g),
           InDepth(p), AsRead(fns) => InFile(p, g),
           NEW k \in 0..n, LastNotLess(p, k, fns[m]),
           NEW t, NEW h, IsSorting(fns, m, t, h), h = Placed(g, n, k)
    PROVE  InDepth(t) /\ (AsRead(fns) => InFile(t, h))
<1> DEFINE S(x) == scope(x.path)
           f == fns[m]
<1>1. /\ Len(p) = n /\ Len(t) = n + 1
      /\ \A u \in 1..n : g[u] \in 1..n /\ p[u] = fns[g[u]]
      /\ \A u \in 1..(n + 1) : h[u] \in 1..(n + 1) /\ t[u] = fns[h[u]]
      /\ \A u \in 1..(n + 1) : /\ u <= k => h[u] = g[u]
                               /\ u = k + 1 => h[u] = n + 1
                               /\ k + 1 < u => h[u] = g[u - 1]
  <2>1. /\ Len(p) = n /\ Len(t) = m
        /\ \A u \in 1..n : g[u] \in 1..n /\ p[u] = fns[g[u]]
        /\ \A u \in 1..m : h[u] \in 1..m /\ t[u] = fns[h[u]]
    BY DEF IsSorting
  <2>2. \A u \in 1..(n + 1) : /\ u <= k => h[u] = g[u]
                              /\ u = k + 1 => h[u] = n + 1
                              /\ k + 1 < u => h[u] = g[u - 1]
    BY DEF Placed
  <2> QED
    BY <2>1, <2>2
<1>0. /\ k # 0 => ~less(f, p[k]) /\ ~BadPair(f, p[k])
      /\ \A j \in (k + 1)..n : less(f, p[j]) /\ ~BadPair(f, p[j])
  BY <1>1 DEF LastNotLess
<1>2. \A u \in 1..n : g[u] \in 1..Len(fns)
  <2> SUFFICES ASSUME NEW u \in 1..n PROVE g[u] \in 1..Len(fns)
    OBVIOUS
  <2>1. g[u] \in 1..n
    BY <1>1
  <2> QED
    BY <2>1
<1>3. f.path \in Seq(Nat) /\ f.path # <<>> /\ f.index \in {BadIndex} \cup Nat
  BY DEF Typed
<1> HIDE DEF f
<1>4. \A u \in 1..n : p[u].path \in Seq(Nat) /\ p[u].path # <<>> /\ p[u].index \in {BadIndex} \cup Nat
  <2> SUFFICES ASSUME NEW u \in 1..n
               PROVE  p[u].path \in Seq(Nat) /\ p[u].path # <<>> /\ p[u].index \in {BadIndex} \cup Nat
    OBVIOUS
  <2> DEFINE w == g[u]
  <2>1. w \in 1..Len(fns) /\ p[u] = fns[w]
    BY <1>1, <1>2
  <2> HIDE DEF w
  <2>2. fns[w].path \in Seq(Nat) \ {<<>>} /\ fns[w].index \in {BadIndex} \cup Nat
    BY <2>1 DEF Typed
  <2> QED
    BY <2>1, <2>2
<1>5. S(f) \in Seq(Nat) /\ \A u \in 1..n : S(p[u]) \in Seq(Nat)
  BY <1>3, <1>4, ScopeIs
<1>6. ASSUME AsRead(fns), NEW u \in 1..n, p[u].path = f.path, ~BadPair(f, p[u]) PROVE ~(f.index < p[u].index)
  <2>1. g[u] \in 1..(m - 1) /\ p[u] = fns[g[u]]
    BY <1>1
  <2>2. ~BadPair(p[u], f)
    BY <1>6 DEF BadPair
  <2>3. p[u].index < f.index
    BY <1>6, <2>1, <2>2 DEF AsRead, f
  <2>4. f.index \in Nat /\ p[u].index \in Nat
    BY <1>3, <1>4, <1>6 DEF BadPair
  <2> QED
    BY <2>3, <2>4
<1> HIDE DEF S
<1>7. ASSUME NEW j \in (k + 1)..n
      PROVE  ~Precedes(S(p[j]), S(f)) /\ (AsRead(fns) => p[j].path # f.path)
  <2>1. j \in 1..n /\ less(f, p[j]) /\ ~BadPair(f, p[j])
    BY <1>0, <1>7
  <2>2. /\ f.path = p[j].path => (less(f, p[j]) <=> f.index < p[j].index)
        /\ f.path # p[j].path => (less(f, p[j]) <=> Precedes(S(f), S(p[j])))
    BY <2>1, LessIs DEF S
  <2>3. /\ Precedes(S(f), S(p[j])) => ~Precedes(S(p[j]), S(f))
        /\ Precedes(S(f), S(f)) => ~Precedes(S(f), S(f))
    BY <1>5, <2>1, PrecedesOrder
  <2>4. f.path = p[j].path => S(f) = S(p[j])
    BY DEF S
  <2>5. AsRead(fns) => p[j].path # f.path
    BY <1>6, <2>1, <2>2
  <2> QED
    BY <2>1, <2>2, <2>3, <2>4, <2>5
<1>8. ASSUME k # 0 PROVE ~Precedes(S(f), S(p[k]))
  <2>1. k \in 1..n /\ ~less(f, p[k]) /\ ~BadPair(f, p[k])
    BY <1>0, <1>8
  <2>2. /\ f.path = p[k].path => (less(f, p[k]) <=> f.index < p[k].index)
        /\ f.path # p[k].path => (less(f, p[k]) <=> Precedes(S(f), S(p[k])))
    BY <2>1, LessIs DEF S
  <2>3. f.path = p[k].path => S(f) = S(p[k])
    BY DEF S
  <2>4. Precedes(S(f), S(f)) => ~Precedes(S(f), S(f))
    BY <1>5, PrecedesOrder
  <2> QED
    BY <2>1, <2>2, <2>3, <2>4
<1>9. ASSUME NEW u \in 1..k PROVE ~Precedes(S(f), S(p[u]))
  <2>1. k # 0 /\ k \in 1..n /\ u \in 1..n
    OBVIOUS
  <2>2. CASE u = k
    BY <1>8, <2>1, <2>2
  <2>3. CASE u # k
    <3>1. u \in 1..(k - 1)
      BY <2>3
    <3>2. ~Precedes(S(p[k]), S(p[u]))
      BY <1>1, <2>1, <3>1 DEF InDepth, S
    <3>3. Precedes(S(f), S(p[u])) => Precedes(S(f), S(p[k])) \/ Precedes(S(p[k]), S(p[u]))
      BY <1>5, <2>1, PrecedesOrder
    <3> QED
      BY <1>8, <2>1, <3>2, <3>3
  <2> QED
    BY <2>2, <2>3
<1>10. \A a, b \in 1..n : a < b => /\ ~Precedes(S(p[b]), S(p[a]))
                                   /\ AsRead(fns) /\ p[a].path = p[b].path => g[a] < g[b]
  <2> SUFFICES ASSUME NEW a \in 1..n, NEW b \in 1..n, a < b
               PROVE  /\ ~Precedes(S(p[b]), S(p[a]))
                      /\ AsRead(fns) /\ p[a].path = p[b].path => g[a] < g[b]
    OBVIOUS
  <2>1. a \in 1..(b - 1)
    OBVIOUS
  <2> QED
    BY <1>1, <2>1 DEF InDepth, InFile, S
<1>11. \A u \in 1..(n + 1) : /\ u <= k => u \in 1..n /\ t[u] = p[u] /\ h[u] = g[u]
                             /\ u = k + 1 => t[u] = f /\ h[u] = n + 1
                             /\ k + 1 < u => u - 1 \in 1..n /\ t[u] = p[u - 1] /\ h[u] = g[u - 1]
  <2> SUFFICES ASSUME NEW u \in 1..(n + 1)
               PROVE  /\ u <= k => u \in 1..n /\ t[u] = p[u] /\ h[u] = g[u]
                      /\ u = k + 1 => t[u] = f /\ h[u] = n + 1
                      /\ k + 1 < u => u - 1 \in 1..n /\ t[u] = p[u - 1] /\ h[u] = g[u - 1]
    OBVIOUS
  <2>1. u <= k => u \in 1..n
    OBVIOUS
  <2>2. k + 1 < u => u - 1 \in 1..n
    OBVIOUS
  <2>3. t[u] = fns[h[u]]
    BY <1>1
  <2>4. u <= k => t[u] = p[u] /\ h[u] = g[u]
    BY <1>1, <2>1, <2>3
  <2>5. u = k + 1 => t[u] = f /\ h[u] = n + 1
    BY <1>1, <2>3 DEF f
  <2>6. k + 1 < u => t[u] = p[u - 1] /\ h[u] = g[u - 1]
    <3> DEFINE w == u - 1
    <3>1. k + 1 < u => w \in 1..n /\ h[u] = g[w]
      BY <1>1
    <3> HIDE DEF w
    <3>2. k + 1 < u => t[u] = p[w] /\ h[u] = g[w]
      BY <1>1, <2>3, <3>1
    <3> QED
      BY <3>2 DEF w
  <2> QED
    BY <2>1, <2>2, <2>4, <2>5, <2>6
<1>12. ASSUME NEW v \in 1..(n + 1), NEW u \in 1..(v - 1)
       PROVE  /\ ~Precedes(S(t[v]), S(t[u]))
              /\ AsRead(fns) /\ t[u].path = t[v].path => h[u] < h[v]
  <2>0. u \in 1..(n + 1) /\ u < v
    OBVIOUS
  <2>1. CASE v <= k
    <3>1. u <= k
      BY <2>0, <2>1
    <3> QED
      BY <1>10, <1>11, <2>0, <2>1, <3>1
  <2>2. CASE v = k + 1
    <3>1. u <= k /\ u \in 1..k
      BY <2>0, <2>2
    <3>2. t[u] = p[u] /\ h[u] = g[u] /\ t[v] = f /\ h[v] = n + 1 /\ u \in 1..n
      BY <1>11, <2>0, <2>2, <3>1
    <3>3. g[u] < n + 1
      BY <1>1, <3>2
    <3> QED
      BY <1>9, <3>1, <3>2, <3>3
  <2>3. CASE k + 1 < v
    <3>1. v - 1 \in 1..n /\ t[v] = p[v - 1] /\ h[v] = g[v - 1]
      BY <1>11, <2>3
    <3>2. CASE u <= k
      <4>0. u < v - 1
        BY <2>3, <3>2
      <4>1. u \in 1..n /\ t[u] = p[u] /\ h[u] = g[u] /\ u < v - 1
        BY <1>11, <2>0, <3>2, <4>0
      <4> QED
        BY <1>10, <3>1, <4>1
    <3>3. CASE u = k + 1
      <4>1. v - 1 \in (k + 1)..n
        BY <2>3
      <4>2. ~Precedes(S(p[v - 1]), S(f)) /\ (AsRead(fns) => p[v - 1].path # f.path)
        BY <1>7, <4>1
      <4>4. t[u] = f
        BY <1>11, <2>0, <3>3
      <4> QED
        BY <3>1, <4>2, <4>4
    <3>4. CASE k + 1 < u
      <4>1. u - 1 \in 1..n /\ t[u] = p[u - 1] /\ h[u] = g[u - 1] /\ u - 1 < v - 1
        BY <1>11, <2>0, <3>4
      <4> QED
        BY <1>10, <3>1, <4>1
    <3> QED
      BY <2>0, <3>2, <3>3, <3>4
  <2> QED
    BY <2>1, <2>2, <2>3
<1> QED
  BY <1>1, <1>12 DEF InDepth, InFile, S

\* The first n functions are in order.
InPlace(fns, n, p, g) == IsSorting(fns, n, p, g) /\ InDepth(p) /\ (AsRead(fns) => InFile(p, g))

\* insertionSort reorders the functions and nothing more, puts the deeper ones first,
\* and leaves those of one file as they were read.
LEMMA InsertionSorts ==
    ASSUME NEW fns, IsBundle(fns), Typed(fns), ~Failed(insertionSort(fns))
    PROVE  \E g : InPlace(fns, Len(fns), insertionSort(fns).val, g)
<1> DEFINE L == Len(fns)
           Sorted(r, n) == \E p, g : r = Value(p) /\ InPlace(fns, n, p, g)
<1>1. L \in Nat
  BY DEF IsBundle
<1>2. PICK up : Sorting(fns, up, L) /\ insertionSort(fns) = up[L]
  BY <1>1, SortingIs
<1>3. up[0] = Value(<<>>) /\ \A n \in 1..L : up[n] = Insert(up[n - 1], fns[n])
  <2>1. \A n \in 0..L : up[n] = IF n = 0 THEN Value(<<>>) ELSE Insert(up[n - 1], fns[n])
    BY <1>2 DEF Sorting
  <2>2. 0 \in 0..L /\ \A n \in 1..L : n \in 0..L /\ n # 0
    BY <1>1
  <2> HIDE DEF L
  <2> QED
    BY <2>1, <2>2
<1> HIDE DEF L
<1>4. Sorted(up[0], 0)
  <2> DEFINE g == [u \in 1..0 |-> u]
             p == <<>>
  <2>1. IsSorting(fns, 0, p, g)
    <3>1. IsBundle(p) /\ Len(p) = 0
      BY DEF IsBundle
    <3>2. g \in [1..0 -> 1..0]
      OBVIOUS
    <3> QED
      BY <3>1, <3>2 DEF IsSorting
  <2>2. InDepth(p) /\ InFile(p, g)
    BY DEF InDepth, InFile
  <2> QED
    BY <1>3, <2>1, <2>2 DEF InPlace
<1>5. ASSUME NEW m \in 1..L, Sorted(up[m - 1], m - 1), ~Failed(up[m]) PROVE Sorted(up[m], m)
  <2> DEFINE n == m - 1
             f == fns[m]
  <2>1. n \in Nat /\ n + 1 = m /\ m \in 1..Len(fns) /\ Len(fns) \in Nat
    BY <1>1 DEF L
  <2>0. PICK p, g : up[n] = Value(p) /\ InPlace(fns, n, p, g)
    BY <1>5
  <2>2. /\ up[n] = Value(p) /\ IsSorting(fns, n, p, g) /\ InDepth(p)
        /\ AsRead(fns) => InFile(p, g)
    BY <2>0 DEF InPlace
  <2>3. up[m] = Insert(Value(p), f) /\ ~Failed(Insert(Value(p), f))
    BY <1>3, <1>5, <2>2
  <2>4. IsBundle(p) /\ Len(p) = n
    BY <2>2 DEF IsSorting
  <2> HIDE DEF f
  <2>5. PICK k \in 0..Len(p) :
           Insert(Value(p), f) = Value(InsertAt(p, k + 1, f)) /\ LastNotLess(p, k, f)
    BY <2>3, <2>4, InsertIs
  <2> HIDE DEF n
  <2> DEFINE t == InsertAt(p, k + 1, fns[n + 1])
             h == Placed(g, n, k)
  <2>6. k \in 0..n
    BY <2>4
  <2>7. IsSorting(fns, n + 1, t, h)
    BY <2>1, <2>2, <2>6, SortStep
  <2>8. up[m] = Value(t)
    BY <2>1, <2>3, <2>5 DEF f
  <2>9. h = Placed(g, n, k)
    OBVIOUS
  <2>10. IsSorting(fns, m, t, h)
    BY <2>1, <2>7
  <2>11. LastNotLess(p, k, fns[m])
    BY <2>5 DEF f
  <2> HIDE DEF t, h
  <2>12. InDepth(t) /\ (AsRead(fns) => InFile(t, h))
    BY <2>1, <2>2, <2>6, <2>9, <2>10, <2>11, OrderStep
  <2> QED
    BY <2>8, <2>10, <2>12 DEF InPlace
<1>6. ASSUME NEW m \in 1..L, Failed(up[m - 1]) PROVE Failed(up[m])
  BY <1>3, <1>6 DEF Insert
<1> HIDE DEF Sorted
<1>7. ~Failed(up[L]) => Sorted(up[L], L)
  <2> DEFINE Bad == {n \in 0..L : ~Failed(up[n]) /\ ~Sorted(up[n], n)}
  <2> SUFFICES ASSUME Bad # {} PROVE FALSE
    BY <1>1
  <2>1. Bad \subseteq Nat
    BY <1>1
  <2>2. PICK m \in Bad : \A n \in Bad : ~(n < m)
    BY <2>1, LeastNat, Zenon
  <2>3. m # 0
    BY <1>4, <2>2
  <2>4. m \in 1..L /\ m - 1 \in 0..L /\ m - 1 < m
    BY <1>1, <2>2, <2>3
  <2>5. ~Failed(up[m - 1])
    BY <1>6, <2>2, <2>4
  <2>6. m - 1 \notin Bad
    BY <2>2, <2>4
  <2>7. Sorted(up[m - 1], m - 1)
    BY <2>4, <2>5, <2>6
  <2> QED
    BY <1>5, <2>2, <2>4, <2>7
<1>8. Sorted(insertionSort(fns), Len(fns))
  BY <1>2, <1>7 DEF L
<1>9. PICK p, g : insertionSort(fns) = Value(p) /\ InPlace(fns, Len(fns), p, g)
  BY <1>8 DEF Sorted
<1>10. insertionSort(fns).val = p
  BY <1>9, ValueOf
<1> QED
  BY <1>9, <1>10

\* The gap pass exchanges functions.
LEMMA GapSorts ==
    ASSUME NEW fns, IsBundle(fns), Len(fns) <= MaxInsertion
    PROVE  /\ \E d : IsSorting(fns, Len(fns), gapPass(fns), d)
           /\ Swapped(fns) = {} => gapPass(fns) = fns
<1> DEFINE L == Len(fns)
           W == Swapped(fns)
           p == gapPass(fns)
           d == [n \in 1..L |-> IF n \in W THEN n + 6 ELSE IF n - 6 \in W THEN n - 6 ELSE n]
<1>1. L \in Nat /\ L <= 12 /\ fns = [n \in 1..L |-> fns[n]]
  BY DEF IsBundle, MaxInsertion
<1>2. \A n \in W : n \in 1..(L - 6)
  BY DEF Swapped, Gap
<1>3. p = [n \in 1..L |-> IF n \in W THEN fns[n + 6] ELSE IF n - 6 \in W THEN fns[n - 6] ELSE fns[n]]
  BY DEF gapPass, Gap
<1> HIDE DEF L, W, p
<1>4. ASSUME NEW n \in 1..L PROVE d[n] \in 1..L /\ d[d[n]] = n /\ p[n] = fns[d[n]]
  <2>1. CASE n \in W
    <3>1. n + 6 \in 1..L /\ n \in 1..6 /\ n + 6 - 6 = n /\ n + 6 \notin W
      BY <1>1, <1>2, <2>1
    <3> QED
      BY <1>3, <2>1, <3>1
  <2>2. CASE n \notin W /\ n - 6 \in W
    <3>1. n - 6 \in 1..L /\ n - 6 + 6 = n
      BY <1>1, <1>2, <2>2
    <3> QED
      BY <1>3, <2>2, <3>1
  <2>3. CASE n \notin W /\ n - 6 \notin W
    BY <1>3, <2>3
  <2> QED
    BY <2>1, <2>2, <2>3
<1>5. d = [n \in 1..L |-> d[n]]
  OBVIOUS
<1> HIDE DEF d
<1>6. d \in [1..L -> 1..L]
  BY <1>4, <1>5
<1>7. \A u, v \in 1..L : d[u] = d[v] => u = v
  BY <1>4
<1>8. \A m \in 1..L : \E u \in 1..L : d[u] = m
  BY <1>4
<1>9. p = [n \in 1..L |-> p[n]]
  BY <1>3
<1>10. IsBundle(p) /\ Len(p) = L
  BY <1>1, <1>9, BundleIs
<1>11. IsSorting(fns, L, p, d)
  BY <1>4, <1>6, <1>7, <1>8, <1>10 DEF IsSorting
<1>12. W = {} => p = fns
  BY <1>1, <1>3
<1> QED
  BY <1>11, <1>12 DEF L, W, p

\* One order after the other is an order.
LEMMA SortingsCompose ==
    ASSUME NEW fns, NEW L \in Nat, NEW p, NEW g, IsSorting(fns, L, p, g),
           NEW t, NEW h, IsSorting(p, L, t, h)
    PROVE  IsSorting(fns, L, t, [u \in 1..L |-> g[h[u]]])
<1> DEFINE k == [u \in 1..L |-> g[h[u]]]
<1>1. \A u \in 1..L : h[u] \in 1..L /\ g[u] \in 1..L /\ p[u] = fns[g[u]] /\ t[u] = p[h[u]]
  BY DEF IsSorting
<1>2. k \in [1..L -> 1..L]
  BY <1>1
<1>3. \A u, v \in 1..L : k[u] = k[v] => u = v
  <2> SUFFICES ASSUME NEW u \in 1..L, NEW v \in 1..L, k[u] = k[v] PROVE u = v
    OBVIOUS
  <2>1. h[u] = h[v]
    BY <1>1 DEF IsSorting
  <2> QED
    BY <2>1 DEF IsSorting
<1>4. ASSUME NEW m \in 1..L PROVE \E u \in 1..L : k[u] = m
  <2>1. PICK x \in 1..L : g[x] = m
    BY DEF IsSorting
  <2>2. PICK u \in 1..L : h[u] = x
    BY DEF IsSorting
  <2> QED
    BY <2>1, <2>2
<1>5. \A u \in 1..L : t[u] = fns[k[u]]
  BY <1>1
<1>6. IsBundle(t) /\ Len(t) = L
  BY DEF IsSorting
<1> HIDE DEF k
<1> QED
  BY <1>2, <1>3, <1>4, <1>5, <1>6 DEF IsSorting, k

\* sortFns reorders the functions and nothing more.  Up to twelve are deeper first,
\* and those of one file stay as they were read unless the gap pass moves one.
LEMMA SortedIs ==
    ASSUME NEW fns, IsBundle(fns), AsRead(fns), ~Failed(sortFns(fns))
    PROVE  \E g : /\ IsSorting(fns, Len(fns), sortFns(fns).val, g)
                  /\ Len(fns) <= MaxInsertion =>
                        /\ InDepth(sortFns(fns).val)
                        /\ Swapped(fns) = {} => InFile(sortFns(fns).val, g)
<1> DEFINE L == Len(fns)
           p == gapPass(fns)
<1>0. L \in Nat /\ Typed(fns)
  BY DEF IsBundle, AsRead, Typed
<1>1. CASE L > MaxInsertion
  <2> DEFINE Orders == {Value([n \in 1..L |-> fns[g[n]]]) : g \in Bijection(1..L, 1..L)}
  <2>1. sortFns(fns) = quickSort(fns)
    BY <1>1 DEF sortFns
  <2>2. quickSort(fns) \in {Failure("index")} \cup Orders
    BY DEF quickSort
  <2>3. Failed(Failure("index"))
    BY DEF Failed, Failure
  <2> HIDE DEF Orders
  <2>4. sortFns(fns) \in Orders
    BY <2>1, <2>2, <2>3
  <2>5. PICK g \in Bijection(1..L, 1..L) : sortFns(fns) = Value([n \in 1..L |-> fns[g[n]]])
    BY <2>4 DEF Orders
  <2> DEFINE t == [n \in 1..L |-> fns[g[n]]]
  <2>6. sortFns(fns).val = t
    BY <2>5, ValueOf
  <2>7. t = [n \in 1..L |-> t[n]] /\ \A n \in 1..L : t[n] = fns[g[n]]
    OBVIOUS
  <2> HIDE DEF t, L
  <2>8. IsBundle(t) /\ Len(t) = L
    BY <1>0, <2>7, BundleIs
  <2>9. /\ g \in [1..L -> 1..L]
        /\ \A u, v \in 1..L : g[u] = g[v] => u = v
        /\ \A m \in 1..L : \E u \in 1..L : g[u] = m
    BY DEF Bijection, Injection, Surjection, IsInjective
  <2>10. IsSorting(fns, L, t, g)
    BY <2>7, <2>8, <2>9 DEF IsSorting
  <2>11. ~(L <= MaxInsertion)
    BY <1>0, <1>1 DEF MaxInsertion
  <2> QED
    BY <2>6, <2>10, <2>11 DEF L
<1>2. CASE L <= MaxInsertion
  <2>1. sortFns(fns) = insertionSort(p) /\ ~Failed(insertionSort(p))
    <3>1. ~(L > MaxInsertion)
      BY <1>0, <1>2 DEF MaxInsertion
    <3>2. Failed(Failure("index"))
      BY DEF Failed, Failure
    <3> QED
      BY <3>1, <3>2 DEF sortFns
  <2>2. PICK d : IsSorting(fns, L, p, d)
    BY <1>2, GapSorts
  <2>3. IsBundle(p) /\ Len(p) = L /\ \A u \in 1..L : d[u] \in 1..L /\ p[u] = fns[d[u]]
    BY <2>2 DEF IsSorting
  <2>4. Typed(p)
    BY <1>0, <2>3 DEF Typed
  <2>5. Swapped(fns) = {} => p = fns
    BY <1>2, GapSorts
  <2> HIDE DEF p, L
  <2> DEFINE t == insertionSort(p).val
  <2>6. PICK h : IsSorting(p, L, t, h) /\ InDepth(t) /\ (AsRead(p) => InFile(t, h))
    BY <2>1, <2>3, <2>4, InsertionSorts DEF InPlace
  <2> HIDE DEF t
  <2>7. sortFns(fns).val = t
    BY <2>1 DEF t
  <2>8. CASE Swapped(fns) = {}
    <3>1. IsSorting(fns, L, t, h) /\ InFile(t, h)
      BY <2>5, <2>6, <2>8
    <3> QED
      BY <2>6, <2>7, <3>1 DEF L
  <2>9. CASE Swapped(fns) # {}
    <3>1. IsSorting(fns, L, t, [u \in 1..L |-> d[h[u]]])
      BY <1>0, <2>2, <2>6, SortingsCompose
    <3> QED
      BY <2>6, <2>7, <2>9, <3>1 DEF L
  <2> QED
    BY <2>8, <2>9
<1>3. L > MaxInsertion \/ L <= MaxInsertion
  BY <1>0 DEF MaxInsertion
<1> QED
  BY <1>1, <1>2, <1>3

-----------------------------------------------------------------------------
(* Listings: which of the functions are run.                               *)

\* The elements of a concatenation.
LEMMA ConcatIs ==
    ASSUME NEW s, IsBundle(s), NEW t, IsBundle(t)
    PROVE  /\ IsBundle(s \o t) /\ Len(s \o t) = Len(s) + Len(t)
           /\ \A n \in 1..Len(s) : (s \o t)[n] = s[n]
           /\ \A n \in 1..Len(t) : (s \o t)[Len(s) + n] = t[n]
<1> DEFINE T == Docs(s) \cup Docs(t)
           x == s \o t
           L == Len(s) + Len(t)
<1>1. s \in Seq(T) /\ t \in Seq(T) /\ Len(s) \in Nat /\ Len(t) \in Nat
  BY DEF IsBundle
<1> HIDE DEF T
<1>2. /\ x \in Seq(T) /\ Len(x) = L
      /\ \A n \in 1..L : x[n] = IF n <= Len(s) THEN s[n] ELSE t[n - Len(s)]
  BY <1>1, ConcatProperties
<1>3. L \in Nat
  BY <1>1
<1> HIDE DEF x
<1>4. x = [n \in 1..L |-> x[n]] /\ DOMAIN x = 1..L
  <2>1. x \in [1..L -> T]
    BY <1>2, LenProperties
  <2> QED
    BY <2>1
<1>5. IsBundle(x)
  BY <1>3, <1>4, BundleIs
<1>6. \A n \in 1..Len(s) : x[n] = s[n]
  BY <1>1, <1>2
<1>7. \A n \in 1..Len(t) : x[Len(s) + n] = t[n]
  <2> SUFFICES ASSUME NEW n \in 1..Len(t) PROVE x[Len(s) + n] = t[n]
    OBVIOUS
  <2> DEFINE m == Len(s) + n
  <2>1. m \in 1..L /\ ~(m <= Len(s)) /\ m - Len(s) = n
    BY <1>1
  <2> HIDE DEF m, L
  <2>2. x[m] = t[m - Len(s)]
    BY <1>2, <2>1
  <2> QED
    BY <2>1, <2>2 DEF m
<1> QED
  BY <1>2, <1>5, <1>6, <1>7 DEF x

\* q has the functions fns at the places in K, each once; g tells which one is where.
Listing(q, fns, K, g) ==
    /\ IsBundle(q) /\ g \in [1..Len(q) -> K]
    /\ \A u, v \in 1..Len(q) : g[u] = g[v] => u = v
    /\ \A n \in K : \E u \in 1..Len(q) : g[u] = n
    /\ \A u \in 1..Len(q) : q[u] = fns[g[u]]

\* Picked is a listing that keeps the order.
LEMMA PickingLists ==
    ASSUME NEW s, NEW K, K \subseteq 1..Len(s), Len(s) \in Nat, NEW p, NEW g, IsPicking(s, K, p, g)
    PROVE  Listing(p, s, K, g) /\ \A u, v \in 1..Len(p) : u < v => g[u] < g[v]
<1>1. /\ Len(p) \in Nat
      /\ g \in [1..Len(p) -> K]
      /\ \A u, v \in 1..Len(p) : u < v => g[u] < g[v]
      /\ \A n \in K : \E u \in 1..Len(p) : g[u] = n
      /\ p = [u \in 1..Len(p) |-> s[g[u]]]
  BY DEF IsPicking
<1>2. IsBundle(p)
  <2>1. p = [u \in 1..Len(p) |-> p[u]] /\ DOMAIN p = 1..Len(p)
    BY <1>1
  <2> QED
    BY <1>1, <2>1, BundleIs
<1>3. \A u, v \in 1..Len(p) : g[u] = g[v] => u = v
  <2> SUFFICES ASSUME NEW u \in 1..Len(p), NEW v \in 1..Len(p), g[u] = g[v] PROVE u = v
    OBVIOUS
  <2>0. g[u] \in K /\ g[v] \in K
    BY <1>1
  <2>1. \A n \in K : n \in Nat
    <3>1. \A n \in 1..Len(s) : n \in Nat
      OBVIOUS
    <3> QED
      BY <3>1
  <2>2. u < v => g[u] < g[v]
    BY <1>1
  <2>3. v < u => g[v] < g[u]
    BY <1>1
  <2> QED
    <3>1. g[u] \in Nat /\ g[v] \in Nat /\ g[u] = g[v]
      BY <2>0, <2>1
    <3>2. ~(g[u] < g[v]) /\ ~(g[v] < g[u])
      BY <3>1
    <3>3. ~(u < v) /\ ~(v < u)
      BY <2>2, <2>3, <3>2
    <3> QED
      BY <1>1, <3>3
<1>4. \A u \in 1..Len(p) : p[u] = s[g[u]]
  BY <1>1
<1> QED
  BY <1>1, <1>2, <1>3, <1>4 DEF Listing

\* The functions to be run are a listing of those with an image.
LEMMA ToRunLists ==
    ASSUME NEW fns, IsBundle(fns)
    PROVE  \E g : /\ Listing(ToRun(fns), fns, Imaged(fns), g)
                  /\ \A u, v \in 1..Len(ToRun(fns)) : u < v => g[u] < g[v]
<1>1. Imaged(fns) \subseteq 1..Len(fns) /\ Len(fns) \in Nat
  BY DEF Imaged, IsBundle
<1>2. PICK g : IsPicking(fns, Imaged(fns), ToRun(fns), g)
  BY <1>1, PickedPlaces DEF ToRun
<1> QED
  BY <1>1, <1>2, PickingLists

\* The functions of two sources, one after the other.
LEMMA ConcatLists ==
    ASSUME NEW s, IsBundle(s), NEW t, IsBundle(t)
    PROVE  \E g : Listing(ToRun(s) \o ToRun(t), s \o t, Imaged(s \o t), g)
<1> DEFINE p == ToRun(s)
           q == ToRun(t)
           a == Len(p)
           b == Len(q)
           L == Len(s)
<1>1. PICK f : Listing(p, s, Imaged(s), f)
  BY ToRunLists
<1>2. PICK h : Listing(q, t, Imaged(t), h)
  BY ToRunLists
<1> HIDE DEF p, q
<1>3. IsBundle(p) /\ IsBundle(q) /\ a \in Nat /\ b \in Nat /\ L \in Nat /\ Len(t) \in Nat
  BY <1>1, <1>2 DEF Listing, IsBundle
<1>4. /\ IsBundle(p \o q) /\ Len(p \o q) = a + b
      /\ \A n \in 1..a : (p \o q)[n] = p[n]
      /\ \A n \in 1..b : (p \o q)[a + n] = q[n]
  BY <1>3, ConcatIs
<1>5. /\ Len(s \o t) = L + Len(t)
      /\ \A n \in 1..L : (s \o t)[n] = s[n]
      /\ \A n \in 1..Len(t) : (s \o t)[L + n] = t[n]
  BY ConcatIs
<1> DEFINE x == p \o q
           y == s \o t
           g == [u \in 1..(a + b) |-> IF u <= a THEN f[u] ELSE L + h[u - a]]
           K == Imaged(y)
<1>6. /\ \A u \in 1..a : g[u] = f[u]
      /\ \A u \in 1..b : g[a + u] = L + h[u]
  <2>1. \A u \in 1..a : u \in 1..(a + b) /\ u <= a
    BY <1>3
  <2>2. \A u \in 1..b : a + u \in 1..(a + b) /\ ~(a + u <= a) /\ (a + u) - a = u
    BY <1>3
  <2>3. \A u \in 1..(a + b) : g[u] = IF u <= a THEN f[u] ELSE L + h[u - a]
    OBVIOUS
  <2> HIDE DEF g, a, b
  <2>4. \A u \in 1..a : g[u] = f[u]
    BY <2>1, <2>3
  <2>5. ASSUME NEW u \in 1..b PROVE g[a + u] = L + h[u]
    <3> DEFINE m == a + u
    <3>1. m \in 1..(a + b) /\ ~(m <= a) /\ m - a = u
      BY <2>2
    <3> HIDE DEF m
    <3>2. g[m] = L + h[m - a]
      BY <2>3, <3>1
    <3> QED
      BY <3>1, <3>2 DEF m
  <2> QED
    BY <2>4, <2>5
<1>7. DOMAIN g = 1..(a + b) /\ g = [u \in 1..(a + b) |-> g[u]]
  OBVIOUS
<1>8. \A u \in 1..a : f[u] \in 1..L /\ f[u] \in Imaged(s) /\ p[u] = s[f[u]]
  BY <1>1 DEF Listing, Imaged
<1>9. \A u \in 1..b : h[u] \in 1..Len(t) /\ h[u] \in Imaged(t) /\ q[u] = t[h[u]]
  BY <1>2 DEF Listing, Imaged
<1>10. \A n \in 1..L : n \in Imaged(s) <=> n \in K
  <2>1. \A n \in 1..L : n \in 1..Len(y)
    BY <1>3, <1>5
  <2> HIDE DEF L, y
  <2> QED
    BY <1>5, <2>1 DEF Imaged, L, y
<1>11. \A n \in 1..Len(t) : n \in Imaged(t) <=> L + n \in K
  <2>1. \A n \in 1..Len(t) : L + n \in 1..Len(y)
    BY <1>3, <1>5
  <2> SUFFICES ASSUME NEW n \in 1..Len(t) PROVE n \in Imaged(t) <=> L + n \in K
    OBVIOUS
  <2> DEFINE m == L + n
  <2>2. y[m] = t[n] /\ m \in 1..Len(y)
    BY <1>5, <2>1
  <2> HIDE DEF m, y
  <2>3. m \in Imaged(y) <=> y[m].spec /\ y[m].image # Unset
    BY <2>2 DEF Imaged
  <2>4. n \in Imaged(t) <=> t[n].spec /\ t[n].image # Unset
    BY DEF Imaged
  <2> QED
    BY <2>2, <2>3, <2>4 DEF m
<1>12. K \subseteq 1..(L + Len(t))
  BY <1>5 DEF Imaged
<1> HIDE DEF g, K, x, y, a, b, L
<1>13. \A u \in 1..(a + b) : u \in 1..a \/ \E v \in 1..b : u = a + v
  <2> SUFFICES ASSUME NEW u \in 1..(a + b), u \notin 1..a PROVE \E v \in 1..b : u = a + v
    OBVIOUS
  <2>1. u - a \in 1..b /\ u = a + (u - a)
    BY <1>3
  <2> QED
    BY <2>1
<1>14. ASSUME NEW u \in 1..(a + b) PROVE g[u] \in K /\ x[u] = y[g[u]]
  <2>1. CASE u \in 1..a
    <3>1. g[u] = f[u] /\ f[u] \in 1..L /\ f[u] \in K /\ p[u] = s[f[u]] /\ y[f[u]] = s[f[u]] /\ x[u] = p[u]
      BY <1>4, <1>5, <1>6, <1>8, <1>10, <2>1 DEF x, y, L, a
    <3> QED
      BY <3>1
  <2>2. ASSUME NEW v \in 1..b, u = a + v PROVE g[u] \in K /\ x[u] = y[g[u]]
    <3>1. g[u] = L + h[v] /\ h[v] \in 1..Len(t) /\ L + h[v] \in K /\ q[v] = t[h[v]]
      BY <1>6, <1>9, <1>11, <2>2
    <3>2. y[L + h[v]] = t[h[v]]
      BY <1>5, <3>1 DEF y, L
    <3>3. x[u] = q[v]
      BY <1>4, <2>2 DEF x, a, b
    <3> QED
      BY <3>1, <3>2, <3>3
  <2> QED
    BY <1>13, <2>1, <2>2
<1>15. ASSUME NEW u \in 1..(a + b), NEW v \in 1..(a + b), g[u] = g[v] PROVE u = v
  <2>1. CASE u \in 1..a /\ v \in 1..a
    BY <1>1, <1>6, <1>15, <2>1 DEF Listing, a
  <2>2. ASSUME NEW m \in 1..b, NEW n \in 1..b, u = a + m, v = a + n PROVE u = v
    <3>1. L + h[m] = L + h[n] /\ h[m] \in Nat /\ h[n] \in Nat
      BY <1>6, <1>9, <1>15, <2>2
    <3>2. h[m] = h[n]
      BY <1>3, <3>1 DEF L
    <3>3. m = n
      BY <1>2, <3>2 DEF Listing, b
    <3> QED
      BY <2>2, <3>3
  <2>3. ASSUME NEW m \in 1..a, NEW n \in 1..b PROVE g[m] # g[a + n]
    <3>1. g[m] = f[m] /\ f[m] \in 1..L /\ g[a + n] = L + h[n] /\ h[n] \in 1..Len(t)
      BY <1>6, <1>8, <1>9
    <3> QED
      BY <1>3, <3>1 DEF L
  <2> QED
    BY <1>13, <1>15, <2>1, <2>2, <2>3
<1>16. ASSUME NEW n \in K PROVE \E u \in 1..(a + b) : g[u] = n
  <2>1. CASE n \in 1..L
    <3>1. PICK u \in 1..a : f[u] = n
      BY <1>1, <1>10, <2>1 DEF Listing, a
    <3>2. u \in 1..(a + b)
      BY <1>3 DEF a, b
    <3> QED
      BY <1>6, <3>1, <3>2
  <2>2. CASE n \notin 1..L
    <3>1. n - L \in 1..Len(t) /\ L + (n - L) = n
      BY <1>3, <1>12, <2>2 DEF L
    <3>2. n - L \in Imaged(t)
      BY <1>11, <3>1
    <3>3. PICK u \in 1..b : h[u] = n - L
      BY <1>2, <3>2 DEF Listing, b
    <3>4. g[a + u] = n /\ a + u \in 1..(a + b)
      BY <1>3, <1>6, <3>1, <3>3 DEF a, b
    <3> QED
      BY <3>4
  <2> QED
    BY <2>1, <2>2
<1>17. g \in [1..(a + b) -> K]
  BY <1>7, <1>14
<1>18. Listing(x, y, K, g)
  <2>1. Len(x) = a + b /\ IsBundle(x)
    BY <1>4 DEF x, a, b
  <2> QED
    BY <1>14, <1>15, <1>16, <1>17, <2>1 DEF Listing
<1> QED
  BY <1>18 DEF x, y, K, p, q

\* What is left of a package is still in its order.
LEMMA PickedAsRead ==
    ASSUME NEW s, IsBundle(s), AsRead(s), NEW K, K \subseteq 1..Len(s),
           NEW p, NEW g, Listing(p, s, K, g), \A u, v \in 1..Len(p) : u < v => g[u] < g[v]
    PROVE  AsRead(p)
<1>1. \A u \in 1..Len(p) : g[u] \in 1..Len(s) /\ p[u] = s[g[u]]
  BY DEF Listing
<1>2. Len(s) \in Nat /\ Len(p) \in Nat
  BY DEF Listing, IsBundle
<1> SUFFICES ASSUME NEW n \in 1..Len(p)
             PROVE  /\ p[n].path \in Seq(Nat) \ {<<>>} /\ p[n].index \in {BadIndex} \cup Nat
                    /\ \A m \in 1..(n - 1) : p[m].path = p[n].path /\ ~BadPair(p[m], p[n])
                                                => p[m].index < p[n].index
  BY DEF AsRead
<1> DEFINE y == g[n]
<1>3. y \in 1..Len(s) /\ p[n] = s[y]
  BY <1>1
<1> HIDE DEF y
<1>4. s[y].path \in Seq(Nat) \ {<<>>} /\ s[y].index \in {BadIndex} \cup Nat
  BY <1>3 DEF AsRead
<1>5. ASSUME NEW m \in 1..(n - 1), p[m].path = p[n].path, ~BadPair(p[m], p[n])
      PROVE  p[m].index < p[n].index
  <2> DEFINE x == g[m]
  <2>1. m \in 1..Len(p) /\ m < n
    BY <1>2
  <2>2. x \in 1..Len(s) /\ p[m] = s[x] /\ x < y
    BY <1>1, <2>1 DEF y
  <2> HIDE DEF x
  <2>3. x \in 1..(y - 1)
    BY <1>2, <1>3, <2>2
  <2> QED
    BY <1>3, <1>5, <2>2, <2>3 DEF AsRead
<1> QED
  BY <1>3, <1>4, <1>5

\* The order that sortFns gives to the functions of a package.
Ordered(fns, q, g) ==
    Len(SpecsOf(fns)) <= MaxInsertion => InDepth(q) /\ (Swapped(SpecsOf(fns)) = {} => InFile(q, g))

\* sortFns makes an ordered listing.
LEMMA SortLists ==
    ASSUME NEW fns, IsBundle(fns), AsRead(fns), ~Failed(sortFns(SpecsOf(fns)))
    PROVE  \E g : /\ Listing(ToRun(sortFns(SpecsOf(fns)).val), fns, Imaged(fns), g)
                  /\ Ordered(fns, ToRun(sortFns(SpecsOf(fns)).val), g)
<1> DEFINE p == SpecsOf(fns)
           s == sortFns(p).val
           q == ToRun(s)
           K == {n \in 1..Len(fns) : fns[n].spec}
           n == Len(p)
<1>1. Len(fns) \in Nat /\ K \subseteq 1..Len(fns)
  BY DEF IsBundle
<1>2. PICK a : Listing(p, fns, K, a) /\ \A u, v \in 1..Len(p) : u < v => a[u] < a[v]
  <2>1. PICK a : IsPicking(fns, K, p, a)
    BY <1>1, PickedPlaces DEF SpecsOf
  <2> HIDE DEF p, K
  <2> QED
    BY <1>1, <2>1, PickingLists
<1> HIDE DEF K
<1>3. AsRead(p) /\ IsBundle(p)
  <2> HIDE DEF p
  <2>1. IsBundle(p)
    BY <1>2 DEF Listing
  <2> QED
    BY <1>1, <1>2, <2>1, PickedAsRead
<1> HIDE DEF p
<1>4. PICK b : /\ IsSorting(p, n, s, b)
               /\ n <= MaxInsertion => InDepth(s) /\ (Swapped(p) = {} => InFile(s, b))
  BY <1>3, SortedIs DEF p
<1> HIDE DEF s
<1>5. PICK c : Listing(q, s, Imaged(s), c) /\ \A u, v \in 1..Len(q) : u < v => c[u] < c[v]
  BY <1>4, ToRunLists DEF IsSorting
<1> HIDE DEF q
<1>6. /\ n \in Nat /\ Len(q) \in Nat /\ Len(s) = n /\ IsBundle(q)
      /\ \A u \in 1..n : a[u] \in K /\ p[u] = fns[a[u]]
      /\ \A u \in 1..n : b[u] \in 1..n /\ s[u] = p[b[u]]
      /\ \A u \in 1..Len(q) : c[u] \in Imaged(s) /\ q[u] = s[c[u]]
  <2>1. n \in Nat
    BY <1>3 DEF IsBundle
  <2>2. \A u \in 1..n : a[u] \in K /\ p[u] = fns[a[u]]
    BY <1>2 DEF Listing
  <2>3. Len(s) = n /\ \A u \in 1..n : b[u] \in 1..n /\ s[u] = p[b[u]]
    BY <1>4 DEF IsSorting
  <2>4. IsBundle(q) /\ \A u \in 1..Len(q) : c[u] \in Imaged(s) /\ q[u] = s[c[u]]
    BY <1>5 DEF Listing
  <2>5. Len(q) \in Nat
    BY <2>4 DEF IsBundle
  <2> QED
    BY <2>1, <2>2, <2>3, <2>4, <2>5
<1>7. Imaged(s) = {u \in 1..n : s[u].spec /\ s[u].image # Unset}
  BY <1>6 DEF Imaged
<1> HIDE DEF n
<1> DEFINE g == [u \in 1..Len(q) |-> a[b[c[u]]]]
           I == Imaged(fns)
<1>8. ASSUME NEW u \in 1..Len(q)
      PROVE  /\ c[u] \in 1..n /\ b[c[u]] \in 1..n /\ g[u] = a[b[c[u]]]
             /\ q[u] = fns[g[u]] /\ g[u] \in I
  <2>1. c[u] \in 1..n /\ q[u] = s[c[u]] /\ s[c[u]].spec /\ s[c[u]].image # Unset
    BY <1>6, <1>7
  <2>2. b[c[u]] \in 1..n /\ s[c[u]] = p[b[c[u]]]
    BY <1>6, <2>1
  <2>3. a[b[c[u]]] \in K /\ p[b[c[u]]] = fns[a[b[c[u]]]]
    BY <1>6, <2>2
  <2>4. g[u] = a[b[c[u]]]
    OBVIOUS
  <2>5. g[u] \in 1..Len(fns)
    BY <1>1, <2>3, <2>4
  <2> HIDE DEF g
  <2>6. fns[g[u]] = s[c[u]]
    BY <2>2, <2>3, <2>4
  <2>7. g[u] \in I
    BY <2>1, <2>5, <2>6 DEF Imaged
  <2> QED
    BY <2>1, <2>2, <2>4, <2>6, <2>7
<1>9. DOMAIN g = 1..Len(q) /\ g = [u \in 1..Len(q) |-> g[u]]
  OBVIOUS
<1> HIDE DEF g
<1>10. ASSUME NEW u \in 1..Len(q), NEW v \in 1..Len(q), g[u] = g[v] PROVE u = v
  <2>1. a[b[c[u]]] = a[b[c[v]]] /\ b[c[u]] \in 1..n /\ b[c[v]] \in 1..n
    BY <1>8, <1>10
  <2>2. b[c[u]] = b[c[v]]
    BY <1>2, <2>1 DEF Listing, n
  <2>3. c[u] \in 1..n /\ c[v] \in 1..n
    BY <1>8
  <2>4. c[u] = c[v]
    BY <1>4, <2>2, <2>3 DEF IsSorting
  <2> QED
    BY <1>5, <2>4 DEF Listing
<1>11. ASSUME NEW m \in I PROVE \E u \in 1..Len(q) : g[u] = m
  <2>1. m \in K /\ fns[m].spec /\ fns[m].image # Unset
    BY DEF Imaged, K
  <2>2. PICK x \in 1..n : a[x] = m
    BY <1>2, <2>1 DEF Listing, n
  <2>3. PICK y \in 1..n : b[y] = x
    BY <1>4 DEF IsSorting
  <2>4. s[y] = fns[m]
    BY <1>6, <2>2, <2>3
  <2>5. y \in Imaged(s)
    BY <1>7, <2>1, <2>4
  <2>6. PICK u \in 1..Len(q) : c[u] = y
    BY <1>5, <2>5 DEF Listing
  <2>7. g[u] = m
    BY <1>8, <2>2, <2>3, <2>6
  <2> QED
    BY <2>7
<1>12. Listing(q, fns, I, g)
  <2>1. g \in [1..Len(q) -> I]
    BY <1>8, <1>9
  <2> QED
    BY <1>6, <1>8, <1>10, <1>11, <2>1 DEF Listing
<1>13. ASSUME NEW v \in 1..Len(q), NEW u \in 1..(v - 1)
       PROVE  /\ InDepth(s) => ~Precedes(scope(q[v].path), scope(q[u].path))
              /\ InFile(s, b) /\ q[u].path = q[v].path => g[u] < g[v]
  <2>1. u \in 1..Len(q) /\ u < v
    BY <1>6
  <2> DEFINE x == c[u]
             y == c[v]
  <2>2. x \in 1..n /\ y \in 1..n /\ x < y /\ q[u] = s[x] /\ q[v] = s[y]
    BY <1>5, <1>6, <1>8, <2>1
  <2>3. g[u] = a[b[x]] /\ g[v] = a[b[y]]
    BY <1>8, <2>1
  <2> HIDE DEF x, y
  <2>4. x \in 1..(y - 1) /\ y \in 1..Len(s)
    BY <1>6, <2>2
  <2>5. /\ InDepth(s) => ~Precedes(scope(s[y].path), scope(s[x].path))
        /\ InFile(s, b) /\ s[x].path = s[y].path => b[x] < b[y]
    BY <2>4 DEF InDepth, InFile
  <2>6. b[x] \in 1..n /\ b[y] \in 1..n
    BY <1>6, <2>2
  <2>7. b[x] < b[y] => a[b[x]] < a[b[y]]
    BY <1>2, <2>6 DEF n
  <2> QED
    BY <2>2, <2>3, <2>5, <2>7
<1>14. (InDepth(s) => InDepth(q)) /\ (InFile(s, b) => InFile(q, g))
  BY <1>13 DEF InDepth, InFile
<1>15. n <= MaxInsertion => InDepth(q) /\ (Swapped(p) = {} => InFile(q, g))
  BY <1>4, <1>14
<1> QED
  BY <1>12, <1>15 DEF q, s, p, n, Ordered

\* There are as many commands as functions.
LEMMA CommandsBundle ==
    ASSUME NEW r, NEW u, NEW s, IsBundle(s)
    PROVE  IsBundle(CommandsOf(r, u, s)) /\ Len(CommandsOf(r, u, s)) = Len(s)
<1> DEFINE c == CommandsOf(r, u, s)
<1>1. Len(s) \in Nat
  BY DEF IsBundle
<1>2. DOMAIN c = 1..Len(s) /\ c = [n \in 1..Len(s) |-> c[n]]
  BY DEF CommandsOf
<1> HIDE DEF c
<1>3. IsBundle(c) /\ Len(c) = Len(s)
  BY <1>1, <1>2, BundleIs
<1> QED
  BY <1>3 DEF c

\* Sequences with the same elements are equal.
LEMMA SameBundle ==
    ASSUME NEW s, IsBundle(s), NEW t, IsBundle(t), Len(s) = Len(t),
           \A n \in 1..Len(s) : s[n] = t[n]
    PROVE  s = t
<1>1. s \in [1..Len(s) -> Docs(s)] /\ t \in [1..Len(t) -> Docs(t)]
  BY LenProperties DEF IsBundle
<1> QED
  BY <1>1

\* The empty sequence adds nothing.
LEMMA EmptyConcat ==
    ASSUME NEW s, IsBundle(s)
    PROVE  <<>> \o s = s /\ s \o <<>> = s
  BY DEF IsBundle

\* The commands of a concatenation are the concatenation of the commands.
LEMMA CommandsConcat ==
    ASSUME NEW r, NEW u, NEW s, IsBundle(s), NEW t, IsBundle(t)
    PROVE  CommandsOf(r, u, s) \o CommandsOf(r, u, t) = CommandsOf(r, u, s \o t)
<1> DEFINE x == CommandsOf(r, u, s)
           y == CommandsOf(r, u, t)
           st == s \o t
           z == CommandsOf(r, u, st)
           xy == x \o y
<1>1. /\ IsBundle(st) /\ Len(st) = Len(s) + Len(t)
      /\ \A n \in 1..Len(s) : st[n] = s[n]
      /\ \A n \in 1..Len(t) : st[Len(s) + n] = t[n]
  BY ConcatIs
<1>2. /\ \A n \in 1..Len(s) : x[n] = getCommand(r, s[n], u)
      /\ \A n \in 1..Len(t) : y[n] = getCommand(r, t[n], u)
      /\ \A n \in 1..Len(st) : z[n] = getCommand(r, st[n], u)
  BY DEF CommandsOf
<1> HIDE DEF st
<1>3. /\ IsBundle(x) /\ Len(x) = Len(s) /\ IsBundle(y) /\ Len(y) = Len(t)
      /\ IsBundle(z) /\ Len(z) = Len(s) + Len(t)
  BY <1>1, CommandsBundle
<1> HIDE DEF x, y, z
<1>4. /\ IsBundle(xy) /\ Len(xy) = Len(s) + Len(t)
      /\ \A n \in 1..Len(s) : xy[n] = x[n]
      /\ \A n \in 1..Len(t) : xy[Len(s) + n] = y[n]
  <2>1. /\ IsBundle(x \o y) /\ Len(x \o y) = Len(x) + Len(y)
        /\ \A n \in 1..Len(x) : (x \o y)[n] = x[n]
        /\ \A n \in 1..Len(y) : (x \o y)[Len(x) + n] = y[n]
    <3>1. IsBundle(x) /\ IsBundle(y)
      BY <1>3
    <3> QED
      BY <3>1, ConcatIs
  <2>2. xy = x \o y
    OBVIOUS
  <2> HIDE DEF xy
  <2> QED
    BY <1>3, <2>1, <2>2
<1> HIDE DEF xy
<1>5. Len(s) \in Nat /\ Len(t) \in Nat
  BY DEF IsBundle
<1>6. ASSUME NEW n \in 1..(Len(s) + Len(t)) PROVE xy[n] = z[n]
  <2>1. CASE n \in 1..Len(s)
    <3>1. n \in 1..Len(st)
      BY <1>1
    <3> QED
      BY <1>1, <1>2, <1>4, <2>1, <3>1
  <2>2. CASE n \notin 1..Len(s)
    <3> DEFINE m == n - Len(s)
    <3>1. m \in 1..Len(t) /\ n = Len(s) + m
      BY <1>5, <2>2
    <3> HIDE DEF m
    <3>2. n \in 1..Len(st)
      BY <1>1
    <3>3. st[n] = t[m] /\ xy[n] = y[m]
      BY <1>1, <1>4, <3>1
    <3> QED
      BY <1>2, <3>1, <3>2, <3>3
  <2> QED
    BY <2>1, <2>2
<1>7. xy = z
  BY <1>3, <1>4, <1>6, SameBundle
<1> QED
  BY <1>7 DEF xy, x, y, z, st

\* The functions of a request.
Given(r) == IF NoFunctionsFromInput(r) THEN r.paths \o r.functions ELSE r.input

\* What IsRequest says of the functions that count.
LEMMA RequestBundles ==
    ASSUME NEW r, IsRequest(r)
    PROVE  /\ IsBundle(r.input) /\ IsBundle(r.paths) /\ IsBundle(r.functions)
           /\ IsBundle(Given(r)) /\ AsRead(r.input)
           /\ \A m, n \in 1..Len(Given(r)) : Given(r)[m].config = Given(r)[n].config => m = n
           /\ \A f \in Docs(Given(r)) : f \in Docs(r.input) \cup Docs(r.paths) \cup Docs(r.functions)
<1> DEFINE a == r.input
           b == r.paths
           c == r.functions
           ab == a \o b
           x == ab \o c
           bc == b \o c
<1>1. IsBundle(a) /\ IsBundle(b) /\ IsBundle(c)
  BY DEF IsRequest
<1>2. /\ \A m, n \in 1..Len(x) : x[m].config = x[n].config => m = n
      /\ \A f \in Docs(x) : f.path \in Seq(Nat) \ {<<>>} /\ f.index \in {BadIndex} \cup Nat
      /\ \A n \in 1..Len(a) : \A m \in 1..(n - 1) :
            a[m].path = a[n].path /\ ~BadPair(a[m], a[n]) => a[m].index < a[n].index
  BY DEF IsRequest
<1> HIDE DEF a, b, c
<1>3. /\ Len(a) \in Nat /\ Len(b) \in Nat /\ Len(c) \in Nat
  BY <1>1 DEF IsBundle
<1>4. /\ IsBundle(ab) /\ Len(ab) = Len(a) + Len(b)
      /\ \A n \in 1..Len(a) : ab[n] = a[n]
      /\ \A n \in 1..Len(b) : ab[Len(a) + n] = b[n]
  BY <1>1, ConcatIs
<1>5. /\ IsBundle(bc) /\ Len(bc) = Len(b) + Len(c)
      /\ \A n \in 1..Len(b) : bc[n] = b[n]
      /\ \A n \in 1..Len(c) : bc[Len(b) + n] = c[n]
  BY <1>1, ConcatIs
<1>6. /\ Len(x) = Len(ab) + Len(c)
      /\ \A n \in 1..Len(ab) : x[n] = ab[n]
      /\ \A n \in 1..Len(c) : x[Len(ab) + n] = c[n]
  <2> HIDE DEF ab
  <2>1. /\ Len(ab \o c) = Len(ab) + Len(c)
        /\ \A n \in 1..Len(ab) : (ab \o c)[n] = ab[n]
        /\ \A n \in 1..Len(c) : (ab \o c)[Len(ab) + n] = c[n]
    <3>1. IsBundle(ab) /\ IsBundle(c)
      BY <1>1, <1>4
    <3> HIDE DEF x, bc
    <3> QED
      BY <3>1, ConcatIs
  <2>2. x = ab \o c
    OBVIOUS
  <2> HIDE DEF x
  <2> QED
    BY <2>1, <2>2
<1> HIDE DEF ab, bc, x
<1>7. \A n \in 1..Len(a) : n \in 1..Len(x) /\ x[n] = a[n]
  <2> SUFFICES ASSUME NEW n \in 1..Len(a) PROVE n \in 1..Len(x) /\ x[n] = a[n]
    OBVIOUS
  <2>1. n \in 1..Len(ab)
    BY <1>3, <1>4
  <2>2. n \in 1..Len(x)
    BY <1>3, <1>4, <1>6, <2>1
  <2> QED
    BY <1>4, <1>6, <2>1, <2>2
<1>8. ASSUME NEW n \in 1..Len(bc) PROVE Len(a) + n \in 1..Len(x) /\ x[Len(a) + n] = bc[n]
  <2> DEFINE k == Len(a) + n
  <2>1. k \in 1..Len(x)
    BY <1>3, <1>4, <1>5, <1>6
  <2>2. CASE n \in 1..Len(b)
    <3>1. k \in 1..Len(ab)
      BY <1>3, <1>4, <2>2
    <3>2. ab[k] = b[n]
      BY <1>4, <2>2
    <3> HIDE DEF k
    <3> QED
      BY <1>5, <1>6, <2>1, <2>2, <3>1, <3>2 DEF k
  <2>3. CASE n \notin 1..Len(b)
    <3> DEFINE m == n - Len(b)
    <3>1. m \in 1..Len(c) /\ n = Len(b) + m /\ k = Len(ab) + m
      BY <1>3, <1>4, <1>5, <2>3
    <3> HIDE DEF m, k
    <3>2. x[k] = c[m] /\ bc[n] = c[m]
      BY <1>5, <1>6, <3>1
    <3> QED
      BY <2>1, <3>2 DEF k
  <2> QED
    BY <2>2, <2>3
<1>9. AsRead(a)
  <2>1. \A n \in 1..Len(a) : a[n] \in Docs(x)
    BY <1>7 DEF Docs
  <2> QED
    BY <1>2, <2>1 DEF AsRead
<1> DEFINE G == Given(r)
<1>10. G = IF NoFunctionsFromInput(r) THEN bc ELSE a
  BY DEF Given, a, b, c, bc
<1> HIDE DEF G
<1>11. \A m, n \in 1..Len(G) : G[m].config = G[n].config => m = n
  <2>1. \A m, n \in 1..Len(a) : a[m].config = a[n].config => m = n
    BY <1>2, <1>7
  <2>2. ASSUME NEW m \in 1..Len(bc), NEW n \in 1..Len(bc), bc[m].config = bc[n].config
        PROVE  m = n
    <3> DEFINE k == Len(a) + m
               l == Len(a) + n
    <3>1. k \in 1..Len(x) /\ l \in 1..Len(x) /\ x[k] = bc[m] /\ x[l] = bc[n]
      BY <1>8
    <3> HIDE DEF k, l
    <3>2. k = l
      BY <1>2, <2>2, <3>1
    <3> QED
      BY <1>3, <1>5, <3>2 DEF k, l
  <2> QED
    BY <1>10, <2>1, <2>2
<1>12. \A f \in Docs(G) : f \in Docs(a) \cup Docs(b) \cup Docs(c)
  <2>1. ASSUME NEW n \in 1..Len(bc) PROVE bc[n] \in Docs(b) \cup Docs(c)
    <3>1. CASE n \in 1..Len(b)
      BY <1>5, <3>1 DEF Docs
    <3>2. CASE n \notin 1..Len(b)
      <4> DEFINE m == n - Len(b)
      <4>1. m \in 1..Len(c) /\ n = Len(b) + m
        BY <1>3, <1>5, <3>2
      <4> HIDE DEF m
      <4> QED
        BY <1>5, <4>1 DEF Docs
    <3> QED
      BY <3>1, <3>2
  <2> QED
    BY <1>10, <2>1 DEF Docs
<1>13. IsBundle(G)
  BY <1>1, <1>5, <1>10
<1> QED
  BY <1>1, <1>2, <1>9, <1>11, <1>12, <1>13 DEF a, b, c, G

\* A request comes to the commands of its functions, each of them once, those of
\* the input in their order.
LEMMA FiltersAre ==
    ASSUME NEW r, IsRequest(r), NEW known, ~Failed(getFilters(r, known))
    PROVE  \E q, g : /\ Listing(q, Given(r), Imaged(Given(r)), g)
                     /\ ~NoFunctionsFromInput(r) => Ordered(r.input, q, g)
                     /\ getFilters(r, known).val = CommandsOf(r, getUIDGID(TRUE, known).val, q)
<1> DEFINE i == getFunctionsFromInput(r, known)
           p == getFunctionFilters(r, known, r.paths)
           f == getFunctionFilters(r, known, r.functions)
           u == getUIDGID(TRUE, known).val
           a == ToRun(r.paths)
           b == ToRun(r.functions)
<1>1. ~Failed(i) /\ ~Failed(p) /\ ~Failed(f) /\ getFilters(r, known).val = (i.val \o p.val) \o f.val
  <2>1. getFilters(r, known) = IF Failed(i) THEN i ELSE IF Failed(p) THEN p ELSE IF Failed(f) THEN f
                               ELSE Value(i.val \o p.val \o f.val)
    BY DEF getFilters
  <2> HIDE DEF i, p, f
  <2>2. ~Failed(i) /\ ~Failed(p) /\ ~Failed(f)
    BY <2>1
  <2>3. getFilters(r, known) = Value(i.val \o p.val \o f.val)
    BY <2>1, <2>2
  <2> QED
    BY <2>2, <2>3, ValueOf
<1>0. \A fns : ~Failed(getFunctionFilters(r, known, fns)) =>
         getFunctionFilters(r, known, fns).val = CommandsOf(r, u, ToRun(fns))
  BY FunctionFilters, Zenon
<1>2. p.val = CommandsOf(r, u, a) /\ f.val = CommandsOf(r, u, b)
  <2>2. ~Failed(getFunctionFilters(r, known, r.paths)) /\ ~Failed(getFunctionFilters(r, known, r.functions))
    BY <1>1
  <2> QED
    BY <1>0, <2>2
<1>3. IsBundle(r.input) /\ IsBundle(r.paths) /\ IsBundle(r.functions) /\ AsRead(r.input)
  BY RequestBundles
<1>4. IsBundle(a) /\ IsBundle(b)
  BY <1>3, ToRunElements
<1>5. CASE NoFunctionsFromInput(r)
  <2>1. i.val = <<>>
    <3>1. i = Value(<<>>)
      BY <1>5 DEF getFunctionsFromInput
    <3> QED
      BY <3>1, ValueOf
  <2> HIDE DEF i, p, f, u, a, b
  <2>2. IsBundle(CommandsOf(r, u, a))
    BY <1>4, CommandsBundle
  <2>3. (<<>> \o p.val) \o f.val = CommandsOf(r, u, a) \o CommandsOf(r, u, b)
    BY <1>2, <2>2, EmptyConcat
  <2>7. CommandsOf(r, u, a) \o CommandsOf(r, u, b) = CommandsOf(r, u, a \o b)
    BY <1>4, CommandsConcat
  <2>4. getFilters(r, known).val = CommandsOf(r, u, a \o b)
    BY <1>1, <2>1, <2>3, <2>7
  <2>5. Given(r) = r.paths \o r.functions
    BY <1>5 DEF Given
  <2>6. PICK g : Listing(a \o b, Given(r), Imaged(Given(r)), g)
    BY <1>3, <2>5, ConcatLists DEF a, b
  <2> QED
    BY <1>5, <2>4, <2>6 DEF u
<1>6. CASE ~NoFunctionsFromInput(r)
  <2> DEFINE specs == SpecsOf(r.input)
             sorted == sortFns(specs)
             q == ToRun(sorted.val)
  <2>1. r.paths = <<>> /\ r.functions = <<>> /\ Given(r) = r.input
    BY <1>6 DEF NoFunctionsFromInput, Given
  <2>2. i = IF Failed(sorted) THEN sorted ELSE getFunctionFilters(r, known, sorted.val)
    BY <1>6 DEF getFunctionsFromInput
  <2>4. ~Failed(sorted) /\ i = getFunctionFilters(r, known, sorted.val)
    BY <1>1, <2>2
  <2>5. i.val = CommandsOf(r, u, q)
    <3> HIDE DEF sorted, i
    <3>1. ~Failed(getFunctionFilters(r, known, sorted.val))
      BY <1>1, <2>4
    <3>2. getFunctionFilters(r, known, sorted.val).val = CommandsOf(r, u, q)
      BY <1>0, <3>1
    <3> QED
      BY <2>4, <3>2
  <2>6. PICK g : Listing(q, r.input, Imaged(r.input), g) /\ Ordered(r.input, q, g)
    BY <1>3, <2>4, SortLists
  <2>7. a = <<>> /\ b = <<>>
    <3>1. ToRun(<<>>) = <<>>
      <4>1. Imaged(<<>>) = {} /\ Len(<<>>) = 0
        BY DEF Imaged
      <4>2. PICK h : IsPicking(<<>>, {}, ToRun(<<>>), h)
        BY <4>1, PickedPlaces DEF ToRun
      <4>3. Len(ToRun(<<>>)) \in Nat /\ Len(ToRun(<<>>)) = 0
        BY <4>2 DEF IsPicking
      <4>4. IsBundle(<<>>)
        BY DEF IsBundle
      <4>5. IsBundle(ToRun(<<>>))
        BY <4>4, ToRunElements
      <4> QED
        BY <4>3, <4>5 DEF IsBundle
    <3> QED
      BY <2>1, <3>1
  <2>8. CommandsOf(r, u, <<>>) = <<>>
    BY DEF CommandsOf
  <2> HIDE DEF i, p, f, u, a, b, q
  <2>9. IsBundle(CommandsOf(r, u, q))
    BY <2>6, CommandsBundle DEF Listing
  <2>10. (CommandsOf(r, u, q) \o <<>>) \o <<>> = CommandsOf(r, u, q)
    BY <2>9, EmptyConcat
  <2>11. getFilters(r, known).val = CommandsOf(r, u, q)
    BY <1>1, <1>2, <2>5, <2>7, <2>8, <2>10
  <2> QED
    BY <2>1, <2>6, <2>11 DEF u
<1> QED
  BY <1>5, <1>6

-----------------------------------------------------------------------------
(* What a request declares.                                                *)

\* Depth, by which the documentation orders, is the length of the scope.
LEMMA DepthIs ==
    ASSUME NEW f, f.path \in Seq(Nat), f.path # <<>>
    PROVE  Depth(f) = Len(scope(f.path)) /\ Depth(f) \in Nat
<1> DEFINE path == f.path
           L == Len(path)
           c == {i \in 1..(Len(f.path) - 1) : i < Len(f.path) - 1 \/ f.path[i] # FunctionsDir}
           m == Len(scope(path))
<1>1. L \in Nat /\ L # 0
  OBVIOUS
<1>2. m = IF L > 1 /\ path[L - 1] = FunctionsDir THEN L - 2 ELSE L - 1
  BY ScopeIs
<1> HIDE DEF m
<1>3. m \in Nat
  BY <1>1, <1>2
<1>4. c = 1..m
  <2>1. \A i : i \in c => i \in 1..m
    BY <1>1, <1>2
  <2>2. \A i : i \in 1..m => i \in c
    BY <1>1, <1>2
  <2> QED
    BY <2>1, <2>2
<1>5. Cardinality(1..m) = m
  BY <1>3, FS_Interval
<1> QED
  BY <1>3, <1>4, <1>5 DEF Depth, m

\* The functions declared are those with an image among the ones that count.
LEMMA DeclaredIs ==
    ASSUME NEW r, IsRequest(r)
    PROVE  Declared(r) = {Given(r)[n] : n \in Imaged(Given(r))}
<1> DEFINE G == Given(r)
           pf == r.paths \o r.functions
<1>1. IsBundle(r.input) /\ IsBundle(r.paths) /\ IsBundle(r.functions) /\ IsBundle(G)
  BY RequestBundles
<1>2. IsBundle(pf) /\ Len(pf) = Len(r.paths) + Len(r.functions)
  BY <1>1, ConcatIs
<1>3. pf = <<>> <=> ~NoFunctionsFromInput(r)
  <2>1. \A s : IsBundle(s) => Len(s) \in Nat /\ (s = <<>> <=> Len(s) = 0)
    BY DEF IsBundle
  <2> HIDE DEF pf
  <2>2. /\ pf = <<>> <=> Len(pf) = 0
        /\ r.paths = <<>> <=> Len(r.paths) = 0
        /\ r.functions = <<>> <=> Len(r.functions) = 0
        /\ Len(r.paths) \in Nat /\ Len(r.functions) \in Nat
    BY <1>1, <1>2, <2>1
  <2>3. pf = <<>> <=> (r.paths = <<>> /\ r.functions = <<>>)
    <3>1. \A a, b \in Nat : a + b = 0 <=> a = 0 /\ b = 0
      OBVIOUS
    <3>2. Len(pf) = 0 <=> Len(r.paths) = 0 /\ Len(r.functions) = 0
      BY <1>2, <2>2, <3>1
    <3> QED
      BY <2>2, <3>2
  <2> QED
    BY <2>3 DEF NoFunctionsFromInput
<1>4. \A s : IsBundle(s) => ToSet(s) = {s[n] : n \in 1..Len(s)}
  <2> SUFFICES ASSUME NEW s, IsBundle(s) PROVE ToSet(s) = {s[n] : n \in 1..Len(s)}
    OBVIOUS
  <2>1. DOMAIN s = 1..Len(s)
    BY DEF IsBundle
  <2> QED
    BY <2>1 DEF ToSet
<1>5. ToSet(pf) = {pf[n] : n \in 1..Len(pf)} /\ ToSet(r.input) = {r.input[n] : n \in 1..Len(r.input)}
  BY <1>1, <1>2, <1>4
<1>6. G = IF NoFunctionsFromInput(r) THEN pf ELSE r.input
  BY DEF Given
<1>7. Declared(r) = {f \in ToSet(pf) \cup (IF pf = <<>> THEN ToSet(r.input) ELSE {}) :
                        f.spec /\ f.image # Unset}
  BY DEF Declared
<1> HIDE DEF pf, G
<1>8. ToSet(<<>>) = {}
  BY DEF ToSet
<1>9. Declared(r) = {f \in ToSet(G) : f.spec /\ f.image # Unset}
  BY <1>3, <1>6, <1>7, <1>8
<1>10. ToSet(G) = {G[n] : n \in 1..Len(G)}
  BY <1>1, <1>4
<1>11. Declared(r) = {G[n] : n \in Imaged(G)}
  BY <1>9, <1>10 DEF Imaged
<1> QED
  BY <1>11 DEF G

\* The commands F are those of the functions of the request, each once ...
IsWhole(F, r) ==
    /\ {F[n].config : n \in 1..Len(F)} = {f.config : f \in Declared(r)}
    /\ Len(F) = Cardinality(Declared(r))

\* A listing of the functions with an image is whole: none is missing, none twice.
LEMMA ListingIsWhole ==
    ASSUME NEW r, IsRequest(r), NEW u, NEW q, NEW g,
           Listing(q, Given(r), Imaged(Given(r)), g),
           NEW F, F = CommandsOf(r, u, q)
    PROVE  IsWhole(F, r)
<1> DEFINE G == Given(r)
           D == Declared(r)
<1>1. /\ IsBundle(q) /\ Len(q) \in Nat
      /\ \A n \in 1..Len(q) : g[n] \in Imaged(G) /\ q[n] = G[g[n]]
      /\ \A m, n \in 1..Len(q) : g[m] = g[n] => m = n
      /\ \A n \in Imaged(G) : \E m \in 1..Len(q) : g[m] = n
  BY DEF Listing, IsBundle
<1>2. IsBundle(F) /\ Len(F) = Len(q)
  BY <1>1, CommandsBundle
<1>3. \A n \in 1..Len(q) : F[n].config = q[n].config
  BY DEF CommandsOf, getCommand
<1>4. D = {G[n] : n \in Imaged(G)}
  BY DeclaredIs
<1>5. \A m, n \in 1..Len(G) : G[m].config = G[n].config => m = n
  BY RequestBundles
<1>6. \A n \in Imaged(G) : n \in 1..Len(G)
  BY DEF Imaged
<1> HIDE DEF G, D
<1>7. \A n \in 1..Len(q) : q[n] \in D
  BY <1>1, <1>4
<1>8. \A d \in D : \E n \in 1..Len(q) : q[n] = d
  BY <1>1, <1>4
<1>9. \A m, n \in 1..Len(q) : q[m] = q[n] => m = n
  <2> SUFFICES ASSUME NEW m \in 1..Len(q), NEW n \in 1..Len(q), q[m] = q[n] PROVE m = n
    OBVIOUS
  <2>1. g[m] \in 1..Len(G) /\ g[n] \in 1..Len(G) /\ G[g[m]] = G[g[n]]
    BY <1>1, <1>6
  <2>2. g[m] = g[n]
    BY <1>5, <2>1
  <2> QED
    BY <1>1, <2>2
<1>10. Len(q) = Cardinality(D)
  <2> DEFINE b == [n \in 1..Len(q) |-> q[n]]
  <2>1. b \in [1..Len(q) -> D]
    BY <1>7
  <2>2. \A m, n \in 1..Len(q) : b[m] = b[n] => m = n
    BY <1>9
  <2>3. \A d \in D : \E n \in 1..Len(q) : b[n] = d
    BY <1>8
  <2> HIDE DEF b
  <2>4. b \in Bijection(1..Len(q), D)
    BY <2>1, <2>2, <2>3 DEF Bijection, Injection, Surjection, IsInjective
  <2>5. IsFiniteSet(1..Len(q)) /\ Cardinality(1..Len(q)) = Len(q)
    <3> DEFINE l == Len(q)
    <3>1. l \in Nat
      BY <1>1
    <3> HIDE DEF l
    <3>2. IsFiniteSet(1..l) /\ Cardinality(1..l) = l
      BY <3>1, FS_Interval
    <3> QED
      BY <3>2 DEF l
  <2>6. ExistsBijection(1..Len(q), D)
    BY <2>4 DEF ExistsBijection
  <2> QED
    BY <2>5, <2>6, FS_Bijection
<1>11. {F[n].config : n \in 1..Len(F)} = {f.config : f \in D}
  <2>1. \A n \in 1..Len(F) : F[n].config \in {f.config : f \in D}
    BY <1>2, <1>3, <1>7
  <2>2. \A f \in D : f.config \in {F[n].config : n \in 1..Len(F)}
    BY <1>2, <1>3, <1>8
  <2> QED
    BY <2>1, <2>2
<1> QED
  BY <1>2, <1>10, <1>11 DEF D, IsWhole

\* ... and those of the input in the order that is documented.
LEMMA ListingIsOrdered ==
    ASSUME NEW r, IsRequest(r), ~NoFunctionsFromInput(r), NEW u, NEW q, NEW g,
           Listing(q, Given(r), Imaged(Given(r)), g), InDepth(q),
           NEW F, F = CommandsOf(r, u, q),
           NEW n \in 1..Len(F), NEW m \in 1..(n - 1), NEW e \in Declared(r), NEW f \in Declared(r),
           F[m].config = e.config, F[n].config = f.config
    PROVE  ~Deeper(f, e) /\ (InFile(q, g) => ~EarlierInFile(f, e))
<1> DEFINE G == Given(r)
<1>1. /\ IsBundle(q) /\ Len(q) \in Nat
      /\ \A k \in 1..Len(q) : g[k] \in Imaged(G) /\ q[k] = G[g[k]]
  BY DEF Listing, IsBundle
<1>2. Len(F) = Len(q)
  BY <1>1, CommandsBundle
<1>3. \A k \in 1..Len(q) : F[k].config = q[k].config
  BY DEF CommandsOf, getCommand
<1>4. Declared(r) = {G[k] : k \in Imaged(G)}
  BY DeclaredIs
<1>5. /\ \A j, k \in 1..Len(G) : G[j].config = G[k].config => j = k
      /\ AsRead(G) /\ IsBundle(G)
  <2>1. G = r.input
    BY DEF Given
  <2> QED
    BY <2>1, RequestBundles
<1>6. \A k \in Imaged(G) : k \in 1..Len(G)
  BY DEF Imaged
<1> HIDE DEF G
<1>7. m \in 1..Len(q) /\ n \in 1..Len(q) /\ m < n
  BY <1>1, <1>2
<1> DEFINE x == g[m]
           y == g[n]
<1>8. x \in 1..Len(G) /\ y \in 1..Len(G) /\ q[m] = G[x] /\ q[n] = G[y]
  BY <1>1, <1>6, <1>7
<1>9. e = G[x] /\ f = G[y] /\ q[m] = e /\ q[n] = f
  <2>1. PICK i \in Imaged(G), j \in Imaged(G) : e = G[i] /\ f = G[j]
    BY <1>4
  <2>2. G[i].config = G[x].config /\ G[j].config = G[y].config
    BY <1>3, <1>7, <1>8, <2>1
  <2>3. i = x /\ j = y
    BY <1>5, <1>6, <1>8, <2>2
  <2> QED
    BY <1>8, <2>1, <2>3
<1>10. /\ ~Precedes(scope(f.path), scope(e.path))
       /\ InFile(q, g) /\ e.path = f.path => x < y
  BY <1>1, <1>2, <1>9 DEF InDepth, InFile
<1> HIDE DEF x, y
<1>11. /\ e.path \in Seq(Nat) /\ e.path # <<>> /\ e.index \in {BadIndex} \cup Nat
       /\ f.path \in Seq(Nat) /\ f.path # <<>> /\ f.index \in {BadIndex} \cup Nat
  BY <1>5, <1>8, <1>9 DEF AsRead
<1>12. ASSUME Depth(f) > Depth(e) PROVE FALSE
  <2>1. /\ Depth(e) = Len(scope(e.path)) /\ Depth(e) \in Nat
        /\ Depth(f) = Len(scope(f.path)) /\ Depth(f) \in Nat
    BY <1>11, DepthIs
  <2>2. Len(scope(f.path)) # Len(scope(e.path)) /\ Len(scope(f.path)) > Len(scope(e.path))
    BY <1>12, <2>1
  <2> QED
    BY <1>10, <2>2 DEF Precedes
<1>13. ASSUME InFile(q, g), f.path = e.path, ~BadPair(f, e), f.index < e.index PROVE FALSE
  <2>1. x \in 1..(y - 1)
    BY <1>8, <1>10, <1>13
  <2>2. ~BadPair(e, f)
    BY <1>13 DEF BadPair
  <2>3. e.index < f.index
    BY <1>5, <1>8, <1>9, <1>13, <2>1, <2>2 DEF AsRead
  <2>4. e.index \in Nat /\ f.index \in Nat
    BY <1>11, <1>13 DEF BadPair
  <2> QED
    BY <1>13, <2>3, <2>4
<1> QED
  BY <1>12, <1>13 DEF Deeper, EarlierInFile

-----------------------------------------------------------------------------
(* The invariants of a run of the runtime.                                 *)

\* What a run was asked for, and where it can be.
ProgressInv ==
    /\ fpc \in {"idle", "new", "run", "client", "filters", "pipeline", "check", "done"}
    /\ fpc # "idle" => job \in Jobs
    /\ fpc \in {"new", "run", "client"} => job.executor # "RunFns"
    /\ fpc \in {"run", "client", "filters"} =>
          job.executor \in {"RunFns", "GenericContainer", "Clusterctl"}
    /\ fresult # "none" => fpc = "done"
    /\ fpc \in {"idle", "new", "run", "client", "filters"} =>
          exits = <<>> /\ filters = <<>> /\ cli = "none"
    /\ cli # "none" => fpc = "pipeline" /\ Len(exits) < Len(filters)

\* The filters are those of the request.
Filtered ==
    \E known \in BOOLEAN : /\ ~Failed(getFilters(request, known))
                           /\ filters = getFilters(request, known).val

\* Which functions have been run, and what came of them.
ExitsInv ==
    /\ fpc \in {"pipeline", "check"} \/ exits # <<>> \/ (fresult = "ok" /\ Runtime) => Filtered
    /\ IsBundle(exits) /\ IsBundle(filters) /\ Len(exits) <= Len(filters)
    /\ \A n \in 1..Len(exits) : exits[n].of = filters[n]
    /\ fpc \in {"pipeline", "check"} \/ written => \A n \in 1..Len(exits) : exits[n].ok \/ exits[n].of.defer
    /\ written => fpc \in {"check", "done"} /\ Len(exits) = Len(filters)
    /\ fpc = "check" \/ (fresult = "ok" /\ Runtime) =>
          written \/ (items = <<>> /\ ~request.continueOnEmpty)
    /\ fresult = "ok" /\ Runtime => \A n \in 1..Len(exits) : exits[n].ok

\* The files of the components lead to every local provider's own documents.
OwnFiles(c) ==
    \A n \in 1..Len(c.providers) :
        LET p == c.providers[n]
        IN  p.of.local =>
               /\ p.url \in DOMAIN c.components
               /\ c.components[p.url] = Deployable(p.of.docs)
               /\ ToSet(c.components[p.url]) = {d \in ToSet(p.of.docs) : "deploy-k8s=false" \notin d.labels}
               /\ ~HasNamesake(p.of, c.providers) =>
                     c.components[<<p.url[1], "metadata">>] \in ToSet(p.of.docs)

\* The record of a container.
ContsInv ==
    \A c \in DOMAIN conts :
        DOMAIN conts[c] = {"cmd", "mounts", "items", "stage", "left", "local", "ok"}

OwnInv ==
    /\ fpc \in {"run", "client", "filters"} /\ job.executor = "Clusterctl" =>
          {"components", "providers"} \subseteq DOMAIN config /\ OwnFiles(config)
    /\ \A n \in 1..Len(filters) : filters[n].image = "clusterctl" => OwnFiles(filters[n].config)
    /\ \A c \in DOMAIN conts : conts[c].cmd.image = "clusterctl" =>
          /\ OwnFiles(conts[c].cmd.config)
          /\ conts[c].stage = "program" => conts[c].local = conts[c].cmd.config.components

\* A phase of cloud-init in a container of the KRM runtime.
CloudJob ==
    job.executor = "GenericContainer" /\ job.spec.image = "cloud-init" /\ job.spec.type = "krm"

\* The files f are those of one run of job j.
CloudFiles(f, j) ==
    LET docs == ToSet(j.docs)
        iso == j.config
    IN  /\ f["builder-conf"] = iso
        /\ \E d \in docs :
              /\ AskedFor(d, iso.userSel, "Secret", "ephemeral-user-data")
              /\ Carries(d, KeyOr(iso.userKey, "userData"), f["user-data"])
        /\ \E h, s \in docs :
              /\ AskedFor(h, iso.netSel, "BareMetalHost", "ephemeral-node")
              /\ s.kind = "Secret"
              /\ h.fields["spec.networkData.name"] \in {Unset, s.name}
              /\ h.fields["spec.networkData.namespace"] \in {Unset, s.ns}
              /\ Carries(s, KeyOr(iso.netKey, "networkData"), f["network-data"])

\* The documents that a function is given are those of the phase.
OfPhase(b) == IsBundle(b) /\ Docs(b) \subseteq Docs(job.docs)

CloudCont(c) ==
    /\ c.cmd.image = "cloud-init" /\ c.cmd.config = job.config /\ OfPhase(c.items)
    /\ c.stage \in {"created", "writing", "exited"}
    /\ c.stage = "writing" => /\ DOMAIN c.local = FileNames /\ CloudFiles(c.local, job)
                              /\ \A f \in FileNames \ c.left : isoFiles[f] = c.local[f]
    /\ c.stage = "exited" /\ c.ok => CloudFiles(isoFiles, job)

\* What a phase of cloud-init hands on.
CloudInput ==
    fpc \notin {"idle", "done"} /\ CloudJob =>
        /\ fpc # "new" => config = job.config
        /\ exits = <<>> => OfPhase(items)

CloudFilters ==
    fpc # "idle" /\ CloudJob =>
        /\ Len(filters) <= 1
        /\ \A n \in 1..Len(filters) : filters[n].image = "cloud-init" /\ filters[n].config = job.config

\* The run's own container is the only one, and it is the one that writes.
CloudRun ==
    /\ \A c \in DOMAIN conts : c = <<run, 1>> /\ CloudCont(conts[c])
    /\ exits = <<>> /\ cli # "attached" => DOMAIN conts = {}
    /\ cli = "attached" => Id \in DOMAIN conts
    /\ Len(exits) = 1 /\ exits[1].ok => DOMAIN conts = {} /\ CloudFiles(isoFiles, job)

CloudInv ==
    /\ DOMAIN isoFiles = FileNames
    /\ CloudInput /\ CloudFilters
    /\ fpc # "idle" /\ CloudJob /\ alone => CloudRun

-----------------------------------------------------------------------------
(* Every step keeps them.                                                  *)

\* The request of a run, given or made by runKRM, is one.
LEMMA RequestIs ==
    ASSUME job \in Jobs PROVE IsRequest(request)
<1>1. CASE job.executor = "RunFns"
  BY <1>1, JobsAssumption DEF request
<1>2. CASE job.executor # "RunFns"
  <2> DEFINE f == [path |-> <<1>>, index |-> 0, spec |-> TRUE, image |-> job.spec.image,
                   network |-> job.spec.network, defer |-> FALSE, env |-> job.spec.env,
                   config |-> config]
             r == request
  <2>1. r.input = <<>> /\ r.paths = <<>> /\ r.functions = <<f>>
    BY <1>2 DEF request, runKRM
  <2>2. f.path = <<1>> /\ f.index = 0
    OBVIOUS
  <2> HIDE DEF f, r
  <2> DEFINE s == <<f>>
  <2>3. IsBundle(s) /\ Len(s) = 1 /\ s[1] = f /\ IsBundle(<<>>)
    BY DEF IsBundle, Docs
  <2>4. <<>> \o s = s
    BY <2>3, EmptyConcat
  <2>5. <<>> \o <<>> = <<>>
    OBVIOUS
  <2>6. (r.input \o r.paths) \o r.functions = s
    BY <2>1, <2>4, <2>5
  <2> HIDE DEF s
  <2>7. IsBundle(r.input) /\ IsBundle(r.paths) /\ IsBundle(r.functions)
    BY <2>1, <2>3 DEF s
  <2>8. \A m, n \in 1..Len(s) : m = n
    BY <2>3
  <2>9. \A d \in Docs(s) : d.path \in Seq(Nat) \ {<<>>} /\ d.index \in {BadIndex} \cup Nat
    <3>1. f.path \in Seq(Nat) \ {<<>>} /\ f.index \in {BadIndex} \cup Nat
      <4>1. <<1>> \in Seq(Nat) /\ <<1>> # <<>> /\ 0 \in Nat
        OBVIOUS
      <4> QED
        BY <2>2, <4>1
    <3>2. \A d \in Docs(s) : d = f
      BY <2>3 DEF Docs
    <3> QED
      BY <3>1, <3>2
  <2>10. Len(r.input) = 0
    BY <2>1
  <2>11. IsRequest(r)
    <3> DEFINE given == (r.input \o r.paths) \o r.functions
    <3>1. \A m, n \in 1..Len(given) : given[m].config = given[n].config => m = n
      BY <2>6, <2>8
    <3>2. \A d \in Docs(given) : d.path \in Seq(Nat) \ {<<>>} /\ d.index \in {BadIndex} \cup Nat
      BY <2>6, <2>9
    <3>3. \A n \in 1..Len(r.input) : FALSE
      BY <2>10
    <3> QED
      BY <2>7, <3>1, <3>2, <3>3 DEF IsRequest
  <2> QED
    BY <2>11 DEF r
<1> QED
  BY <1>1, <1>2

\* As long as request and filters stay, they belong together.
LEMMA FilteredKept ==
    ASSUME UNCHANGED <<job, config, filters>>, Filtered PROVE Filtered'
<1>1. request' = request
  BY DEF request, runKRM
<1>2. PICK known \in BOOLEAN : /\ ~Failed(getFilters(request, known))
                               /\ filters = getFilters(request, known).val
  BY DEF Filtered
<1>3. ~Failed(getFilters(request', known)) /\ filters' = getFilters(request', known).val
  BY <1>1, <1>2
<1> QED
  BY <1>3 DEF Filtered

\* What a client of the daemon does not touch stays as it is.
LEMMA ProgressStep ==
    ASSUME ProgressInv, [FnNext]_fnVars PROVE ProgressInv'
<1> USE DEF ProgressInv, FnReturn
<1>1. ASSUME NEW j \in Jobs, StartJob(j) PROVE ProgressInv'
  BY <1>1 DEF StartJob
<1>2. CASE NewContainerExecutor
  BY <1>2 DEF NewContainerExecutor, Fail, begun, pipeline
<1>3. CASE RunContainer
  BY <1>3 DEF RunContainer, Fail, begun, pipeline
<1>4. CASE NewClusterctlExecutor
  BY <1>4 DEF NewClusterctlExecutor, Fail, begun, pipeline
<1>5. CASE RunClusterctl
  BY <1>5 DEF RunClusterctl, Fail, begun, pipeline
<1>6. CASE ClientRun
  BY <1>6 DEF ClientRun, Fail, begun, pipeline
<1>7. CASE GetNodesAndFilters
  BY <1>7 DEF GetNodesAndFilters, Fail, begun, pipeline
<1>8. CASE CallDocker
  BY <1>8 DEF CallDocker, begun, Position
<1>9. CASE WriteOutput
  BY <1>9 DEF WriteOutput, Fail, begun, pipeline
<1>10. CASE CheckExits
  BY <1>10 DEF CheckExits, begun, pipeline
<1>11. ASSUME NEW ok \in BOOLEAN, cli # "none", FilterEnds(ok) PROVE ProgressInv'
  BY <1>11 DEF FilterEnds, begun
<1>12. CASE DockerRun
  <2>1. CASE cli' = "attached" /\ UNCHANGED <<begun, fpc, config, mounts, filters, exits, items, written, fresult, isoFiles>>
    BY <1>12, <2>1 DEF DockerRun, begun
  <2> QED
    BY <1>11, <1>12, <2>1 DEF DockerRun
<1>13. CASE DockerEnds
  <2>1. FilterEnds(conts[Id].ok) /\ cli # "none"
    BY <1>13 DEF DockerEnds
  <2> QED
    BY <2>1 DEF FilterEnds, begun
<1>14. CASE TimeoutKills
  BY <1>11, <1>14 DEF TimeoutKills
<1>15. ASSUME UNCHANGED client PROVE ProgressInv'
  BY <1>15 DEF client, begun, pipeline
<1>16. CASE UNCHANGED fnVars
  BY <1>16 DEF fnVars
<1> QED
  <2>1. ASSUME NEW c \in DOMAIN conts,
               \/ CloudInitProgram(c) \/ WriteFiles(c) \/ ToolboxProgram(c) \/ ClusterctlProgram(c)
               \/ OtherFunction(c) \/ ProgramEnds(c) \/ Removed(c)
        PROVE  UNCHANGED client
    BY <2>1 DEF CloudInitProgram, WriteFiles, ToolboxProgram, ClusterctlProgram, OtherFunction,
                ProgramEnds, Removed
  <2> HIDE DEF ProgressInv
  <2> QED
    BY <1>1, <1>2, <1>3, <1>4, <1>5, <1>6, <1>7, <1>8, <1>9, <1>10, <1>12, <1>13, <1>14, <1>15,
       <1>16, <2>1 DEF FnNext, Own

\* What a finished command does to the record of what has been run.
LEMMA ExitsStep ==
    ASSUME ProgressInv, ProgressInv', ExitsInv, [FnNext]_fnVars PROVE ExitsInv'
<1> DEFINE A == fpc \in {"pipeline", "check"} \/ exits # <<>> \/ (fresult = "ok" /\ Runtime)
           B == fpc = "check" \/ (fresult = "ok" /\ Runtime)
<1>0. IsBundle(<<>>) /\ Len(<<>>) = 0 /\ \A n : n \notin 1..0
  BY DEF IsBundle
<1>1. ASSUME NEW j \in Jobs, StartJob(j) PROVE ExitsInv'
  BY <1>0, <1>1 DEF StartJob, ExitsInv
\* Before the pipeline nothing has been run.
<1>2. ASSUME fpc \in {"new", "run", "client", "filters"}, UNCHANGED <<job, filters, exits, written>>,
             fpc' \in {"run", "client", "filters"} \/ fresult' = "err" \/ (fresult' = "ok" /\ ~Runtime')
      PROVE  ExitsInv'
  <2>1. exits = <<>> /\ filters = <<>> /\ ~written /\ fresult = "none"
    BY <1>2 DEF ProgressInv, ExitsInv
  <2>2. exits' = <<>> /\ filters' = <<>> /\ ~written'
    BY <1>2, <2>1
  <2>3. fpc' \in {"run", "client", "filters", "done"}
    BY <1>2 DEF ProgressInv
  <2>4. fpc' # "done" => fresult' = "none"
    BY DEF ProgressInv
  <2>5. ~A' /\ ~B'
    BY <1>2, <2>2, <2>3, <2>4 DEF ProgressInv
  <2> QED
    BY <1>0, <2>2, <2>3, <2>5 DEF ExitsInv
<1>3. CASE NewContainerExecutor
  BY <1>2, <1>3 DEF NewContainerExecutor, Fail, FnReturn, begun, pipeline
<1>4. CASE RunContainer
  BY <1>2, <1>4 DEF RunContainer, Fail, FnReturn, begun, pipeline, Runtime
<1>5. CASE NewClusterctlExecutor
  BY <1>2, <1>5 DEF NewClusterctlExecutor, Fail, FnReturn, begun, pipeline
<1>6. CASE RunClusterctl
  BY <1>2, <1>6 DEF RunClusterctl, Fail, FnReturn, begun, pipeline
<1>7. CASE ClientRun
  <2>1. fpc = "client" /\ job.executor # "RunFns" /\ UNCHANGED <<job, filters, exits, written>>
    BY <1>7 DEF ClientRun, ProgressInv, Fail, begun, pipeline
  <2>2. fpc' = "filters" \/ fresult' = "err" \/ (fresult' = "ok" /\ job.spec.type \in {"airship", Unset})
    BY <1>7 DEF ClientRun, Fail, FnReturn
  <2>3. job.spec.type \in {"airship", Unset} => ~Runtime'
    BY <2>1, NamesAssumption DEF Runtime
  <2> QED
    BY <1>2, <2>1, <2>2, <2>3
<1>8. CASE GetNodesAndFilters
  <2>1. CASE Fail
    BY <1>2, <1>8, <2>1 DEF GetNodesAndFilters, Fail, FnReturn, begun, pipeline
  <2>2. CASE ~Fail
    <3>1. PICK known \in BOOLEAN : /\ ~Failed(getFilters(request, known))
                                   /\ filters' = getFilters(request, known).val
      BY <1>8, <2>2 DEF GetNodesAndFilters
    <3>2. /\ fpc' = "pipeline" /\ UNCHANGED <<job, config, exits, items, written, fresult>>
          /\ exits = <<>> /\ fresult = "none"
      BY <1>8, <2>2 DEF GetNodesAndFilters, begun, ProgressInv
    <3>3. Filtered'
      <4>1. request' = request
        BY <3>2 DEF request, runKRM
      <4> QED
        BY <3>1, <4>1 DEF Filtered
    <3>4. IsBundle(filters') /\ Len(filters') \in Nat
      <4>1. job \in Jobs
        BY <1>8 DEF GetNodesAndFilters, ProgressInv
      <4>2. IsRequest(request)
        BY <4>1, RequestIs
      <4>3. PICK q, g : /\ Listing(q, Given(request), Imaged(Given(request)), g)
                        /\ filters' = CommandsOf(request, getUIDGID(TRUE, known).val, q)
        BY <3>1, <4>2, FiltersAre
      <4>4. IsBundle(filters')
        BY <4>3, CommandsBundle DEF Listing
      <4> QED
        BY <4>4 DEF IsBundle
    <3>5. ~written
      BY <1>8 DEF ExitsInv, GetNodesAndFilters
    <3> QED
      BY <1>0, <3>2, <3>3, <3>4, <3>5 DEF ExitsInv
  <2> QED
    BY <2>1, <2>2
<1>9. CASE CallDocker
  <2>1. Filtered'
    BY <1>9, FilteredKept DEF CallDocker, begun, ExitsInv
  <2>2. UNCHANGED <<fpc, filters, exits, items, written, fresult, job>> /\ request' = request
    BY <1>9 DEF CallDocker, begun, request, runKRM
  <2> QED
    BY <2>1, <2>2 DEF ExitsInv, Runtime
<1>10. CASE WriteOutput
  <2>1. Filtered' /\ request' = request
    BY <1>10, FilteredKept DEF WriteOutput, Fail, begun, pipeline, ExitsInv, request, runKRM
  <2>2. fpc = "pipeline" /\ UNCHANGED <<filters, exits, items, job>> /\ ~written
    BY <1>10 DEF WriteOutput, Fail, begun, pipeline, ExitsInv
  <2>3. Len(exits) \in Nat /\ Len(filters) \in Nat /\ Len(exits) <= Len(filters)
    BY DEF ExitsInv, IsBundle
  <2>4. Len(exits) + 1 > Len(filters)
    BY <1>10 DEF WriteOutput, Position
  <2>5. Len(exits) = Len(filters)
    BY <2>3, <2>4
  <2>6. \/ fpc' = "check" /\ written' /\ fresult' = "none"
        \/ fpc' = "done" /\ fresult' = "err" /\ ~written'
    BY <1>10, <2>2 DEF WriteOutput, Fail, FnReturn, pipeline, ProgressInv
  <2> QED
    BY <2>1, <2>2, <2>5, <2>6 DEF ExitsInv
<1>11. CASE CheckExits
  <2>1. Filtered' /\ request' = request
    BY <1>11, FilteredKept DEF CheckExits, begun, pipeline, ExitsInv, request, runKRM
  <2>2. fpc = "check" /\ fpc' = "done" /\ UNCHANGED <<filters, exits, items, job, written>>
    BY <1>11 DEF CheckExits, FnReturn, begun, pipeline
  <2>3. fresult' = "ok" => \A n \in 1..Len(exits) : exits[n].ok
    BY <1>11 DEF CheckExits, FnReturn
  <2> QED
    BY <2>1, <2>2, <2>3 DEF ExitsInv
<1>12. ASSUME NEW ok, cli # "none", FilterEnds(ok) PROVE ExitsInv'
  <2>1. /\ fpc = "pipeline" /\ Len(exits) < Len(filters) /\ ~written /\ Filtered
        /\ IsBundle(exits) /\ IsBundle(filters)
    BY <1>12 DEF ProgressInv, ExitsInv
  <2>2. Len(exits) \in Nat /\ Len(filters) \in Nat
    BY <2>1 DEF IsBundle
  <2>3. Filtered' /\ request' = request
    BY <1>12, <2>1, FilteredKept DEF FilterEnds, begun, request, runKRM
  <2> DEFINE e == [of |-> Filter, ok |-> ok]
             m == Len(exits) + 1
  <2>4. exits' = Append(exits, e) /\ UNCHANGED <<filters, written, job>>
    BY <1>12 DEF FilterEnds, begun
  <2>5. e.of = filters[m] /\ e.ok = ok
    BY DEF Filter, Position
  <2> HIDE DEF e
  <2>6. /\ IsBundle(exits') /\ Len(exits') = m
        /\ \A n \in 1..Len(exits) : exits'[n] = exits[n]
        /\ exits'[m] = e
    BY <2>1, <2>4, AppendBundle
  <2>7. \A n \in 1..Len(exits') : n \in 1..Len(exits) \/ n = m
    BY <2>2, <2>6
  <2>8. Len(exits') <= Len(filters')
    BY <2>1, <2>2, <2>4, <2>6
  <2> HIDE DEF m
  <2>9. \A n \in 1..Len(exits') : exits'[n].of = filters'[n]
    BY <2>4, <2>5, <2>6, <2>7 DEF ExitsInv
  <2>10. ok \/ Filter.defer => \A n \in 1..Len(exits') : exits'[n].ok \/ exits'[n].of.defer
    <3>1. e.of = Filter
      BY DEF e
    <3> QED
      BY <2>1, <2>5, <2>6, <2>7, <3>1 DEF ExitsInv
  <2>11. CASE FnReturn("err")
    <3>1. fpc' = "done" /\ fresult' = "err"
      BY <2>11 DEF FnReturn
    <3> QED
      BY <2>1, <2>3, <2>4, <2>6, <2>8, <2>9, <3>1 DEF ExitsInv
  <2>12. CASE /\ ok \/ Filter.defer
              /\ fpc' = IF items' = <<>> /\ ~request.continueOnEmpty THEN "check" ELSE "pipeline"
              /\ UNCHANGED fresult
    <3>1. fresult' = "none"
      BY <2>1, <2>12 DEF ProgressInv
    <3> QED
      BY <2>1, <2>3, <2>4, <2>6, <2>8, <2>9, <2>10, <2>12, <3>1 DEF ExitsInv
  <2> QED
    BY <1>12, <2>11, <2>12 DEF FilterEnds
<1>13. ASSUME UNCHANGED <<job, config, fpc, filters, exits, items, written, fresult>> PROVE ExitsInv'
  <2>1. Filtered => Filtered'
    BY <1>13, FilteredKept
  <2>2. request' = request /\ (Runtime' <=> Runtime)
    BY <1>13 DEF request, runKRM, Runtime
  <2> QED
    BY <1>13, <2>1, <2>2 DEF ExitsInv
<1>14. CASE DockerRun
  <2>1. CASE cli' = "attached" /\ UNCHANGED <<begun, fpc, config, mounts, filters, exits, items, written, fresult, isoFiles>>
    BY <1>13, <2>1 DEF begun
  <2>2. cli # "none" /\ (~(cli' = "attached" /\ UNCHANGED <<begun, fpc, config, mounts, filters, exits, items, written, fresult, isoFiles>>) => FilterEnds(FALSE))
    BY <1>14 DEF DockerRun
  <2> QED
    BY <1>12, <2>1, <2>2
<1>15. CASE DockerEnds
  <2>1. FilterEnds(conts[Id].ok) /\ cli # "none"
    BY <1>15 DEF DockerEnds
  <2> QED
    BY <1>12, <2>1
<1>16. CASE TimeoutKills
  BY <1>12, <1>16 DEF TimeoutKills
<1>17. ASSUME UNCHANGED client PROVE ExitsInv'
  BY <1>13, <1>17 DEF client, begun, pipeline
<1>18. CASE UNCHANGED fnVars
  BY <1>13, <1>18 DEF fnVars
<1> QED
  <2>1. ASSUME NEW c \in DOMAIN conts,
               \/ CloudInitProgram(c) \/ WriteFiles(c) \/ ToolboxProgram(c) \/ ClusterctlProgram(c)
               \/ OtherFunction(c) \/ ProgramEnds(c) \/ Removed(c)
        PROVE  UNCHANGED client
    BY <2>1 DEF CloudInitProgram, WriteFiles, ToolboxProgram, ClusterctlProgram, OtherFunction,
                ProgramEnds, Removed
  <2> QED
    BY <1>1, <1>3, <1>4, <1>5, <1>6, <1>7, <1>8, <1>9, <1>10, <1>11, <1>14, <1>15, <1>16, <1>17,
       <1>18, <2>1 DEF FnNext, Own

\* What the invariant says of a successful run of the runtime.
LEMMA Whole ==
    ASSUME ProgressInv, ExitsInv PROVE RunIsWhole
<1>1. Len(exits) \in Nat /\ Len(filters) \in Nat /\ Len(exits) <= Len(filters)
  BY DEF ExitsInv, IsBundle
<1>2. exits # <<>> \/ fresult = "ok" => fpc # "idle" /\ job \in Jobs
  BY DEF ProgressInv
<1>3. ASSUME fresult = "ok", Runtime
      PROVE  /\ \A n \in 1..Len(exits) : exits[n].ok
             /\ \/ /\ written
                   /\ {exits[n].of.config : n \in 1..Len(exits)} = {f.config : f \in Declared(request)}
                   /\ Len(exits) = Cardinality(Declared(request))
                \/ ~request.continueOnEmpty /\ items = <<>>
  <2>1. \A n \in 1..Len(exits) : exits[n].ok
    BY <1>3 DEF ExitsInv
  <2>2. written \/ (items = <<>> /\ ~request.continueOnEmpty)
    BY <1>3 DEF ExitsInv
  <2>3. ASSUME written
        PROVE  /\ {exits[n].of.config : n \in 1..Len(exits)} = {f.config : f \in Declared(request)}
               /\ Len(exits) = Cardinality(Declared(request))
    <3>1. IsRequest(request)
      BY <1>2, <1>3, RequestIs
    <3>2. PICK known \in BOOLEAN : /\ ~Failed(getFilters(request, known))
                                   /\ filters = getFilters(request, known).val
      BY <1>3 DEF ExitsInv, Filtered
    <3>3. PICK q, g : /\ Listing(q, Given(request), Imaged(Given(request)), g)
                      /\ filters = CommandsOf(request, getUIDGID(TRUE, known).val, q)
      BY <3>1, <3>2, FiltersAre
    <3>4. IsWhole(filters, request)
      BY <3>1, <3>3, ListingIsWhole
    <3>5. Len(exits) = Len(filters) /\ \A n \in 1..Len(exits) : exits[n].of = filters[n]
      BY <2>3 DEF ExitsInv
    <3>6. {exits[n].of.config : n \in 1..Len(exits)} = {filters[n].config : n \in 1..Len(filters)}
      BY <3>5
    <3> QED
      BY <3>4, <3>5, <3>6 DEF IsWhole
  <2> QED
    BY <2>1, <2>2, <2>3
<1>4. ASSUME NEW m \in 1..Len(exits), NEW n \in 1..Len(exits),
             NEW e \in Declared(request), NEW f \in Declared(request),
             m < n, exits[m].of.config = e.config, exits[n].of.config = f.config,
             ~NoFunctionsFromInput(request), Len(SpecsOf(request.input)) <= MaxInsertion
      PROVE  ~Deeper(f, e) /\ (Swapped(SpecsOf(request.input)) = {} => ~EarlierInFile(f, e))
  <2>1. exits # <<>>
    BY <1>1, <1>4 DEF ExitsInv
  <2>2. IsRequest(request)
    BY <1>2, <2>1, RequestIs
  <2>3. PICK known \in BOOLEAN : /\ ~Failed(getFilters(request, known))
                                 /\ filters = getFilters(request, known).val
    BY <2>1 DEF ExitsInv, Filtered
  <2>4. PICK q, g : /\ Listing(q, Given(request), Imaged(Given(request)), g)
                    /\ Ordered(request.input, q, g)
                    /\ filters = CommandsOf(request, getUIDGID(TRUE, known).val, q)
    BY <1>4, <2>2, <2>3, FiltersAre
  <2>5. exits[m].of = filters[m] /\ exits[n].of = filters[n]
    BY DEF ExitsInv
  <2>6. n \in 1..Len(filters) /\ m \in 1..(n - 1)
    BY <1>1, <1>4
  <2>7. filters[m].config = e.config /\ filters[n].config = f.config
    BY <1>4, <2>5
  <2> QED
    BY <1>4, <2>2, <2>4, <2>6, <2>7, ListingIsOrdered DEF Ordered
<1>5. written => /\ Len(exits) = Len(filters)
                 /\ \A n \in 1..Len(exits) : exits[n].ok \/ exits[n].of.defer
  BY DEF ExitsInv
<1>6. ASSUME NEW e \in Declared(request), NEW f \in Declared(request), RunAfter(f, e),
             Len(SpecsOf(request.input)) <= MaxInsertion
      PROVE  ~Deeper(f, e) /\ (Swapped(SpecsOf(request.input)) = {} => ~EarlierInFile(f, e))
  <2>1. PICK m \in 1..Len(exits), n \in 1..Len(exits) :
           m < n /\ exits[m].of.config = e.config /\ exits[n].of.config = f.config
    BY <1>6 DEF RunAfter
  <2> QED
    BY <1>4, <1>6, <2>1 DEF RunAfter
<1> QED
  BY <1>3, <1>5, <1>6 DEF RunIsWhole

\* The invariant of the proof.
THEOREM ProgressHolds == FnSpec => [](ProgressInv /\ ExitsInv)
<1>1. FnInit => ProgressInv /\ ExitsInv
  <2>1. IsBundle(<<>>) /\ Len(<<>>) = 0 /\ \A n : n \notin 1..0
    BY DEF IsBundle
  <2> QED
    BY <2>1 DEF FnInit, ProgressInv, ExitsInv
<1>2. ProgressInv /\ ExitsInv /\ [FnNext]_fnVars => (ProgressInv /\ ExitsInv)'
  BY ProgressStep, ExitsStep
<1> QED
  BY <1>1, <1>2, PTL DEF FnSpec

\* A run of the KRM runtime that reports success has run every function of its
\* request once, and none failed; up to twelve functions of a package run deeper
\* first, and those of one file by index unless the gap pass moves one (RunIsWhole).
THEOREM RunIsWholeHolds == FnSpec => []RunIsWhole
  BY ProgressHolds, Whole, PTL

-----------------------------------------------------------------------------
(* The clusterctl executor: the files of the providers.                    *)

\* The two ways to write the documents of a bundle.
LEMMA ElementsOf ==
    ASSUME NEW s, IsBundle(s) PROVE ToSet(s) = Docs(s)
<1>1. DOMAIN s = 1..Len(s)
  BY DEF IsBundle
<1> QED
  BY <1>1 DEF ToSet, Docs

\* The deployable documents are those without the label against it.
LEMMA DeployableIs ==
    ASSUME NEW b, IsBundle(b)
    PROVE  ToSet(Deployable(b)) = {d \in ToSet(b) : "deploy-k8s=false" \notin d.labels}
<1> DEFINE K == {n \in 1..Len(b) : "deploy-k8s=false" \notin b[n].labels}
           p == Deployable(b)
<1>1. Len(b) \in Nat /\ K \subseteq 1..Len(b)
  BY DEF IsBundle
<1>2. p = Picked(b, K)
  BY DEF Deployable
<1> HIDE DEF K, p
<1>3. PICK g : IsPicking(b, K, p, g)
  BY <1>1, <1>2, PickedPlaces
<1>4. Listing(p, b, K, g)
  BY <1>1, <1>3, PickingLists
<1>5. /\ IsBundle(p)
      /\ \A u \in 1..Len(p) : g[u] \in K /\ p[u] = b[g[u]]
      /\ \A n \in K : \E u \in 1..Len(p) : g[u] = n
  BY <1>4 DEF Listing
<1>6. ToSet(p) = Docs(p) /\ ToSet(b) = Docs(b)
  BY <1>5, ElementsOf
<1>7. \A d : d \in Docs(p) <=> \E n \in K : d = b[n]
  BY <1>5 DEF Docs
<1>8. \A d : (\E n \in K : d = b[n]) <=> d \in Docs(b) /\ "deploy-k8s=false" \notin d.labels
  BY DEF K, Docs
<1>9. ToSet(p) = {d \in ToSet(b) : "deploy-k8s=false" \notin d.labels}
  BY <1>6, <1>7, <1>8
<1> QED
  BY <1>9 DEF p

\* A word before two names.
Dashed(word, name) == <<word>> \o name

LEMMA WordBefore ==
    ASSUME NEW a, NEW b, NEW s, IsBundle(s), NEW t, IsBundle(t), Dashed(a, s) = Dashed(b, t)
    PROVE  a = b /\ s = t
<1>1. /\ IsBundle(<<a>>) /\ Len(<<a>>) = 1 /\ <<a>>[1] = a
      /\ IsBundle(<<b>>) /\ Len(<<b>>) = 1 /\ <<b>>[1] = b
  <2>1. \A e : DOMAIN <<e>> = 1..1 /\ <<e>> = [n \in 1..1 |-> <<e>>[n]] /\ <<e>>[1] = e
    OBVIOUS
  <2>2. 1 \in Nat
    OBVIOUS
  <2> QED
    BY <2>1, <2>2, BundleIs
<1> DEFINE x == <<a>> \o s
<1>2. /\ Len(x) = 1 + Len(s) /\ x[1] = a
      /\ \A n \in 1..Len(s) : x[1 + n] = s[n]
  <2>1. 1 \in 1..1
    OBVIOUS
  <2> QED
    BY <1>1, <2>1, ConcatIs
<1>3. /\ Len(x) = 1 + Len(t) /\ x[1] = b
      /\ \A n \in 1..Len(t) : x[1 + n] = t[n]
  <2>1. 1 \in 1..1
    OBVIOUS
  <2>2. x = <<b>> \o t
    BY DEF Dashed
  <2> HIDE DEF x
  <2> QED
    BY <1>1, <2>1, <2>2, ConcatIs
<1> HIDE DEF x
<1>4. Len(s) \in Nat /\ Len(t) \in Nat /\ Len(s) = Len(t)
  BY <1>2, <1>3 DEF IsBundle
<1>5. s = [n \in 1..Len(s) |-> s[n]] /\ t = [n \in 1..Len(t) |-> t[n]]
  BY DEF IsBundle
<1> QED
  BY <1>2, <1>3, <1>4, <1>5

\* The directory of a provider without a namesake tells type, name and version.
LEMMA DirectoryIs ==
    ASSUME NEW p, NEW q, IsBundle(p.name), IsBundle(q.name), componentDir(p) = componentDir(q),
           ~Namesake(p, q), ~Namesake(q, p)
    PROVE  typeName(p) = typeName(q) /\ p.name = q.name /\ p.base = q.base
<1> DEFINE d(o) == IF o.type = "CoreProvider" THEN o.name ELSE <<typeName(o)>> \o o.name
<1>1. d(p) = d(q) /\ p.base = q.base
  <2>1. <<d(p), p.base>> = <<d(q), q.base>>
    BY DEF componentDir
  <2>2. \A a, b, c, e : <<a, b>> = <<c, e>> => a = c /\ b = e
    OBVIOUS
  <2> HIDE DEF d
  <2> QED
    BY <2>1, <2>2, Zenon
<1>4. CASE p.type = "CoreProvider" /\ q.type = "CoreProvider"
  BY <1>1, <1>4 DEF typeName
<1>5. CASE p.type # "CoreProvider" /\ q.type # "CoreProvider"
  <2>1. Dashed(typeName(p), p.name) = Dashed(typeName(q), q.name)
    BY <1>1, <1>5 DEF Dashed
  <2>2. typeName(p) = typeName(q) /\ p.name = q.name
    BY <2>1, WordBefore
  <2> QED
    BY <1>1, <2>2
<1>6. CASE p.type = "CoreProvider" /\ q.type # "CoreProvider"
  BY <1>1, <1>6 DEF Namesake
<1>7. CASE p.type # "CoreProvider" /\ q.type = "CoreProvider"
  BY <1>1, <1>7 DEF Namesake
<1> QED
  BY <1>4, <1>5, <1>6, <1>7

\* Namesakes have different types.
LEMMA NamesakesDiffer ==
    ASSUME NEW p, NEW q, Namesake(p, q) PROVE typeName(p) # typeName(q)
<1>1. p.type = "CoreProvider" /\ q.type # "CoreProvider"
  BY DEF Namesake
<1>2. typeName(p) = "core"
  BY <1>1 DEF typeName, typeMap
<1>3. CASE q.type \in DOMAIN typeMap
  <2>1. q.type \in {"BootstrapProvider", "ControlPlaneProvider", "InfrastructureProvider"}
    BY <1>1, <1>3 DEF typeMap
  <2> QED
    BY <1>2, <1>3, <2>1 DEF typeName, typeMap
<1>4. CASE q.type \notin DOMAIN typeMap
  BY <1>2, <1>4, NamesAssumption DEF typeName
<1> QED
  BY <1>3, <1>4

\* No type has the name of the metadata file.
LEMMA TypeNameIs ==
    ASSUME NEW p PROVE typeName(p) # "metadata"
<1>1. CASE p.type \in DOMAIN typeMap
  <2>1. p.type \in {"BootstrapProvider", "ControlPlaneProvider", "InfrastructureProvider", "CoreProvider"}
    BY <1>1 DEF typeMap
  <2> QED
    BY <1>1, <2>1 DEF typeName, typeMap
<1>2. CASE p.type \notin DOMAIN typeMap
  BY <1>2, NamesAssumption DEF typeName
<1> QED
  BY <1>1, <1>2

\* The maximum of one number.
LEMMA MaxOfOne ==
    ASSUME NEW n \in Nat PROVE Max({n}) = n
<1>1. {n} \subseteq 0..n /\ {n} # {}
  OBVIOUS
<1>2. Max({n}) \in {n}
  BY <1>1, MaxIs
<1> QED
  BY <1>2

\* The files that initRepoData makes of the providers.
LEMMA RepoDataIs ==
    ASSUME NEW ps, IsBundle(ps), \A p \in Docs(ps) : IsProvider(p),
           \A m, n \in 1..Len(ps) :
              LET p == ps[m]
                  q == ps[n]
              IN  p.local /\ q.local /\ typeName(p) = typeName(q) /\ p.name = q.name /\ p.base = q.base
                      => m = n,
           ~Failed(initRepoData(ps))
    PROVE  OwnFiles(initRepoData(ps).val)
<1> DEFINE locals == {n \in 1..Len(ps) : ps[n].local}
           metadata(p) == SelectOne(p.docs, NewClusterctlMetadataSelector)
           names(p) == {metadataFile(p), componentsFile(p)}
           writers(file) == {n \in locals : file \in names(ps[n])}
           writer(file) == ps[Max(writers(file))]
           content(file, p) == IF file = componentsFile(p) THEN Deployable(p.docs) ELSE metadata(p).val
           comps == [file \in UNION {names(ps[n]) : n \in locals} |-> content(file, writer(file))]
           provs == [n \in 1..Len(ps) |->
                       [of |-> ps[n], url |-> IF n \in locals THEN componentsFile(ps[n]) ELSE ps[n].base]]
           data == [components |-> comps, providers |-> provs]
<1>1. initRepoData(ps) = IF \E n \in locals : Failed(metadata(ps[n])) THEN Failure("metadata")
                         ELSE Value(data)
  BY DEF initRepoData
<1>2. \A n \in locals : ~Failed(metadata(ps[n]))
  <2> HIDE DEF locals, data
  <2>1. Failed(Failure("metadata"))
    BY DEF Failed, Failure
  <2> QED
    BY <1>1, <2>1
<1>3. initRepoData(ps).val = data
  <2> HIDE DEF data, locals
  <2>1. initRepoData(ps) = Value(data)
    BY <1>1, <1>2
  <2> QED
    BY <2>1, ValueOf
<1>4. Len(ps) \in Nat /\ \A n \in 1..Len(ps) : IsProvider(ps[n])
  BY DEF IsBundle, Docs
<1> DEFINE Apart(m, n) == ~Namesake(ps[m], ps[n]) /\ ~Namesake(ps[n], ps[m])
<1>5. ASSUME NEW m \in locals, NEW n \in locals, NEW file \in names(ps[m]), file \in names(ps[n]),
             Apart(m, n) \/ file = componentsFile(ps[n])
      PROVE  m = n
  <2>0. m \in 1..Len(ps) /\ n \in 1..Len(ps) /\ ps[m].local /\ ps[n].local
    OBVIOUS
  <2>1. componentDir(ps[m]) = componentDir(ps[n])
    <3>1. file[1] = componentDir(ps[m]) /\ file[1] = componentDir(ps[n])
      BY <1>5 DEF metadataFile, componentsFile
    <3> QED
      BY <3>1
  <2>3. Apart(m, n)
    <3>1. file = componentsFile(ps[n]) => Apart(m, n)
      <4>1. ASSUME file = componentsFile(ps[n]) PROVE typeName(ps[m]) = typeName(ps[n])
        <5>1. file[2] = typeName(ps[n])
          BY <4>1 DEF componentsFile
        <5>2. file[2] = "metadata" \/ file[2] = typeName(ps[m])
          BY <1>5 DEF metadataFile, componentsFile
        <5> QED
          BY <5>1, <5>2, TypeNameIs
      <4> HIDE DEF locals, names
      <4> QED
        BY <4>1, NamesakesDiffer
    <3> QED
      BY <1>5, <3>1
  <2>4. IsBundle(ps[m].name) /\ IsBundle(ps[n].name)
    BY <1>4, <2>0 DEF IsProvider
  <2>5. typeName(ps[m]) = typeName(ps[n]) /\ ps[m].name = ps[n].name /\ ps[m].base = ps[n].base
    BY <2>1, <2>3, <2>4, DirectoryIs
  <2> QED
    BY <2>0, <2>5
<1> HIDE DEF Apart
<1>6. ASSUME NEW n \in locals, NEW file \in names(ps[n]),
             file = componentsFile(ps[n]) \/ \A m \in locals : Apart(m, n)
      PROVE  file \in DOMAIN comps /\ comps[file] = content(file, ps[n])
  <2>1. writers(file) = {n}
    <3> HIDE DEF locals, names
    <3> QED
      BY <1>5, <1>6
  <2>2. Max({n}) = n
    <3>1. n \in Nat
      BY <1>4
    <3> QED
      BY <3>1, MaxOfOne
  <2>3. writer(file) = ps[n]
    BY <2>1, <2>2
  <2>4. file \in UNION {names(ps[k]) : k \in locals}
    <3> HIDE DEF locals, names
    <3> QED
      OBVIOUS
  <2> HIDE DEF writer, content, names, locals
  <2>5. comps[file] = content(file, writer(file))
    BY <2>4
  <2> QED
    BY <2>3, <2>4, <2>5
<1>7. ASSUME NEW n \in locals
      PROVE  /\ componentsFile(ps[n]) \in DOMAIN comps
             /\ comps[componentsFile(ps[n])] = Deployable(ps[n].docs)
             /\ ToSet(comps[componentsFile(ps[n])])
                   = {d \in ToSet(ps[n].docs) : "deploy-k8s=false" \notin d.labels}
             /\ (\A m \in locals : Apart(m, n)) => comps[metadataFile(ps[n])] \in ToSet(ps[n].docs)
             /\ metadataFile(ps[n]) = <<componentsFile(ps[n])[1], "metadata">>
  <2> DEFINE p == ps[n]
  <2>1. IsBundle(p.docs)
    BY <1>4 DEF IsProvider
  <2>2. /\ componentsFile(p) \in DOMAIN comps
        /\ comps[componentsFile(p)] = content(componentsFile(p), p)
        /\ (\A m \in locals : Apart(m, n)) => comps[metadataFile(p)] = content(metadataFile(p), p)
    <3> HIDE DEF comps, content, locals
    <3> QED
      BY <1>6
  <2>3. metadataFile(p) # componentsFile(p)
    BY TypeNameIs DEF metadataFile, componentsFile
  <2>4. /\ comps[componentsFile(p)] = Deployable(p.docs)
        /\ (\A m \in locals : Apart(m, n)) => comps[metadataFile(p)] = metadata(p).val
    <3> HIDE DEF comps, locals, metadata
    <3> QED
      BY <2>2, <2>3
  <2>5. ToSet(Deployable(p.docs)) = {d \in ToSet(p.docs) : "deploy-k8s=false" \notin d.labels}
    BY <2>1, DeployableIs
  <2>6. metadata(p).val \in ToSet(p.docs)
    <3>1. OnlyOne(p.docs, NewClusterctlMetadataSelector, metadata(p).val)
      BY <1>2, SelectOneIs
    <3>2. metadata(p).val \in Docs(p.docs)
      BY <3>1 DEF OnlyOne, Docs
    <3> QED
      BY <2>1, <3>2, ElementsOf
  <2>7. metadataFile(p) = <<componentsFile(p)[1], "metadata">>
    BY DEF metadataFile, componentsFile
  <2> HIDE DEF comps, metadata, locals
  <2> QED
    BY <2>2, <2>4, <2>5, <2>6, <2>7
<1>8. ASSUME NEW n \in 1..Len(provs), provs[n].of.local
      PROVE  n \in locals /\ provs[n].of = ps[n] /\ provs[n].url = componentsFile(ps[n])
  <2>1. n \in 1..Len(ps)
    BY <1>4
  <2>2. provs[n].of = ps[n] /\ (n \in locals => provs[n].url = componentsFile(ps[n]))
    <3> HIDE DEF locals
    <3> QED
      BY <2>1
  <2>3. n \in locals
    <3> HIDE DEF provs
    <3> QED
      BY <1>8, <2>1, <2>2
  <2> QED
    BY <2>2, <2>3
<1>9. data.components = comps /\ data.providers = provs
  OBVIOUS
<1>0. Len(provs) = Len(ps) /\ \A n \in 1..Len(ps) : provs[n].of = ps[n]
  BY <1>4
<1> HIDE DEF comps, provs, data, locals
<1>10. OwnFiles(data)
  <2> SUFFICES ASSUME NEW n \in 1..Len(provs), provs[n].of.local
               PROVE  /\ provs[n].url \in DOMAIN comps
                      /\ comps[provs[n].url] = Deployable(provs[n].of.docs)
                      /\ ToSet(comps[provs[n].url])
                            = {d \in ToSet(provs[n].of.docs) : "deploy-k8s=false" \notin d.labels}
                      /\ ~HasNamesake(provs[n].of, provs) =>
                            comps[<<provs[n].url[1], "metadata">>] \in ToSet(provs[n].of.docs)
    BY <1>9 DEF OwnFiles
  <2>1. n \in locals /\ provs[n].of = ps[n] /\ provs[n].url = componentsFile(ps[n])
    BY <1>8
  <2>2. ASSUME ~HasNamesake(provs[n].of, provs), NEW m \in locals PROVE Apart(m, n)
    <3>1. m \in 1..Len(provs) /\ provs[m].of = ps[m] /\ ps[m].local
      BY <1>0 DEF locals
    <3> QED
      BY <2>1, <2>2, <3>1 DEF HasNamesake, Apart
  <2> QED
    BY <1>7, <2>1, <2>2
<1> QED
  BY <1>3, <1>10

\* A program changes the record of its container, but not what it was started with.
Advances(c) ==
    \E new : /\ DOMAIN new = DOMAIN conts[c]
             /\ new.cmd = conts[c].cmd /\ new.mounts = conts[c].mounts /\ new.items = conts[c].items
             /\ conts' = [conts EXCEPT ![c] = new]

\* Every step of a program is an advance.
LEMMA ProgramAdvances ==
    ASSUME ContsInv, NEW c \in DOMAIN conts,
           \/ CloudInitProgram(c) \/ WriteFiles(c) \/ ToolboxProgram(c) \/ ClusterctlProgram(c)
           \/ OtherFunction(c) \/ ProgramEnds(c)
    PROVE  Advances(c)
<1>1. DOMAIN conts[c] = {"cmd", "mounts", "items", "stage", "left", "local", "ok"}
  BY DEF ContsInv
<1>2. ASSUME NEW ok, Exit(c, ok) PROVE Advances(c)
  <2> DEFINE new == [conts[c] EXCEPT !.stage = "exited", !.ok = ok]
  <2>1. DOMAIN new = DOMAIN conts[c] /\ new.cmd = conts[c].cmd
        /\ new.mounts = conts[c].mounts /\ new.items = conts[c].items
    BY <1>1
  <2>2. conts' = [conts EXCEPT ![c] = new]
    BY <1>2 DEF Exit, Becomes
  <2> HIDE DEF new
  <2> QED
    BY <2>1, <2>2 DEF Advances
<1>3. ASSUME NEW l, NEW x, Becomes(c, [conts[c] EXCEPT !.stage = "writing", !.left = l, !.local = x])
      PROVE  Advances(c)
  <2> DEFINE new == [conts[c] EXCEPT !.stage = "writing", !.left = l, !.local = x]
  <2>1. DOMAIN new = DOMAIN conts[c] /\ new.cmd = conts[c].cmd
        /\ new.mounts = conts[c].mounts /\ new.items = conts[c].items
    BY <1>1
  <2>2. conts' = [conts EXCEPT ![c] = new]
    BY <1>3 DEF Becomes
  <2> HIDE DEF new
  <2> QED
    BY <2>1, <2>2 DEF Advances
<1>4. ASSUME NEW x, Becomes(c, [conts[c] EXCEPT !.left = x]) PROVE Advances(c)
  <2> DEFINE new == [conts[c] EXCEPT !.left = x]
  <2>1. DOMAIN new = DOMAIN conts[c] /\ new.cmd = conts[c].cmd
        /\ new.mounts = conts[c].mounts /\ new.items = conts[c].items
    BY <1>1
  <2>2. conts' = [conts EXCEPT ![c] = new]
    BY <1>4 DEF Becomes
  <2> HIDE DEF new
  <2> QED
    BY <2>1, <2>2 DEF Advances
<1>5. ASSUME NEW x, Becomes(c, [conts[c] EXCEPT !.stage = "program", !.local = x]) PROVE Advances(c)
  <2> DEFINE new == [conts[c] EXCEPT !.stage = "program", !.local = x]
  <2>1. DOMAIN new = DOMAIN conts[c] /\ new.cmd = conts[c].cmd
        /\ new.mounts = conts[c].mounts /\ new.items = conts[c].items
    BY <1>1
  <2>2. conts' = [conts EXCEPT ![c] = new]
    BY <1>5 DEF Becomes
  <2> HIDE DEF new
  <2> QED
    BY <2>1, <2>2 DEF Advances
<1>6. ASSUME Becomes(c, [conts[c] EXCEPT !.stage = "program"]) PROVE Advances(c)
  <2> DEFINE new == [conts[c] EXCEPT !.stage = "program"]
  <2>1. DOMAIN new = DOMAIN conts[c] /\ new.cmd = conts[c].cmd
        /\ new.mounts = conts[c].mounts /\ new.items = conts[c].items
    BY <1>1
  <2>2. conts' = [conts EXCEPT ![c] = new]
    BY <1>6 DEF Becomes
  <2> HIDE DEF new
  <2> QED
    BY <2>1, <2>2 DEF Advances
<1>7. CASE CloudInitProgram(c)
  <2>1. \/ Exit(c, FALSE)
        \/ \E x : Becomes(c, [conts[c] EXCEPT !.stage = "writing", !.left = FileNames, !.local = x])
    BY <1>7 DEF CloudInitProgram
  <2> QED
    BY <1>2, <1>3, <2>1
<1>8. CASE WriteFiles(c)
  <2>1. \/ \E ok : Exit(c, ok)
        \/ \E f : Becomes(c, [conts[c] EXCEPT !.left = @ \ {f}])
    BY <1>8 DEF WriteFiles
  <2> QED
    BY <1>2, <1>4, <2>1
<1>9. CASE ToolboxProgram(c)
  <2>1. \/ Exit(c, FALSE)
        \/ \E x : Becomes(c, [conts[c] EXCEPT !.stage = "program", !.local = x])
    BY <1>9 DEF ToolboxProgram
  <2> QED
    BY <1>2, <1>5, <2>1
<1>10. CASE ClusterctlProgram(c)
  <2>1. \/ Exit(c, FALSE)
        \/ \E x : Becomes(c, [conts[c] EXCEPT !.stage = "program", !.local = x])
    BY <1>10 DEF ClusterctlProgram
  <2> QED
    BY <1>2, <1>5, <2>1
<1>11. CASE OtherFunction(c)
  BY <1>6, <1>11 DEF OtherFunction
<1>12. CASE ProgramEnds(c)
  BY <1>2, <1>12 DEF ProgramEnds
<1> QED
  BY <1>7, <1>8, <1>9, <1>10, <1>11, <1>12

\* Every step keeps the records of the containers.
LEMMA ContsStep ==
    ASSUME ContsInv, [FnNext]_fnVars PROVE ContsInv'
<1> DEFINE Fields == {"cmd", "mounts", "items", "stage", "left", "local", "ok"}
<1>1. ASSUME UNCHANGED conts PROVE ContsInv'
  BY <1>1 DEF ContsInv
<1>2. ASSUME NEW c \in DOMAIN conts, Advances(c) PROVE ContsInv'
  BY <1>2 DEF ContsInv, Advances
<1>3. ASSUME NEW c, conts' = [d \in DOMAIN conts \ {c} |-> conts[d]] PROVE ContsInv'
  BY <1>3 DEF ContsInv
<1>4. ASSUME NEW new, DOMAIN new = Fields, NEW c,
             conts' = [d \in DOMAIN conts \cup {c} |-> IF d = c THEN new ELSE conts[d]]
      PROVE  ContsInv'
  BY <1>4 DEF ContsInv
<1>5. CASE DockerRun
  <2> DEFINE new == [cmd |-> Filter, mounts |-> mounts, items |-> items,
                     stage |-> "created", left |-> {}, local |-> <<>>, ok |-> FALSE]
  <2>1. DOMAIN new = Fields
    OBVIOUS
  <2>2. \/ UNCHANGED conts
        \/ conts' = [d \in DOMAIN conts \cup {Id} |-> IF d = Id THEN new ELSE conts[d]]
    BY <1>5 DEF DockerRun, daemon
  <2> HIDE DEF new, Fields
  <2> QED
    BY <1>1, <1>4, <2>1, <2>2
<1>6. CASE DockerEnds
  BY <1>3, <1>6 DEF DockerEnds
<1>7. CASE Own
  BY <1>1, <1>7 DEF Own, NewContainerExecutor, RunContainer, NewClusterctlExecutor, RunClusterctl,
                    ClientRun, GetNodesAndFilters, CallDocker, WriteOutput, CheckExits, Fail, daemon
<1>8. CASE TimeoutKills
  BY <1>1, <1>8 DEF TimeoutKills, daemon
<1>9. ASSUME NEW j \in Jobs, StartJob(j) PROVE ContsInv'
  BY <1>1, <1>9 DEF StartJob, daemon
<1>10. CASE UNCHANGED fnVars
  BY <1>1, <1>10 DEF fnVars
<1>11. ASSUME NEW c \in DOMAIN conts, Removed(c) PROVE ContsInv'
  BY <1>3, <1>11 DEF Removed
<1> QED
  BY <1>2, <1>5, <1>6, <1>7, <1>8, <1>9, <1>10, <1>11, ProgramAdvances DEF FnNext

\* A function that is run is one of those given.
LEMMA FilterFrom ==
    ASSUME NEW r, IsRequest(r), NEW known, ~Failed(getFilters(r, known)),
           NEW F, F = getFilters(r, known).val, NEW n \in 1..Len(F)
    PROVE  \E f \in Docs(r.input) \cup Docs(r.paths) \cup Docs(r.functions) :
              F[n].image = f.image /\ F[n].config = f.config
<1> DEFINE G == Given(r)
           u == getUIDGID(TRUE, known).val
<1>1. PICK q, g : Listing(q, G, Imaged(G), g) /\ F = CommandsOf(r, u, q)
  BY FiltersAre
<1>2. IsBundle(q) /\ Len(F) = Len(q)
  <2>1. IsBundle(q)
    BY <1>1 DEF Listing
  <2>2. Len(CommandsOf(r, u, q)) = Len(q)
    BY <2>1, CommandsBundle
  <2> QED
    BY <1>1, <2>1, <2>2
<1>3. n \in 1..Len(q)
  BY <1>2
<1>4. F[n] = getCommand(r, q[n], u)
  BY <1>1, <1>3 DEF CommandsOf
<1>5. F[n].image = q[n].image /\ F[n].config = q[n].config
  BY <1>4 DEF getCommand
<1>6. q[n] = G[g[n]] /\ g[n] \in 1..Len(G)
  BY <1>1, <1>3 DEF Listing, Imaged
<1>7. q[n] \in Docs(G)
  BY <1>6 DEF Docs
<1>8. q[n] \in Docs(r.input) \cup Docs(r.paths) \cup Docs(r.functions)
  BY <1>7, RequestBundles
<1> QED
  BY <1>5, <1>8

\* The clusterctl function of a phase is given the files its executor made.
LEMMA FiltersOwn ==
    ASSUME ProgressInv, OwnInv, fpc = "filters", NEW known, ~Failed(getFilters(request, known)),
           NEW F, F = getFilters(request, known).val,
           NEW n \in 1..Len(F), F[n].image = "clusterctl"
    PROVE  OwnFiles(F[n].config)
<1>1. job \in Jobs
  BY DEF ProgressInv
<1>2. PICK f \in Docs(request.input) \cup Docs(request.paths) \cup Docs(request.functions) :
         F[n].image = f.image /\ F[n].config = f.config
  BY <1>1, RequestIs, FilterFrom
<1>3. CASE job.executor = "RunFns"
  <2>1. request = job.request
    BY <1>3 DEF request
  <2>2. \A e \in Docs(job.request.input) \cup Docs(job.request.paths) \cup Docs(job.request.functions) :
           e.image # "clusterctl"
    BY <1>1, <1>3, JobsAssumption
  <2>3. f.image # "clusterctl"
    BY <2>1, <2>2
  <2> QED
    BY <1>2, <2>3
<1>4. CASE job.executor # "RunFns"
  <2> DEFINE e == [path |-> <<1>>, index |-> 0, spec |-> TRUE, image |-> job.spec.image,
                   network |-> job.spec.network, defer |-> FALSE, env |-> job.spec.env,
                   config |-> config]
  <2>1. request.input = <<>> /\ request.paths = <<>> /\ request.functions = <<e>>
    BY <1>4 DEF request, runKRM
  <2>2. e.image = job.spec.image /\ e.config = config
    OBVIOUS
  <2> HIDE DEF e
  <2>3. f = e
    BY <2>1 DEF Docs
  <2>4. job.executor \in {"GenericContainer", "Clusterctl"}
    BY <1>4 DEF ProgressInv
  <2>5. job.executor # "GenericContainer"
    BY <1>1, <1>2, <2>2, <2>3, JobsAssumption DEF IsGenericContainer
  <2>6. OwnFiles(config)
    BY <2>4, <2>5 DEF OwnInv
  <2> QED
    BY <1>2, <2>2, <2>3, <2>6
<1> QED
  BY <1>3, <1>4

\* Every step keeps the files and the providers together.
LEMMA OwnStep ==
    ASSUME ProgressInv, ExitsInv, ContsInv, OwnInv, [FnNext]_fnVars PROVE OwnInv'
<1> DEFINE ConfigOwn == {"components", "providers"} \subseteq DOMAIN config /\ OwnFiles(config)
           Early == fpc \in {"run", "client", "filters"} /\ job.executor = "Clusterctl"
           FiltersOk == \A n \in 1..Len(filters) : filters[n].image = "clusterctl" => OwnFiles(filters[n].config)
           ContOk(c) == conts[c].cmd.image = "clusterctl" =>
                           /\ OwnFiles(conts[c].cmd.config)
                           /\ conts[c].stage = "program" => conts[c].local = conts[c].cmd.config.components
           ContsOk == \A c \in DOMAIN conts : ContOk(c)
<1>1. /\ OwnInv <=> (Early => ConfigOwn) /\ FiltersOk /\ ContsOk
      /\ OwnInv' <=> (Early => ConfigOwn)' /\ FiltersOk' /\ ContsOk'
  BY DEF OwnInv
<1>2. UNCHANGED filters => FiltersOk'
  BY <1>1
<1>3. UNCHANGED conts => ContsOk'
  BY <1>1
<1>4. UNCHANGED <<config, job>> /\ (fpc' \in {"run", "client", "filters"} => fpc \in {"run", "client", "filters"})
         => (Early => ConfigOwn)'
  BY <1>1
<1> HIDE DEF Early, ConfigOwn, FiltersOk, ContsOk
\* The fields and the sections of the step that touches none of them.
<1>5. ASSUME NEW j \in Jobs, StartJob(j) PROVE OwnInv'
  <2>1. filters' = <<>> /\ UNCHANGED conts /\ (fpc' = "new" \/ job'.executor = "RunFns")
    BY <1>5 DEF StartJob, daemon
  <2>2. FiltersOk'
    BY <2>1 DEF FiltersOk
  <2>3. ~Early'
    BY <2>1 DEF Early
  <2> QED
    BY <1>1, <1>3, <2>1, <2>2, <2>3
<1>6. CASE Fail
  <2>1. UNCHANGED <<filters, conts>> /\ fpc' = "done"
    BY <1>6 DEF Fail, FnReturn, pipeline, daemon
  <2>2. ~Early'
    BY <2>1 DEF Early
  <2> QED
    BY <1>1, <1>2, <1>3, <2>1, <2>2
<1>7. CASE (NewContainerExecutor \/ RunContainer) /\ ~Fail
  <2>1. UNCHANGED <<filters, conts, job>> /\ job.executor = "GenericContainer"
    BY <1>7 DEF NewContainerExecutor, RunContainer, begun, pipeline, daemon
  <2>2. ~Early'
    BY <2>1 DEF Early
  <2> QED
    BY <1>1, <1>2, <1>3, <2>1, <2>2
<1>8. CASE NewClusterctlExecutor /\ ~Fail
  <2> DEFINE data == initRepoData(job.providers)
  <2>1. /\ ~Failed(data) /\ UNCHANGED <<filters, conts, job>> /\ job.executor = "Clusterctl"
        /\ config' = [components |-> data.val.components, providers |-> data.val.providers, options |-> {}]
    BY <1>8 DEF NewClusterctlExecutor, begun, pipeline, daemon
  <2>2. job \in Jobs
    BY <1>8 DEF NewClusterctlExecutor, ProgressInv
  <2>3. IsClusterctl(job)
    BY <2>1, <2>2, JobsAssumption
  <2>4. OwnFiles(data.val)
    <3> DEFINE ps == job.providers
    <3>1. /\ IsBundle(ps) /\ \A p \in Docs(ps) : IsProvider(p)
          /\ \A m, n \in 1..Len(ps) :
                LET p == ps[m]
                    q == ps[n]
                IN  p.local /\ q.local /\ typeName(p) = typeName(q) /\ p.name = q.name /\ p.base = q.base
                        => m = n
      BY <2>3 DEF IsClusterctl
    <3>2. ~Failed(initRepoData(ps))
      BY <2>1
    <3> HIDE DEF ps
    <3>3. OwnFiles(initRepoData(ps).val)
      BY <3>1, <3>2, RepoDataIs
    <3> QED
      BY <3>3 DEF ps
  <2> HIDE DEF data
  <2>5. ConfigOwn'
    <3>1. /\ {"components", "providers"} \subseteq DOMAIN config'
          /\ config'.components = data.val.components /\ config'.providers = data.val.providers
      BY <2>1
    <3>2. OwnFiles(config')
      BY <2>4, <3>1 DEF OwnFiles
    <3> QED
      BY <3>1, <3>2 DEF ConfigOwn
  <2> QED
    BY <1>1, <1>2, <1>3, <2>1, <2>5
<1>9. CASE RunClusterctl /\ ~Fail
  <2>1. /\ UNCHANGED <<filters, conts, job>> /\ job.executor = "Clusterctl" /\ fpc = "run"
        /\ \E o : config' = [config EXCEPT !.options = o]
    BY <1>9 DEF RunClusterctl, init, move, begun, pipeline, daemon
  <2>2. ConfigOwn
    BY <1>1, <2>1 DEF Early
  <2>3. /\ {"components", "providers"} \subseteq DOMAIN config'
        /\ config'.components = config.components /\ config'.providers = config.providers
    BY <2>1, <2>2 DEF ConfigOwn
  <2>4. OwnFiles(config')
    BY <2>2, <2>3 DEF OwnFiles, ConfigOwn
  <2> QED
    BY <1>1, <1>2, <1>3, <2>1, <2>3, <2>4 DEF ConfigOwn
<1>10. CASE ClientRun /\ ~Fail
  <2>1. UNCHANGED <<filters, conts, job, config>> /\ fpc = "client"
    BY <1>10 DEF ClientRun, Fail, begun, pipeline, daemon
  <2> QED
    BY <1>1, <1>2, <1>3, <1>4, <2>1
<1>11. CASE GetNodesAndFilters /\ ~Fail
  <2>1. PICK known \in BOOLEAN : ~Failed(getFilters(request, known)) /\ filters' = getFilters(request, known).val
    BY <1>11 DEF GetNodesAndFilters
  <2>2. fpc = "filters" /\ fpc' = "pipeline" /\ UNCHANGED conts
    BY <1>11 DEF GetNodesAndFilters, daemon
  <2>3. \A n \in 1..Len(filters') : filters'[n].image = "clusterctl" => OwnFiles(filters'[n].config)
    BY <2>1, <2>2, FiltersOwn
  <2> QED
    BY <1>1, <1>3, <2>2, <2>3 DEF Early, FiltersOk
<1>12. ASSUME UNCHANGED filters, fpc \in {"pipeline", "check"}, fpc' \notin {"run", "client", "filters"}, ContsOk'
       PROVE  OwnInv'
  BY <1>1, <1>2, <1>12 DEF Early
<1>13. CASE CallDocker
  BY <1>3, <1>12, <1>13 DEF CallDocker, daemon
<1>14. CASE WriteOutput /\ ~Fail
  BY <1>3, <1>12, <1>14 DEF WriteOutput, daemon
<1>15. CASE CheckExits
  BY <1>3, <1>12, <1>15 DEF CheckExits, FnReturn, daemon, pipeline
<1>16. ASSUME NEW ok, cli # "none", FilterEnds(ok), ContsOk' PROVE OwnInv'
  <2>1. fpc = "pipeline"
    BY <1>16 DEF ProgressInv
  <2>2. UNCHANGED filters /\ fpc' \in {"done", "check", "pipeline"}
    BY <1>16 DEF FilterEnds, FnReturn
  <2> QED
    BY <1>12, <1>16, <2>1, <2>2
<1>17. CASE DockerRun
  <2> DEFINE new == [cmd |-> Filter, mounts |-> mounts, items |-> items,
                     stage |-> "created", left |-> {}, local |-> <<>>, ok |-> FALSE]
  <2>1. CASE FilterEnds(FALSE) /\ UNCHANGED daemon
    BY <1>3, <1>16, <1>17, <2>1 DEF DockerRun, daemon
  <2>2. CASE /\ UNCHANGED <<begun, fpc, config, mounts, filters, exits, items, written, fresult, isoFiles>>
             /\ conts' = [c \in DOMAIN conts \cup {Id} |-> IF c = Id THEN new ELSE conts[c]]
    <3>1. new.cmd = Filter /\ new.stage = "created"
      OBVIOUS
    <3> HIDE DEF new
    <3>2. fpc = "pipeline" /\ Len(exits) < Len(filters)
      BY <1>17 DEF DockerRun, ProgressInv
    <3>3. Position \in 1..Len(filters)
      BY <3>2 DEF Position, ExitsInv, IsBundle
    <3>4. Filter.image = "clusterctl" => OwnFiles(Filter.config)
      BY <1>1, <3>3 DEF Filter, FiltersOk
    <3>5. ContsOk'
      BY <1>1, <2>2, <3>1, <3>4 DEF ContsOk
    <3> QED
      BY <1>12, <2>2, <3>2, <3>5
  <2> QED
    BY <1>17, <2>1, <2>2 DEF DockerRun
<1>18. ASSUME NEW c, conts' = [d \in DOMAIN conts \ {c} |-> conts[d]] PROVE ContsOk'
  BY <1>1, <1>18 DEF ContsOk
<1>19. CASE DockerEnds
  <2>1. FilterEnds(conts[Id].ok) /\ cli # "none"
    BY <1>19 DEF DockerEnds
  <2>2. ContsOk'
    BY <1>18, <1>19 DEF DockerEnds
  <2> QED
    BY <1>16, <2>1, <2>2
<1>20. CASE TimeoutKills
  BY <1>3, <1>16, <1>20 DEF TimeoutKills, daemon
<1>21. ASSUME UNCHANGED client, ContsOk' PROVE OwnInv'
  BY <1>1, <1>2, <1>4, <1>21 DEF client, begun, pipeline
<1>22. ASSUME NEW c \in DOMAIN conts, Removed(c) PROVE OwnInv'
  BY <1>18, <1>21, <1>22 DEF Removed
<1>23. CASE UNCHANGED fnVars
  BY <1>1, <1>2, <1>3, <1>4, <1>23 DEF fnVars
<1>24. ASSUME NEW c \in DOMAIN conts, Advances(c), UNCHANGED client,
              conts[c].cmd.image = "clusterctl" /\ conts'[c].stage = "program" =>
                 conts'[c].local = conts[c].cmd.config.components
       PROVE  OwnInv'
  <2>1. ContsOk'
    BY <1>1, <1>24 DEF ContsOk, Advances
  <2> QED
    BY <1>21, <1>24, <2>1
<1>25. ASSUME NEW c \in DOMAIN conts,
              \/ CloudInitProgram(c) \/ WriteFiles(c) \/ ToolboxProgram(c) \/ ClusterctlProgram(c)
              \/ OtherFunction(c) \/ ProgramEnds(c)
       PROVE  OwnInv'
  <2>1. Advances(c) /\ UNCHANGED client
    BY <1>25, ProgramAdvances DEF CloudInitProgram, WriteFiles, ToolboxProgram, ClusterctlProgram,
                                  OtherFunction, ProgramEnds
  <2>2. DOMAIN conts[c] = {"cmd", "mounts", "items", "stage", "left", "local", "ok"}
    BY DEF ContsInv
  <2>3. \A ok : Exit(c, ok) => conts'[c].stage = "exited"
    BY <2>2 DEF Exit, Becomes
  <2>4. CASE CloudInitProgram(c) \/ ToolboxProgram(c) \/ OtherFunction(c)
    BY <1>24, <2>1, <2>4 DEF CloudInitProgram, ToolboxProgram, OtherFunction
  <2>5. CASE ClusterctlProgram(c)
    <3>1. \/ Exit(c, FALSE)
          \/ conts' = [conts EXCEPT ![c] = [conts[c] EXCEPT !.stage = "program",
                                               !.local = conts[c].cmd.config.components]]
      BY <2>5 DEF ClusterctlProgram, Becomes
    <3>2. Exit(c, FALSE) \/ conts'[c].local = conts[c].cmd.config.components
      BY <2>2, <3>1
    <3> QED
      BY <1>24, <2>1, <2>3, <3>2
  <2>6. CASE WriteFiles(c)
    <3>1. conts'[c].stage # "program"
      <4>1. \/ \E ok : Exit(c, ok)
            \/ \E f : conts' = [conts EXCEPT ![c] = [conts[c] EXCEPT !.left = @ \ {f}]]
        BY <2>6 DEF WriteFiles, Becomes
      <4>2. conts[c].stage = "writing"
        BY <2>6 DEF WriteFiles
      <4> QED
        BY <2>2, <2>3, <4>1, <4>2
    <3> QED
      BY <1>24, <2>1, <3>1
  <2>7. CASE ProgramEnds(c)
    <3>1. conts'[c].stage # "program"
      BY <2>3, <2>7 DEF ProgramEnds
    <3> QED
      BY <1>24, <2>1, <3>1
  <2> QED
    BY <1>25, <2>4, <2>5, <2>6, <2>7
<1> QED
  BY <1>5, <1>6, <1>7, <1>8, <1>9, <1>10, <1>11, <1>13, <1>14, <1>15, <1>17, <1>19, <1>20, <1>22,
     <1>23, <1>25 DEF FnNext, Own

\* What a clusterctl container finds below its mount (OwnComponents).
LEMMA Components ==
    ASSUME OwnInv PROVE OwnComponents
<1> SUFFICES ASSUME NEW c \in DOMAIN conts, conts[c].stage = "program", conts[c].cmd.image = "clusterctl",
                    NEW n \in 1..Len(conts[c].cmd.config.providers)
             PROVE  LET p == conts[c].cmd.config.providers[n]
                        found == conts[c].local
                    IN  p.of.local =>
                           /\ p.url \in DOMAIN found
                           /\ found[p.url] = Deployable(p.of.docs)
                           /\ ToSet(found[p.url]) = {d \in ToSet(p.of.docs) : "deploy-k8s=false" \notin d.labels}
                           /\ ~HasNamesake(p.of, conts[c].cmd.config.providers) =>
                                 found[<<p.url[1], "metadata">>] \in ToSet(p.of.docs)
  BY DEF OwnComponents
<1>1. OwnFiles(conts[c].cmd.config) /\ conts[c].local = conts[c].cmd.config.components
  BY DEF OwnInv
<1> QED
  BY <1>1 DEF OwnFiles

\* The invariants about containers hold in every state.
THEOREM ContainersHold == FnSpec => [](ContsInv /\ OwnInv)
<1>1. FnInit => ContsInv /\ OwnInv
  <2>1. DOMAIN <<>> = {} /\ Len(<<>>) = 0
    OBVIOUS
  <2> QED
    BY <2>1 DEF FnInit, ContsInv, OwnInv
<1>2. ProgressInv /\ ExitsInv /\ ContsInv /\ OwnInv /\ [FnNext]_fnVars => (ContsInv /\ OwnInv)'
  BY ContsStep, OwnStep
<1> QED
  BY <1>1, <1>2, ProgressHolds, PTL DEF FnSpec

\* The URL of every local provider leads to that provider's own documents when
\* clusterctl starts (OwnComponents).
THEOREM OwnComponentsHolds == FnSpec => []OwnComponents
  BY ContainersHold, Components, PTL

-----------------------------------------------------------------------------
(* cloud-init: the data of the run.                                        *)

\* What GetSecretDataKey returns is what the secret carries.
LEMMA SecretCarries ==
    ASSUME NEW d, NEW key, ~Failed(GetSecretDataKey(d, key))
    PROVE  Carries(d, key, GetSecretDataKey(d, key).val)
<1> DEFINE place == IF "stringData" \in DOMAIN d.fields THEN "stringData" ELSE "data"
           x == d.fields[place][key]
           r == GetSecretDataKey(d, key)
<1>1. \A e : e # "" => Failed(Failure(e))
  BY DEF Failed, Failure
<1>2. /\ place \in DOMAIN d.fields /\ key \in DOMAIN d.fields[place]
      /\ r = IF place = "stringData" THEN Value(x) ELSE Decode(x)
  BY <1>1 DEF GetSecretDataKey
<1>3. CASE place = "stringData"
  <2>1. r.val = x
    BY <1>2, <1>3, ValueOf
  <2> QED
    BY <1>2, <1>3, <2>1 DEF Carries
<1>4. CASE place # "stringData"
  <2>1. place = "data"
    BY <1>4
  <2>2. r = Decode(x) /\ ~Failed(Decode(x))
    BY <1>2, <1>4
  <2>3. Decode(x) = Value(x.b64)
    BY <1>1, <2>2 DEF Decode
  <2>4. Decode(x) = Value(r.val)
    BY <2>2, <2>3, ValueOf
  <2> QED
    BY <1>2, <2>1, <2>4 DEF Carries
<1> QED
  BY <1>3, <1>4

\* What matches the selector with its defaults is what is asked for.
LEMMA SelectorAsks ==
    ASSUME NEW sel, DOMAIN sel = DOMAIN NewSelector, NEW kind, kind # Unset, NEW label,
           NEW key, NEW default, NEW a, a = applyDefaultsAndGetData(sel, kind, label, key, default),
           NEW d, Matches(a.sel, d)
    PROVE  AskedFor(d, sel, kind, label)
<1>1. CASE sel.kind = Unset /\ sel.name = Unset /\ sel.labels = {}
  <2>1. a.sel = ByLabel(ByKind(sel, kind), {label})
    BY <1>1 DEF applyDefaultsAndGetData
  <2>2. DOMAIN sel = {"kind", "name", "ns", "labels"}
    BY DEF NewSelector
  <2>3. /\ a.sel.kind = kind /\ a.sel.name = sel.name /\ a.sel.ns = sel.ns
        /\ a.sel.labels = sel.labels \cup {label}
    BY <2>1, <2>2 DEF ByLabel, ByKind
  <2> QED
    BY <1>1, <2>3 DEF Matches, AskedFor
<1>2. CASE ~(sel.kind = Unset /\ sel.name = Unset /\ sel.labels = {})
  <2>1. a.sel = sel
    BY <1>2 DEF applyDefaultsAndGetData
  <2> QED
    BY <1>2, <2>1 DEF AskedFor
<1> QED
  BY <1>1, <1>2

\* The data that GetCloudData finds is that of documents asked for.
LEMMA CloudDataIs ==
    ASSUME NEW b, NEW iso, IsIsoConfiguration(iso), ~Failed(GetCloudData(b, iso)),
           NEW data, data = GetCloudData(b, iso).val
    PROVE  /\ \E d \in Docs(b) :
                 /\ AskedFor(d, iso.userSel, "Secret", "ephemeral-user-data")
                 /\ Carries(d, KeyOr(iso.userKey, "userData"), data.user)
           /\ \E h, s \in Docs(b) :
                 /\ AskedFor(h, iso.netSel, "BareMetalHost", "ephemeral-node")
                 /\ s.kind = "Secret"
                 /\ h.fields["spec.networkData.name"] \in {Unset, s.name}
                 /\ h.fields["spec.networkData.namespace"] \in {Unset, s.ns}
                 /\ Carries(s, KeyOr(iso.netKey, "networkData"), data.net)
<1> DEFINE u == applyDefaultsAndGetData(iso.userSel, "Secret", "ephemeral-user-data",
                                        iso.userKey, "userData")
           n == applyDefaultsAndGetData(iso.netSel, "BareMetalHost", "ephemeral-node",
                                        iso.netKey, "networkData")
           user == getUserData(b, u.sel, u.key)
           net == getNetworkData(b, n.sel, n.key)
<1>1. ~Failed(user) /\ ~Failed(net) /\ data.user = user.val /\ data.net = net.val
  <2>1. GetCloudData(b, iso) = IF Failed(user) THEN user ELSE IF Failed(net) THEN net
                               ELSE Value([user |-> user.val, net |-> net.val])
    BY DEF GetCloudData
  <2> HIDE DEF user, net
  <2>2. ~Failed(user) /\ ~Failed(net)
    BY <2>1
  <2>3. data = [user |-> user.val, net |-> net.val]
    BY <2>1, <2>2, ValueOf
  <2> QED
    BY <2>2, <2>3
<1>2. \A sel : ~Failed(SelectOne(b, sel)) => /\ SelectOne(b, sel).val \in Docs(b)
                                             /\ Matches(sel, SelectOne(b, sel).val)
  <2> SUFFICES ASSUME NEW sel, ~Failed(SelectOne(b, sel))
               PROVE  SelectOne(b, sel).val \in Docs(b) /\ Matches(sel, SelectOne(b, sel).val)
    OBVIOUS
  <2>1. OnlyOne(b, sel, SelectOne(b, sel).val)
    BY SelectOneIs
  <2> QED
    BY <2>1 DEF OnlyOne, Docs
<1>3. \E d \in Docs(b) :
         /\ AskedFor(d, iso.userSel, "Secret", "ephemeral-user-data")
         /\ Carries(d, KeyOr(iso.userKey, "userData"), data.user)
  <2> DEFINE doc == SelectOne(b, u.sel)
             d == doc.val
  <2>1. ~Failed(doc) /\ user = GetSecretDataKey(d, u.key)
    BY <1>1 DEF getUserData
  <2>2. d \in Docs(b) /\ Matches(u.sel, d)
    BY <1>2, <2>1
  <2>3. DOMAIN iso.userSel = DOMAIN NewSelector
    BY DEF IsIsoConfiguration
  <2>4. AskedFor(d, iso.userSel, "Secret", "ephemeral-user-data") /\ u.key = KeyOr(iso.userKey, "userData")
    <3>1. "Secret" # Unset
      BY UnsetAssumption
    <3>2. u.key = KeyOr(iso.userKey, "userData")
      BY DEF applyDefaultsAndGetData, KeyOr
    <3>3. u = applyDefaultsAndGetData(iso.userSel, "Secret", "ephemeral-user-data", iso.userKey, "userData")
      OBVIOUS
    <3> HIDE DEF d, u
    <3>4. AskedFor(d, iso.userSel, "Secret", "ephemeral-user-data")
      BY <2>2, <2>3, <3>1, <3>3, SelectorAsks
    <3> QED
      BY <3>2, <3>4
  <2>5. Carries(d, u.key, user.val)
    BY <1>1, <2>1, SecretCarries
  <2> HIDE DEF u, user, d
  <2> QED
    BY <1>1, <2>2, <2>4, <2>5
<1>4. \E h, s \in Docs(b) :
         /\ AskedFor(h, iso.netSel, "BareMetalHost", "ephemeral-node")
         /\ s.kind = "Secret"
         /\ h.fields["spec.networkData.name"] \in {Unset, s.name}
         /\ h.fields["spec.networkData.namespace"] \in {Unset, s.ns}
         /\ Carries(s, KeyOr(iso.netKey, "networkData"), data.net)
  <2> DEFINE hostDoc == SelectOne(b, n.sel)
             h == hostDoc.val
             named == NewNetworkDataSelector(h)
             secret == SelectOne(b, named.val)
             s == secret.val
  <2>1. ~Failed(hostDoc) /\ ~Failed(named) /\ ~Failed(secret) /\ net = GetSecretDataKey(s, n.key)
    BY <1>1 DEF getNetworkData
  <2>2. h \in Docs(b) /\ Matches(n.sel, h) /\ s \in Docs(b) /\ Matches(named.val, s)
    BY <1>2, <2>1
  <2>3. DOMAIN iso.netSel = DOMAIN NewSelector
    BY DEF IsIsoConfiguration
  <2>4. AskedFor(h, iso.netSel, "BareMetalHost", "ephemeral-node") /\ n.key = KeyOr(iso.netKey, "networkData")
    <3>1. "BareMetalHost" # Unset
      BY UnsetAssumption
    <3>2. n.key = KeyOr(iso.netKey, "networkData")
      BY DEF applyDefaultsAndGetData, KeyOr
    <3>3. n = applyDefaultsAndGetData(iso.netSel, "BareMetalHost", "ephemeral-node", iso.netKey, "networkData")
      OBVIOUS
    <3> HIDE DEF h, n
    <3>4. AskedFor(h, iso.netSel, "BareMetalHost", "ephemeral-node")
      BY <2>2, <2>3, <3>1, <3>3, SelectorAsks
    <3> QED
      BY <3>2, <3>4
  <2>5. /\ s.kind = "Secret"
        /\ h.fields["spec.networkData.name"] \in {Unset, s.name}
        /\ h.fields["spec.networkData.namespace"] \in {Unset, s.ns}
    <3> DEFINE name == GetString(h, "spec.networkData.name")
               ns == GetString(h, "spec.networkData.namespace")
               sel == ByName(ByNamespace(ByKind(NewSelector, "Secret"), ns.val), name.val)
    <3>1. ~Failed(name) /\ ~Failed(ns) /\ named.val = sel
      <4>1. named = IF Failed(name) THEN name ELSE IF Failed(ns) THEN ns ELSE Value(sel)
        BY DEF NewNetworkDataSelector
      <4> HIDE DEF named, name, ns, sel
      <4> QED
        BY <2>1, <4>1, ValueOf
    <3>2. \A p : ~Failed(GetString(h, p)) => GetString(h, p).val = h.fields[p]
      <4>1. \A e : e # "" => Failed(Failure(e))
        BY DEF Failed, Failure
      <4> QED
        BY <4>1, ValueOf DEF GetString
    <3>3. name.val = h.fields["spec.networkData.name"] /\ ns.val = h.fields["spec.networkData.namespace"]
      BY <3>1, <3>2
    <3>4. sel.kind = "Secret" /\ sel.name = name.val /\ sel.ns = ns.val
      BY DEF ByName, ByNamespace, ByKind, NewSelector
    <3> HIDE DEF named, name, ns, sel, s, h
    <3>5. Matches(sel, s)
      BY <2>2, <3>1
    <3> QED
      BY <3>3, <3>4, <3>5, UnsetAssumption DEF Matches
  <2>6. Carries(s, n.key, net.val)
    BY <1>1, <2>1, SecretCarries
  <2> HIDE DEF n, net, s, h
  <2> QED
    BY <1>1, <2>2, <2>4, <2>5, <2>6
<1> QED
  BY <1>3, <1>4

\* A phase has one function to run: its own.
LEMMA OneFilter ==
    ASSUME job \in Jobs, job.executor # "RunFns", job.spec.image # Unset,
           NEW known, ~Failed(getFilters(request, known)),
           NEW F, F = getFilters(request, known).val
    PROVE  /\ IsBundle(F) /\ Len(F) = 1 /\ request.continueOnEmpty
           /\ F[1].image = job.spec.image /\ F[1].config = config
<1> DEFINE e == [path |-> <<1>>, index |-> 0, spec |-> TRUE, image |-> job.spec.image,
                 network |-> job.spec.network, defer |-> FALSE, env |-> job.spec.env,
                 config |-> config]
           r == request
           G == Given(r)
           u == getUIDGID(TRUE, known).val
<1>1. r.input = <<>> /\ r.paths = <<>> /\ r.functions = <<e>> /\ r.continueOnEmpty
  BY DEF request, runKRM
<1>2. e.spec /\ e.image = job.spec.image /\ e.config = config
  OBVIOUS
<1>3. IsRequest(r)
  BY RequestIs
<1> HIDE DEF r, e
<1> DEFINE s == <<e>>
<1>4. IsBundle(s) /\ Len(s) = 1 /\ s[1] = e /\ s # <<>>
  BY DEF IsBundle, Docs
<1>5. <<>> \o s = s
  BY <1>4, EmptyConcat
<1>6. r.functions = s /\ r.paths = <<>>
  BY <1>1
<1> HIDE DEF s
<1>7. G = s
  BY <1>4, <1>5, <1>6 DEF Given, NoFunctionsFromInput
<1>8. ~Failed(getFilters(r, known)) /\ F = getFilters(r, known).val
  BY DEF r
<1>9. PICK q, g : Listing(q, G, Imaged(G), g) /\ F = CommandsOf(r, u, q)
  BY <1>3, <1>8, FiltersAre
<1>10. Imaged(G) = {1}
  <2>1. e.spec /\ e.image # Unset /\ 1..1 = {1}
    BY <1>2
  <2>2. Imaged(G) = {n \in 1..1 : G[n].spec /\ G[n].image # Unset} /\ G[1] = e
    BY <1>4, <1>7 DEF Imaged
  <2> HIDE DEF G
  <2> QED
    BY <2>1, <2>2
<1>11. IsBundle(q) /\ Len(q) \in Nat
  BY <1>9 DEF Listing, IsBundle
<1>12. Len(q) = 1
  <2>1. \E k \in 1..Len(q) : TRUE
    BY <1>9, <1>10 DEF Listing
  <2>2. \A k, m \in 1..Len(q) : k = m
    <3> HIDE DEF G
    <3> QED
      BY <1>9, <1>10 DEF Listing
  <2>3. Len(q) >= 1
    BY <1>11, <2>1
  <2>4. 1 \in 1..Len(q) /\ Len(q) \in 1..Len(q)
    BY <1>11, <2>3
  <2> QED
    BY <2>2, <2>4
<1>13. q[1] = e
  <2>1. g[1] = 1 /\ q[1] = G[g[1]]
    <3> HIDE DEF G
    <3> QED
      BY <1>9, <1>10, <1>12 DEF Listing
  <2> QED
    BY <1>4, <1>7, <2>1
<1>14. F[1] = getCommand(r, q[1], u)
  BY <1>9, <1>12 DEF CommandsOf
<1>15. F[1].image = e.image /\ F[1].config = e.config
  BY <1>13, <1>14 DEF getCommand
<1>16. IsBundle(F) /\ Len(F) = 1
  <2> DEFINE x == CommandsOf(r, u, q)
  <2>1. IsBundle(x) /\ Len(x) = Len(q)
    BY <1>11, CommandsBundle
  <2> QED
    BY <1>9, <1>12, <2>1
<1> QED
  BY <1>1, <1>2, <1>15, <1>16 DEF r

\* The steps of the programs leave airshipctl's own state alone.
LEMMA ProgramsLeave ==
    ASSUME NEW c, \/ CloudInitProgram(c) \/ WriteFiles(c) \/ ToolboxProgram(c) \/ ClusterctlProgram(c)
                  \/ OtherFunction(c) \/ ProgramEnds(c) \/ Removed(c)
    PROVE  UNCHANGED <<run, job, alone, fpc, config, mounts, filters, exits, items, cli, written, fresult>>
BY DEF CloudInitProgram, WriteFiles, ToolboxProgram, ClusterctlProgram, OtherFunction, ProgramEnds,
       Removed, client, begun, pipeline

\* Every step keeps input and configuration those of the phase.
LEMMA CloudInputStep ==
    ASSUME ProgressInv, ExitsInv, CloudInput, [FnNext]_fnVars PROVE CloudInput'
<1>0. IsBundle(<<>>) /\ Docs(<<>>) = {}
  BY DEF IsBundle, Docs
<1>1. ASSUME UNCHANGED <<job, config, exits, items>>, fpc' = "done" \/ fpc \notin {"idle", "done", "new"}
             \/ fpc' = fpc
      PROVE  CloudInput'
  BY <1>1 DEF CloudInput, CloudJob, OfPhase
<1>2. ASSUME NEW j \in Jobs, StartJob(j) PROVE CloudInput'
  <2>1. CASE j.executor = "RunFns"
    <3>1. ~CloudJob'
      BY <1>2, <2>1 DEF StartJob, CloudJob
    <3> QED
      BY <3>1 DEF CloudInput
  <2>2. CASE j.executor # "RunFns"
    <3>1. fpc' = "new" /\ items' = <<>>
      BY <1>2, <2>2 DEF StartJob
    <3> QED
      BY <1>0, <3>1 DEF CloudInput, OfPhase
  <2> QED
    BY <2>1, <2>2
<1>3. CASE Fail
  BY <1>1, <1>3 DEF Fail, FnReturn, begun, pipeline
<1>4. CASE NewContainerExecutor /\ ~Fail
  <2>1. job \in Jobs /\ job.executor = "GenericContainer"
    BY <1>4 DEF NewContainerExecutor, ProgressInv
  <2>2. IsBundle(job.docs)
    BY <2>1, JobsAssumption DEF IsGenericContainer
  <2>3. /\ items' = IF job.entrypoint THEN job.docs ELSE <<>>
        /\ config' = job.config /\ job' = job
    BY <1>4 DEF NewContainerExecutor, begun
  <2>4. OfPhase(items)'
    BY <1>0, <2>2, <2>3 DEF OfPhase
  <2> QED
    BY <2>3, <2>4 DEF CloudInput
<1>5. CASE (NewClusterctlExecutor \/ RunClusterctl) /\ ~Fail
  BY <1>5 DEF NewClusterctlExecutor, RunClusterctl, CloudInput, CloudJob, begun
<1>6. CASE (RunContainer \/ ClientRun \/ GetNodesAndFilters \/ CallDocker \/ WriteOutput \/ CheckExits) /\ ~Fail
  <2>1. fpc \notin {"idle", "done", "new"}
    BY <1>6 DEF RunContainer, ClientRun, GetNodesAndFilters, CallDocker, WriteOutput, CheckExits
  <2>2. UNCHANGED <<job, config, exits, items>>
    BY <1>6 DEF RunContainer, ClientRun, GetNodesAndFilters, CallDocker, WriteOutput, CheckExits,
                begun, pipeline
  <2> QED
    BY <1>1, <2>1, <2>2
<1>7. ASSUME NEW ok, cli # "none", FilterEnds(ok) PROVE CloudInput'
  <2>1. fpc = "pipeline" /\ UNCHANGED <<job, config>>
    BY <1>7 DEF FilterEnds, begun, ProgressInv
  <2>2. Len(exits') = Len(exits) + 1 /\ Len(exits) \in Nat
    <3>1. IsBundle(exits) /\ Len(exits) \in Nat
      BY DEF ExitsInv, IsBundle
    <3>2. exits' = Append(exits, [of |-> Filter, ok |-> ok])
      BY <1>7 DEF FilterEnds
    <3> QED
      BY <3>1, <3>2, AppendBundle
  <2>3. exits' # <<>>
    <3>1. Len(<<>>) = 0
      OBVIOUS
    <3>2. Len(exits') # 0
      BY <2>2
    <3> QED
      BY <3>1, <3>2
  <2> QED
    BY <2>1, <2>3 DEF CloudInput, CloudJob
<1>8. CASE DockerRun
  <2>1. CASE FilterEnds(FALSE)
    BY <1>7, <1>8, <2>1 DEF DockerRun
  <2>2. CASE UNCHANGED <<begun, fpc, config, mounts, filters, exits, items, written, fresult, isoFiles>>
    BY <1>1, <2>2 DEF begun
  <2> QED
    BY <1>8, <2>1, <2>2 DEF DockerRun
<1>9. CASE DockerEnds
  <2>1. FilterEnds(conts[Id].ok) /\ cli # "none"
    BY <1>9 DEF DockerEnds
  <2> QED
    BY <1>7, <2>1
<1>10. CASE TimeoutKills
  BY <1>7, <1>10 DEF TimeoutKills
<1>11. CASE UNCHANGED fnVars
  BY <1>1, <1>11 DEF fnVars
<1>12. ASSUME NEW c \in DOMAIN conts,
              \/ CloudInitProgram(c) \/ WriteFiles(c) \/ ToolboxProgram(c) \/ ClusterctlProgram(c)
              \/ OtherFunction(c) \/ ProgramEnds(c) \/ Removed(c)
       PROVE  CloudInput'
  BY <1>1, <1>12, ProgramsLeave
<1> QED
  BY <1>2, <1>3, <1>4, <1>5, <1>6, <1>8, <1>9, <1>10, <1>11, <1>12 DEF FnNext, Own

\* Every step keeps the filter that of the phase.
LEMMA CloudFiltersStep ==
    ASSUME ProgressInv, CloudInput, CloudFilters, [FnNext]_fnVars PROVE CloudFilters'
<1>1. ASSUME UNCHANGED <<job, filters>>, fpc' # "idle" => fpc # "idle" PROVE CloudFilters'
  BY <1>1 DEF CloudFilters, CloudJob
<1>2. ASSUME NEW j \in Jobs, StartJob(j) PROVE CloudFilters'
  <2>1. filters' = <<>> /\ Len(<<>>) = 0
    BY <1>2 DEF StartJob
  <2> QED
    BY <2>1 DEF CloudFilters
<1>3. CASE GetNodesAndFilters /\ ~Fail
  <2> SUFFICES ASSUME CloudJob' PROVE CloudFilters'
    BY DEF CloudFilters
  <2>1. PICK known \in BOOLEAN : ~Failed(getFilters(request, known)) /\ filters' = getFilters(request, known).val
    BY <1>3 DEF GetNodesAndFilters
  <2>2. fpc = "filters" /\ job' = job /\ job \in Jobs /\ CloudJob
    BY <1>3 DEF GetNodesAndFilters, begun, ProgressInv, CloudJob
  <2>3. config = job.config
    BY <2>2 DEF CloudInput
  <2>4. job.executor # "RunFns" /\ job.spec.image # Unset /\ job.spec.image = "cloud-init"
    BY <2>2, NamesAssumption DEF CloudJob
  <2>5. Len(filters') = 1 /\ filters'[1].image = job.spec.image /\ filters'[1].config = config
    BY <2>1, <2>2, <2>4, OneFilter
  <2> QED
    BY <2>2, <2>3, <2>4, <2>5 DEF CloudFilters
<1>4. CASE /\ ~Fail
           /\ \/ NewContainerExecutor \/ NewClusterctlExecutor \/ RunContainer \/ RunClusterctl
              \/ ClientRun \/ CallDocker \/ WriteOutput \/ CheckExits
  BY <1>1, <1>4 DEF NewContainerExecutor, NewClusterctlExecutor, RunContainer, RunClusterctl,
                    ClientRun, CallDocker, WriteOutput, CheckExits, begun, pipeline
<1>5. CASE Fail /\ fpc # "idle"
  BY <1>1, <1>5 DEF Fail, begun, pipeline
<1>6. Own => fpc # "idle"
  BY DEF Own, NewContainerExecutor, NewClusterctlExecutor, RunContainer, RunClusterctl,
         ClientRun, GetNodesAndFilters, CallDocker, WriteOutput, CheckExits
<1>7. ASSUME NEW ok, cli # "none", FilterEnds(ok) PROVE CloudFilters'
  BY <1>1, <1>7 DEF FilterEnds, begun, ProgressInv
<1>8. CASE DockerRun
  <2>1. CASE FilterEnds(FALSE)
    BY <1>7, <1>8, <2>1 DEF DockerRun
  <2>2. CASE UNCHANGED <<begun, fpc, config, mounts, filters, exits, items, written, fresult, isoFiles>>
    BY <1>1, <2>2 DEF begun
  <2> QED
    BY <1>8, <2>1, <2>2 DEF DockerRun
<1>9. CASE DockerEnds
  <2>1. FilterEnds(conts[Id].ok) /\ cli # "none"
    BY <1>9 DEF DockerEnds
  <2> QED
    BY <1>7, <2>1
<1>10. CASE TimeoutKills
  BY <1>7, <1>10 DEF TimeoutKills
<1>11. CASE UNCHANGED fnVars
  BY <1>1, <1>11 DEF fnVars
<1>12. ASSUME NEW c \in DOMAIN conts,
              \/ CloudInitProgram(c) \/ WriteFiles(c) \/ ToolboxProgram(c) \/ ClusterctlProgram(c)
              \/ OtherFunction(c) \/ ProgramEnds(c) \/ Removed(c)
       PROVE  CloudFilters'
  BY <1>1, <1>12, ProgramsLeave
<1> QED
  BY <1>2, <1>3, <1>4, <1>5, <1>6, <1>8, <1>9, <1>10, <1>11, <1>12 DEF FnNext, Own

\* Files with the data that GetCloudData finds among the documents of a phase.
LEMMA CloudFilesAre ==
    ASSUME job \in Jobs, CloudJob, NEW b, OfPhase(b), ~Failed(GetCloudData(b, job.config)),
           NEW data, data = GetCloudData(b, job.config).val,
           NEW f, f["user-data"] = data.user, f["network-data"] = data.net,
           f["builder-conf"] = job.config
    PROVE  CloudFiles(f, job)
<1>1. IsBundle(job.docs) /\ IsIsoConfiguration(job.config)
  BY JobsAssumption DEF CloudJob, IsGenericContainer
<1>2. ToSet(job.docs) = Docs(job.docs)
  BY <1>1, ElementsOf
<1>3. \A d \in Docs(b) : d \in ToSet(job.docs)
  BY <1>2 DEF OfPhase
<1> DEFINE iso == job.config
<1>4. /\ \E d \in Docs(b) :
            /\ AskedFor(d, iso.userSel, "Secret", "ephemeral-user-data")
            /\ Carries(d, KeyOr(iso.userKey, "userData"), data.user)
      /\ \E h, s \in Docs(b) :
            /\ AskedFor(h, iso.netSel, "BareMetalHost", "ephemeral-node")
            /\ s.kind = "Secret"
            /\ h.fields["spec.networkData.name"] \in {Unset, s.name}
            /\ h.fields["spec.networkData.namespace"] \in {Unset, s.ns}
            /\ Carries(s, KeyOr(iso.netKey, "networkData"), data.net)
  BY <1>1, CloudDataIs
<1> QED
  BY <1>3, <1>4 DEF CloudFiles

\* Every step keeps the container, and with it the files, that of the run.
LEMMA CloudRunStep ==
    ASSUME ProgressInv, ExitsInv, ContsInv, CloudInv, [FnNext]_fnVars
    PROVE  (fpc # "idle" /\ CloudJob /\ alone => CloudRun)'
<1> DEFINE Goal == (fpc # "idle" /\ CloudJob /\ alone => CloudRun)'
<1>1. ASSUME UNCHANGED <<run, job, alone, conts, isoFiles, exits>>, fpc # "idle",
             cli' = cli \/ (cli = "none" /\ cli' = "called")
      PROVE  Goal
  <2> SUFFICES ASSUME CloudJob', alone' PROVE CloudRun'
    OBVIOUS
  <2>1. CloudRun /\ Id' = Id
    BY <1>1 DEF CloudInv, CloudJob, Id, Position
  <2>2. \A c \in DOMAIN conts : CloudCont(conts[c]) => CloudCont(conts[c])'
    BY <1>1 DEF CloudCont, OfPhase
  <2>3. /\ \A c \in DOMAIN conts' : c = <<run', 1>> /\ CloudCont(conts[c])'
        /\ exits' = <<>> /\ cli' # "attached" => DOMAIN conts' = {}
    BY <1>1, <2>1, <2>2 DEF CloudRun
  <2>4. /\ cli' = "attached" => Id' \in DOMAIN conts'
        /\ Len(exits') = 1 /\ exits'[1].ok => DOMAIN conts' = {} /\ CloudFiles(isoFiles, job)'
    BY <1>1, <2>1 DEF CloudRun, CloudFiles
  <2> QED
    BY <2>3, <2>4 DEF CloudRun
<1>2. ASSUME NEW j \in Jobs, StartJob(j) PROVE Goal
  <2> SUFFICES ASSUME alone' PROVE CloudRun'
    OBVIOUS
  <2>1. exits' = <<>> /\ cli' = "none" /\ UNCHANGED conts /\ Len(exits') = 0
    BY <1>2 DEF StartJob, daemon
  <2>2. DOMAIN conts = {}
    BY <1>2 DEF StartJob
  <2>3. DOMAIN conts' = {} /\ cli' # "attached" /\ Len(exits') # 1
    BY <2>1, <2>2
  <2> QED
    BY <2>3 DEF CloudRun
<1>3. CASE Own
  <2>1. UNCHANGED <<run, job, alone, conts, isoFiles, exits>>
    BY <1>3 DEF Own, NewContainerExecutor, RunContainer, NewClusterctlExecutor, RunClusterctl, ClientRun,
                GetNodesAndFilters, CallDocker, WriteOutput, CheckExits, Fail, begun, pipeline, daemon
  <2>2. fpc # "idle"
    BY <1>3 DEF Own, NewContainerExecutor, RunContainer, NewClusterctlExecutor, RunClusterctl, ClientRun,
                GetNodesAndFilters, CallDocker, WriteOutput, CheckExits
  <2>3. cli' = cli \/ (cli = "none" /\ cli' = "called")
    BY <1>3 DEF Own, NewContainerExecutor, RunContainer, NewClusterctlExecutor, RunClusterctl, ClientRun,
                GetNodesAndFilters, CallDocker, WriteOutput, CheckExits, Fail, pipeline
  <2> QED
    BY <1>1, <2>1, <2>2, <2>3
\* While the docker command runs it is that of the phase's one function.
<1>4. ASSUME cli # "none", CloudJob
      PROVE  /\ fpc = "pipeline" /\ exits = <<>> /\ Len(exits) = 0 /\ Position = 1 /\ Id = <<run, 1>>
             /\ 1 \in 1..Len(filters) /\ IsBundle(exits)
  <2> DEFINE m == Len(exits)
             n == Len(filters)
  <2>1. fpc = "pipeline" /\ m < n /\ n <= 1
    BY <1>4 DEF ProgressInv, CloudInv, CloudFilters
  <2>2. m \in Nat /\ n \in Nat /\ IsBundle(exits)
    BY DEF ExitsInv, IsBundle
  <2>3. m = 0 /\ n = 1
    <3>1. m < n /\ n <= 1 /\ m \in Nat /\ n \in Nat
      BY <2>1, <2>2
    <3> HIDE DEF m, n
    <3> QED
      BY <3>1
  <2>4. exits = <<>>
    BY <2>2, <2>3 DEF IsBundle
  <2> QED
    BY <2>1, <2>2, <2>3, <2>4 DEF Position, Id
<1>5. ASSUME cli # "none", CloudJob, NEW ok, FilterEnds(ok)
      PROVE  /\ UNCHANGED <<run, job, alone>> /\ cli' = "none"
             /\ Len(exits') = 1 /\ exits'[1].ok = ok /\ exits' # <<>>
  <2> DEFINE e == [of |-> Filter, ok |-> ok]
  <2>1. exits' = Append(exits, e) /\ e.ok = ok
    BY <1>5 DEF FilterEnds
  <2> HIDE DEF e
  <2>2. Len(exits) = 0 /\ IsBundle(exits)
    BY <1>4, <1>5
  <2>3. Len(exits') = Len(exits) + 1 /\ exits'[Len(exits) + 1] = e
    BY <2>1, <2>2, AppendBundle
  <2>4. Len(exits') = 1 /\ exits'[1].ok = ok
    BY <2>1, <2>2, <2>3
  <2> QED
    BY <1>5, <2>4 DEF FilterEnds, begun
<1>6. ASSUME cli # "none", FilterEnds(FALSE), UNCHANGED daemon PROVE Goal
  <2> SUFFICES ASSUME CloudJob', alone' PROVE CloudRun'
    OBVIOUS
  <2>1. CloudJob /\ alone /\ fpc # "idle"
    BY <1>4, <1>6 DEF FilterEnds, begun, CloudJob, ProgressInv
  <2>2. CloudRun
    BY <2>1 DEF CloudInv
  <2>3. /\ UNCHANGED <<run, job, conts, isoFiles>> /\ cli' = "none" /\ exits' # <<>> /\ exits'[1].ok = FALSE
    BY <1>5, <1>6, <2>1 DEF daemon
  <2> QED
    BY <2>2, <2>3 DEF CloudRun, CloudCont, OfPhase
<1>7. CASE DockerRun
  <2> DEFINE new == [cmd |-> Filter, mounts |-> mounts, items |-> items,
                     stage |-> "created", left |-> {}, local |-> <<>>, ok |-> FALSE]
  <2>1. CASE FilterEnds(FALSE) /\ UNCHANGED daemon
    BY <1>6, <1>7, <2>1 DEF DockerRun
  <2>2. CASE /\ cli' = "attached"
             /\ UNCHANGED <<begun, fpc, config, mounts, filters, exits, items, written, fresult, isoFiles>>
             /\ conts' = [c \in DOMAIN conts \cup {Id} |-> IF c = Id THEN new ELSE conts[c]]
    <3> SUFFICES ASSUME CloudJob', alone' PROVE CloudRun'
      OBVIOUS
    <3>1. CloudJob /\ alone /\ cli = "called" /\ UNCHANGED <<run, job, alone>>
      BY <1>7, <2>2 DEF DockerRun, begun, CloudJob
    <3>2. /\ fpc = "pipeline" /\ exits = <<>> /\ Position = 1 /\ Id = <<run, 1>> /\ 1 \in 1..Len(filters)
          /\ Len(exits) = 0
      BY <1>4, <3>1
    <3>3. DOMAIN conts = {}
      BY <3>1, <3>2 DEF CloudInv, CloudRun
    <3>4. OfPhase(items) /\ Filter.image = "cloud-init" /\ Filter.config = job.config
      BY <3>1, <3>2 DEF CloudInv, CloudInput, CloudFilters, Filter
    <3>5. new.cmd = Filter /\ new.items = items /\ new.stage = "created"
      OBVIOUS
    <3> HIDE DEF new
    <3>6. DOMAIN conts' = {Id} /\ conts'[Id] = new
      BY <2>2, <3>3
    <3>7. Id' = Id /\ exits' = exits
      BY <2>2, <3>1 DEF Id, Position
    <3>8. CloudCont(conts[Id])'
      BY <3>1, <3>4, <3>5, <3>6, <3>7 DEF CloudCont, OfPhase
    <3> QED
      BY <2>2, <3>1, <3>2, <3>6, <3>7, <3>8 DEF CloudRun
  <2> QED
    BY <1>7, <2>1, <2>2 DEF DockerRun
<1>8. CASE DockerEnds
  <2> SUFFICES ASSUME CloudJob', alone' PROVE CloudRun'
    OBVIOUS
  <2>1. /\ cli = "attached" /\ FilterEnds(conts[Id].ok) /\ UNCHANGED isoFiles /\ conts[Id].stage = "exited"
        /\ conts' = [c \in DOMAIN conts \ {Id} |-> conts[c]]
    BY <1>8 DEF DockerEnds
  <2>2. CloudJob /\ alone /\ UNCHANGED <<run, job>>
    BY <2>1 DEF FilterEnds, begun, CloudJob
  <2>3. fpc = "pipeline" /\ Id = <<run, 1>>
    BY <1>4, <2>1, <2>2
  <2>4. CloudRun /\ Id \in DOMAIN conts
    BY <2>1, <2>2, <2>3 DEF CloudInv, CloudRun
  <2>5. DOMAIN conts' = {}
    BY <2>1, <2>3, <2>4 DEF CloudRun
  <2>6. conts[Id].ok => CloudFiles(isoFiles, job)
    BY <2>1, <2>4 DEF CloudRun, CloudCont
  <2>7. cli' = "none" /\ exits' # <<>> /\ exits'[1].ok = conts[Id].ok
    BY <1>5, <2>1, <2>2
  <2> QED
    BY <2>1, <2>2, <2>5, <2>6, <2>7 DEF CloudRun, CloudFiles
<1>9. CASE TimeoutKills
  BY <1>6, <1>9 DEF TimeoutKills
<1>10. CASE UNCHANGED fnVars
  BY <1>10 DEF fnVars, CloudInv, CloudRun, CloudJob, CloudCont, OfPhase, Id, Position
<1>11. ASSUME NEW c \in DOMAIN conts, Removed(c) PROVE Goal
  <2> SUFFICES ASSUME CloudJob', alone', fpc' # "idle" PROVE CloudRun'
    OBVIOUS
  <2>1. /\ UNCHANGED <<run, job, alone, fpc, exits, cli, isoFiles>>
        /\ cli = "attached" => c # Id
        /\ conts' = [d \in DOMAIN conts \ {c} |-> conts[d]]
    BY <1>11, ProgramsLeave DEF Removed
  <2>2. CloudJob /\ alone /\ fpc # "idle"
    BY <2>1 DEF CloudJob
  <2>3. CloudRun /\ Id' = Id
    BY <2>1, <2>2 DEF CloudInv, Id, Position
  <2>4. \A d \in DOMAIN conts' : d \in DOMAIN conts /\ conts'[d] = conts[d]
    BY <2>1
  <2>5. \A d \in DOMAIN conts' : d = <<run', 1>> /\ CloudCont(conts[d])'
    BY <2>1, <2>3, <2>4 DEF CloudRun, CloudCont, OfPhase
  <2>6. /\ exits' = <<>> /\ cli' # "attached" => DOMAIN conts' = {}
        /\ cli' = "attached" => Id' \in DOMAIN conts'
    BY <2>1, <2>3 DEF CloudRun
  <2>7. Len(exits') = 1 /\ exits'[1].ok => DOMAIN conts' = {} /\ CloudFiles(isoFiles, job)'
    BY <2>1, <2>3 DEF CloudRun, CloudFiles
  <2> QED
    BY <2>5, <2>6, <2>7 DEF CloudRun
\* A step of the program in the run's own container.
<1>12. ASSUME NEW c \in DOMAIN conts, CloudRun, NEW new, conts' = [conts EXCEPT ![c] = new],
              CloudCont(new)', UNCHANGED <<run, job, exits, cli>>
       PROVE  CloudRun'
  <2>1. \A d \in DOMAIN conts : d = c
    BY <1>12 DEF CloudRun
  <2>2. DOMAIN conts' = {c} /\ c = <<run, 1>> /\ conts'[c] = new /\ DOMAIN conts = {c}
    BY <1>12, <2>1 DEF CloudRun
  <2>3. Id' = Id
    BY <1>12 DEF Id, Position
  <2>4. \A d \in DOMAIN conts' : d = <<run', 1>> /\ CloudCont(conts[d])'
    BY <1>12, <2>2
  <2>5. ~(Len(exits) = 1 /\ exits[1].ok) /\ ~(exits = <<>> /\ cli # "attached")
    BY <1>12, <2>2 DEF CloudRun
  <2>6. cli = "attached" => Id = c
    BY <1>12, <2>1 DEF CloudRun
  <2> QED
    BY <1>12, <2>2, <2>3, <2>4, <2>5, <2>6 DEF CloudRun
<1>13. ASSUME NEW c \in DOMAIN conts, CloudJob, alone, CloudRun, fpc # "idle", CloudInitProgram(c)
       PROVE  CloudRun'
  <2>1. CloudCont(conts[c]) /\ job \in Jobs
    BY <1>13 DEF CloudRun, ProgressInv
  <2>2. UNCHANGED <<run, job, exits, cli, isoFiles>>
    BY <1>13, ProgramsLeave DEF CloudInitProgram
  <2>3. /\ conts[c].cmd.image = "cloud-init" /\ conts[c].cmd.config = job.config /\ OfPhase(conts[c].items)
        /\ DOMAIN conts[c] = {"cmd", "mounts", "items", "stage", "left", "local", "ok"}
    BY <2>1 DEF CloudCont, ContsInv
  <2> DEFINE found == GetCloudData(conts[c].items, conts[c].cmd.config)
             madeOf(data) == [f \in FileNames |->
                                  CASE f = "user-data" -> data.val.user
                                    [] f = "network-data" -> data.val.net
                                    [] f = "builder-conf" -> conts[c].cmd.config]
             made == madeOf(found)
  <2>4. CASE Exit(c, FALSE)
    <3>1. PICK new : new = [conts[c] EXCEPT !.stage = "exited", !.ok = FALSE] /\ conts' = [conts EXCEPT ![c] = new]
      BY <2>4 DEF Exit, Becomes
    <3>2. new.cmd = conts[c].cmd /\ new.items = conts[c].items /\ new.stage = "exited" /\ new.ok = FALSE
      BY <2>3, <3>1
    <3>3. CloudCont(new)'
      BY <2>2, <2>3, <3>2 DEF CloudCont, OfPhase
    <3> QED
      BY <1>12, <1>13, <2>2, <3>1, <3>3
  <2>5. CASE ~Exit(c, FALSE)
    <3>1. /\ ~Failed(found)
          /\ Becomes(c, [conts[c] EXCEPT !.stage = "writing", !.left = FileNames, !.local = made])
      <4>1. PICK data \in {found} :
               IF Failed(data) \/ conts[c].mounts = <<>> THEN Exit(c, FALSE)
               ELSE Becomes(c, [conts[c] EXCEPT !.stage = "writing", !.left = FileNames,
                                                !.local = madeOf(data)])
        BY <1>13, Zenon DEF CloudInitProgram
      <4>2. data = found
        OBVIOUS
      <4> HIDE DEF found, madeOf
      <4> QED
        BY <2>5, <4>1, <4>2
    <3>2. /\ DOMAIN made = FileNames /\ made["user-data"] = found.val.user
          /\ made["network-data"] = found.val.net /\ made["builder-conf"] = job.config
      BY <2>3 DEF FileNames
    <3> HIDE DEF made
    <3>3. CloudFiles(made, job)
      <4>1. ~Failed(GetCloudData(conts[c].items, job.config))
            /\ found.val = GetCloudData(conts[c].items, job.config).val
        BY <2>3, <3>1
      <4> HIDE DEF found
      <4> QED
        BY <1>13, <2>1, <2>3, <3>2, <4>1, CloudFilesAre
    <3>4. PICK new : /\ new = [conts[c] EXCEPT !.stage = "writing", !.left = FileNames, !.local = made]
                     /\ conts' = [conts EXCEPT ![c] = new]
      BY <3>1 DEF Becomes
    <3>5. /\ new.cmd = conts[c].cmd /\ new.items = conts[c].items /\ new.stage = "writing"
          /\ new.left = FileNames /\ new.local = made
      BY <2>3, <3>4
    <3>6. CloudFiles(new.local, job)'
      BY <2>2, <3>3, <3>5 DEF CloudFiles
    <3>7. CloudCont(new)'
      BY <2>2, <2>3, <3>2, <3>5, <3>6 DEF CloudCont, OfPhase
    <3> QED
      BY <1>12, <1>13, <2>2, <3>4, <3>7
  <2> QED
    BY <2>4, <2>5
<1>14. ASSUME NEW c \in DOMAIN conts, CloudJob, alone, CloudRun, WriteFiles(c)
       PROVE  CloudRun'
  <2>1. CloudCont(conts[c])
    BY <1>14 DEF CloudRun
  <2>2. UNCHANGED <<run, job, exits, cli>>
    BY <1>14, ProgramsLeave
  <2>3. /\ conts[c].cmd.image = "cloud-init" /\ conts[c].cmd.config = job.config /\ OfPhase(conts[c].items)
        /\ DOMAIN conts[c] = {"cmd", "mounts", "items", "stage", "left", "local", "ok"}
        /\ conts[c].stage = "writing" /\ DOMAIN conts[c].local = FileNames /\ CloudFiles(conts[c].local, job)
        /\ \A f \in FileNames \ conts[c].left : isoFiles[f] = conts[c].local[f]
        /\ DOMAIN isoFiles = FileNames
    BY <1>14, <2>1 DEF CloudCont, ContsInv, WriteFiles, CloudInv
  <2>4. ASSUME NEW ok \in BOOLEAN, Exit(c, ok), UNCHANGED isoFiles, ok => conts[c].left = {} PROVE CloudRun'
    <3>1. PICK new : new = [conts[c] EXCEPT !.stage = "exited", !.ok = ok] /\ conts' = [conts EXCEPT ![c] = new]
      BY <2>4 DEF Exit, Becomes
    <3>2. new.cmd = conts[c].cmd /\ new.items = conts[c].items /\ new.stage = "exited" /\ new.ok = ok
      BY <2>3, <3>1
    <3>3. ok => CloudFiles(isoFiles, job)'
      <4>1. ok => \A f \in FileNames : isoFiles'[f] = conts[c].local[f]
        BY <2>3, <2>4
      <4> QED
        BY <2>2, <2>3, <4>1 DEF CloudFiles, FileNames
    <3>4. CloudCont(new)'
      BY <2>2, <2>3, <3>2, <3>3 DEF CloudCont, OfPhase
    <3> QED
      BY <1>12, <1>14, <2>2, <3>1, <3>4
  <2>5. ASSUME NEW f, Becomes(c, [conts[c] EXCEPT !.left = @ \ {f}]),
               isoFiles' = [isoFiles EXCEPT ![f] = conts[c].local[f]]
        PROVE  CloudRun'
    <3>1. PICK new : new = [conts[c] EXCEPT !.left = @ \ {f}] /\ conts' = [conts EXCEPT ![c] = new]
      BY <2>5 DEF Becomes
    <3>2. /\ new.cmd = conts[c].cmd /\ new.items = conts[c].items /\ new.stage = "writing"
          /\ new.left = conts[c].left \ {f} /\ new.local = conts[c].local
      BY <2>3, <3>1
    <3>3. \A g \in FileNames \ new.left : isoFiles'[g] = new.local[g]
      BY <2>3, <2>5, <3>2
    <3>4. CloudFiles(new.local, job)'
      BY <2>2, <2>3, <3>2 DEF CloudFiles
    <3>5. CloudCont(new)'
      BY <2>2, <2>3, <3>2, <3>3, <3>4 DEF CloudCont, OfPhase
    <3> QED
      BY <1>12, <1>14, <2>2, <3>1, <3>5
  <2> QED
    BY <1>14, <2>4, <2>5 DEF WriteFiles
<1>15. ASSUME NEW c \in DOMAIN conts,
              \/ CloudInitProgram(c) \/ WriteFiles(c) \/ ToolboxProgram(c) \/ ClusterctlProgram(c)
              \/ OtherFunction(c) \/ ProgramEnds(c)
       PROVE  Goal
  <2> SUFFICES ASSUME CloudJob', alone', fpc' # "idle" PROVE CloudRun'
    OBVIOUS
  <2>1. UNCHANGED <<run, job, alone, fpc, exits, cli>>
    BY <1>15, ProgramsLeave
  <2>2. CloudJob /\ alone /\ fpc # "idle"
    BY <2>1 DEF CloudJob
  <2>3. CloudRun
    BY <2>2 DEF CloudInv
  <2>4. conts[c].cmd.image = "cloud-init" /\ conts[c].stage # "program"
    BY <2>3 DEF CloudRun, CloudCont
  <2>5. CloudInitProgram(c) \/ WriteFiles(c)
    BY <1>15, <2>4 DEF ToolboxProgram, ClusterctlProgram, OtherFunction, ProgramEnds
  <2> QED
    BY <1>13, <1>14, <2>2, <2>3, <2>5
<1> QED
  BY <1>2, <1>3, <1>7, <1>8, <1>9, <1>10, <1>11, <1>15 DEF FnNext

\* Every step keeps the invariant of cloud-init.
LEMMA CloudStep ==
    ASSUME ProgressInv, ExitsInv, ContsInv, CloudInv, [FnNext]_fnVars PROVE CloudInv'
<1>1. DOMAIN isoFiles' = FileNames
  <2>1. \/ UNCHANGED isoFiles
        \/ \E f, x : isoFiles' = [isoFiles EXCEPT ![f] = x]
    BY DEF FnNext, fnVars, Own, StartJob, NewContainerExecutor, RunContainer, NewClusterctlExecutor,
           RunClusterctl, ClientRun, GetNodesAndFilters, CallDocker, WriteOutput, CheckExits, Fail, daemon,
           DockerRun, DockerEnds, TimeoutKills, CloudInitProgram, WriteFiles, ToolboxProgram,
           ClusterctlProgram, OtherFunction, ProgramEnds, Removed
  <2> QED
    BY <2>1 DEF CloudInv
<1>2. CloudInput' /\ CloudFilters'
  BY CloudInputStep, CloudFiltersStep DEF CloudInv
<1>3. (fpc # "idle" /\ CloudJob /\ alone => CloudRun)'
  BY CloudRunStep
<1> QED
  BY <1>1, <1>2, <1>3 DEF CloudInv

\* What the invariant says of a run that reported success.
LEMMA CloudData ==
    ASSUME ProgressInv, ExitsInv, CloudInv PROVE CloudDataOfRun
<1> SUFFICES ASSUME fresult = "ok", Runtime, alone, job.executor = "GenericContainer",
                    job.spec.image = "cloud-init"
             PROVE  CloudFiles(isoFiles, job)
  BY DEF CloudDataOfRun, CloudFiles
<1>1. fpc = "done" /\ job \in Jobs /\ CloudJob
  BY DEF ProgressInv, Runtime, CloudJob
<1>2. PICK known \in BOOLEAN : ~Failed(getFilters(request, known)) /\ filters = getFilters(request, known).val
  BY DEF ExitsInv, Filtered
<1>3. job.executor # "RunFns" /\ job.spec.image # Unset
  BY NamesAssumption
<1>4. Len(filters) = 1 /\ request.continueOnEmpty
  BY <1>1, <1>2, <1>3, OneFilter
<1>5. written /\ Len(exits) = Len(filters) /\ \A n \in 1..Len(exits) : exits[n].ok
  BY <1>4 DEF ExitsInv
<1>6. Len(exits) = 1 /\ exits[1].ok
  BY <1>4, <1>5
<1> QED
  BY <1>1, <1>6 DEF CloudInv, CloudRun

\* The invariant of cloud-init holds in every state.
THEOREM CloudHolds == FnSpec => []CloudInv
<1>1. FnInit => CloudInv
  BY DEF FnInit, CloudInv, CloudInput, CloudFilters
<1>2. ProgressInv /\ ExitsInv /\ ContsInv /\ CloudInv /\ [FnNext]_fnVars => CloudInv'
  BY CloudStep
<1> QED
  BY <1>1, <1>2, ProgressHolds, ContainersHold, PTL DEF FnSpec

\* After a cloud-init phase that nothing disturbed the files on the host are
\* those of the documents asked for (CloudDataOfRun).
THEOREM CloudDataOfRunHolds == FnSpec => []CloudDataOfRun
  BY ProgressHolds, CloudHolds, CloudData, PTL

-----------------------------------------------------------------------------
(* The limit: only a run that has one leaves its container behind.          *)

\* The limit of job j.
LimitOf(j) == IF j.executor = "RunFns" THEN j.request.timeout ELSE j.spec.timeout

\* Every command has the limit of the run, and every container the docker command
\* of the run is not attached to was started by a job with a limit.
LimitInv ==
    /\ \A n \in 1..Len(filters) : filters[n].timeout = LimitOf(job)
    /\ \A c \in DOMAIN conts : \E j \in Jobs : conts[c].cmd.timeout = LimitOf(j)
    /\ \A c \in DOMAIN conts : (cli = "attached" /\ c = Id) \/ conts[c].cmd.timeout > 0
    /\ cli = "attached" /\ Id \in DOMAIN conts => conts[Id].cmd = Filter

\* The commands of a request have its limit.
LEMMA FilterLimit ==
    ASSUME NEW r, IsRequest(r), NEW known, ~Failed(getFilters(r, known)),
           NEW F, F = getFilters(r, known).val, NEW n \in 1..Len(F)
    PROVE  F[n].timeout = r.timeout
<1> DEFINE G == Given(r)
           u == getUIDGID(TRUE, known).val
<1>1. PICK q, g : Listing(q, G, Imaged(G), g) /\ F = CommandsOf(r, u, q)
  BY FiltersAre
<1>2. IsBundle(q)
  BY <1>1 DEF Listing
<1>3. n \in 1..Len(q)
  BY <1>1, <1>2, CommandsBundle
<1>4. F[n] = getCommand(r, q[n], u)
  BY <1>1, <1>3 DEF CommandsOf
<1> QED
  BY <1>4 DEF getCommand

\* The step that finds the functions.
LEMMA RequestLimit ==
    request.timeout = LimitOf(job)
BY DEF request, runKRM, LimitOf

\* Every step keeps the limits.
LEMMA LimitStep ==
    ASSUME ProgressInv, ExitsInv, ContsInv, LimitInv, [FnNext]_fnVars PROVE LimitInv'
<1> DEFINE Filters == \A n \in 1..Len(filters) : filters[n].timeout = LimitOf(job)
           Attached(c) == cli = "attached" /\ c = Id
           OfJobs == \A c \in DOMAIN conts : \E j \in Jobs : conts[c].cmd.timeout = LimitOf(j)
           Limited == \A c \in DOMAIN conts : Attached(c) \/ conts[c].cmd.timeout > 0
           Own1 == cli = "attached" /\ Id \in DOMAIN conts => conts[Id].cmd = Filter
<1>1. /\ LimitInv <=> Filters /\ OfJobs /\ Limited /\ Own1
      /\ LimitInv' <=> Filters' /\ OfJobs' /\ Limited' /\ Own1'
  BY DEF LimitInv
<1>2. UNCHANGED <<filters, job>> => Filters'
  BY <1>1
<1>3. UNCHANGED conts => OfJobs'
  BY <1>1
\* A step that leaves the docker command and the containers alone.
<1>4. ASSUME UNCHANGED <<run, filters, exits, cli, conts>> PROVE Limited' /\ Own1'
  <2>1. Id' = Id /\ Filter' = Filter
    BY <1>4 DEF Id, Filter, Position
  <2> QED
    BY <1>1, <1>4, <2>1
\* A step outside the pipeline: no command runs, and none is started.
<1>5. ASSUME cli = "none", cli' = "none", UNCHANGED conts PROVE Limited' /\ Own1'
  BY <1>1, <1>5
<1> HIDE DEF Filters, OfJobs, Limited, Own1
<1>6. ASSUME NEW j \in Jobs, StartJob(j) PROVE LimitInv'
  <2>1. cli = "none" /\ cli' = "none" /\ UNCHANGED conts /\ filters' = <<>>
    BY <1>6 DEF StartJob, ProgressInv, daemon
  <2>2. Filters'
    BY <2>1 DEF Filters
  <2> QED
    BY <1>1, <1>3, <1>5, <2>1, <2>2
<1>7. CASE Fail
  BY <1>1, <1>2, <1>3, <1>4, <1>7 DEF Fail, begun, pipeline, daemon
<1>8. CASE (NewContainerExecutor \/ RunContainer \/ NewClusterctlExecutor \/ RunClusterctl
              \/ ClientRun \/ WriteOutput \/ CheckExits) /\ ~Fail
  <2>1. UNCHANGED <<run, job, filters, exits, cli, conts>>
    BY <1>8 DEF NewContainerExecutor, RunContainer, NewClusterctlExecutor, RunClusterctl,
                ClientRun, WriteOutput, CheckExits, begun, pipeline, daemon
  <2> QED
    BY <1>1, <1>2, <1>3, <1>4, <2>1
<1>9. CASE GetNodesAndFilters /\ ~Fail
  <2>1. PICK known \in BOOLEAN : ~Failed(getFilters(request, known)) /\ filters' = getFilters(request, known).val
    BY <1>9 DEF GetNodesAndFilters
  <2>2. /\ cli = "none" /\ cli' = "none" /\ UNCHANGED <<conts, job>> /\ job \in Jobs
    BY <1>9 DEF GetNodesAndFilters, ProgressInv, daemon, begun
  <2>3. \A n \in 1..Len(filters') : filters'[n].timeout = LimitOf(job')
    BY <2>1, <2>2, RequestIs, FilterLimit, RequestLimit
  <2> QED
    BY <1>1, <1>3, <1>5, <2>2, <2>3 DEF Filters
<1>10. CASE CallDocker
  <2>1. cli # "attached" /\ cli' # "attached" /\ UNCHANGED <<conts, job, filters>>
    BY <1>10 DEF CallDocker, daemon, begun
  <2> QED
    BY <1>1, <1>2, <1>3, <2>1 DEF Limited, Own1
\* The command ends: whatever it leaves behind was started with a limit.
<1>11. ASSUME NEW ok, FilterEnds(ok), OfJobs',
              \A c \in DOMAIN conts' : conts'[c].cmd.timeout > 0
       PROVE  LimitInv'
  <2>1. cli' = "none" /\ UNCHANGED <<job, filters>>
    BY <1>11 DEF FilterEnds, begun
  <2> QED
    BY <1>1, <1>2, <1>11, <2>1 DEF Limited, Own1
<1>12. ASSUME cli # "none" PROVE Position \in 1..Len(filters) /\ fpc = "pipeline" /\ job \in Jobs
  BY <1>12 DEF ProgressInv, ExitsInv, Position, IsBundle
<1>13. CASE DockerRun
  <2> DEFINE new == [cmd |-> Filter, mounts |-> mounts, items |-> items,
                     stage |-> "created", left |-> {}, local |-> <<>>, ok |-> FALSE]
  <2>1. cli = "called" /\ Position \in 1..Len(filters) /\ job \in Jobs
    BY <1>12, <1>13 DEF DockerRun
  <2>2. \A c \in DOMAIN conts : conts[c].cmd.timeout > 0
    BY <1>1, <2>1 DEF Limited
  <2>3. CASE FilterEnds(FALSE) /\ UNCHANGED daemon
    BY <1>3, <1>11, <2>2, <2>3 DEF daemon
  <2>4. CASE /\ cli' = "attached"
             /\ UNCHANGED <<begun, fpc, config, mounts, filters, exits, items, written, fresult, isoFiles>>
             /\ conts' = [c \in DOMAIN conts \cup {Id} |-> IF c = Id THEN new ELSE conts[c]]
    <3>1. new.cmd = Filter
      OBVIOUS
    <3> HIDE DEF new
    <3>2. Id' = Id /\ Filter' = Filter /\ UNCHANGED <<job, filters>>
      BY <2>4 DEF Id, Filter, Position, begun
    <3>3. Filter.timeout = LimitOf(job)
      BY <1>1, <2>1 DEF Filter, Filters
    <3>4. OfJobs'
      BY <1>1, <2>1, <2>4, <3>1, <3>3 DEF OfJobs
    <3>5. Limited' /\ Own1'
      BY <2>2, <2>4, <3>1, <3>2 DEF Limited, Own1
    <3> QED
      BY <1>1, <1>2, <3>2, <3>4, <3>5
  <2> QED
    BY <1>13, <2>3, <2>4 DEF DockerRun
<1>14. ASSUME NEW c, conts' = [d \in DOMAIN conts \ {c} |-> conts[d]] PROVE OfJobs'
  BY <1>1, <1>14 DEF OfJobs
<1>15. CASE DockerEnds
  <2>1. /\ cli = "attached" /\ FilterEnds(conts[Id].ok)
        /\ conts' = [c \in DOMAIN conts \ {Id} |-> conts[c]]
    BY <1>15 DEF DockerEnds
  <2>2. \A c \in DOMAIN conts' : conts'[c].cmd.timeout > 0
    BY <1>1, <2>1 DEF Limited
  <2> QED
    BY <1>11, <1>14, <2>1, <2>2
<1>16. CASE TimeoutKills
  <2>1. cli # "none" /\ Filter.timeout > 0 /\ FilterEnds(FALSE) /\ UNCHANGED conts
    BY <1>16 DEF TimeoutKills, daemon
  <2>2. \A c \in DOMAIN conts : conts[c].cmd.timeout > 0
    BY <1>1, <2>1 DEF Limited, Own1
  <2> QED
    BY <1>3, <1>11, <2>1, <2>2
<1>17. ASSUME NEW c \in DOMAIN conts, Removed(c) PROVE LimitInv'
  <2>1. /\ UNCHANGED <<run, job, filters, exits, cli>>
        /\ conts' = [d \in DOMAIN conts \ {c} |-> conts[d]]
    BY <1>17, ProgramsLeave DEF Removed
  <2>2. Id' = Id /\ Filter' = Filter
    BY <2>1 DEF Id, Filter, Position
  <2>3. Limited' /\ Own1'
    BY <1>1, <2>1, <2>2 DEF Limited, Own1
  <2> QED
    BY <1>1, <1>2, <1>14, <2>1, <2>3
<1>18. ASSUME NEW c \in DOMAIN conts,
              \/ CloudInitProgram(c) \/ WriteFiles(c) \/ ToolboxProgram(c) \/ ClusterctlProgram(c)
              \/ OtherFunction(c) \/ ProgramEnds(c)
       PROVE  LimitInv'
  <2>1. UNCHANGED <<run, job, filters, exits, cli>>
    BY <1>18, ProgramsLeave
  <2>2. Id' = Id /\ Filter' = Filter
    BY <2>1 DEF Id, Filter, Position
  <2>3. Advances(c)
    BY <1>18, ProgramAdvances
  <2>4. DOMAIN conts' = DOMAIN conts /\ \A d \in DOMAIN conts : conts'[d].cmd = conts[d].cmd
    BY <2>3 DEF Advances
  <2>5. OfJobs' /\ Limited' /\ Own1'
    BY <1>1, <2>1, <2>2, <2>4 DEF OfJobs, Limited, Own1
  <2> QED
    BY <1>1, <1>2, <2>1, <2>5
<1>19. CASE UNCHANGED fnVars
  BY <1>1, <1>2, <1>3, <1>4, <1>19 DEF fnVars
<1> QED
  BY <1>6, <1>7, <1>8, <1>9, <1>10, <1>13, <1>15, <1>16, <1>17, <1>18, <1>19 DEF FnNext, Own

\* The invariant of the limits holds in every state.
LEMMA LimitsHold == FnSpec => []LimitInv
<1>1. FnInit => LimitInv
  <2>1. DOMAIN <<>> = {} /\ Len(<<>>) = 0
    OBVIOUS
  <2> QED
    BY <2>1 DEF FnInit, LimitInv
<1>2. ProgressInv /\ ExitsInv /\ ContsInv /\ LimitInv /\ [FnNext]_fnVars => LimitInv'
  BY LimitStep
<1> QED
  BY <1>1, <1>2, ProgressHolds, ContainersHold, PTL DEF FnSpec

\* A container that no docker command waits for was started by a job with a limit.
LeftoverHasLimit ==
    \A c \in DOMAIN conts :
        (cli = "attached" /\ c = Id) \/ \E j \in Jobs : conts[c].cmd.timeout = LimitOf(j) /\ LimitOf(j) > 0

\* Only a limit leaves a container to itself: TimeoutKills is the one way in which
\* a docker command ends before its container (getCommand, runfn.go).
THEOREM OnlyLimitsLeaveContainers == FnSpec => []LeftoverHasLimit
<1>1. LimitInv => LeftoverHasLimit
  BY DEF LimitInv, LeftoverHasLimit
<1> QED
  BY <1>1, LimitsHold, PTL

\* Where no job has a limit, every run begins without containers ...
THEOREM AloneWithoutLimits ==
    ASSUME \A j \in Jobs : ~(LimitOf(j) > 0) PROVE FnSpec => []alone
<1>1. FnInit => alone
  BY DEF FnInit
<1>2. ASSUME alone, ProgressInv, LimitInv, [FnNext]_fnVars PROVE alone'
  <2>1. ASSUME NEW j \in Jobs, StartJob(j) PROVE alone'
    <3>1. cli = "none"
      BY <1>2, <2>1 DEF StartJob, ProgressInv
    <3>2. DOMAIN conts = {}
      BY <1>2, <3>1 DEF LimitInv
    <3>3. alone' = (DOMAIN conts = {})
      BY <2>1, Zenon DEF StartJob
    <3> QED
      BY <3>2, <3>3, Zenon
  <2>2. (\E j \in Jobs : StartJob(j)) \/ UNCHANGED alone
    BY <1>2, ProgramsLeave
    DEF FnNext, fnVars, Own, NewContainerExecutor, RunContainer, NewClusterctlExecutor, RunClusterctl,
        ClientRun, GetNodesAndFilters, CallDocker, WriteOutput, CheckExits, Fail, begun, DockerRun,
        DockerEnds, TimeoutKills, FilterEnds
  <2> QED
    BY <1>2, <2>1, <2>2
<1> QED
  BY <1>1, <1>2, ProgressHolds, LimitsHold, PTL DEF FnSpec

\* ... and what CloudDataOfRun promises of an undisturbed run holds of every run.
CloudDataAlways ==
    fresult = "ok" /\ Runtime /\ job.executor = "GenericContainer" /\ job.spec.image = "cloud-init"
        => CloudFiles(isoFiles, job)

\* Without limits every successful cloud-init phase has the data of its own run.
THEOREM CloudDataWithoutLimits ==
    ASSUME \A j \in Jobs : ~(LimitOf(j) > 0) PROVE FnSpec => []CloudDataAlways
<1>1. CloudDataOfRun /\ alone => CloudDataAlways
  BY DEF CloudDataOfRun, CloudDataAlways, CloudFiles
<1> QED
  BY <1>1, CloudDataOfRunHolds, AloneWithoutLimits, PTL

-----------------------------------------------------------------------------
(* A run of functions ends, when it has a limit.                            *)

\* How far a run is from its return, and within the pipeline: a call, a container and
\* an end for each function to come.
FnStage ==
    CASE fpc = "new"      -> 6
      [] fpc = "run"      -> 5
      [] fpc = "client"   -> 4
      [] fpc = "filters"  -> 3
      [] fpc = "pipeline" -> 2
      [] fpc = "check"    -> 1
      [] OTHER            -> 0
FnLeft ==
    3 * (Len(filters) - Len(exits)) - (CASE cli = "none" -> 0 [] cli = "called" -> 1 [] OTHER -> 2)

\* A docker command whose end is waited for has the limit of the run, if that has one:
\* then TimeoutKills can end it.
WaitHasLimit == cli # "none" /\ Limit > 0 => Filter.timeout > 0

\* The steps of the programs and of the daemon's --rm.
Elsewhere ==
    \E c \in DOMAIN conts :
        \/ CloudInitProgram(c) \/ WriteFiles(c) \/ ToolboxProgram(c) \/ ClusterctlProgram(c)
        \/ OtherFunction(c) \/ ProgramEnds(c) \/ Removed(c)
FnDescends ==
    \/ \E j \in Jobs : StartJob(j)
    \/ FnStage' < FnStage
    \/ FnStage' = FnStage /\ FnLeft' < FnLeft
    \/ Elsewhere /\ UNCHANGED <<job, fpc, filters, exits, cli>>

LEMMA FnMeasure ==
    ASSUME ProgressInv, ExitsInv
    PROVE  FnStage \in 0..6 /\ FnLeft \in Nat
<1>1. /\ Len(exits) \in Nat /\ Len(filters) \in Nat /\ Len(exits) <= Len(filters)
      /\ cli # "none" => Len(exits) < Len(filters)
  BY DEF ExitsInv, IsBundle, ProgressInv
<1>2. FnStage \in 0..6
  BY DEF FnStage
<1> DEFINE e == Len(exits)
           f == Len(filters)
           k == CASE cli = "none" -> 0 [] cli = "called" -> 1 [] OTHER -> 2
<1>3. k \in 0..2 /\ (k # 0 => e < f) /\ FnLeft = 3 * (f - e) - k
  BY <1>1 DEF FnLeft
<1> HIDE DEF e, f, k
<1>4. e \in Nat /\ f \in Nat /\ e <= f
  BY <1>1 DEF e, f
<1>5. 3 * (f - e) - k \in Nat
  BY <1>3, <1>4
<1> QED
  BY <1>2, <1>3, <1>5

LEMMA WaitLimited == ASSUME ProgressInv, ExitsInv, LimitInv PROVE WaitHasLimit
<1> SUFFICES ASSUME cli # "none", Limit > 0 PROVE Filter.timeout > 0
  BY DEF WaitHasLimit
<1>1. Position \in 1..Len(filters)
  BY DEF ProgressInv, ExitsInv, Position, IsBundle
<1> QED
  BY <1>1 DEF LimitInv, Filter, Limit, LimitOf

\* The end of a command ends the pipeline, or leaves one function less.
LEMMA FilterEndsDescends ==
    ASSUME ProgressInv, ExitsInv, cli # "none", NEW ok, FilterEnds(ok)
    PROVE  FnDescends
<1>1. /\ fpc = "pipeline" /\ cli' = "none" /\ filters' = filters
      /\ exits' = Append(exits, [of |-> Filter, ok |-> ok])
      /\ fpc' \in {"done", "check", "pipeline"}
  BY DEF ProgressInv, FilterEnds, FnReturn
<1>2. Len(exits) \in Nat /\ Len(filters) \in Nat /\ Len(exits') = Len(exits) + 1
  BY <1>1 DEF ExitsInv, IsBundle
<1>3. fpc' # "pipeline" => FnStage' < FnStage
  BY <1>1 DEF FnStage
<1>4. FnLeft' < FnLeft
  <2> DEFINE k == CASE cli = "none" -> 0 [] cli = "called" -> 1 [] OTHER -> 2
             e == Len(exits)
             f == Len(filters)
  <2>1. k \in 0..2 /\ FnLeft = 3 * (f - e) - k /\ FnLeft' = 3 * (f - (e + 1)) - 0
    BY <1>1, <1>2 DEF FnLeft
  <2>2. e \in Nat /\ f \in Nat
    BY <1>2
  <2> HIDE DEF k, e, f
  <2>3. 3 * (f - (e + 1)) - 0 < 3 * (f - e) - k
    BY <2>1, <2>2
  <2> QED
    BY <2>1, <2>3
<1>5. fpc' = "pipeline" => FnStage' = FnStage
  BY <1>1 DEF FnStage
<1> QED
  BY <1>1, <1>3, <1>4, <1>5 DEF FnDescends

LEMMA FnDescendsStep ==
    ASSUME ProgressInv, ExitsInv, [FnNext]_fnVars
    PROVE  [FnDescends]_fnVars
<1>1. CASE \E j \in Jobs : StartJob(j)
  BY <1>1 DEF FnDescends
\* A step that only moves on.
<1>2. ASSUME NEW p \in {"new", "run", "client", "filters", "pipeline", "check"}, fpc = p,
             \/ fpc' = "done"
             \/ p = "new" /\ fpc' = "run"
             \/ p = "run" /\ fpc' = "client"
             \/ p = "client" /\ fpc' = "filters"
             \/ p = "filters" /\ fpc' = "pipeline"
             \/ p = "pipeline" /\ fpc' = "check"
      PROVE  FnDescends
  <2>1. FnStage' < FnStage
    BY <1>2 DEF FnStage
  <2> QED
    BY <2>1 DEF FnDescends
<1>3. CASE NewContainerExecutor \/ NewClusterctlExecutor
  BY <1>2, <1>3 DEF NewContainerExecutor, NewClusterctlExecutor, Fail, FnReturn
<1>4. CASE RunContainer \/ RunClusterctl
  BY <1>2, <1>4 DEF RunContainer, RunClusterctl, Fail, FnReturn
<1>5. CASE ClientRun
  BY <1>2, <1>5 DEF ClientRun, Fail, FnReturn
<1>6. CASE GetNodesAndFilters
  BY <1>2, <1>6 DEF GetNodesAndFilters, Fail, FnReturn
<1>7. CASE WriteOutput \/ CheckExits
  BY <1>2, <1>7 DEF WriteOutput, CheckExits, Fail, FnReturn
\* A step of the docker command.
<1>8. ASSUME UNCHANGED <<fpc, filters, exits>>,
             (cli = "none" /\ cli' = "called") \/ (cli = "called" /\ cli' = "attached")
      PROVE  FnDescends
  <2>1. FnStage' = FnStage
    BY <1>8 DEF FnStage
  <2>2. Len(exits) \in Nat /\ Len(filters) \in Nat
    BY DEF ExitsInv, IsBundle
  <2> DEFINE d == 3 * (Len(filters) - Len(exits))
  <2>3. d \in Int
    BY <2>2
  <2>4. \/ FnLeft = d - 0 /\ FnLeft' = d - 1
        \/ FnLeft = d - 1 /\ FnLeft' = d - 2
    BY <1>8 DEF FnLeft
  <2> HIDE DEF d
  <2>5. FnLeft' < FnLeft
    BY <2>3, <2>4
  <2> QED
    BY <2>1, <2>5 DEF FnDescends
<1>9. CASE CallDocker
  BY <1>8, <1>9 DEF CallDocker
<1>10. CASE DockerRun
  <2>1. CASE FilterEnds(FALSE)
    BY <1>10, <2>1, FilterEndsDescends DEF DockerRun
  <2> QED
    BY <1>8, <1>10, <2>1 DEF DockerRun
<1>11. CASE DockerEnds \/ TimeoutKills
  BY <1>11, FilterEndsDescends DEF DockerEnds, TimeoutKills
<1>12. CASE Elsewhere
  BY <1>12, ProgramsLeave DEF Elsewhere, FnDescends
<1>13. CASE UNCHANGED fnVars
  BY <1>13
<1> QED
  BY <1>1, <1>3, <1>4, <1>5, <1>6, <1>7, <1>9, <1>10, <1>11, <1>12, <1>13 DEF FnNext, Own, Elsewhere

\* A run with a limit cannot last for ever (runfn.go getCommand): every step but those of
\* the programs brings it closer to its return or to the end of its pipeline, and the
\* one thing it waits for, the docker command, can be killed.
THEOREM FunctionRunsDescend ==
    FnSpec => [](FnStage \in 0..6 /\ FnLeft \in Nat /\ WaitHasLimit) /\ [][FnDescends]_fnVars
BY FnMeasure, WaitLimited, FnDescendsStep, ProgressHolds, LimitsHold, PTL DEF FnSpec

=============================================================================
