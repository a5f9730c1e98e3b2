----------------------------- MODULE Container -----------------------------
(***************************************************************************)
(* One container run by airshipctl on a docker host: a generic container   *)
(* (pkg/container: V1Alpha1.runAirship) or the bootstrap container of the  *)
(* ephemeral cluster (pkg/bootstrap/ephemeral).                            *)
(*                                                                         *)
(* Four parties run side by side: airshipctl's main goroutine, the one     *)
(* that copies the input to the container's stdin, the one that copies its *)
(* stderr to the log, and the container.  The docker daemon can fail any   *)
(* call.  The two goroutines report on channels of capacity one, so a      *)
(* goroutine that has ended is a value that waits in its channel.          *)
(***************************************************************************)
EXTENDS Naturals

CONSTANT MaxRetries   \* maxRetries of WaitUntilContainerExitsOrTimesout

ASSUME RetriesAssumption == MaxRetries \in Nat

VARIABLES
    mode,      \* "generic", or the bootstrap command
    pc,        \* next step of the main goroutine
    cont,      \* the container on the docker host
    code,      \* its exit code
    conn,      \* the attached stdin connection
    stdin,     \* the goroutine that writes to it
    logs,      \* the goroutine that runs writeLogs
    out,       \* what was read of the container's stdout
    attempt,   \* loop counter of WaitUntilContainerExitsOrTimesout
    help,      \* help.txt is in the volume
    artifact,  \* ConfigFilename is in the volume
    result,    \* what the run returns
    rmFailed   \* the daemon refused to remove the container

vars == <<mode, pc, cont, code, conn, stdin, logs, out, attempt, help, artifact,
          result, rmFailed>>
files == <<help, artifact>>
host == <<cont, code, files>>
io   == <<conn, stdin, logs, out>>

Bootstrap == {"create", "delete", "help", "other"}
Modes == {"generic"} \cup Bootstrap
Generic == mode = "generic"

TypeOK ==
    /\ mode \in Modes
    /\ pc \in {"pull", "prepare", "create", "attach", "start", "start_failed", "stdin",
               "wait", "drain", "drain_failed", "output", "inspect", "help", "remove",
               "artifacts", "done"}
    /\ cont \in {"none", "created", "running", "exited", "removed"}
    /\ code \in {0, 1}
    /\ conn \in {"none", "open", "closed"}
    /\ stdin \in {"none", "copying", "copied", "failed"}
    /\ logs \in {"none", "following", "ok", "failed"}
    /\ out \in {"none", "partial", "full"}
    /\ attempt \in 0..MaxRetries
    /\ help \in BOOLEAN /\ artifact \in BOOLEAN /\ rmFailed \in BOOLEAN
    /\ result \in {"running", "ok", "error", "retries"}

Init ==
    /\ mode \in Modes
    /\ pc = "pull" /\ cont = "none" /\ code = 0
    /\ conn = "none" /\ stdin = "none" /\ logs = "none" /\ out = "none"
    /\ attempt = 0 /\ help \in BOOLEAN /\ artifact \in BOOLEAN
    /\ result = "running" /\ rmFailed = FALSE

-----------------------------------------------------------------------------
(* Control flow of the main goroutine.                                      *)

Goto(p) == pc' = p /\ result' = result

\* Return res.  runAirship removes the container on the way out (a deferred
\* call); the bootstrap code just returns.
ReturnMutant(res) == result' = res /\ pc' = "done"
Return(res) ==
    /\ result' = res
    /\ pc' = IF Generic THEN "remove" ELSE "done"

Keep == UNCHANGED <<mode, attempt, rmFailed>>

-----------------------------------------------------------------------------
(* RunCommand.                                                              *)

\* Without a container there is nothing to remove yet.
NoContainer == pc' = "done" /\ result' = "error"

ImagePull == Goto("prepare") \/ NoContainer

\* An unknown driver, a client that cannot be made, or the image is pulled.
NewContainer ==
    /\ pc = "pull"
    /\ NoContainer \/ ImagePull
    /\ Keep /\ UNCHANGED <<host, io>>

\* The function configuration and the input are put together, or are not YAML.
Prepare ==
    /\ pc = "prepare" /\ Generic
    /\ Goto("create") \/ Return("error")
    /\ Keep /\ UNCHANGED <<host, io>>

\* The bootstrap configuration needs volume, image, runtime and file name.
VerifyInputs ==
    /\ pc = "prepare" /\ ~Generic
    /\ Goto("create") \/ Return("error")
    /\ Keep /\ UNCHANGED <<host, io>>

Create ==
    /\ pc = "create"
    /\ \/ cont' = "created" /\ Goto(IF Generic THEN "attach" ELSE "start")
       \/ cont' = cont /\ Return("error")
    /\ Keep /\ UNCHANGED <<code, files, io>>

\* Only a container with input is attached to.
Attach ==
    /\ pc = "attach"
    /\ \/ conn' = "open" /\ stdin' = "copying" /\ Goto("start")
       \/ UNCHANGED <<conn, stdin>> /\ Return("error")
    /\ Keep /\ UNCHANGED <<host, logs, out>>

\* What follows a container start without input.
Started ==
    CASE mode \in {"create", "delete"} -> Goto("inspect")
      [] mode = "help" -> Goto("help")
      [] OTHER -> Return("error")

Start ==
    /\ pc = "start"
    /\ \/ cont' = "running" /\ (IF Generic THEN Goto("stdin") ELSE Started)
       \/ cont' = cont /\ (IF Generic THEN Goto("start_failed") ELSE Return("error"))
    /\ Keep /\ UNCHANGED <<code, files, io>>

\* The deferred close of the connection: the container reads end of file.
CloseConnMutant == conn' = conn
CloseConn == conn' = "closed"

\* RunCommand waits for the stdin goroutine, whether the start failed ...
StartFailed ==
    /\ pc = "start_failed" /\ stdin # "copying"
    /\ CloseConn /\ Return("error")
    /\ Keep /\ UNCHANGED <<host, stdin, logs, out>>

\* ... or not.  Then runAirship starts the log goroutine.
Stdin ==
    /\ pc = "stdin" /\ stdin # "copying"
    /\ CloseConn
    /\ IF stdin = "failed" THEN Return("error") /\ logs' = logs
       ELSE Goto("wait") /\ logs' = "following"
    /\ Keep /\ UNCHANGED <<host, stdin, out>>

-----------------------------------------------------------------------------
(* runAirship after RunCommand.                                             *)

\* WaitUntilFinished returns nil: the exit code was zero.
FinishedMutant == TRUE
Finished == code = 0

Wait ==
    /\ pc = "wait"
    /\ \/ cont = "exited" /\ Goto(IF Finished THEN "drain" ELSE "drain_failed")
       \/ Goto("drain_failed")
    /\ Keep /\ UNCHANGED <<host, io>>

\* The wait failed: its error is returned once the log goroutine has ended.
DrainFailedMutant == pc = "drain_failed" /\ Return("error") /\ Keep /\ UNCHANGED <<host, io>>
DrainFailed ==
    /\ pc = "drain_failed" /\ logs # "following"
    /\ Return("error")
    /\ Keep /\ UNCHANGED <<host, io>>

Drain ==
    /\ pc = "drain" /\ logs # "following"
    /\ IF logs = "failed" THEN Return("error") ELSE Goto("output")
    /\ Keep /\ UNCHANGED <<host, io>>

\* What the container has printed so far.
GetContainerLogs == IF cont = "exited" THEN "full" ELSE "partial"

\* The sink directory, the given writer or stdout.
writeSink(read) ==
    \/ out' = read /\ Return("ok")
    \/ out' = out /\ Return("error")

\* Read stdout from the container's logs and write it to the sink.
Output ==
    /\ pc = "output"
    /\ \/ writeSink(GetContainerLogs)
       \/ out' = out /\ Return("error")
    /\ Keep /\ UNCHANGED <<host, conn, stdin, logs>>

\* RmContainer.  In runAirship its error is only logged; without a container
\* there is no identifier and the daemon refuses.
RmContainer ==
    /\ pc = "remove"
    /\ \/ /\ cont # "none" /\ cont' = "removed" /\ rmFailed' = rmFailed
          /\ Goto(IF Generic THEN "done" ELSE "artifacts")
       \/ /\ cont' = cont /\ rmFailed' = (cont # "none")
          /\ IF Generic THEN Goto("done") ELSE pc' = "done" /\ result' = "error"
    /\ UNCHANGED <<mode, attempt, code, files, io>>

-----------------------------------------------------------------------------
(* The bootstrap container.                                                 *)

\* The polling loop makes another turn after attempt number n.
MorePolls(n) == n < MaxRetries

\* The state that the daemon reports.
InspectContainer(status) == cont = status

\* One turn of WaitUntilContainerExitsOrTimesout.
Inspect ==
    /\ pc = "inspect"
    /\ \/ Return("error") /\ attempt' = attempt
       \/ /\ InspectContainer("exited") /\ attempt' = attempt
          /\ IF code > 0 THEN Return("error") ELSE Goto("remove")
       \/ /\ InspectContainer("running")
          /\ IF MorePolls(attempt) THEN Goto("inspect") /\ attempt' = attempt + 1
             ELSE Return("retries") /\ attempt' = attempt
    /\ UNCHANGED <<mode, rmFailed, host, io>>

\* help: help.txt is read and deleted without waiting for the container.
Help ==
    /\ pc = "help"
    /\ \/ help /\ help' = FALSE /\ Goto("remove")
       \/ help' = help /\ Return("error")
    /\ Keep /\ UNCHANGED <<cont, code, artifact, io>>

\* VerifyArtifacts, whatever the command was.
Artifacts ==
    /\ pc = "artifacts"
    /\ Return(IF artifact THEN "ok" ELSE "error")
    /\ Keep /\ UNCHANGED <<host, io>>

-----------------------------------------------------------------------------
(* The other parties.                                                       *)

\* The stdin goroutine ends: everything is written, or the connection broke.
StdinEnds ==
    /\ stdin = "copying"
    /\ stdin' \in {"copied", "failed"}
    /\ Keep /\ UNCHANGED <<pc, host, conn, logs, out, result>>

\* The log goroutine ends: with the container, or because a call failed.
LogsEnd ==
    /\ logs = "following"
    /\ (cont = "exited" /\ logs' = "ok") \/ logs' = "failed"
    /\ Keep /\ UNCHANGED <<pc, host, conn, stdin, out, result>>

\* The container exits (external).  A bootstrap container may write help.txt and
\* write or remove the file the artifact check looks for.
ContainerExits ==
    /\ cont = "running" /\ cont' = "exited"
    /\ code' \in {0, 1}
    /\ IF Generic THEN UNCHANGED files
       ELSE help' \in {help, TRUE} /\ artifact' \in BOOLEAN
    /\ Keep /\ UNCHANGED <<pc, io, result>>

Main ==
    \/ NewContainer \/ Prepare \/ VerifyInputs \/ Create \/ Attach \/ Start \/ StartFailed \/ Stdin
    \/ Wait \/ DrainFailed \/ Drain \/ Output \/ RmContainer
    \/ Inspect \/ Help \/ Artifacts

\* The run has returned.
Done == pc = "done" /\ UNCHANGED vars

Next == Main \/ StdinEnds \/ LogsEnd \/ ContainerExits \/ Done

Spec == Init /\ [][Next]_vars

\* Assumed of the container and the daemon: a container whose input has ended
\* exits; one that was started reads its input; a connection to a container that
\* did not start is closed; the log stream ends with the container.
FairSpec ==
    /\ Spec
    /\ WF_vars(Main)
    /\ WF_vars(ContainerExits /\ (conn = "closed" \/ ~Generic))
    /\ WF_vars(StdinEnds /\ (cont # "created" \/ pc = "start_failed"))
    /\ WF_vars(LogsEnd /\ cont # "running")

-----------------------------------------------------------------------------
(* Properties.                                                              *)

\* A run that returns nil is one whose container ended with exit code zero, after
\* all of the input was written, all of its stderr logged and all of its stdout
\* read (pkg/container/api.go:117); a bootstrap that returns nil ended with exit
\* code zero too, and its artifact is there (pkg/bootstrap/ephemeral/command.go:187).
SuccessIsReal ==
    (pc = "done" /\ result = "ok") =>
        /\ Generic => /\ code = 0 /\ cont \in {"exited", "removed"}
                      /\ stdin = "copied" /\ logs = "ok" /\ out = "full"
        /\ mode \in {"create", "delete"} => code = 0
        /\ ~Generic => cont = "removed"
        /\ mode \in {"create", "delete"} => artifact

\* However a generic container run ends, no container is left on the host unless
\* the daemon refuses to remove it (the deferred RmContainer, api.go:134).
NoContainerLeft ==
    (pc = "done" /\ Generic) => cont \in {"none", "removed"} \/ rmFailed

\* No goroutine outlives the run: a late one would write to the log, or read the
\* input, of the next phase (api.go:199, container_docker.go:306).
NoGoroutineLeft == pc = "done" => stdin # "copying" /\ logs # "following"

\* Every run returns: nobody waits for somebody who waits for him.  The container
\* waits for the end of its input, the main goroutine for the container.
RunEnds == <>(pc = "done")

=============================================================================
