-------------------------------- MODULE Site --------------------------------
(***************************************************************************)
(* Phases and plans that work on bare metal hosts: the composition of      *)
(* Phases and Inventory.  A phase with a BaremetalManager executor gives   *)
(* the inventory a command, waits for it and returns what it returned; the *)
(* hosts can be operated from the command line as well.                    *)
(***************************************************************************)
EXTENDS Inventory, Phases

siteVars == <<vars, phVars>>

SiteInit == Init /\ PhInit

BareMetal(doc) == doc # NoValue /\ doc.kind = "BaremetalManager"

\* Only runs reach the inventory; a render or a validation does not.
Runs == req.verb \in {"phase run", "plan run"}

PhaseStarts ==
    /\ StartPhase
    /\ IF ppc' = "running" /\ BareMetal(exec') /\ Runs
       THEN Begin(toCommandOptions(exec', req.dry)) ELSE UNCHANGED vars

\* The executor returns: BaremetalManager what its command returned.
PhaseEnds ==
    /\ pc = "idle"
    /\ \E ok \in IF BareMetal(exec) /\ Runs THEN {result = "ok"} ELSE BOOLEAN : EndPhase(ok)
    /\ UNCHANGED vars

PhaseStep == NewHelper \/ PlanDone

HostStep ==
    \/ Run \/ Validate \/ BaremetalInventory \/ SelectBatch \/ SelectSingle \/ ListHosts
    \/ BeginHost

\* A bare metal command is given by hand, or a phase command.  To bound the
\* histories, one with bare metal commands by hand has no phase commands.
GivenByHand(c) ==
    requests = 0 /\ commands < MaxCommands /\ Begin(c)
Requested(c) ==
    (requests = 0 => commands = 0) /\ pc = "idle" /\ Request(c) /\ UNCHANGED vars

SiteFinished ==
    /\ pc = "idle" /\ ppc = "idle"
    /\ requests = MaxRequests \/ (requests = 0 /\ commands = MaxCommands)
    /\ UNCHANGED siteVars

SiteNext ==
    \/ \E c \in Requests : Requested(c)
    \/ (PhaseStep \/ Edit) /\ UNCHANGED vars
    \/ PhaseStarts \/ PhaseEnds
    \/ /\ \/ \E c \in Commands : GivenByHand(c)
          \/ HostStep \/ HostWorks \/ HostSucceeds \/ HostFails \/ CtxExpires
       /\ UNCHANGED phVars
    \/ SiteFinished

\* An operation that ends by itself (Redfish!OperationEnds): the boot source request of
\* the Dell client has no deadline.
HostEnds == (HostSucceeds \/ HostFails) /\ (remoteType = "redfish-dell" => cmd.op # "remote-direct")

\* The program runs on, an operation on a host ends, and with it the phase that gave it.
\* Nothing is assumed of the other executors, of a render or a validation.
SiteSpec ==
    /\ SiteInit /\ [][SiteNext]_siteVars
    /\ WF_siteVars(PhaseStep /\ UNCHANGED vars) /\ WF_siteVars(PhaseStarts)
    /\ WF_siteVars(PhaseEnds /\ BareMetal(exec) /\ Runs)
    /\ WF_siteVars(HostStep /\ UNCHANGED phVars) /\ WF_siteVars(HostEnds /\ UNCHANGED phVars)

-----------------------------------------------------------------------------
\* The program waits for something without a deadline: an executor that is not bare
\* metal, or the iDRAC.
WaitsElsewhere ==
    \/ ppc = "running" /\ ~(BareMetal(exec) /\ Runs)
    \/ pc = "busy" /\ remoteType = "redfish-dell" /\ cmd.op = "remote-direct"

\* Every phase, plan and bare metal command ends, also when hosts fail or do not answer
\* and the manifests are edited meanwhile, or comes to wait for something that has no
\* deadline: what it does with hosts never keeps it (baremetal.go:116, client.go:277).
CommandEnds ==
    (pc # "idle" \/ ppc # "idle") ~> ((pc = "idle" /\ ppc = "idle") \/ WaitsElsewhere)

=============================================================================
