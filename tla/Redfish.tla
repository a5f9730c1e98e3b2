------------------------------ MODULE Redfish ------------------------------
(***************************************************************************)
(* One airshipctl process driving one baseboard management controller      *)
(* (BMC) over Redfish: pkg/remote/redfish and its Dell variant.            *)
(*                                                                         *)
(* The client is sequential, so its state is a program counter at the next *)
(* HTTP request.  Every request is one step: the BMC handles it (or not),  *)
(* and the client acts on the reply.  Between two requests the BMC moves   *)
(* on its own (power transitions, slow ejection), somebody else may use    *)
(* the power button, and the context deadline may pass.                    *)
(***************************************************************************)
EXTENDS Integers

CONSTANTS
    N,                    \* virtual media devices the manager lists, in order 1..N
    CDMedia,              \* the devices whose MediaTypes hold "CD" or "DVD"
    SystemActionRetries,  \* management configuration: systemActionRetries
    Dell,                 \* TRUE for client type redfish-dell
    ClientErrs,           \* may go-redfish return an error with a 2xx reply?
    CDBootable,           \* the system allows the virtual CD as boot source
    ISO, NoISO,           \* an image URL and the empty --iso-url
    OldImage, NoImage,    \* an image left in a device, and an empty device
    MaxOps,               \* bound: operations of one history
    MaxOutside            \* bound: uses of the power button

ASSUME NAssumption == N \in Nat /\ CDMedia \subseteq 1..N
ASSUME RetriesAssumption == SystemActionRetries \in Nat
ASSUME FlagsAssumption ==
    Dell \in BOOLEAN /\ ClientErrs \in BOOLEAN /\ CDBootable \in BOOLEAN
ASSUME ImageAssumption ==
    /\ ISO # NoISO /\ ISO # NoImage /\ ISO # OldImage /\ OldImage # NoImage
    /\ NoISO # NoImage
ASSUME BoundAssumption == MaxOps \in Nat /\ MaxOutside \in Nat

VARIABLES
    \* the BMC and its host
    power,       \* Redfish PowerState
    media,       \* media[m]: the image in device m
    ejecting,    \* devices with an accepted ejection not yet carried out
    bootCD,      \* BootSourceOverrideTarget is the virtual CD
    bootJob,     \* an accepted iDRAC job that will set it
    booted,      \* what the running host booted from
    \* the client
    op, iso,     \* operation and its --iso-url
    pc,          \* next request
    stage,       \* caller of GetVirtualMediaID
    mi,          \* index into the media collection
    retry,       \* loop counter of the two polling loops
    target,      \* device SetVirtualMedia chose
    result,      \* what the operation returned
    expired,     \* the context deadline has passed
    \* observers
    wasOff,      \* the host was off at some moment of this operation
    clean,       \* every reply of this operation was a 2xx
    misread,     \* a client error with a 2xx reply was taken for a failure
    misled,      \* a 409 came to ForceOff although the host was not off
    ops, outside

bmcVars == <<power, media, ejecting, bootCD, bootJob, booted>>
locals  == <<stage, mi, retry, target>>
replyVars == <<clean, misread, misled>>
boundVars == <<ops, outside>>
vars == <<power, media, ejecting, bootCD, bootJob, booted, op, iso, pc, stage, mi, retry,
          target, result, expired, wasOff, clean, misread, misled, ops, outside>>

Ops == {"eject", "reboot", "poweroff", "poweron", "powerstatus", "remotedirect"}
PowerStates == {"On", "Off", "PoweringOn", "PoweringOff"}
Images == {ISO, OldImage, NoImage}
Nothing == "nothing"
Disk == "disk"

Requests == {"status", "reset_off", "wait_off", "reset_on", "wait_on",
             "eject_mgr", "eject_list", "eject_get", "eject_req", "eject_wait",
             "vm_mgr", "vm_list", "vm_get", "insert_mgr", "insert",
             "boot_sys", "boot_set", "dell_mgr", "dell_post"}

TypeOK ==
    /\ power \in PowerStates
    /\ media \in [1..N -> Images]
    /\ ejecting \subseteq 1..N
    /\ bootCD \in BOOLEAN /\ bootJob \in BOOLEAN
    /\ booted \in {ISO, OldImage, Nothing, Disk}
    /\ op \in Ops /\ iso \in {ISO, NoISO}
    /\ pc \in Requests \cup {"idle"}
    /\ stage \in {"media", "boot"}
    /\ mi \in (1..N) \cup {1} /\ retry \in Nat /\ target \in 0..N
    /\ result \in {"none", "running", "ok", "error", "retries", "panic"}
    /\ expired \in BOOLEAN /\ wasOff \in BOOLEAN
    /\ clean \in BOOLEAN /\ misread \in BOOLEAN /\ misled \in BOOLEAN
    /\ ops \in 0..MaxOps /\ outside \in 0..MaxOutside

Init ==
    /\ power \in {"On", "Off"}
    /\ media \in [1..N -> {OldImage, NoImage}]
    /\ ejecting = {}
    /\ bootCD = FALSE /\ bootJob = FALSE
    /\ booted = IF power = "On" THEN Disk ELSE Nothing
    /\ op = "powerstatus" /\ iso = NoISO
    /\ pc = "idle" /\ stage = "media" /\ mi = 1 /\ retry = 0 /\ target = 0
    /\ result = "none" /\ expired = FALSE
    /\ wasOff = FALSE /\ clean = TRUE /\ misread = FALSE /\ misled = FALSE
    /\ ops = 0 /\ outside = 0

-----------------------------------------------------------------------------
(* Replies.  "ok": 200 or 204 and no client error; "okErr": 200 or 204, the *)
(* data of the reply, and a non-nil client error; "conflict": 409 to a       *)
(* ForceOff; "err": any other status; "none": no HTTP response (lost         *)
(* request, lost reply, expired context).                                    *)

Replies == {"ok", "err", "none"} \cup (IF ClientErrs THEN {"okErr"} ELSE {})
Success == {"ok", "okErr"}

\* The replies for which ScreenRedfishError returns nil, and those accepted by
\* the callers that look at the client error alone: getManagerID, and
\* SetBootSourceByType for the system.
ScreenedMutant == {"ok"}
Screened == Success
NoClientErr == {"ok"}
ClientErrRequests == {"eject_mgr", "insert_mgr", "boot_sys"}

\* The reply r reaches the client: after the deadline every request fails.
Receive(r) ==
    /\ expired => r = "none"
    /\ clean' = (clean /\ r \in Success)
    /\ misread' = (misread \/ (r = "okErr" /\ pc \in ClientErrRequests))
    /\ misled' = (misled \/ (r = "conflict" /\ power # "Off"))

-----------------------------------------------------------------------------
(* Control flow of the client.                                              *)

Return(res) ==
    /\ pc' = "idle" /\ result' = res
    /\ UNCHANGED <<op, iso, stage, mi, retry, target>>

\* Go on with request p, the local variables as they are.
Goto(p) ==
    /\ pc' = p
    /\ UNCHANGED <<op, iso, stage, mi, retry, target, result>>

\* Enter a polling loop at p.
Loop(p) ==
    /\ pc' = p /\ retry' = 0
    /\ UNCHANGED <<op, iso, stage, mi, target, result>>

\* A polling loop at p saw the old state; more: it makes another turn.
NextPollMutant(p, more) ==
    /\ retry' = (retry + 1) % SystemActionRetries
    /\ IF more THEN pc' = p /\ result' = result
       ELSE pc' = "idle" /\ result' = "retries"
    /\ UNCHANGED <<op, iso, stage, mi, target>>
NextPoll(p, more) ==
    /\ retry' = retry + 1
    /\ IF more THEN pc' = p /\ result' = result
       ELSE pc' = "idle" /\ result' = "retries"
    /\ UNCHANGED <<op, iso, stage, mi, target>>

\* RemoteDirect, once the host is taken to be off: the --iso-url check.
SkipEjectMutant == IF iso = NoISO THEN Return("error") ELSE Goto("vm_mgr")
MediaOrMissingISO == IF iso = NoISO THEN Return("error") ELSE Goto("eject_mgr")

\* SystemPowerOff returned nil.
PoweredOff ==
    IF op = "remotedirect" THEN MediaOrMissingISO ELSE Return("ok")

\* EjectVirtualMedia returned nil; SetVirtualMedia goes on to GetVirtualMediaID.
Ejected ==
    IF op = "eject" THEN Return("ok")
    ELSE /\ pc' = "vm_mgr" /\ stage' = "media"
         /\ UNCHANGED <<op, iso, mi, retry, target, result>>

\* Next turn of the loop over the media collection, which goes on at p.
NextMedia(p) ==
    /\ pc' = p /\ mi' = mi + 1
    /\ UNCHANGED <<op, iso, stage, retry, target, result>>

\* Start of a loop over the media collection at p.
FirstMedia(p) ==
    /\ pc' = p /\ mi' = 1
    /\ UNCHANGED <<op, iso, stage, retry, target, result>>

\* A request that reads from the BMC.
Read(p) == pc = p /\ UNCHANGED <<bmcVars, expired, wasOff, boundVars>>

\* A request that changes the BMC: effect is the BMC's next state.  With no
\* reply the request may or may not have been carried out.
Write(p, r, effect) ==
    /\ pc = p
    /\ IF r \in Success \/ (r = "none" /\ ~expired)
       THEN effect \/ (r = "none" /\ UNCHANGED bmcVars)
       ELSE UNCHANGED bmcVars
    /\ wasOff' = (wasOff \/ power' = "Off")
    /\ UNCHANGED <<expired, boundVars>>

-----------------------------------------------------------------------------
(* Power.                                                                   *)

\* The BMC carries out ForceOff (external).
ForceOff ==
    /\ power' \in (IF power = "Off" THEN {"Off"} ELSE {"PoweringOff", "Off"})
    /\ booted' = IF power' = "Off" THEN Nothing ELSE booted
    /\ UNCHANGED <<media, ejecting, bootCD, bootJob>>

\* The BMC carries out On (external); it refuses while powering off.
PowerOn ==
    /\ power # "PoweringOff"
    /\ power' = IF power = "Off" THEN "PoweringOn" ELSE power
    /\ UNCHANGED <<media, ejecting, bootCD, bootJob, booted>>

\* RemoteDirect does not power off a host with status seen.
TakenForOffMutant(seen) == seen # "On"
TakenForOff(seen) == seen = "Off"

\* SystemPowerStatus, alone and as the first step of RemoteDirect.  A reply
\* without PowerState is the status Unknown.
SystemPowerStatus ==
    /\ Read("status")
    /\ \E r \in Replies, seen \in {power, "Unknown"} :
         /\ Receive(r)
         /\ IF r \notin Screened THEN Return("error")
            ELSE IF op = "powerstatus" THEN Return("ok")
            ELSE IF TakenForOff(seen) THEN MediaOrMissingISO
            ELSE Goto("reset_off")

\* What a 409 answer to ForceOff means, whatever the host does: "already powered
\* off" for SystemPowerOff, an error for RebootSystem.
OffConflict == IF op = "reboot" THEN Return("error") ELSE PoweredOff

\* ForceOff was accepted: wait until the host is off.
OffAcceptedMutant == IF op = "reboot" THEN Goto("reset_on") ELSE PoweredOff
OffAccepted == Loop("wait_off")

\* ForceOff sent by SystemPowerOff or RebootSystem.
ResetOff ==
    \/ \E r \in Replies :
         /\ Write("reset_off", r, ForceOff)
         /\ Receive(r)
         /\ IF r \in Screened THEN OffAccepted ELSE Return("error")
    \/ /\ Write("reset_off", "conflict", FALSE)
       /\ Receive("conflict")
       /\ OffConflict

\* The power loop makes another turn after turn number n.
PollsPower(n) == n <= SystemActionRetries

\* One turn of waitForPowerState(state); Then is what its caller does next.
waitForPowerState(p, state, Then) ==
    /\ Read(p)
    /\ \E r \in Replies, seen \in {power, "Unknown"} :
         /\ Receive(r)
         /\ IF r \notin Screened THEN Return("error")
            ELSE IF seen = state THEN Then
            ELSE NextPoll(p, PollsPower(retry + 1))

WaitOff == waitForPowerState("wait_off", "Off",
             IF op = "reboot" THEN Goto("reset_on") ELSE PoweredOff)

\* The On request of SystemPowerOn, RebootSystem and RemoteDirect.
ResetOn ==
    \E r \in Replies :
      /\ Write("reset_on", r, PowerOn)
      /\ Receive(r)
      /\ IF r \in Screened THEN Loop("wait_on") ELSE Return("error")

WaitOn == waitForPowerState("wait_on", "On", Return("ok"))

-----------------------------------------------------------------------------
(* Virtual media.                                                           *)

\* A GET whose caller goes on with Then when it accepts the reply.
Get(p, accepted, Then) ==
    /\ Read(p)
    /\ \E r \in Replies :
         /\ Receive(r)
         /\ IF r \in accepted THEN Then ELSE Return("error")

EjectManager == Get("eject_mgr", NoClientErr, Goto("eject_list"))
EjectList == Get("eject_list", Screened,
                 IF N = 0 THEN Ejected ELSE FirstMedia("eject_get"))

\* The device at hand holds no image: on to the next one.
MediaEmpty == IF mi = N THEN Ejected ELSE NextMedia("eject_get")

EjectGet == Get("eject_get", Screened,
                IF media[mi] # NoImage THEN Goto("eject_req") ELSE MediaEmpty)

\* The BMC accepts an eject request (external): at once, or later on.
EjectMedia ==
    /\ \/ media' = [media EXCEPT ![mi] = NoImage] /\ ejecting' = ejecting \ {mi}
       \/ /\ media[mi] # NoImage
          /\ media' = media /\ ejecting' = ejecting \cup {mi}
    /\ UNCHANGED <<power, bootCD, bootJob, booted>>

\* The eject loop makes another turn after turn number n.
PollsEject(n) == n < SystemActionRetries

\* The ejection is accepted: wait for it, unless the loop makes no turn at all.
EjectAcceptedMutant == MediaEmpty
EjectAccepted ==
    IF PollsEject(0) THEN Loop("eject_wait")
    ELSE /\ pc' = "idle" /\ result' = "retries" /\ retry' = 0
         /\ UNCHANGED <<op, iso, stage, mi, target>>

EjectRequest ==
    \E r \in Replies :
      /\ Write("eject_req", r, EjectMedia)
      /\ Receive(r)
      /\ IF r \notin Screened THEN Return("error")
         ELSE EjectAccepted

\* One turn of waitForEjectMedia.
EjectWait ==
    Get("eject_wait", Screened,
        IF media[mi] = NoImage THEN MediaEmpty
        ELSE NextPoll("eject_wait", PollsEject(retry + 1)))

\* GetVirtualMediaID: the first device of type CD or DVD.
MediaManager == Get("vm_mgr", Screened, Goto("vm_list"))
MediaList == Get("vm_list", Screened,
                 IF N = 0 THEN Return("error") ELSE FirstMedia("vm_get"))

\* GetVirtualMediaID returned: to SetVirtualMedia or to SetBootSourceByType.
MediaFound ==
    IF stage = "media"
    THEN /\ pc' = "insert_mgr" /\ target' = mi
         /\ UNCHANGED <<op, iso, stage, mi, retry, result>>
    ELSE Goto("boot_sys")

\* The device at hand is of another type: try the next one, if any.
MediaSkipped == IF mi = N THEN Return("error") ELSE NextMedia("vm_get")

MediaGet == Get("vm_get", Screened,
                IF mi \in CDMedia THEN MediaFound ELSE MediaSkipped)

InsertManager == Get("insert_mgr", NoClientErr, Goto("insert"))

\* The BMC inserts the image (external).
InsertMedia ==
    /\ media' = [media EXCEPT ![target] = iso]
    /\ UNCHANGED <<power, ejecting, bootCD, bootJob, booted>>

\* SetVirtualMedia returned nil: RemoteDirect goes on to SetBootSourceByType.
AfterInsertMutant == "reset_on"
AfterInsert == IF Dell THEN "dell_mgr" ELSE "vm_mgr"

InsertVirtualMedia ==
    \E r \in Replies :
      /\ Write("insert", r, InsertMedia)
      /\ Receive(r)
      /\ IF r \in Screened
         THEN /\ pc' = AfterInsert
              /\ stage' = "boot"
              /\ UNCHANGED <<op, iso, mi, retry, target, result>>
         ELSE Return("error")

-----------------------------------------------------------------------------
(* Boot source.                                                             *)

\* The system lists the boot sources it allows; the virtual CD may be missing.
BootSystem == Get("boot_sys", NoClientErr,
                  IF CDBootable THEN Goto("boot_set") ELSE Return("error"))

SetBootSource ==
    /\ bootCD' = TRUE
    /\ UNCHANGED <<power, media, ejecting, bootJob, booted>>

SetBootSourceByType ==
    \E r \in Replies :
      /\ Write("boot_set", r, SetBootSource)
      /\ Receive(r)
      /\ IF r \in Screened THEN Goto("reset_on") ELSE Return("error")

DellManager == Get("dell_mgr", Screened, Goto("dell_post"))

AcceptJob == bootJob' = TRUE /\ UNCHANGED <<power, media, ejecting, bootCD, booted>>

\* The Dell client's own POST.  It has no context, so the deadline does not
\* end it; the response is read before the error is looked at.
DellSetBootSource ==
    \E r \in {"ok", "err", "none"} :
      /\ pc = "dell_post"
      /\ IF r = "err" THEN UNCHANGED bmcVars
         ELSE AcceptJob \/ (r = "none" /\ UNCHANGED bmcVars)
      /\ clean' = (clean /\ r = "ok")
      /\ UNCHANGED <<misread, misled>>
      /\ CASE r = "ok"   -> Goto("reset_on")
           [] r = "err"  -> Return("error") \/ Return("panic")
           [] r = "none" -> Return("panic")
      /\ UNCHANGED <<expired, wasOff, boundVars>>

-----------------------------------------------------------------------------
(* The command, the BMC's own steps and the world around them.              *)

Entry(o) ==
    CASE o = "eject" -> "eject_mgr"
      [] o \in {"reboot", "poweroff"} -> "reset_off"
      [] o = "poweron" -> "reset_on"
      [] OTHER -> "status"

\* A command calls operation o; a command that failed may be given again.
Begin(o, i) ==
    /\ pc = "idle" /\ ops < MaxOps
    /\ i = ISO => o = "remotedirect"
    /\ op' = o /\ iso' = i /\ pc' = Entry(o) /\ result' = "running"
    /\ stage' = "media" /\ mi' = 1 /\ retry' = 0 /\ target' = 0
    /\ expired' = FALSE /\ wasOff' = (power = "Off") 
    /\ clean' = TRUE /\ misread' = FALSE /\ misled' = FALSE
    /\ ops' = ops + 1
    /\ UNCHANGED <<bmcVars, outside>>

\* context.WithTimeout fires.
CtxExpires ==
    /\ pc # "idle" /\ ~expired /\ expired' = TRUE
    /\ UNCHANGED <<bmcVars, op, iso, pc, locals, result, wasOff, replyVars, boundVars>>

clientVars == <<op, iso, pc, locals, result, expired, replyVars, ops>>

\* The images a booting host can find in a virtual CD drive.
CDImages == {media[m] : m \in CDMedia} \ {NoImage}

\* A power transition ends; a host that comes up boots from the virtual CD if
\* it is told to and one is there.
PowerSettles ==
    /\ \/ /\ power = "PoweringOff" /\ power' = "Off" /\ booted' = Nothing
       \/ /\ power = "PoweringOn" /\ power' = "On"
          /\ booted' \in (IF bootCD /\ CDImages # {} THEN CDImages ELSE {Disk})
    /\ wasOff' = (wasOff \/ power' = "Off")
    /\ UNCHANGED <<media, ejecting, bootCD, bootJob, clientVars, outside>>

\* An ejection accepted earlier, by an operation that may have given up waiting
\* for it since, takes effect.
EjectSettles(m) ==
    /\ m \in ejecting
    /\ media' = [media EXCEPT ![m] = NoImage] /\ ejecting' = ejecting \ {m}
    /\ UNCHANGED <<power, bootCD, bootJob, booted, wasOff, clientVars, outside>>

\* The iDRAC runs the accepted job.
JobSettles ==
    /\ bootJob /\ bootJob' = FALSE /\ bootCD' = TRUE
    /\ UNCHANGED <<power, media, ejecting, booted, wasOff, clientVars, outside>>

\* Somebody else uses the power button.
PowerButton ==
    /\ outside < MaxOutside /\ outside' = outside + 1
    /\ \/ power = "On" /\ power' = "PoweringOff"
       \/ power = "Off" /\ power' = "PoweringOn"
    /\ UNCHANGED <<media, ejecting, bootCD, bootJob, booted, wasOff, clientVars>>

\* Requests that carry the context: they end at the latest with the deadline.
ContextRequest ==
    \/ SystemPowerStatus \/ ResetOff \/ WaitOff \/ ResetOn \/ WaitOn
    \/ EjectManager \/ EjectList \/ EjectGet \/ EjectRequest \/ EjectWait
    \/ MediaManager \/ MediaList \/ MediaGet \/ InsertManager \/ InsertVirtualMedia
    \/ BootSystem \/ SetBootSourceByType \/ DellManager

BMCStep ==
    \/ PowerSettles \/ JobSettles \/ PowerButton
    \/ \E m \in 1..N : EjectSettles(m)

\* Every command of this history has ended.
Finished == pc = "idle" /\ ops = MaxOps /\ UNCHANGED vars

Next ==
    \/ \E o \in Ops, i \in {ISO, NoISO} : Begin(o, i)
    \/ ContextRequest \/ DellSetBootSource \/ CtxExpires \/ BMCStep \/ Finished

Spec == Init /\ [][Next]_vars

\* The deadline is a timer, and a request that carries the context returns.
FairSpec == Spec /\ WF_vars(ContextRequest)

-----------------------------------------------------------------------------
(* Properties.                                                              *)

\* Nobody used the power button, and the BMC answered 409 only for a host that
\* was off.
Undisturbed == outside = 0 /\ ~misled

\* RemoteDirect (client.go:321) reports success only for a host that was off
\* during the operation, is running the image it was given, and has no other
\* image inserted - unless somebody else used the power button or a 409 was
\* wrongly taken for "already powered off" (client.go:255).
RemoteDirectBootsISO ==
    (op = "remotedirect" /\ result = "ok" /\ Undisturbed) =>
        /\ wasOff /\ power = "On" /\ booted = iso
        /\ \A m \in 1..N : media[m] # NoImage => m = target

\* Once the host is off, a RemoteDirect in progress, one that fails half-way
\* included, never lets it boot anything but the new image: media and boot
\* source are set before the On request is sent.
NoEarlyBoot ==
    [][(/\ op = "remotedirect" /\ wasOff /\ outside' = 0
        /\ power = "PoweringOn" /\ power' = "On") => booted' = iso]_vars

\* The weaker promise of the Dell client, whose boot source is set by a job:
\* a RemoteDirect never boots an image left over from before it.
NoOldImageBoot ==
    [][(/\ op = "remotedirect" /\ wasOff /\ outside' = 0
        /\ power = "PoweringOn" /\ power' = "On") => booted' \in {iso, Disk}]_vars

\* EjectVirtualMedia (client.go:73) succeeds only when every device is empty,
\* however slowly the BMC ejects.
EjectedAll ==
    (op = "eject" /\ result = "ok") => \A m \in 1..N : media[m] = NoImage

\* RebootSystem succeeds only for a host that really went off and came back;
\* SystemPowerOff and SystemPowerOn only in the state they promise.  Its one
\* exception besides the power button is the 409 shortcut of SystemPowerOff, for
\* a BMC that answers 409 though the host is not off.
PowerPromise ==
    /\ (op = "reboot" /\ result = "ok") => wasOff
    /\ (result = "ok" /\ outside = 0) =>
         /\ op \in {"reboot", "poweron"} => power = "On"
         /\ (op = "poweroff" /\ ~misled) => power = "Off"

\* The operation is a RemoteDirect that cannot be done: no --iso-url, no CD or
\* DVD drive, or none the system can boot from.
Impossible == op = "remotedirect" /\ (iso = NoISO \/ CDMedia = {} \/ ~CDBootable)

\* An operation fails only for a reason, also when go-redfish adds an error to a
\* successful reply: "the HTTP status code is the most reliable way to determine
\* the result" (utils.go:201).  A reply other than a 2xx, something that cannot be
\* done, or the one exception: the requests of getManagerID (utils.go:256) and for
\* the allowed boot sources (client.go:180), which take the added error for a
\* failure.
FailureHasCause ==
    result = "error" => ~clean \/ misread \/ Impossible

\* What the comment says without the exception; the code does not keep it.
StatusDecides == result = "error" => ~clean \/ Impossible

\* PowerPromise without the exception for a misleading 409; the code does not
\* keep it.
OffMeansOff == (op = "poweroff" /\ result = "ok" /\ outside = 0) => power = "Off"

\* A request that gets no answer is an error the operation returns, never a
\* crash of the program.
NoCrash == result # "panic"

\* Every operation ends, whatever the BMC does, at the latest some time after
\* its deadline: "timeout on bare metal action" (cmd/baremetal/baremetal.go:47).
OperationEnds == (pc # "idle") ~> (pc = "idle")

\* The state the running or the last operation asks for, as far as nobody else
\* used the power button and no 409 misled the client.
Reached ==
    CASE op = "eject"        -> \A m \in 1..N : media[m] = NoImage
      [] op = "poweroff"     -> power = "Off" \/ ~Undisturbed
      [] op = "poweron"      -> power = "On" \/ outside > 0
      [] op = "reboot"       -> wasOff /\ (power = "On" \/ outside > 0)
      [] op = "remotedirect" -> (wasOff /\ power = "On" /\ booted = iso) \/ ~Undisturbed
      [] OTHER               -> TRUE

Abstract == INSTANCE HostOp WITH
    status <- CASE pc # "idle" -> "running"
                [] pc = "idle" /\ result = "none" -> "idle"
                [] pc = "idle" /\ result = "ok" -> "ok"
                [] OTHER -> "failed",
    goal <- Reached

\* The Redfish client implements what the inventory (baremetal.go:116) relies
\* on: an operation reports success only with the host in the state asked for,
\* and never once its deadline has passed.
ImplementsHostOp == Abstract!Spec

=============================================================================
