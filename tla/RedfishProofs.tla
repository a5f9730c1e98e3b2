--------------------------- MODULE RedfishProofs ---------------------------
(***************************************************************************)
(* Proofs about Redfish, for any number of media devices, any retry count, *)
(* any number of operations and any use of the power button: what holds,   *)
(* that either client implements HostOp, and that an operation ends.       *)
(***************************************************************************)
EXTENDS Redfish, TLAPS

EjectRequests == {"eject_mgr", "eject_list", "eject_get", "eject_req", "eject_wait"}
MediaRequests == {"vm_mgr", "vm_list", "vm_get", "insert_mgr", "insert",
                  "boot_sys", "boot_set", "dell_mgr", "dell_post"}

\* Which operation is under way at which request, and what the loop index and
\* the chosen device are there.
ControlInv ==
    /\ pc # "idle" => result = "running"
    /\ pc = "status" => op \in {"powerstatus", "remotedirect"}
    /\ pc \in {"reset_off", "wait_off"} => op \in {"reboot", "poweroff", "remotedirect"}
    /\ pc \in {"reset_on", "wait_on"} =>
         \/ op \in {"reboot", "poweron"}
         \/ op = "remotedirect" /\ iso = ISO
    /\ pc \in EjectRequests => op = "eject" \/ (op = "remotedirect" /\ iso = ISO)
    /\ pc \in MediaRequests => op = "remotedirect" /\ iso = ISO
    /\ pc \in {"eject_get", "eject_req", "eject_wait", "vm_get"} => mi \in 1..N
    /\ pc \in {"insert_mgr", "insert"} => target \in CDMedia /\ stage = "media"
    /\ pc \in {"dell_mgr", "dell_post"} => Dell

\* A pending ejection is for a device that still holds its image.
PendingInv == \A m \in ejecting : media[m] # NoImage

AllEmpty == \A m \in 1..N : media[m] = NoImage

\* The new image is in the device RemoteDirect chose and in no other.
OnlyNewImage ==
    /\ target \in CDMedia /\ media[target] = iso
    /\ \A m \in 1..N : media[m] # NoImage => m = target
    /\ ejecting = {}

\* The eject loop has emptied the devices before mi; SetVirtualMedia starts
\* from empty devices, SetBootSourceByType with the new image inserted.
MediaInv ==
    /\ pc \in {"eject_get", "eject_req", "eject_wait"} =>
         \A m \in 1..N : m < mi => media[m] = NoImage
    /\ (pc \in {"vm_mgr", "vm_list", "vm_get"} /\ stage = "media") => AllEmpty
    /\ pc \in {"insert_mgr", "insert"} => AllEmpty
    /\ (pc \in {"vm_mgr", "vm_list", "vm_get"} /\ stage = "boot") => OnlyNewImage
    /\ pc \in {"boot_sys", "boot_set", "dell_mgr", "dell_post"} => OnlyNewImage
    /\ (pc \in {"reset_on", "wait_on"} /\ op = "remotedirect") => OnlyNewImage
    /\ (op = "remotedirect" /\ result = "ok") => OnlyNewImage
    /\ (op = "eject" /\ result = "ok") => AllEmpty

\* The On request of RemoteDirect is the only way the host leaves Off, and it is
\* sent with the new image inserted and the virtual CD as boot source.
Ready == OnlyNewImage /\ bootCD /\ pc \in {"wait_on", "idle"}

PowerInv ==
    /\ (/\ op = "remotedirect" /\ Undisturbed
        /\ pc \in EjectRequests \cup MediaRequests \cup {"reset_on"})
       => power = "Off" /\ wasOff
    /\ (op = "remotedirect" /\ pc \in {"reset_on", "wait_on"}) => bootCD
    /\ (op = "remotedirect" /\ wasOff /\ outside = 0) =>
         \/ power = "Off"
         \/ power = "PoweringOn" /\ Ready
         \/ power = "On" /\ Ready /\ booted = iso
    /\ (op = "remotedirect" /\ pc = "wait_on" /\ Undisturbed) => wasOff
    /\ (op = "remotedirect" /\ result = "ok" /\ Undisturbed) => wasOff /\ power = "On"

\* What keeps the host off, of both clients: until the On request is sent a
\* RemoteDirect leaves the host off, and from then on only the new image is there.
HeldInv ==
    /\ (/\ op = "remotedirect" /\ Undisturbed
        /\ pc \in EjectRequests \cup MediaRequests \cup {"reset_on"})
       => power = "Off" /\ wasOff
    /\ (op = "remotedirect" /\ wasOff /\ outside = 0) =>
         power = "Off" \/ (power \in {"PoweringOn", "On"} /\ OnlyNewImage
                           /\ pc \in {"wait_on", "idle"})

\* GetVirtualMediaID has skipped no CD or DVD device before mi; an error came
\* with its cause.
CauseInv ==
    /\ pc = "vm_get" => \A m \in CDMedia : mi <= m
    /\ FailureHasCause

RebootInv ==
    /\ (pc # "idle" /\ power = "Off") => wasOff
    /\ (op = "reboot" /\ pc \in {"reset_on", "wait_on"}) => wasOff
    /\ PowerPromise

-----------------------------------------------------------------------------
(* Types and control flow.                                                  *)

bmcTypes ==
    /\ power \in PowerStates
    /\ media \in [1..N -> Images]
    /\ ejecting \subseteq 1..N
    /\ bootCD \in BOOLEAN /\ bootJob \in BOOLEAN
    /\ booted \in {ISO, OldImage, Nothing, Disk}

TypeInv == TypeOK /\ ControlInv

USE NAssumption, RetriesAssumption, FlagsAssumption, ImageAssumption, BoundAssumption

\* Types and control flow are preserved by every step.
LEMMA TypeInvStep == TypeInv /\ [Next]_vars => TypeInv'
<1> SUFFICES ASSUME TypeInv, [Next]_vars PROVE TypeInv'
  OBVIOUS
<1> USE DEF TypeInv
<1>1. ASSUME NEW o \in Ops, NEW i \in {ISO, NoISO}, Begin(o, i) PROVE TypeInv'
  <2>1. TypeOK'
    <3>1. wasOff' \in BOOLEAN /\ clean' \in BOOLEAN /\ misread' \in BOOLEAN
          /\ misled' \in BOOLEAN /\ expired' \in BOOLEAN
      BY <1>1 DEF Begin
    <3>2. pc' \in Requests
      BY <1>1 DEF Begin, Entry, Requests
    <3>3. /\ op' = o /\ iso' = i /\ result' = "running" /\ stage' = "media"
          /\ mi' = 1 /\ retry' = 0 /\ target' = 0
          /\ ops < MaxOps /\ ops' = ops + 1 /\ UNCHANGED <<bmcVars, outside>>
      BY <1>1 DEF Begin
    <3> QED
      BY <3>1, <3>2, <3>3 DEF TypeOK, bmcVars
  <2>2. ControlInv'
    BY <1>1 DEF TypeOK, ControlInv, EjectRequests, MediaRequests, Begin, Entry, Ops
  <2> QED
    BY <2>1, <2>2
<1>2. CASE SystemPowerStatus
  <2>1. TypeOK'
    BY <1>2 DEF TypeOK, ControlInv, EjectRequests, MediaRequests, SystemPowerStatus,
       TakenForOff, MediaOrMissingISO, Read, Requests, Ops, Replies, Success, Screened,
       NoClientErr, Receive, Return, Goto, bmcVars, boundVars, locals
  <2>2. ControlInv'
    BY <1>2 DEF TypeOK, ControlInv, EjectRequests, MediaRequests, SystemPowerStatus,
       TakenForOff, MediaOrMissingISO, Read, Requests, Ops, Replies, Success, Screened,
       NoClientErr, Receive, Return, Goto, bmcVars, boundVars, locals
  <2> QED
    BY <2>1, <2>2
<1>3. CASE ResetOff
  <2>1. bmcTypes'
    BY <1>3 DEF bmcTypes, TypeOK, ResetOff, Write, ForceOff, PowerStates, Images,
       bmcVars
  <2>2. wasOff' \in BOOLEAN
    BY <1>3 DEF TypeOK, ResetOff, Write, boundVars
  <2>3. TypeOK'
    <3>1. clean' \in BOOLEAN /\ misread' \in BOOLEAN /\ misled' \in BOOLEAN
      BY <1>3 DEF ResetOff, Receive
    <3>2. UNCHANGED <<op, iso, stage, mi, target, expired, boundVars>>
      BY <1>3 DEF ResetOff, Write, OffAccepted, Loop, OffConflict, PoweredOff,
         MediaOrMissingISO, Return, Goto
    <3>3. /\ pc' \in Requests \cup {"idle"}
          /\ result' \in {result, "ok", "error"}
          /\ retry' \in {retry, 0}
      BY <1>3 DEF ResetOff, OffAccepted, Loop, OffConflict, PoweredOff,
         MediaOrMissingISO, Return, Goto, Requests
    <3> QED
      BY <2>1, <2>2, <3>1, <3>2, <3>3 DEF bmcTypes, TypeOK, boundVars
  <2>4. ControlInv'
    BY <1>3 DEF TypeOK, ControlInv, EjectRequests, MediaRequests, ResetOff,
       OffAccepted, Loop, OffConflict, PoweredOff, MediaOrMissingISO, Write, Requests,
       Ops, Replies, Success, Screened, NoClientErr, Receive, Return, Goto, boundVars,
       locals
  <2> QED
    BY <2>3, <2>4
<1>4. CASE WaitOff
  <2>1. TypeOK'
    BY <1>4 DEF TypeOK, ControlInv, EjectRequests, MediaRequests, WaitOff,
       waitForPowerState, NextPoll, PoweredOff, MediaOrMissingISO, Read, Requests, Ops,
       Replies, Success, Screened, NoClientErr, Receive, Return, Goto, bmcVars,
       boundVars, locals
  <2>2. ControlInv'
    BY <1>4 DEF TypeOK, ControlInv, EjectRequests, MediaRequests, WaitOff,
       waitForPowerState, NextPoll, PoweredOff, MediaOrMissingISO, Read, Requests, Ops,
       Replies, Success, Screened, NoClientErr, Receive, Return, Goto, bmcVars,
       boundVars, locals
  <2> QED
    BY <2>1, <2>2
<1>5. CASE ResetOn
  <2>1. bmcTypes'
    BY <1>5 DEF bmcTypes, TypeOK, ResetOn, Write, PowerOn, PowerStates, Images, bmcVars
  <2>2. wasOff' \in BOOLEAN
    BY <1>5 DEF TypeOK, ResetOn, Write, boundVars
  <2>3. TypeOK'
    <3>1. clean' \in BOOLEAN /\ misread' \in BOOLEAN /\ misled' \in BOOLEAN
      BY <1>5 DEF ResetOn, Receive
    <3>2. UNCHANGED <<op, iso, stage, mi, target, expired, boundVars>>
      BY <1>5 DEF ResetOn, Write, Loop, Return
    <3>3. /\ pc' \in Requests \cup {"idle"}
          /\ result' \in {result, "ok", "error"}
          /\ retry' \in {retry, 0}
      BY <1>5 DEF ResetOn, Loop, Return, Requests
    <3> QED
      BY <2>1, <2>2, <3>1, <3>2, <3>3 DEF bmcTypes, TypeOK, boundVars
  <2>4. ControlInv'
    BY <1>5 DEF TypeOK, ControlInv, EjectRequests, MediaRequests, ResetOn, Loop,
       Write, Requests, Ops, Replies, Success, Screened, NoClientErr, Receive, Return,
       Goto, boundVars, locals
  <2> QED
    BY <2>3, <2>4
<1>6. CASE WaitOn
  <2>1. TypeOK'
    BY <1>6 DEF TypeOK, ControlInv, EjectRequests, MediaRequests, WaitOn,
       waitForPowerState, NextPoll, Read, Requests, Ops, Replies, Success, Screened,
       NoClientErr, Receive, Return, Goto, bmcVars, boundVars, locals
  <2>2. ControlInv'
    BY <1>6 DEF TypeOK, ControlInv, EjectRequests, MediaRequests, WaitOn,
       waitForPowerState, NextPoll, Read, Requests, Ops, Replies, Success, Screened,
       NoClientErr, Receive, Return, Goto, bmcVars, boundVars, locals
  <2> QED
    BY <2>1, <2>2
<1>7. CASE EjectManager
  <2>1. TypeOK'
    BY <1>7 DEF TypeOK, ControlInv, EjectRequests, MediaRequests, EjectManager, Get,
       Read, Requests, Ops, Replies, Success, Screened, NoClientErr, Receive, Return,
       Goto, bmcVars, boundVars, locals
  <2>2. ControlInv'
    BY <1>7 DEF TypeOK, ControlInv, EjectRequests, MediaRequests, EjectManager, Get,
       Read, Requests, Ops, Replies, Success, Screened, NoClientErr, Receive, Return,
       Goto, bmcVars, boundVars, locals
  <2> QED
    BY <2>1, <2>2
<1>8. CASE EjectList
  <2>1. TypeOK'
    BY <1>8 DEF TypeOK, ControlInv, EjectRequests, MediaRequests, EjectList, Get,
       Ejected, FirstMedia, Read, Requests, Ops, Replies, Success, Screened,
       NoClientErr, Receive, Return, Goto, bmcVars, boundVars, locals
  <2>2. ControlInv'
    BY <1>8 DEF TypeOK, ControlInv, EjectRequests, MediaRequests, EjectList, Get,
       Ejected, FirstMedia, Read, Requests, Ops, Replies, Success, Screened,
       NoClientErr, Receive, Return, Goto, bmcVars, boundVars, locals
  <2> QED
    BY <2>1, <2>2
<1>9. CASE EjectGet
  <2>1. TypeOK'
    BY <1>9 DEF TypeOK, ControlInv, EjectRequests, MediaRequests, EjectGet, Get,
       MediaEmpty, Ejected, NextMedia, Read, Requests, Ops, Replies, Success, Screened,
       NoClientErr, Receive, Return, Goto, bmcVars, boundVars, locals
  <2>2. ControlInv'
    BY <1>9 DEF TypeOK, ControlInv, EjectRequests, MediaRequests, EjectGet, Get,
       MediaEmpty, Ejected, NextMedia, Read, Requests, Ops, Replies, Success, Screened,
       NoClientErr, Receive, Return, Goto, bmcVars, boundVars, locals
  <2> QED
    BY <2>1, <2>2
<1>10. CASE EjectRequest
  <2>1. bmcTypes'
    BY <1>10 DEF bmcTypes, TypeOK, ControlInv, EjectRequests, MediaRequests,
       EjectRequest, Write, EjectMedia, PowerStates, Images, bmcVars
  <2>2. wasOff' \in BOOLEAN
    BY <1>10 DEF TypeOK, EjectRequest, Write, boundVars
  <2>3. TypeOK'
    BY <1>10, <2>1, <2>2 DEF bmcTypes, TypeOK, ControlInv, EjectRequests,
       MediaRequests, EjectRequest, EjectAccepted, Loop, Write, Requests, Ops, Replies,
       Success, Screened, NoClientErr, Receive, Return, Goto, boundVars, locals
  <2>4. ControlInv'
    BY <1>10 DEF TypeOK, ControlInv, EjectRequests, MediaRequests, EjectRequest,
       EjectAccepted, Loop, Write, Requests, Ops, Replies, Success, Screened,
       NoClientErr, Receive, Return, Goto, boundVars, locals
  <2> QED
    BY <2>3, <2>4
<1>11. CASE EjectWait
  <2>1. TypeOK'
    BY <1>11 DEF TypeOK, ControlInv, EjectRequests, MediaRequests, EjectWait, Get,
       MediaEmpty, Ejected, NextMedia, NextPoll, Read, Requests, Ops, Replies, Success,
       Screened, NoClientErr, Receive, Return, Goto, bmcVars, boundVars, locals
  <2>2. ControlInv'
    BY <1>11 DEF TypeOK, ControlInv, EjectRequests, MediaRequests, EjectWait, Get,
       MediaEmpty, Ejected, NextMedia, NextPoll, Read, Requests, Ops, Replies, Success,
       Screened, NoClientErr, Receive, Return, Goto, bmcVars, boundVars, locals
  <2> QED
    BY <2>1, <2>2
<1>12. CASE MediaManager
  <2>1. TypeOK'
    BY <1>12 DEF TypeOK, ControlInv, EjectRequests, MediaRequests, MediaManager,
       Get, Read, Requests, Ops, Replies, Success, Screened, NoClientErr, Receive,
       Return, Goto, bmcVars, boundVars, locals
  <2>2. ControlInv'
    BY <1>12 DEF TypeOK, ControlInv, EjectRequests, MediaRequests, MediaManager,
       Get, Read, Requests, Ops, Replies, Success, Screened, NoClientErr, Receive,
       Return, Goto, bmcVars, boundVars, locals
  <2> QED
    BY <2>1, <2>2
<1>13. CASE MediaList
  <2>1. TypeOK'
    BY <1>13 DEF TypeOK, ControlInv, EjectRequests, MediaRequests, MediaList, Get,
       FirstMedia, Read, Requests, Ops, Replies, Success, Screened, NoClientErr,
       Receive, Return, Goto, bmcVars, boundVars, locals
  <2>2. ControlInv'
    BY <1>13 DEF TypeOK, ControlInv, EjectRequests, MediaRequests, MediaList, Get,
       FirstMedia, Read, Requests, Ops, Replies, Success, Screened, NoClientErr,
       Receive, Return, Goto, bmcVars, boundVars, locals
  <2> QED
    BY <2>1, <2>2
<1>14. CASE MediaGet
  <2>1. TypeOK'
    BY <1>14 DEF TypeOK, ControlInv, EjectRequests, MediaRequests, MediaGet, Get,
       MediaFound, MediaSkipped, NextMedia, Read, Requests, Ops, Replies, Success,
       Screened, NoClientErr, Receive, Return, Goto, bmcVars, boundVars, locals
  <2>2. ControlInv'
    BY <1>14 DEF TypeOK, ControlInv, EjectRequests, MediaRequests, MediaGet, Get,
       MediaFound, MediaSkipped, NextMedia, Read, Requests, Ops, Replies, Success,
       Screened, NoClientErr, Receive, Return, Goto, bmcVars, boundVars, locals
  <2> QED
    BY <2>1, <2>2
<1>15. CASE InsertManager
  <2>1. TypeOK'
    BY <1>15 DEF TypeOK, ControlInv, EjectRequests, MediaRequests, InsertManager,
       Get, Read, Requests, Ops, Replies, Success, Screened, NoClientErr, Receive,
       Return, Goto, bmcVars, boundVars, locals
  <2>2. ControlInv'
    BY <1>15 DEF TypeOK, ControlInv, EjectRequests, MediaRequests, InsertManager,
       Get, Read, Requests, Ops, Replies, Success, Screened, NoClientErr, Receive,
       Return, Goto, bmcVars, boundVars, locals
  <2> QED
    BY <2>1, <2>2
<1>16. CASE InsertVirtualMedia
  <2>1. bmcTypes'
    BY <1>16 DEF bmcTypes, TypeOK, ControlInv, EjectRequests, MediaRequests,
       InsertVirtualMedia, Write, InsertMedia, PowerStates, Images, bmcVars
  <2>2. wasOff' \in BOOLEAN
    BY <1>16 DEF TypeOK, InsertVirtualMedia, Write, boundVars
  <2>3. TypeOK'
    BY <1>16, <2>1, <2>2 DEF bmcTypes, TypeOK, ControlInv, EjectRequests,
       MediaRequests, InsertVirtualMedia, AfterInsert, Write, Requests, Ops, Replies,
       Success, Screened, NoClientErr, Receive, Return, Goto, boundVars, locals
  <2>4. ControlInv'
    BY <1>16 DEF TypeOK, ControlInv, EjectRequests, MediaRequests,
       InsertVirtualMedia, AfterInsert, Write, Requests, Ops, Replies, Success,
       Screened, NoClientErr, Receive, Return, Goto, boundVars, locals
  <2> QED
    BY <2>3, <2>4
<1>17. CASE BootSystem
  <2>1. TypeOK'
    BY <1>17 DEF TypeOK, ControlInv, EjectRequests, MediaRequests, BootSystem, Get,
       Read, Requests, Ops, Replies, Success, Screened, NoClientErr, Receive, Return,
       Goto, bmcVars, boundVars, locals
  <2>2. ControlInv'
    BY <1>17 DEF TypeOK, ControlInv, EjectRequests, MediaRequests, BootSystem, Get,
       Read, Requests, Ops, Replies, Success, Screened, NoClientErr, Receive, Return,
       Goto, bmcVars, boundVars, locals
  <2> QED
    BY <2>1, <2>2
<1>18. CASE SetBootSourceByType
  <2>1. bmcTypes'
    BY <1>18 DEF bmcTypes, TypeOK, ControlInv, EjectRequests, MediaRequests,
       SetBootSourceByType, Write, SetBootSource, PowerStates, Images, bmcVars
  <2>2. wasOff' \in BOOLEAN
    BY <1>18 DEF TypeOK, SetBootSourceByType, Write, boundVars
  <2>3. TypeOK'
    BY <1>18, <2>1, <2>2 DEF bmcTypes, TypeOK, ControlInv, EjectRequests,
       MediaRequests, SetBootSourceByType, Write, Requests, Ops, Replies, Success,
       Screened, NoClientErr, Receive, Return, Goto, boundVars, locals
  <2>4. ControlInv'
    BY <1>18 DEF TypeOK, ControlInv, EjectRequests, MediaRequests,
       SetBootSourceByType, Write, Requests, Ops, Replies, Success, Screened,
       NoClientErr, Receive, Return, Goto, boundVars, locals
  <2> QED
    BY <2>3, <2>4
<1>19. CASE DellManager
  <2>1. TypeOK'
    BY <1>19 DEF TypeOK, ControlInv, EjectRequests, MediaRequests, DellManager, Get,
       Read, Requests, Ops, Replies, Success, Screened, NoClientErr, Receive, Return,
       Goto, bmcVars, boundVars, locals
  <2>2. ControlInv'
    BY <1>19 DEF TypeOK, ControlInv, EjectRequests, MediaRequests, DellManager, Get,
       Read, Requests, Ops, Replies, Success, Screened, NoClientErr, Receive, Return,
       Goto, bmcVars, boundVars, locals
  <2> QED
    BY <2>1, <2>2
<1>20. CASE DellSetBootSource
  <2>1. bmcTypes'
    BY <1>20 DEF bmcTypes, TypeOK, ControlInv, EjectRequests, MediaRequests,
       DellSetBootSource, AcceptJob, PowerStates, Images, bmcVars
  <2>2. wasOff' \in BOOLEAN
    BY <1>20 DEF TypeOK, DellSetBootSource, boundVars
  <2>3. TypeOK'
    BY <1>20, <2>1, <2>2 DEF bmcTypes, TypeOK, ControlInv, EjectRequests,
       MediaRequests, DellSetBootSource, Requests, Ops, Replies, Success, Screened,
       NoClientErr, Receive, Return, Goto, boundVars, locals
  <2>4. ControlInv'
    BY <1>20 DEF TypeOK, ControlInv, EjectRequests, MediaRequests,
       DellSetBootSource, Requests, Ops, Replies, Success, Screened, NoClientErr,
       Receive, Return, Goto, boundVars, locals
  <2> QED
    BY <2>3, <2>4
<1>21. CASE CtxExpires
  BY <1>21 DEF TypeOK, ControlInv, CtxExpires, bmcVars, clientVars, replyVars, locals, boundVars
<1>22. CASE PowerSettles
  <2>1. bmcTypes'
    BY <1>22 DEF bmcTypes, TypeOK, PowerSettles, CDImages, PowerStates, Images
  <2>2. TypeOK' /\ ControlInv'
    BY <1>22, <2>1 DEF bmcTypes, TypeOK, ControlInv, PowerSettles, clientVars, replyVars, locals
  <2> QED
    BY <2>2
<1>23. CASE JobSettles
  <2>1. TypeOK'
    <3>1. bootCD' \in BOOLEAN /\ bootJob' \in BOOLEAN
      BY <1>23 DEF JobSettles
    <3>2. UNCHANGED <<power, media, ejecting, booted, wasOff, clientVars, outside>>
      BY <1>23 DEF JobSettles
    <3> QED
      BY <3>1, <3>2 DEF TypeOK, clientVars, replyVars, locals
  <2>2. ControlInv'
    BY <1>23 DEF ControlInv, JobSettles, clientVars, replyVars, locals
  <2> QED
    BY <2>1, <2>2
<1>24. CASE PowerButton
  BY <1>24 DEF TypeOK, ControlInv, PowerButton, PowerStates, bmcVars, clientVars, replyVars,
     locals, boundVars
<1>25. ASSUME NEW m \in 1..N, EjectSettles(m) PROVE TypeInv'
  BY <1>25 DEF TypeOK, ControlInv, EjectSettles, Images, clientVars, replyVars, locals
<1>26. CASE Finished \/ UNCHANGED vars
  <2>1. UNCHANGED vars
    BY <1>26 DEF Finished
  <2>2. TypeOK'
    BY <2>1 DEF TypeOK, vars
  <2>3. ControlInv'
    BY <2>1 DEF ControlInv, vars
  <2> QED
    BY <2>2, <2>3
<1>27. QED
  BY <1>1, <1>2, <1>3, <1>4, <1>5, <1>6, <1>7, <1>8, <1>9, <1>10, <1>11, <1>12,
     <1>13, <1>14, <1>15, <1>16, <1>17, <1>18, <1>19, <1>20, <1>21, <1>22, <1>23,
     <1>24, <1>25, <1>26 DEF Next, ContextRequest, BMCStep

\* Types and control flow hold initially.
LEMMA TypeInvInit == Init => TypeInv
<1> SUFFICES ASSUME Init PROVE TypeOK /\ ControlInv
  BY DEF TypeInv
<1>1. power \in PowerStates /\ media \in [1..N -> Images]
  BY DEF Init, PowerStates, Images
<1>2. booted \in {ISO, OldImage, Nothing, Disk}
  BY DEF Init
<1>3. /\ bootCD \in BOOLEAN /\ bootJob \in BOOLEAN /\ expired \in BOOLEAN
      /\ wasOff \in BOOLEAN /\ clean \in BOOLEAN /\ misread \in BOOLEAN /\ misled \in BOOLEAN
  BY DEF Init
<1>4. /\ ejecting = {} /\ op = "powerstatus" /\ iso = NoISO /\ pc = "idle"
      /\ stage = "media" /\ mi = 1 /\ retry = 0 /\ target = 0 /\ result = "none"
      /\ ops = 0 /\ outside = 0
  BY DEF Init
<1>5. TypeOK
  BY <1>1, <1>2, <1>3, <1>4 DEF TypeOK, Ops
<1>6. ControlInv
  BY <1>4 DEF ControlInv, EjectRequests, MediaRequests
<1> QED
  BY <1>5, <1>6

\* The client, the BMC and the observers keep their types: among others, the
\* loops over the media collection stay inside it and only a real image is
\* ever inserted.
THEOREM TypeCorrect == Spec => []TypeOK
<1>1. Spec => []TypeInv
  BY TypeInvInit, TypeInvStep, PTL DEF Spec
<1> QED
  BY <1>1, PTL DEF TypeInv

-----------------------------------------------------------------------------
(* Virtual media.                                                           *)

\* No step disturbs what the eject loop and SetVirtualMedia have achieved.
LEMMA MediaInvStep ==
    TypeInv /\ TypeInv' /\ PendingInv /\ MediaInv /\ [Next]_vars => PendingInv' /\ MediaInv'
<1> SUFFICES ASSUME TypeInv, TypeInv', PendingInv, MediaInv, [Next]_vars
             PROVE  PendingInv' /\ MediaInv'
  OBVIOUS
<1> USE DEF TypeInv, TypeOK, ControlInv, EjectRequests, MediaRequests, PendingInv,
   MediaInv, AllEmpty, OnlyNewImage,
    Replies, Success, Screened, NoClientErr, Return, Goto, boundVars, locals, bmcVars
<1>1. ASSUME NEW o \in Ops, NEW i \in {ISO, NoISO}, Begin(o, i)
      PROVE  PendingInv' /\ MediaInv'
  BY <1>1 DEF Begin, Entry, Ops
<1>2. CASE SystemPowerStatus
  BY <1>2 DEF SystemPowerStatus, TakenForOff, MediaOrMissingISO, Read
<1>3. CASE ResetOff
  BY <1>3 DEF ResetOff, OffAccepted, Loop, OffConflict, PoweredOff,
     MediaOrMissingISO, Write, ForceOff
<1>4. CASE WaitOff
  BY <1>4 DEF WaitOff, waitForPowerState, NextPoll, PoweredOff, MediaOrMissingISO, Read
<1>5. CASE ResetOn
  BY <1>5 DEF ResetOn, Loop, Write, PowerOn
<1>6. CASE WaitOn
  BY <1>6 DEF WaitOn, waitForPowerState, NextPoll, Read
<1>7. CASE EjectManager
  BY <1>7 DEF EjectManager, Get, Read
<1>8. CASE EjectList
  BY <1>8 DEF EjectList, Get, Ejected, FirstMedia, Read
<1>9. CASE EjectGet
  BY <1>9 DEF EjectGet, Get, MediaEmpty, Ejected, NextMedia, Read
<1>10. CASE EjectRequest
  BY <1>10 DEF EjectRequest, EjectAccepted, Loop, Write, EjectMedia
<1>11. CASE EjectWait
  BY <1>11 DEF EjectWait, Get, MediaEmpty, Ejected, NextMedia, NextPoll, Read
<1>12. CASE MediaManager
  BY <1>12 DEF MediaManager, Get, Read
<1>13. CASE MediaList
  BY <1>13 DEF MediaList, Get, FirstMedia, Read
<1>14. CASE MediaGet
  BY <1>14 DEF MediaGet, Get, MediaFound, MediaSkipped, NextMedia, Read
<1>15. CASE InsertManager
  BY <1>15 DEF InsertManager, Get, Read
<1>16. CASE InsertVirtualMedia
  BY <1>16 DEF InsertVirtualMedia, AfterInsert, Write, InsertMedia
<1>17. CASE BootSystem
  BY <1>17 DEF BootSystem, Get, Read
<1>18. CASE SetBootSourceByType
  BY <1>18 DEF SetBootSourceByType, Write, SetBootSource
<1>19. CASE DellManager
  BY <1>19 DEF DellManager, Get, Read
<1>20. CASE DellSetBootSource
  BY <1>20 DEF DellSetBootSource, AcceptJob
<1>21. CASE CtxExpires
  BY <1>21 DEF CtxExpires, clientVars, replyVars
<1>22. CASE PowerSettles
  BY <1>22 DEF PowerSettles, CDImages, clientVars, replyVars
<1>23. CASE JobSettles
  BY <1>23 DEF JobSettles, clientVars, replyVars
<1>24. CASE PowerButton
  BY <1>24 DEF PowerButton, clientVars, replyVars
<1>25. ASSUME NEW m \in 1..N, EjectSettles(m) PROVE PendingInv' /\ MediaInv'
  BY <1>25 DEF EjectSettles, clientVars, replyVars
<1>26. CASE Finished \/ UNCHANGED vars
  <2>1. UNCHANGED vars
    BY <1>26 DEF Finished
  <2> QED
    BY <2>1 DEF PendingInv, MediaInv, AllEmpty, OnlyNewImage, vars
<1>27. QED
  BY <1>1, <1>2, <1>3, <1>4, <1>5, <1>6, <1>7, <1>8, <1>9, <1>10, <1>11, <1>12,
     <1>13, <1>14, <1>15, <1>16, <1>17, <1>18, <1>19, <1>20, <1>21, <1>22, <1>23,
     <1>24, <1>25, <1>26 DEF Next, ContextRequest, BMCStep

\* EjectVirtualMedia reports success only for a BMC whose devices are all empty,
\* and this lasts until the next operation, however late the ejections come.
THEOREM EjectedAllHolds == Spec => []EjectedAll
<1>1. Init => PendingInv /\ MediaInv
  BY DEF Init, PendingInv, MediaInv
<1>2. Spec => [](TypeInv /\ PendingInv /\ MediaInv)
  BY <1>1, TypeInvInit, TypeInvStep, MediaInvStep, PTL DEF Spec
<1>3. MediaInv => EjectedAll
  BY DEF MediaInv, AllEmpty, EjectedAll
<1> QED
  BY <1>2, <1>3, PTL

-----------------------------------------------------------------------------
(* Power.                                                                   *)

\* The promises of the power operations are kept by every step.
LEMMA RebootInvStep ==
    TypeInv /\ TypeInv' /\ RebootInv /\ [Next]_vars => RebootInv'
<1> SUFFICES ASSUME TypeInv, TypeInv', RebootInv, [Next]_vars PROVE RebootInv'
  OBVIOUS
<1> USE DEF TypeInv, TypeOK, PowerStates, ControlInv, EjectRequests, MediaRequests,
   RebootInv, PowerPromise, Undisturbed,
    Replies, Success, Screened, NoClientErr, Receive, Return, Goto, boundVars, locals, bmcVars
<1>1. ASSUME NEW o \in Ops, NEW i \in {ISO, NoISO}, Begin(o, i) PROVE RebootInv'
  BY <1>1 DEF Begin, Entry, Ops
<1>2. CASE SystemPowerStatus
  BY <1>2 DEF SystemPowerStatus, TakenForOff, MediaOrMissingISO, Read
<1>3. CASE ResetOff
  BY <1>3 DEF ResetOff, OffAccepted, Loop, OffConflict, PoweredOff,
     MediaOrMissingISO, Write, ForceOff
<1>4. CASE WaitOff
  BY <1>4 DEF WaitOff, waitForPowerState, NextPoll, PoweredOff, MediaOrMissingISO, Read
<1>5. CASE ResetOn
  BY <1>5 DEF ResetOn, Loop, Write, PowerOn
<1>6. CASE WaitOn
  BY <1>6 DEF WaitOn, waitForPowerState, NextPoll, Read
<1>7. CASE EjectManager
  BY <1>7 DEF EjectManager, Get, Read
<1>8. CASE EjectList
  BY <1>8 DEF EjectList, Get, Ejected, FirstMedia, Read
<1>9. CASE EjectGet
  BY <1>9 DEF EjectGet, Get, MediaEmpty, Ejected, NextMedia, Read
<1>10. CASE EjectRequest
  BY <1>10 DEF EjectRequest, EjectAccepted, Loop, Write, EjectMedia
<1>11. CASE EjectWait
  BY <1>11 DEF EjectWait, Get, MediaEmpty, Ejected, NextMedia, NextPoll, Read
<1>12. CASE MediaManager
  BY <1>12 DEF MediaManager, Get, Read
<1>13. CASE MediaList
  BY <1>13 DEF MediaList, Get, FirstMedia, Read
<1>14. CASE MediaGet
  BY <1>14 DEF MediaGet, Get, MediaFound, MediaSkipped, NextMedia, Read
<1>15. CASE InsertManager
  BY <1>15 DEF InsertManager, Get, Read
<1>16. CASE InsertVirtualMedia
  BY <1>16 DEF InsertVirtualMedia, AfterInsert, Write, InsertMedia
<1>17. CASE BootSystem
  BY <1>17 DEF BootSystem, Get, Read
<1>18. CASE SetBootSourceByType
  BY <1>18 DEF SetBootSourceByType, Write, SetBootSource
<1>19. CASE DellManager
  BY <1>19 DEF DellManager, Get, Read
<1>20. CASE DellSetBootSource
  <2>1. op = "remotedirect" /\ UNCHANGED <<op, power, wasOff, outside>>
    BY <1>20 DEF ControlInv, MediaRequests, DellSetBootSource, AcceptJob, bmcVars,
       boundVars, Goto, Return
  <2>2. pc # "idle" /\ result' # "ok"
    BY <1>20 DEF ControlInv, DellSetBootSource, Goto, Return
  <2> QED
    BY <2>1, <2>2 DEF RebootInv, PowerPromise
<1>21. CASE CtxExpires
  BY <1>21 DEF CtxExpires, clientVars, replyVars
<1>22. CASE PowerSettles
  BY <1>22 DEF PowerSettles, CDImages, clientVars, replyVars
<1>23. CASE JobSettles
  BY <1>23 DEF JobSettles, clientVars, replyVars
<1>24. CASE PowerButton
  BY <1>24 DEF PowerButton, clientVars, replyVars
<1>25. ASSUME NEW m \in 1..N, EjectSettles(m) PROVE RebootInv'
  BY <1>25 DEF EjectSettles, clientVars, replyVars
<1>26. CASE Finished \/ UNCHANGED vars
  <2>1. UNCHANGED vars
    BY <1>26 DEF Finished
  <2> QED
    BY <2>1 DEF vars
<1>27. QED
  BY <1>1, <1>2, <1>3, <1>4, <1>5, <1>6, <1>7, <1>8, <1>9, <1>10, <1>11, <1>12,
     <1>13, <1>14, <1>15, <1>16, <1>17, <1>18, <1>19, <1>20, <1>21, <1>22, <1>23,
     <1>24, <1>25, <1>26 DEF Next, ContextRequest, BMCStep

\* The boot of a RemoteDirect is prepared before the host leaves Off.
LEMMA PowerInvStep ==
    /\ Dell = FALSE /\ TypeInv /\ TypeInv' /\ PendingInv /\ MediaInv /\ MediaInv'
    /\ RebootInv /\ PowerInv /\ [Next]_vars
    => PowerInv'
<1> SUFFICES ASSUME Dell = FALSE, TypeInv, TypeInv', PendingInv, MediaInv, MediaInv',
                    RebootInv, PowerInv, [Next]_vars
             PROVE  PowerInv'
  OBVIOUS
<1> USE DEF TypeInv, TypeOK, PowerStates, ControlInv, EjectRequests, MediaRequests,
   PendingInv, MediaInv, AllEmpty, OnlyNewImage, Ready, RebootInv, PowerInv, Undisturbed,
    Replies, Success, Screened, NoClientErr, Receive, Return, Goto, boundVars, locals, bmcVars
<1>1. ASSUME NEW o \in Ops, NEW i \in {ISO, NoISO}, Begin(o, i) PROVE PowerInv'
  BY <1>1 DEF Begin, Entry, Ops
<1>2. CASE SystemPowerStatus
  BY <1>2 DEF SystemPowerStatus, TakenForOff, MediaOrMissingISO, Read
<1>3. CASE ResetOff
  BY <1>3 DEF ResetOff, OffAccepted, Loop, OffConflict, PoweredOff,
     MediaOrMissingISO, Write, ForceOff
<1>4. CASE WaitOff
  BY <1>4 DEF WaitOff, waitForPowerState, NextPoll, PoweredOff, MediaOrMissingISO, Read
<1>5. CASE ResetOn
  BY <1>5 DEF ResetOn, Loop, Write, PowerOn
<1>6. CASE WaitOn
  BY <1>6 DEF WaitOn, waitForPowerState, NextPoll, Read
<1>7. CASE EjectManager
  BY <1>7 DEF EjectManager, Get, Read
<1>8. CASE EjectList
  BY <1>8 DEF EjectList, Get, Ejected, FirstMedia, Read
<1>9. CASE EjectGet
  BY <1>9 DEF EjectGet, Get, MediaEmpty, Ejected, NextMedia, Read
<1>10. CASE EjectRequest
  BY <1>10 DEF EjectRequest, EjectAccepted, Loop, Write, EjectMedia
<1>11. CASE EjectWait
  BY <1>11 DEF EjectWait, Get, MediaEmpty, Ejected, NextMedia, NextPoll, Read
<1>12. CASE MediaManager
  BY <1>12 DEF MediaManager, Get, Read
<1>13. CASE MediaList
  BY <1>13 DEF MediaList, Get, FirstMedia, Read
<1>14. CASE MediaGet
  BY <1>14 DEF MediaGet, Get, MediaFound, MediaSkipped, NextMedia, Read
<1>15. CASE InsertManager
  BY <1>15 DEF InsertManager, Get, Read
<1>16. CASE InsertVirtualMedia
  BY <1>16 DEF InsertVirtualMedia, AfterInsert, Write, InsertMedia
<1>17. CASE BootSystem
  BY <1>17 DEF BootSystem, Get, Read
<1>18. CASE SetBootSourceByType
  BY <1>18 DEF SetBootSourceByType, Write, SetBootSource
<1>19. CASE DellManager
  BY <1>19 DEF DellManager, Get, Read
<1>20. CASE DellSetBootSource
  <2>1. pc = "dell_post"
    BY <1>20 DEF DellSetBootSource
  <2>2. Dell
    BY <2>1 DEF ControlInv
  <2> QED
    BY <2>2
<1>21. CASE CtxExpires
  BY <1>21 DEF CtxExpires, clientVars, replyVars
<1>22. CASE PowerSettles
  BY <1>22 DEF PowerSettles, CDImages, clientVars, replyVars
<1>23. CASE JobSettles
  BY <1>23 DEF JobSettles, clientVars, replyVars
<1>24. CASE PowerButton
  BY <1>24 DEF PowerButton, clientVars, replyVars
<1>25. ASSUME NEW m \in 1..N, EjectSettles(m) PROVE PowerInv'
  BY <1>25 DEF EjectSettles, clientVars, replyVars
<1>26. CASE Finished \/ UNCHANGED vars
  <2>1. UNCHANGED vars
    BY <1>26 DEF Finished
  <2> QED
    BY <2>1 DEF vars
<1>27. QED
  BY <1>1, <1>2, <1>3, <1>4, <1>5, <1>6, <1>7, <1>8, <1>9, <1>10, <1>11, <1>12,
     <1>13, <1>14, <1>15, <1>16, <1>17, <1>18, <1>19, <1>20, <1>21, <1>22, <1>23,
     <1>24, <1>25, <1>26 DEF Next, ContextRequest, BMCStep

\* Neither client lets the host leave Off before the On request.
LEMMA HeldInvStep ==
    /\ TypeInv /\ TypeInv' /\ PendingInv /\ MediaInv /\ MediaInv'
    /\ RebootInv /\ HeldInv /\ [Next]_vars
    => HeldInv'
<1> SUFFICES ASSUME TypeInv, TypeInv', PendingInv, MediaInv, MediaInv',
                    RebootInv, HeldInv, [Next]_vars
             PROVE  HeldInv'
  OBVIOUS
<1> USE DEF TypeInv, TypeOK, PowerStates, ControlInv, EjectRequests, MediaRequests,
   PendingInv, MediaInv, AllEmpty, OnlyNewImage, RebootInv, HeldInv, Undisturbed,
    Replies, Success, Screened, NoClientErr, Receive, Return, Goto, boundVars, locals, bmcVars
<1>1. ASSUME NEW o \in Ops, NEW i \in {ISO, NoISO}, Begin(o, i) PROVE HeldInv'
  BY <1>1 DEF Begin, Entry, Ops
<1>2. CASE SystemPowerStatus
  BY <1>2 DEF SystemPowerStatus, TakenForOff, MediaOrMissingISO, Read
<1>3. CASE ResetOff
  BY <1>3 DEF ResetOff, OffAccepted, Loop, OffConflict, PoweredOff,
     MediaOrMissingISO, Write, ForceOff
<1>4. CASE WaitOff
  BY <1>4 DEF WaitOff, waitForPowerState, NextPoll, PoweredOff, MediaOrMissingISO, Read
<1>5. CASE ResetOn
  BY <1>5 DEF ResetOn, Loop, Write, PowerOn
<1>6. CASE WaitOn
  BY <1>6 DEF WaitOn, waitForPowerState, NextPoll, Read
<1>7. CASE EjectManager
  BY <1>7 DEF EjectManager, Get, Read
<1>8. CASE EjectList
  BY <1>8 DEF EjectList, Get, Ejected, FirstMedia, Read
<1>9. CASE EjectGet
  BY <1>9 DEF EjectGet, Get, MediaEmpty, Ejected, NextMedia, Read
<1>10. CASE EjectRequest
  BY <1>10 DEF EjectRequest, EjectAccepted, Loop, Write, EjectMedia
<1>11. CASE EjectWait
  BY <1>11 DEF EjectWait, Get, MediaEmpty, Ejected, NextMedia, NextPoll, Read
<1>12. CASE MediaManager
  BY <1>12 DEF MediaManager, Get, Read
<1>13. CASE MediaList
  BY <1>13 DEF MediaList, Get, FirstMedia, Read
<1>14. CASE MediaGet
  BY <1>14 DEF MediaGet, Get, MediaFound, MediaSkipped, NextMedia, Read
<1>15. CASE InsertManager
  BY <1>15 DEF InsertManager, Get, Read
<1>16. CASE InsertVirtualMedia
  BY <1>16 DEF InsertVirtualMedia, AfterInsert, Write, InsertMedia
<1>17. CASE BootSystem
  BY <1>17 DEF BootSystem, Get, Read
<1>18. CASE SetBootSourceByType
  BY <1>18 DEF SetBootSourceByType, Write, SetBootSource
<1>19. CASE DellManager
  BY <1>19 DEF DellManager, Get, Read
<1>20. CASE DellSetBootSource
  <2>1. /\ op = "remotedirect" /\ pc = "dell_post"
        /\ UNCHANGED <<op, iso, power, media, ejecting, target, wasOff, outside, misled>>
        /\ pc' \in {"reset_on", "idle"}
    BY <1>20 DEF DellSetBootSource, AcceptJob
  <2> QED
    BY <2>1
<1>21. CASE CtxExpires
  BY <1>21 DEF CtxExpires, clientVars, replyVars
<1>22. CASE PowerSettles
  BY <1>22 DEF PowerSettles, CDImages, clientVars, replyVars
<1>23. CASE JobSettles
  BY <1>23 DEF JobSettles, clientVars, replyVars
<1>24. CASE PowerButton
  BY <1>24 DEF PowerButton, clientVars, replyVars
<1>25. ASSUME NEW m \in 1..N, EjectSettles(m) PROVE HeldInv'
  BY <1>25 DEF EjectSettles, clientVars, replyVars
<1>26. CASE Finished \/ UNCHANGED vars
  <2>1. UNCHANGED vars
    BY <1>26 DEF Finished
  <2> QED
    BY <2>1 DEF vars
<1>27. QED
  BY <1>1, <1>2, <1>3, <1>4, <1>5, <1>6, <1>7, <1>8, <1>9, <1>10, <1>11, <1>12,
     <1>13, <1>14, <1>15, <1>16, <1>17, <1>18, <1>19, <1>20, <1>21, <1>22, <1>23,
     <1>24, <1>25, <1>26 DEF Next, ContextRequest, BMCStep

\* A success ends no operation with an error, unless the operation cannot be done
\* or one of the three requests takes an error go-redfish added for a failure.
LEMMA CauseInvStep ==
    TypeInv /\ CauseInv /\ [Next]_vars => CauseInv'
<1> SUFFICES ASSUME TypeInv, CauseInv, [Next]_vars PROVE CauseInv'
  OBVIOUS
<1> USE DEF TypeInv, TypeOK, ControlInv, EjectRequests, MediaRequests, CauseInv,
    FailureHasCause, Impossible, Replies, Success, Screened, NoClientErr, ClientErrRequests,
    Receive, Return, Goto, locals
<1>1. ASSUME NEW o \in Ops, NEW i \in {ISO, NoISO}, Begin(o, i) PROVE CauseInv'
  BY <1>1 DEF Begin, Entry, Ops
<1>2. CASE SystemPowerStatus
  BY <1>2 DEF SystemPowerStatus, TakenForOff, MediaOrMissingISO, Read
<1>3. CASE ResetOff
  BY <1>3 DEF ResetOff, OffAccepted, Loop, OffConflict, PoweredOff,
     MediaOrMissingISO, Write, ForceOff
<1>4. CASE WaitOff
  BY <1>4 DEF WaitOff, waitForPowerState, NextPoll, PoweredOff, MediaOrMissingISO, Read
<1>5. CASE ResetOn
  BY <1>5 DEF ResetOn, Loop, Write, PowerOn
<1>6. CASE WaitOn
  BY <1>6 DEF WaitOn, waitForPowerState, NextPoll, Read
<1>7. CASE EjectManager
  BY <1>7 DEF EjectManager, Get, Read
<1>8. CASE EjectList
  BY <1>8 DEF EjectList, Get, Ejected, FirstMedia, Read
<1>9. CASE EjectGet
  BY <1>9 DEF EjectGet, Get, MediaEmpty, Ejected, NextMedia, Read
<1>10. CASE EjectRequest
  BY <1>10 DEF EjectRequest, EjectAccepted, Loop, Write, EjectMedia
<1>11. CASE EjectWait
  BY <1>11 DEF EjectWait, Get, MediaEmpty, Ejected, NextMedia, NextPoll, Read
<1>12. CASE MediaManager
  BY <1>12 DEF MediaManager, Get, Read
<1>13. CASE MediaList
  BY <1>13 DEF MediaList, Get, FirstMedia, Read
<1>14. CASE MediaGet
  BY <1>14 DEF MediaGet, Get, MediaFound, MediaSkipped, NextMedia, Read
<1>15. CASE InsertManager
  BY <1>15 DEF InsertManager, Get, Read
<1>16. CASE InsertVirtualMedia
  BY <1>16 DEF InsertVirtualMedia, AfterInsert, Write, InsertMedia
<1>17. CASE BootSystem
  BY <1>17 DEF BootSystem, Get, Read
<1>18. CASE SetBootSourceByType
  BY <1>18 DEF SetBootSourceByType, Write, SetBootSource
<1>19. CASE DellManager
  BY <1>19 DEF DellManager, Get, Read
<1>20. CASE DellSetBootSource
  <2>1. pc = "dell_post"
    BY <1>20 DEF DellSetBootSource
  <2>2. pc' # "vm_get" /\ (result' = "error" => clean' = FALSE)
    BY <1>20, <2>1 DEF DellSetBootSource
  <2> QED
    BY <2>2
<1>21. CASE CtxExpires
  BY <1>21 DEF CtxExpires, clientVars, replyVars
<1>22. CASE PowerSettles
  BY <1>22 DEF PowerSettles, CDImages, clientVars, replyVars
<1>23. CASE JobSettles
  BY <1>23 DEF JobSettles, clientVars, replyVars
<1>24. CASE PowerButton
  BY <1>24 DEF PowerButton, clientVars, replyVars
<1>25. ASSUME NEW m \in 1..N, EjectSettles(m) PROVE CauseInv'
  BY <1>25 DEF EjectSettles, clientVars, replyVars
<1>26. CASE Finished \/ UNCHANGED vars
  <2>1. UNCHANGED vars
    BY <1>26 DEF Finished
  <2> QED
    BY <2>1 DEF vars
<1>27. QED
  BY <1>1, <1>2, <1>3, <1>4, <1>5, <1>6, <1>7, <1>8, <1>9, <1>10, <1>11, <1>12,
     <1>13, <1>14, <1>15, <1>16, <1>17, <1>18, <1>19, <1>20, <1>21, <1>22, <1>23,
     <1>24, <1>25, <1>26 DEF Next, ContextRequest, BMCStep

\* The whole inductive invariant of the generic client.
IndInv == TypeInv /\ PendingInv /\ MediaInv /\ RebootInv /\ PowerInv

LEMMA IndInvHolds == ASSUME Dell = FALSE PROVE Spec => []IndInv
<1>1. Init => PendingInv /\ MediaInv /\ RebootInv /\ PowerInv
  BY DEF Init, PendingInv, MediaInv, RebootInv, PowerPromise, PowerInv
<1>2. TypeInv /\ [Next]_vars => TypeInv'
  BY TypeInvStep
<1>3. IndInv /\ [Next]_vars => IndInv'
  BY Zenon, TypeInvStep, MediaInvStep, RebootInvStep, PowerInvStep DEF IndInv
<1>4. Init => IndInv
  BY <1>1, TypeInvInit DEF IndInv
<1> QED
  BY <1>3, <1>4, PTL DEF Spec

\* SystemPowerOff, SystemPowerOn and RebootSystem keep their promises, for any
\* retry count and however long the host takes; the 409 shortcut included.
THEOREM PowerPromiseHolds == Spec => []PowerPromise
<1>1. Init => RebootInv
  BY DEF Init, RebootInv, PowerPromise
<1>2. Spec => [](TypeInv /\ RebootInv)
  BY <1>1, TypeInvInit, TypeInvStep, RebootInvStep, PTL DEF Spec
<1>3. RebootInv => PowerPromise
  BY DEF RebootInv
<1> QED
  BY <1>2, <1>3, PTL

\* RemoteDirect of the generic client reports success only for a host that was
\* off, is on, and runs the image it was given.
THEOREM RemoteDirectBootsISOHolds ==
    ASSUME Dell = FALSE PROVE Spec => []RemoteDirectBootsISO
<1>1. IndInv => RemoteDirectBootsISO
  BY DEF IndInv, PowerInv, Ready, OnlyNewImage, MediaInv, Undisturbed, RemoteDirectBootsISO
<1> QED
  BY <1>1, IndInvHolds, PTL

\* A host comes up only in the BMC's own step.
LEMMA HostComesUp ==
    [Next]_vars /\ power = "PoweringOn" /\ power' = "On" => PowerSettles
<1> SUFFICES ASSUME [Next]_vars, power # power', ~PowerSettles,
                    power = "PoweringOn", power' = "On"
             PROVE  FALSE
  OBVIOUS
<1> USE DEF bmcVars
<1>1. ASSUME NEW o \in Ops, NEW i \in {ISO, NoISO}, Begin(o, i) PROVE FALSE
  BY <1>1 DEF Begin
<1>2. CASE SystemPowerStatus \/ WaitOff \/ WaitOn
  BY <1>2 DEF SystemPowerStatus, WaitOff, WaitOn, waitForPowerState, Read
<1>3. CASE EjectManager \/ EjectList \/ EjectGet \/ EjectWait \/ MediaManager \/
   MediaList
        \/ MediaGet \/ InsertManager \/ BootSystem \/ DellManager
  BY <1>3 DEF EjectManager, EjectList, EjectGet, EjectWait, MediaManager, MediaList,
     MediaGet, InsertManager, BootSystem, DellManager, Get, Read
<1>4. CASE ResetOff \/ ResetOn
  BY <1>4 DEF ResetOff, ResetOn, Write, ForceOff, PowerOn
<1>5. CASE EjectRequest \/ InsertVirtualMedia \/ SetBootSourceByType \/ DellSetBootSource
  BY <1>5 DEF EjectRequest, InsertVirtualMedia, SetBootSourceByType, DellSetBootSource,
     Write, EjectMedia, InsertMedia, SetBootSource, AcceptJob
<1>6. CASE CtxExpires \/ JobSettles \/ PowerButton \/ Finished \/ UNCHANGED vars
  BY <1>6 DEF CtxExpires, JobSettles, PowerButton, Finished, vars
<1>7. ASSUME NEW m \in 1..N, EjectSettles(m) PROVE FALSE
  BY <1>7 DEF EjectSettles
<1> QED
  BY <1>1, <1>2, <1>3, <1>4, <1>5, <1>6, <1>7 DEF Next, ContextRequest, BMCStep

\* A RemoteDirect, failed half-way or not, never lets a host that was off boot
\* anything but the image it was given.
THEOREM NoEarlyBootHolds == ASSUME Dell = FALSE PROVE Spec => NoEarlyBoot
<1> DEFINE Boot == /\ op = "remotedirect" /\ wasOff /\ outside' = 0
                   /\ power = "PoweringOn" /\ power' = "On"
<1>1. IndInv /\ [Next]_vars => (Boot => booted' = iso)
  <2> SUFFICES ASSUME IndInv, [Next]_vars, Boot PROVE booted' = iso
    OBVIOUS
  <2>1. PowerSettles
    BY HostComesUp
  <2>2. outside = 0 /\ Ready
    BY <2>1 DEF IndInv, PowerInv, PowerSettles
  <2>3. CDImages = {iso}
    BY <2>2 DEF IndInv, TypeInv, TypeOK, ControlInv, Ready, OnlyNewImage, CDImages
  <2> QED
    BY <2>1, <2>2, <2>3 DEF Ready, PowerSettles
<1> QED
  BY <1>1, IndInvHolds, PTL DEF Spec, NoEarlyBoot

\* Whatever becomes of it, a RemoteDirect of either client never lets a host that
\* was off boot an image left over from before it.
THEOREM NoOldImageBootHolds == Spec => NoOldImageBoot
<1> DEFINE Boot == /\ op = "remotedirect" /\ wasOff /\ outside' = 0
                   /\ power = "PoweringOn" /\ power' = "On"
           Inv == TypeInv /\ PendingInv /\ MediaInv /\ RebootInv /\ HeldInv
<1>1. Init => PendingInv /\ MediaInv /\ RebootInv /\ HeldInv
  BY DEF Init, PendingInv, MediaInv, RebootInv, PowerPromise, HeldInv
<1>2. Init => Inv
  BY <1>1, TypeInvInit
<1>3. Inv /\ [Next]_vars => Inv'
  BY Zenon, TypeInvStep, MediaInvStep, RebootInvStep, HeldInvStep
<1>4. Inv /\ [Next]_vars => (Boot => booted' \in {iso, Disk})
  <2> SUFFICES ASSUME Inv, [Next]_vars, Boot PROVE booted' \in {iso, Disk}
    OBVIOUS
  <2>1. PowerSettles
    BY HostComesUp
  <2>2. outside = 0 /\ OnlyNewImage
    BY <2>1 DEF HeldInv, PowerSettles
  <2>3. CDImages = {iso}
    BY <2>2 DEF TypeInv, TypeOK, OnlyNewImage, CDImages
  <2> QED
    BY <2>1, <2>3 DEF PowerSettles
<1> QED
  BY <1>2, <1>3, <1>4, PTL DEF Spec, NoOldImageBoot

\* An operation fails only for a reason, whether or not go-redfish adds errors to
\* successes: a reply that is not a success, input and hardware that cannot do what
\* is asked, or an added error at one of the three requests that look at it alone.
THEOREM FailureHasCauseHolds == Spec => []FailureHasCause
<1>1. Init => CauseInv
  BY DEF Init, CauseInv, FailureHasCause, Impossible
<1>2. Spec => [](TypeInv /\ CauseInv)
  BY <1>1, TypeInvInit, TypeInvStep, CauseInvStep, PTL DEF Spec
<1>3. CauseInv => FailureHasCause
  BY DEF CauseInv
<1> QED
  BY <1>2, <1>3, PTL

-----------------------------------------------------------------------------
(* Refinement of HostOp.                                                    *)

\* What a step can do to the status of the operation: it goes on, and a deadline
\* that has passed stays so; it begins; it ends, and with success only before the
\* deadline; or there is none.
Continues == pc # "idle" /\ pc' # "idle" /\ (expired => expired')
Begins    == pc = "idle" /\ pc' # "idle"
Ends      == /\ pc # "idle" /\ pc' = "idle" /\ result' # "none" /\ expired' = expired
             /\ result' = "ok" => ~expired
Rests     == pc = "idle" /\ pc' = "idle" /\ result' = result

LEMMA StatusStep ==
    TypeInv /\ [Next]_vars => Continues \/ Begins \/ Ends \/ Rests
<1> SUFFICES ASSUME TypeInv, [Next]_vars PROVE Continues \/ Begins \/ Ends \/ Rests
  OBVIOUS
<1> USE DEF TypeInv, ControlInv, Continues, Begins, Ends, Rests,
    Replies, Success, Screened, NoClientErr, Receive, Return, Goto
<1>1. ASSUME NEW o \in Ops, NEW i \in {ISO, NoISO}, Begin(o, i) PROVE Begins
  BY <1>1 DEF Begin, Entry
<1>2. CASE SystemPowerStatus
  BY <1>2 DEF SystemPowerStatus, MediaOrMissingISO, Read
<1>3. CASE ResetOff
  BY <1>3 DEF ResetOff, OffAccepted, Loop, OffConflict, PoweredOff, MediaOrMissingISO, Write
<1>4. CASE WaitOff \/ WaitOn
  BY <1>4 DEF WaitOff, WaitOn, waitForPowerState, NextPoll, PoweredOff, MediaOrMissingISO,
     Read
<1>5. CASE ResetOn
  BY <1>5 DEF ResetOn, Loop, Write
<1>6. CASE EjectManager \/ EjectList \/ EjectGet \/ EjectWait
  BY <1>6 DEF EjectManager, EjectList, EjectGet, EjectWait, Get, MediaEmpty, Ejected,
     FirstMedia, NextMedia, NextPoll, Read
<1>7. CASE EjectRequest
  BY <1>7 DEF EjectRequest, EjectAccepted, Loop, Write
<1>8. CASE MediaManager \/ MediaList \/ MediaGet \/ InsertManager \/ BootSystem \/ DellManager
  BY <1>8 DEF MediaManager, MediaList, MediaGet, InsertManager, BootSystem, DellManager,
     Get, MediaFound, MediaSkipped, FirstMedia, NextMedia, Read
<1>9. CASE InsertVirtualMedia \/ SetBootSourceByType
  BY <1>9 DEF InsertVirtualMedia, AfterInsert, SetBootSourceByType, Write
<1>10. CASE DellSetBootSource
  <2>1. pc = "dell_post" /\ expired' = expired
    BY <1>10 DEF DellSetBootSource
  <2>2. pc' = "reset_on" \/ (pc' = "idle" /\ result' \in {"error", "panic"})
    BY <1>10 DEF DellSetBootSource
  <2> QED
    BY <2>1, <2>2
<1>11. CASE CtxExpires
  BY <1>11 DEF CtxExpires
<1>12. CASE PowerSettles \/ JobSettles \/ PowerButton
  BY <1>12 DEF PowerSettles, JobSettles, PowerButton, clientVars, replyVars
<1>13. ASSUME NEW m \in 1..N, EjectSettles(m) PROVE Continues \/ Rests
  BY <1>13 DEF EjectSettles, clientVars, replyVars
<1>14. CASE Finished \/ UNCHANGED vars
  BY <1>14 DEF Finished, vars
<1> QED
  BY <1>1, <1>2, <1>3, <1>4, <1>5, <1>6, <1>7, <1>8, <1>9, <1>10, <1>11, <1>12, <1>13,
     <1>14 DEF Next, ContextRequest, BMCStep

\* A success of any operation means that the host is in the state asked for.
LEMMA SuccessReached == IndInv /\ result = "ok" => Reached
<1> SUFFICES ASSUME IndInv, result = "ok" PROVE Reached
  OBVIOUS
<1>1. op \in Ops /\ outside \in Nat
  BY DEF IndInv, TypeInv, TypeOK
<1>2. CASE op = "eject"
  BY <1>2 DEF IndInv, MediaInv, AllEmpty, Reached
<1>3. CASE op \in {"poweroff", "poweron", "reboot"}
  BY <1>1, <1>3 DEF IndInv, RebootInv, PowerPromise, Undisturbed, Reached
<1>4. CASE op = "remotedirect"
  BY <1>1, <1>4 DEF IndInv, PowerInv, Ready, Undisturbed, Reached
<1>5. CASE op = "powerstatus"
  BY <1>5 DEF Reached
<1> QED
  BY <1>1, <1>2, <1>3, <1>4, <1>5 DEF Ops

\* What the refinement needs of a state.
HostInv ==
    /\ TypeInv /\ expired \in BOOLEAN /\ Reached \in BOOLEAN
    /\ result = "ok" => Reached = TRUE

LEMMA HostInvHolds == IndInv => HostInv
<1> SUFFICES ASSUME IndInv PROVE HostInv
  OBVIOUS
<1>1. TypeInv /\ op \in Ops /\ expired \in BOOLEAN
  BY DEF IndInv, TypeInv, TypeOK
<1>2. Reached \in BOOLEAN
  BY <1>1 DEF Ops, Reached
<1>3. result = "ok" => Reached
  BY SuccessReached
<1> QED
  BY <1>1, <1>2, <1>3 DEF HostInv

\* Every step of the client, the BMC and the world is a step of HostOp or changes
\* nothing of it.
LEMMA HostOpStep ==
    HostInv /\ HostInv' /\ [Next]_vars => [Abstract!Next]_(Abstract!vars)
<1> SUFFICES ASSUME HostInv, HostInv', [Next]_vars PROVE Abstract!Next
  OBVIOUS
<1>1. /\ expired \in BOOLEAN /\ expired' \in BOOLEAN /\ Reached' \in BOOLEAN
      /\ result' = "ok" => Reached' = TRUE
  BY DEF HostInv
<1>2. CASE Continues
  BY <1>1, <1>2 DEF Continues, Abstract!Next, Abstract!Work
<1>3. CASE Begins
  BY <1>1, <1>3 DEF Begins, Abstract!Next, Abstract!Begin
<1>4. CASE Ends
  BY <1>1, <1>4 DEF Ends, Abstract!Next, Abstract!Succeed, Abstract!Fail
<1>5. CASE Rests
  BY <1>1, <1>5 DEF Rests, Abstract!Next, Abstract!Rest
<1> QED
  BY <1>2, <1>3, <1>4, <1>5, StatusStep DEF HostInv

\* The generic client implements the operation on a host that the inventory relies
\* on, for any number of devices, retries, operations and uses of the power button:
\* it reports success only with the host in the state asked for and never after its
\* deadline.
THEOREM ImplementsHostOpHolds == ASSUME Dell = FALSE PROVE Spec => ImplementsHostOp
<1>1. Init => Abstract!Init
  <2> SUFFICES ASSUME Init PROVE Abstract!Init
    OBVIOUS
  <2>1. pc = "idle" /\ result = "none" /\ op \in Ops /\ expired \in BOOLEAN
    BY DEF Init, Ops
  <2>2. Reached \in BOOLEAN
    BY <2>1 DEF Ops, Reached
  <2> QED
    BY <2>1, <2>2 DEF Abstract!Init
<1> QED
  BY <1>1, HostOpStep, HostInvHolds, IndInvHolds, PTL DEF Spec, ImplementsHostOp, Abstract!Spec

-----------------------------------------------------------------------------
(* Refinement of HostOp by either client.                                   *)

\* How a RemoteDirect of either client gets to its success.
DirectInv ==
    /\ (op = "remotedirect" /\ pc = "wait_on" /\ Undisturbed) => wasOff
    /\ (op = "remotedirect" /\ wasOff /\ outside = 0 /\ power = "On") => booted \in {iso, Disk}
    /\ (op = "remotedirect" /\ result = "ok" /\ Undisturbed) => wasOff /\ power = "On"

\* No step disturbs it.
LEMMA DirectInvStep ==
    /\ TypeInv /\ TypeInv' /\ PendingInv /\ MediaInv /\ MediaInv'
    /\ RebootInv /\ HeldInv /\ DirectInv /\ [Next]_vars
    => DirectInv'
<1> SUFFICES ASSUME TypeInv, TypeInv', PendingInv, MediaInv, MediaInv',
                    RebootInv, HeldInv, DirectInv, [Next]_vars
             PROVE  DirectInv'
  OBVIOUS
<1> USE DEF TypeInv, TypeOK, PowerStates, ControlInv, EjectRequests, MediaRequests,
   PendingInv, MediaInv, AllEmpty, OnlyNewImage, RebootInv, HeldInv, DirectInv, Undisturbed,
    Replies, Success, Screened, NoClientErr, Receive, Return, Goto, boundVars, locals, bmcVars
<1>1. ASSUME NEW o \in Ops, NEW i \in {ISO, NoISO}, Begin(o, i) PROVE DirectInv'
  BY <1>1 DEF Begin, Entry, Ops
<1>2. CASE SystemPowerStatus
  BY <1>2 DEF SystemPowerStatus, TakenForOff, MediaOrMissingISO, Read
<1>3. CASE ResetOff
  BY <1>3 DEF ResetOff, OffAccepted, Loop, OffConflict, PoweredOff,
     MediaOrMissingISO, Write, ForceOff
<1>4. CASE WaitOff
  BY <1>4 DEF WaitOff, waitForPowerState, NextPoll, PoweredOff, MediaOrMissingISO, Read
<1>5. CASE ResetOn
  BY <1>5 DEF ResetOn, Loop, Write, PowerOn
<1>6. CASE WaitOn
  BY <1>6 DEF WaitOn, waitForPowerState, NextPoll, Read
<1>7. CASE EjectManager
  BY <1>7 DEF EjectManager, Get, Read
<1>8. CASE EjectList
  BY <1>8 DEF EjectList, Get, Ejected, FirstMedia, Read
<1>9. CASE EjectGet
  BY <1>9 DEF EjectGet, Get, MediaEmpty, Ejected, NextMedia, Read
<1>10. CASE EjectRequest
  BY <1>10 DEF EjectRequest, EjectAccepted, Loop, Write, EjectMedia
<1>11. CASE EjectWait
  BY <1>11 DEF EjectWait, Get, MediaEmpty, Ejected, NextMedia, NextPoll, Read
<1>12. CASE MediaManager
  BY <1>12 DEF MediaManager, Get, Read
<1>13. CASE MediaList
  BY <1>13 DEF MediaList, Get, FirstMedia, Read
<1>14. CASE MediaGet
  BY <1>14 DEF MediaGet, Get, MediaFound, MediaSkipped, NextMedia, Read
<1>15. CASE InsertManager
  BY <1>15 DEF InsertManager, Get, Read
<1>16. CASE InsertVirtualMedia
  BY <1>16 DEF InsertVirtualMedia, AfterInsert, Write, InsertMedia
<1>17. CASE BootSystem
  BY <1>17 DEF BootSystem, Get, Read
<1>18. CASE SetBootSourceByType
  BY <1>18 DEF SetBootSourceByType, Write, SetBootSource
<1>19. CASE DellManager
  BY <1>19 DEF DellManager, Get, Read
<1>20. CASE DellSetBootSource
  <2>1. /\ op = "remotedirect" /\ pc = "dell_post"
        /\ UNCHANGED <<op, iso, power, media, ejecting, booted, target, wasOff, outside,
                       misled>>
        /\ pc' \in {"reset_on", "idle"} /\ result' # "ok"
    BY <1>20 DEF DellSetBootSource, AcceptJob
  <2> QED
    BY <2>1
<1>21. CASE CtxExpires
  BY <1>21 DEF CtxExpires, clientVars, replyVars
<1>22. CASE PowerSettles
  <2>1. ASSUME op = "remotedirect", wasOff, outside = 0, power = "PoweringOn" PROVE CDImages = {iso}
    BY <2>1, NAssumption, ImageAssumption DEF CDImages
  <2>2. UNCHANGED <<op, iso, pc, result, outside, misled>>
    BY <1>22 DEF PowerSettles, clientVars, replyVars
  <2>3. \/ power' = "Off" /\ power = "PoweringOff"
        \/ /\ power = "PoweringOn" /\ power' = "On" /\ wasOff' = wasOff
           /\ booted' \in (IF bootCD /\ CDImages # {} THEN CDImages ELSE {Disk})
    <3>1. power = "PoweringOn" /\ power' = "On" => wasOff' = wasOff
      BY <1>22 DEF PowerSettles
    <3> QED
      BY <1>22, <3>1 DEF PowerSettles
  <2>4. wasOff => wasOff'
    BY <1>22 DEF PowerSettles
  <2> QED
    BY <2>1, <2>2, <2>3, <2>4
<1>23. CASE JobSettles
  BY <1>23 DEF JobSettles, clientVars, replyVars
<1>24. CASE PowerButton
  BY <1>24 DEF PowerButton, clientVars, replyVars
<1>25. ASSUME NEW m \in 1..N, EjectSettles(m) PROVE DirectInv'
  BY <1>25 DEF EjectSettles, clientVars, replyVars
<1>26. CASE Finished \/ UNCHANGED vars
  <2>1. UNCHANGED vars
    BY <1>26 DEF Finished
  <2> QED
    BY <2>1 DEF vars
<1>27. QED
  BY <1>1, <1>2, <1>3, <1>4, <1>5, <1>6, <1>7, <1>8, <1>9, <1>10, <1>11, <1>12,
     <1>13, <1>14, <1>15, <1>16, <1>17, <1>18, <1>19, <1>20, <1>21, <1>22, <1>23,
     <1>24, <1>25, <1>26 DEF Next, ContextRequest, BMCStep

\* The invariant of both clients.
EitherInv == TypeInv /\ PendingInv /\ MediaInv /\ RebootInv /\ HeldInv /\ DirectInv

LEMMA EitherInvHolds == Spec => []EitherInv
<1>1. Init => PendingInv /\ MediaInv /\ RebootInv /\ HeldInv /\ DirectInv
  BY DEF Init, PendingInv, MediaInv, RebootInv, PowerPromise, HeldInv, DirectInv
<1>2. Init => EitherInv
  BY <1>1, TypeInvInit DEF EitherInv
<1>3. EitherInv /\ [Next]_vars => EitherInv'
  BY Zenon, TypeInvStep, MediaInvStep, RebootInvStep, HeldInvStep, DirectInvStep DEF EitherInv
<1> QED
  BY <1>2, <1>3, PTL DEF Spec

\* The state either client brings the host into: after a RemoteDirect it was off and
\* has come up, and the new image alone is in the drives.  It has booted from the
\* image, or from its disk where the iDRAC had not run the job yet that makes the
\* virtual CD the boot source.
ReachedByEither ==
    IF op = "remotedirect"
    THEN OnlyNewImage /\ ((wasOff /\ power = "On" /\ booted \in {iso, Disk}) \/ ~Undisturbed)
    ELSE Reached

Either == INSTANCE HostOp WITH
    status <- CASE pc # "idle" -> "running"
                [] pc = "idle" /\ result = "none" -> "idle"
                [] pc = "idle" /\ result = "ok" -> "ok"
                [] OTHER -> "failed",
    goal <- ReachedByEither

\* What the refinement needs of a state.
EitherHost ==
    /\ TypeInv /\ expired \in BOOLEAN /\ ReachedByEither \in BOOLEAN
    /\ result = "ok" => ReachedByEither = TRUE

\* A success of either client means that the host is in that state.
LEMMA EitherReached == EitherInv => EitherHost
<1> SUFFICES ASSUME EitherInv PROVE EitherHost
  OBVIOUS
<1>1. TypeInv /\ op \in Ops /\ expired \in BOOLEAN /\ outside \in Nat
  BY DEF EitherInv, TypeInv, TypeOK
<1>2. ReachedByEither \in BOOLEAN
  <2>1. Reached \in BOOLEAN
    BY <1>1 DEF Ops, Reached
  <2>2. OnlyNewImage \in BOOLEAN
    BY DEF OnlyNewImage
  <2> QED
    BY <2>1, <2>2 DEF ReachedByEither
<1>3. ASSUME result = "ok" PROVE ReachedByEither
  <2>1. CASE op = "eject"
    BY <1>3, <2>1 DEF EitherInv, MediaInv, AllEmpty, Reached, ReachedByEither
  <2>2. CASE op \in {"poweroff", "poweron", "reboot"}
    BY <1>1, <1>3, <2>2 DEF EitherInv, RebootInv, PowerPromise, Undisturbed, Reached, ReachedByEither
  <2>3. CASE op = "remotedirect"
    BY <1>1, <1>3, <2>3 DEF EitherInv, MediaInv, DirectInv, Undisturbed, ReachedByEither
  <2>4. CASE op = "powerstatus"
    BY <2>4 DEF Reached, ReachedByEither
  <2> QED
    BY <1>1, <2>1, <2>2, <2>3, <2>4 DEF Ops
<1> QED
  BY <1>1, <1>2, <1>3 DEF EitherHost

\* Every step of either client is a step of HostOp or changes nothing of it.
LEMMA EitherStep ==
    EitherHost /\ EitherHost' /\ [Next]_vars => [Either!Next]_(Either!vars)
<1> SUFFICES ASSUME EitherHost, EitherHost', [Next]_vars PROVE Either!Next
  OBVIOUS
<1>1. /\ TypeInv /\ expired \in BOOLEAN /\ expired' \in BOOLEAN /\ ReachedByEither' \in BOOLEAN
      /\ result' = "ok" => ReachedByEither' = TRUE
  BY DEF EitherHost
<1>2. CASE Continues
  BY <1>1, <1>2 DEF Continues, Either!Next, Either!Work
<1>3. CASE Begins
  BY <1>1, <1>3 DEF Begins, Either!Next, Either!Begin
<1>4. CASE Ends
  BY <1>1, <1>4 DEF Ends, Either!Next, Either!Succeed, Either!Fail
<1>5. CASE Rests
  BY <1>1, <1>5 DEF Rests, Either!Next, Either!Rest
<1> QED
  BY <1>1, <1>2, <1>3, <1>4, <1>5, StatusStep

\* Either client, the one for Dell included, implements the operation on a host that
\* the inventory relies on: it reports success only with the host in the state asked
\* for, which for a RemoteDirect is the weaker one above, and never after its
\* deadline (baremetal.go:116, vendors/dell/client.go:58).
THEOREM EitherImplementsHostOp == Spec => Either!Spec
<1>1. Init => Either!Init
  <2> SUFFICES ASSUME Init PROVE Either!Init
    OBVIOUS
  <2>1. pc = "idle" /\ result = "none" /\ op \in Ops /\ expired \in BOOLEAN /\ op # "remotedirect"
    BY DEF Init, Ops
  <2>2. ReachedByEither \in BOOLEAN
    BY <2>1 DEF Ops, Reached, ReachedByEither
  <2> QED
    BY <2>1, <2>2 DEF Either!Init
<1> QED
  BY <1>1, EitherStep, EitherReached, EitherInvHolds, PTL DEF Spec, Either!Spec

-----------------------------------------------------------------------------
(* An operation ends: it has a bounded number of requests to send.          *)

\* What is left of the eject loop after device m, a request for the device, its
\* ejection and every turn of the wait at each.
EjectsLeft(m) == (N - m) * (SystemActionRetries + 2)

\* From the On request on, the boot source, the insertion of the image with the
\* search for the device, twice, and the eject loop.
OnRequests == SystemActionRetries + 2
BootRequests == OnRequests + 2
InsertRequests == N + 3 + BootRequests
SetMediaRequests == N + 3 + InsertRequests
EjectAllRequests == EjectsLeft(0) + 2 + SetMediaRequests

\* The most requests an operation can still send that is at request p, for caller
\* s, at device m and in turn r of a polling loop.
LeftAt(p, s, m, r) ==
    CASE p = "idle"       -> 0
      [] p = "wait_on"    -> SystemActionRetries + 1 - r
      [] p = "reset_on"   -> OnRequests
      [] p \in {"boot_set", "dell_post"} -> OnRequests + 1
      [] p \in {"boot_sys", "dell_mgr"}  -> BootRequests
      [] p = "vm_get"     -> N - m + 1 + (IF s = "boot" THEN BootRequests ELSE InsertRequests + 1)
      [] p = "vm_list"    -> N + 1 + (IF s = "boot" THEN BootRequests ELSE InsertRequests + 1)
      [] p = "vm_mgr"     -> N + 2 + (IF s = "boot" THEN BootRequests ELSE InsertRequests + 1)
      [] p = "insert"     -> InsertRequests
      [] p = "insert_mgr" -> InsertRequests + 1
      [] p = "eject_get"  -> EjectsLeft(m) + SystemActionRetries + 2 + SetMediaRequests
      [] p = "eject_req"  -> EjectsLeft(m) + SystemActionRetries + 1 + SetMediaRequests
      [] p = "eject_wait" -> EjectsLeft(m) + SystemActionRetries - r + SetMediaRequests
      [] p = "eject_list" -> EjectsLeft(0) + 1 + SetMediaRequests
      [] p = "eject_mgr"  -> EjectAllRequests
      [] p = "wait_off"   -> SystemActionRetries + 1 - r + EjectAllRequests
      [] p = "reset_off"  -> SystemActionRetries + 2 + EjectAllRequests
      [] p = "status"     -> SystemActionRetries + 3 + EjectAllRequests

RequestsLeft == LeftAt(pc, stage, mi, retry)

\* The longest operation: a RemoteDirect that polls to the end everywhere.
MaxRequests == N * (SystemActionRetries + 4) + 2 * SystemActionRetries + 15

\* The loop counters stay within what the loops allow.
PollInv ==
    /\ pc \in {"wait_off", "wait_on"} => retry <= SystemActionRetries
    /\ pc = "eject_wait" => retry < SystemActionRetries

\* One device less is one device's requests less.
LEMMA EjectsLess ==
    /\ \A m \in 0..N : EjectsLeft(m) \in Nat /\ EjectsLeft(m) <= EjectsLeft(0)
    /\ \A m \in 0..(N - 1) : EjectsLeft(m) = EjectsLeft(m + 1) + SystemActionRetries + 2
    /\ EjectsLeft(N) = 0
    /\ MaxRequests = SystemActionRetries + 3 + EjectAllRequests
<1> DEFINE E == SystemActionRetries + 2
<1>1. E \in Nat /\ N \in Nat /\ SystemActionRetries \in Nat
  BY NAssumption, RetriesAssumption
<1>2. \A j, d, e \in Nat : (j + d) * e = j * e + d * e /\ j * e \in Nat
  OBVIOUS
<1>3. \A e \in Nat : 0 * e = 0 /\ 1 * e = e
  OBVIOUS
<1>4. N * (E + 2) = N * E + 2 * N
  <2> HIDE DEF E
  <2>1. \A j, e \in Nat : j * (e + 2) = j * e + 2 * j
    OBVIOUS
  <2> QED
    BY <1>1, <2>1
<1> HIDE DEF E
<1>5. ASSUME NEW m \in 0..N PROVE (N - m) * E \in Nat /\ (N - m) * E <= N * E
  <2>1. N - m \in Nat /\ m \in Nat /\ N = (N - m) + m
    BY <1>1
  <2>2. (N - m) * E \in Nat /\ m * E \in Nat /\ N * E = (N - m) * E + m * E
    BY <1>1, <1>2, <2>1
  <2> QED
    BY <2>2
<1>6. ASSUME NEW m \in 0..(N - 1) PROVE (N - m) * E = (N - (m + 1)) * E + E
  <2>1. N - (m + 1) \in Nat /\ N - m = (N - (m + 1)) + 1
    BY <1>1
  <2> QED
    BY <1>1, <1>2, <1>3, <2>1
<1>7. \A m \in 0..N : EjectsLeft(m) = (N - m) * E
  BY DEF EjectsLeft, E
<1>8. EjectsLeft(0) = N * E /\ EjectsLeft(N) = 0
  <2>1. N - 0 = N /\ N - N = 0 /\ 0 \in 0..N /\ N \in 0..N
    BY <1>1
  <2> QED
    BY <1>1, <1>3, <1>7, <2>1
<1>9. \A m \in 0..N : EjectsLeft(m) \in Nat /\ EjectsLeft(m) <= EjectsLeft(0)
  BY <1>5, <1>7, <1>8
<1>10. \A m \in 0..(N - 1) : EjectsLeft(m) = EjectsLeft(m + 1) + SystemActionRetries + 2
  <2> TAKE m \in 0..(N - 1)
  <2>1. m \in 0..N /\ m + 1 \in 0..N
    BY <1>1
  <2>2. EjectsLeft(m) = EjectsLeft(m + 1) + E /\ EjectsLeft(m + 1) \in Nat
    BY <1>6, <1>7, <1>9, <2>1
  <2> QED
    BY <1>1, <2>2 DEF E
<1>11. MaxRequests = SystemActionRetries + 3 + EjectAllRequests
  <2>1. SystemActionRetries + 4 = E + 2
    BY <1>1 DEF E
  <2>2. MaxRequests = EjectsLeft(0) + 2 * N + 2 * SystemActionRetries + 15 /\ EjectsLeft(0) \in Nat
    <3>1. MaxRequests = N * (E + 2) + 2 * SystemActionRetries + 15
      BY <2>1 DEF MaxRequests
    <3>2. EjectsLeft(0) \in Nat /\ N * (E + 2) = EjectsLeft(0) + 2 * N
      BY <1>1, <1>4, <1>8, <1>9
    <3> QED
      BY <3>1, <3>2
  <2>3. SetMediaRequests = 2 * N + SystemActionRetries + 10
    BY <1>1 DEF SetMediaRequests, InsertRequests, BootRequests, OnRequests
  <2>4. EjectAllRequests = EjectsLeft(0) + 2 + (2 * N + SystemActionRetries + 10)
    BY <2>3, Zenon DEF EjectAllRequests
  <2>5. \A n, r, e \in Nat : e + 2 * n + 2 * r + 15 = r + 3 + (e + 2 + (2 * n + r + 10))
    OBVIOUS
  <2> QED
    BY <1>1, <2>2, <2>4, <2>5, Zenon
<1> QED
  BY <1>8, <1>9, <1>10, <1>11

\* Request by request.
LEMMA LeftIs ==
    \A s, m, r :
        /\ LeftAt("idle", s, m, r) = 0
        /\ LeftAt("wait_on", s, m, r) = SystemActionRetries + 1 - r
        /\ LeftAt("reset_on", s, m, r) = OnRequests
        /\ LeftAt("boot_set", s, m, r) = OnRequests + 1
        /\ LeftAt("dell_post", s, m, r) = OnRequests + 1
        /\ LeftAt("boot_sys", s, m, r) = BootRequests
        /\ LeftAt("dell_mgr", s, m, r) = BootRequests
        /\ LeftAt("vm_get", s, m, r) = N - m + 1 + (IF s = "boot" THEN BootRequests ELSE InsertRequests + 1)
        /\ LeftAt("vm_list", s, m, r) = N + 1 + (IF s = "boot" THEN BootRequests ELSE InsertRequests + 1)
        /\ LeftAt("vm_mgr", s, m, r) = N + 2 + (IF s = "boot" THEN BootRequests ELSE InsertRequests + 1)
        /\ LeftAt("insert", s, m, r) = InsertRequests
        /\ LeftAt("insert_mgr", s, m, r) = InsertRequests + 1
        /\ LeftAt("eject_get", s, m, r) = EjectsLeft(m) + SystemActionRetries + 2 + SetMediaRequests
        /\ LeftAt("eject_req", s, m, r) = EjectsLeft(m) + SystemActionRetries + 1 + SetMediaRequests
        /\ LeftAt("eject_wait", s, m, r) = EjectsLeft(m) + SystemActionRetries - r + SetMediaRequests
        /\ LeftAt("eject_list", s, m, r) = EjectsLeft(0) + 1 + SetMediaRequests
        /\ LeftAt("eject_mgr", s, m, r) = EjectAllRequests
        /\ LeftAt("wait_off", s, m, r) = SystemActionRetries + 1 - r + EjectAllRequests
        /\ LeftAt("reset_off", s, m, r) = SystemActionRetries + 2 + EjectAllRequests
        /\ LeftAt("status", s, m, r) = SystemActionRetries + 3 + EjectAllRequests
BY DEF LeftAt

\* Every request is one request less, and keeps the loop counters in their bounds.
LEMMA RequestSent ==
    ASSUME TypeInv, PollInv, ContextRequest PROVE PollInv' /\ RequestsLeft' < RequestsLeft
<1>0. /\ N \in Nat /\ SystemActionRetries \in Nat /\ mi \in Nat /\ retry \in Nat /\ stage \in {"media", "boot"}
      /\ mi \in 1..N => EjectsLeft(mi) \in Nat
      /\ mi \in 1..N /\ mi # N => EjectsLeft(mi) = EjectsLeft(mi + 1) + SystemActionRetries + 2
      /\ pc \in {"eject_get", "eject_req", "eject_wait", "vm_get"} => mi \in 1..N
  <2>1. N \in Nat /\ SystemActionRetries \in Nat
    BY NAssumption, RetriesAssumption
  <2>2. /\ mi \in Nat /\ retry \in Nat /\ stage \in {"media", "boot"}
        /\ pc \in {"eject_get", "eject_req", "eject_wait", "vm_get"} => mi \in 1..N
    BY <2>1 DEF TypeInv, TypeOK, ControlInv
  <2>3. ASSUME mi \in 1..N PROVE EjectsLeft(mi) \in Nat
    BY <2>1, <2>3, EjectsLess
  <2>4. ASSUME mi \in 1..N, mi # N PROVE EjectsLeft(mi) = EjectsLeft(mi + 1) + SystemActionRetries + 2
    <3>1. mi \in 0..(N - 1)
      BY <2>1, <2>4
    <3> QED
      BY <3>1, EjectsLess
  <2> QED
    BY <2>1, <2>2, <2>3, <2>4
<1> USE <1>0, EjectsLess, LeftIs
    DEF PollInv, RequestsLeft, EjectAllRequests, SetMediaRequests, InsertRequests, BootRequests,
        OnRequests, Return, Goto
<1>1. CASE SystemPowerStatus
  BY <1>1 DEF SystemPowerStatus, TakenForOff, MediaOrMissingISO, Read
<1>2. CASE ResetOff
  BY <1>2 DEF ResetOff, OffAccepted, Loop, OffConflict, PoweredOff, MediaOrMissingISO, Write
<1>3. CASE WaitOff
  BY <1>3 DEF WaitOff, waitForPowerState, PollsPower, NextPoll, PoweredOff, MediaOrMissingISO, Read
<1>4. CASE ResetOn
  BY <1>4 DEF ResetOn, Loop, Write
<1>5. CASE WaitOn
  BY <1>5 DEF WaitOn, waitForPowerState, PollsPower, NextPoll, Read
<1>6. CASE EjectManager
  BY <1>6 DEF EjectManager, Get, Read
<1>7. CASE EjectList
  BY <1>7 DEF EjectList, Get, Ejected, FirstMedia, Read
<1>8. CASE EjectGet
  BY <1>8 DEF EjectGet, Get, MediaEmpty, Ejected, NextMedia, Read
<1>9. CASE EjectRequest
  BY <1>9 DEF EjectRequest, EjectAccepted, PollsEject, Loop, Write
<1>10. CASE EjectWait
  BY <1>10 DEF EjectWait, Get, PollsEject, MediaEmpty, Ejected, NextMedia, NextPoll, Read
<1>11. CASE MediaManager
  BY <1>11 DEF MediaManager, Get, Read
<1>12. CASE MediaList
  BY <1>12 DEF MediaList, Get, FirstMedia, Read
<1>13. CASE MediaGet
  BY <1>13 DEF MediaGet, Get, MediaFound, MediaSkipped, NextMedia, Read
<1>14. CASE InsertManager
  BY <1>14 DEF InsertManager, Get, Read
<1>15. CASE InsertVirtualMedia
  BY <1>15 DEF InsertVirtualMedia, AfterInsert, Write
<1>16. CASE BootSystem
  BY <1>16 DEF BootSystem, Get, Read
<1>17. CASE SetBootSourceByType
  BY <1>17 DEF SetBootSourceByType, Write
<1>18. CASE DellManager
  BY <1>18 DEF DellManager, Get, Read
<1> QED
  BY <1>1, <1>2, <1>3, <1>4, <1>5, <1>6, <1>7, <1>8, <1>9, <1>10, <1>11, <1>12, <1>13, <1>14,
     <1>15, <1>16, <1>17, <1>18 DEF ContextRequest

\* The POST of the Dell client is one request less, too.
LEMMA DellRequestSent ==
    ASSUME TypeInv, PollInv, DellSetBootSource PROVE PollInv' /\ RequestsLeft' < RequestsLeft
<1>1. SystemActionRetries \in Nat
  BY RetriesAssumption
<1>2. pc = "dell_post" /\ pc' \in {"idle", "reset_on"} /\ UNCHANGED <<stage, mi, retry>>
  BY DEF DellSetBootSource, Goto, Return
<1>3. RequestsLeft = SystemActionRetries + 3
  BY <1>1, <1>2, LeftIs DEF RequestsLeft, OnRequests
<1>4. RequestsLeft' \in {0, SystemActionRetries + 2}
  BY <1>1, <1>2, LeftIs DEF RequestsLeft, OnRequests
<1> QED
  BY <1>1, <1>2, <1>3, <1>4 DEF PollInv

\* Nothing but a request and the call of the next operation changes what is left.
LEMMA OtherStepsWait ==
    ASSUME PollInv, CtxExpires \/ BMCStep \/ Finished \/ UNCHANGED vars
    PROVE  PollInv' /\ RequestsLeft' = RequestsLeft
<1>1. UNCHANGED <<pc, stage, mi, retry>>
  BY DEF CtxExpires, BMCStep, PowerSettles, JobSettles, PowerButton, EjectSettles, Finished, vars,
         clientVars, replyVars, locals
<1> QED
  BY <1>1 DEF PollInv, RequestsLeft

\* What an operation has left is a number, none if and only if it has ended.
LEMMA LeftInRange ==
    ASSUME TypeInv, PollInv
    PROVE  RequestsLeft \in 0..MaxRequests /\ (RequestsLeft = 0 <=> pc = "idle")
<1>1. /\ N \in Nat /\ SystemActionRetries \in Nat /\ retry \in Nat /\ stage \in {"media", "boot"}
      /\ pc \in Requests \cup {"idle"}
      /\ mi \in 1..N => mi \in Nat /\ mi <= N /\ EjectsLeft(mi) \in Nat /\ EjectsLeft(mi) + SystemActionRetries + 2 <= EjectsLeft(0)
      /\ pc \in {"eject_get", "eject_req", "eject_wait", "vm_get"} => mi \in 1..N
      /\ EjectsLeft(0) \in Nat
  <2>1. N \in Nat /\ SystemActionRetries \in Nat
    BY NAssumption, RetriesAssumption
  <2>2. ASSUME mi \in 1..N PROVE EjectsLeft(mi) \in Nat /\ EjectsLeft(mi) + SystemActionRetries + 2 <= EjectsLeft(0)
    <3>1. mi - 1 \in 0..(N - 1) /\ mi - 1 \in 0..N /\ mi \in 0..N /\ (mi - 1) + 1 = mi
      BY <2>1, <2>2
    <3>2. EjectsLeft(mi - 1) = EjectsLeft(mi) + SystemActionRetries + 2 /\ EjectsLeft(mi - 1) <= EjectsLeft(0)
          /\ EjectsLeft(mi) \in Nat
      BY <3>1, EjectsLess
    <3> QED
      BY <3>2
  <2>3. EjectsLeft(0) \in Nat
    <3>1. 0 \in 0..N
      BY <2>1
    <3> QED
      BY <3>1, EjectsLess
  <2> QED
    BY <2>1, <2>2, <2>3 DEF TypeInv, TypeOK, ControlInv
<1>2. MaxRequests = SystemActionRetries + 3 + EjectAllRequests
  BY EjectsLess
<1> USE DEF PollInv, RequestsLeft, EjectAllRequests, SetMediaRequests, InsertRequests, BootRequests, OnRequests
<1>3. CASE pc \in EjectRequests
  BY <1>1, <1>2, <1>3, LeftIs DEF EjectRequests
<1>4. CASE pc \in MediaRequests
  BY <1>1, <1>2, <1>4, LeftIs DEF MediaRequests
<1>5. CASE pc \in {"idle", "status", "reset_off", "wait_off", "reset_on", "wait_on"}
  BY <1>1, <1>2, <1>5, LeftIs
<1> QED
  BY <1>1, <1>3, <1>4, <1>5 DEF Requests, EjectRequests, MediaRequests

\* Types and control flow hold in every state.
LEMMA TypeInvHolds == Spec => []TypeInv
  BY TypeInvInit, TypeInvStep, PTL DEF Spec

\* The loop counters stay in their bounds.
LEMMA PollsHold == Spec => [](TypeInv /\ PollInv)
<1>1. Init => PollInv
  BY DEF Init, PollInv
<1>2. TypeInv /\ PollInv /\ [Next]_vars => PollInv'
  <2> SUFFICES ASSUME TypeInv, PollInv, [Next]_vars PROVE PollInv'
    OBVIOUS
  <2>1. ASSUME NEW o, NEW i, Begin(o, i) PROVE PollInv'
    BY <2>1 DEF Begin, Entry, PollInv
  <2> QED
    BY <2>1, RequestSent, DellRequestSent, OtherStepsWait DEF Next
<1> QED
  BY <1>1, <1>2, TypeInvHolds, PTL DEF Spec

\* As long as an operation runs, every request, whatever the BMC answers to it,
\* brings its end closer, and nothing takes it further away.
ComesCloser ==
    pc # "idle" =>
        /\ ContextRequest \/ DellSetBootSource => RequestsLeft' < RequestsLeft
        /\ ~(ContextRequest \/ DellSetBootSource) => RequestsLeft' = RequestsLeft

\* An operation sends at most MaxRequests requests, with or without a deadline and
\* whatever the BMC answers: the loops of waitForPowerState, waitForEjectMedia and
\* over the media collection all end (client.go:73, client.go:383).
THEOREM OperationsAreBounded ==
    Spec => [](RequestsLeft \in 0..MaxRequests /\ (RequestsLeft = 0 <=> pc = "idle")) /\ [][ComesCloser]_vars
<1>1. TypeInv /\ PollInv /\ [Next]_vars => [ComesCloser]_vars
  <2> SUFFICES ASSUME TypeInv, PollInv, Next, pc # "idle"
               PROVE  /\ ContextRequest \/ DellSetBootSource => RequestsLeft' < RequestsLeft
                      /\ ~(ContextRequest \/ DellSetBootSource) => RequestsLeft' = RequestsLeft
    BY DEF ComesCloser
  <2>1. \A o, i : ~Begin(o, i)
    BY DEF Begin
  <2> QED
    BY <2>1, RequestSent, DellRequestSent, OtherStepsWait DEF Next
<1>2. TypeInv /\ PollInv => RequestsLeft \in 0..MaxRequests /\ (RequestsLeft = 0 <=> pc = "idle")
  BY LeftInRange
<1> QED
  BY <1>1, <1>2, PollsHold, PTL DEF Spec

=============================================================================
