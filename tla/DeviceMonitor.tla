---------------------------- MODULE DeviceMonitor ----------------------------
(***************************************************************************)
(* How skinnySipManager keeps its device lists in step with the machine.   *)
(* The operating system signals every plug and unplug on a thread of its    *)
(* own (audio end points) or through the SIP thread's window (cameras).     *)
(* OnDevicesChange keeps only the LAST signalled direction, in              *)
(* dev_.devAction, and posts MSG_DEVICES_CHANGED to the SIP thread 150 ms    *)
(* later.  The handler looks for ONE device that differs in that direction;  *)
(* if it finds one it arms itself again, if not it retries once after 1 s.   *)
(***************************************************************************)
EXTENDS Integers, Sequences, FiniteSets

CONSTANTS
  Devices,    (* devices that may be plugged in                             *)
  NoDevice,   (* not one of them                                            *)
  TypeOf,     (* TypeOf[d]: "AUDIO_IN", "AUDIO_OUT" or "VIDEO"              *)
  Selected,   (* the camera selectedDeviceoptions_ names                    *)
  MaxChanges  (* bound: plugs and unplugs                                   *)

DevTypes == <<"AUDIO_IN", "AUDIO_OUT", "VIDEO">>   \* the order of the scans

ASSUME DeviceAssumption ==
  /\ TypeOf \in [Devices -> {"AUDIO_IN", "AUDIO_OUT", "VIDEO"}]
  /\ NoDevice \notin Devices
  /\ Selected \in Devices /\ TypeOf[Selected] = "VIDEO"
  /\ MaxChanges \in Nat

VARIABLES
  present,    \* devices an enumeration shows
  changes,    \* number of plugs and unplugs so far
  hidden,     \* changes no enumeration shows yet
  signals,    \* changes OnDevicesChange has not been called for yet
  lastAction, \* direction of the newest change
  overlapped, \* a change came while one of the opposite direction was being handled
  listed,     \* audioCaptureDevices_, audioPlayoutDevices_, videoCaptureDevices_
  devAction,  \* dev_.devAction, written by every thread
  found,      \* dev_.devGuid
  queue,      \* delayed messages of client_thread_, by due time
  client,     \* the SIP thread: "idle", or where it is in the handler
  pass,       \* the branch the handler took
  believed,   \* the lists as the application knows them from the notices
  capIdx      \* cap_idx_: the selected camera or NoDevice

machineVars == <<present, changes, hidden, signals, lastAction, overlapped>>
clientVars  == <<listed, found, client, pass, believed, capIdx>>
vars == <<machineVars, clientVars, devAction, queue>>

Actions == {"ADDED", "REMOVED"}
Change  == [id : 1 .. MaxChanges, dev : Devices, action : Actions]
\* retry: the message's flag; waits: changes that will be visible when it is due.
Message == [kind : {"enum", "soon", "late"}, waits : SUBSET (1 .. MaxChanges)]

Ids(S) == {ch.id : ch \in S}
Pending(d) == \E ch \in hidden \cup signals : ch.dev = d

\* Nothing is on its way: no change, no message, no handler.
Quiet == hidden = {} /\ signals = {} /\ queue = <<>> /\ client = "idle"

-----------------------------------------------------------------------------
(* Delays.  A message due in 150 ms comes after the others that are, and      *)
(* before or after the 1 s ones that wait; one due in 1 s comes last.          *)

Soon == [kind |-> "soon", waits |-> {}]
Late == [kind |-> "late", waits |-> Ids(hidden)]

PostSoon(q) ==
  \E k \in 0 .. Len(q) :
    /\ \A i \in k + 1 .. Len(q) : q[i].kind = "late"
    /\ queue' = SubSeq(q, 1, k) \o <<Soon>> \o SubSeq(q, k + 1, Len(q))

NoRetry(retry) == queue' = Tail(queue)   \* mutant
RetryForever(retry) == queue' = Append(Tail(queue), Late)   \* mutant
\* Nothing found: the message goes, and comes back once after a second.
Retry(retry) == queue' = IF retry THEN Append(Tail(queue), Late) ELSE Tail(queue)

-----------------------------------------------------------------------------
(* The machine.                                                              *)

\* A device is plugged in or pulled.  An enumeration shows it, and the signal
\* comes, a little later and in either order.
MachineChange(d, action) ==
  /\ changes < MaxChanges /\ ~Pending(d)
  /\ (action = "ADDED") <=> d \notin present
  /\ LET ch == [id |-> changes + 1, dev |-> d, action |-> action] IN
       hidden' = hidden \cup {ch} /\ signals' = signals \cup {ch}
  /\ changes' = changes + 1
  /\ lastAction' = action
  /\ overlapped' = (overlapped \/ ~(Quiet \/ action = lastAction))
  /\ UNCHANGED <<present, clientVars, devAction, queue>>

Appear(ch) ==
  /\ ch \in hidden
  /\ hidden' = hidden \ {ch}
  /\ present' = IF ch.action = "ADDED" THEN present \cup {ch.dev} ELSE present \ {ch.dev}
  /\ UNCHANGED <<changes, signals, lastAction, overlapped, clientVars, devAction, queue>>

\* OnDevicesChange(dAction) on the thread of the signal: the SIP thread itself for
\* a camera, so not inside the handler.
OnDevicesChange(ch) ==
  /\ ch \in signals
  /\ TypeOf[ch.dev] = "VIDEO" => client = "idle"
  /\ signals' = signals \ {ch}
  /\ devAction' = ch.action
  /\ PostSoon(queue)
  /\ UNCHANGED <<present, changes, hidden, lastAction, overlapped, clientVars>>

-----------------------------------------------------------------------------
(* The SIP thread.                                                           *)

Due(kinds) ==
  /\ client = "idle" /\ queue # <<>>
  /\ Head(queue).kind \in kinds
  /\ Head(queue).waits \cap Ids(hidden) = {}

\* GetPlatformDevices, posted by the constructor.
GetPlatformDevices ==
  /\ Due({"enum"})
  /\ queue' = Tail(queue)
  /\ listed' = present
  /\ believed' = present
  /\ UNCHANGED <<machineVars, devAction, found, client, pass, capIdx>>

Differing(action) == IF action = "ADDED" THEN present \ listed ELSE listed \ present
FirstType(S) ==
  {d \in S : \E i \in 1 .. 3 : /\ TypeOf[d] = DevTypes[i]
                               /\ \A e \in S : \E j \in i .. 3 : TypeOf[e] = DevTypes[j]}

\* findAndSetAddedDevice, findAndSetRemovedDevice: the first list with a
\* difference gives up one device, which dev_ describes from now on.
FindAndSet(d) ==
  /\ found' = d
  /\ devAction' = pass'
  /\ listed' = IF pass' = "ADDED" THEN listed \cup {d} ELSE listed \ {d}

FoundDevice ==
  /\ Due({"soon", "late"})
  /\ pass' = devAction
  /\ \E d \in FirstType(Differing(devAction)) : FindAndSet(d)
  /\ queue' = Tail(queue)
  /\ client' = "rearm"
  /\ UNCHANGED <<machineVars, believed, capIdx>>

NothingFound ==
  /\ Due({"soon", "late"})
  /\ Differing(devAction) = {}
  /\ Retry(Head(queue).kind = "soon")
  /\ UNCHANGED <<machineVars, clientVars, devAction>>

NotRearmed ==   \* mutant: one device per signal
  /\ client = "rearm"
  /\ client' = "notify"
  /\ UNCHANGED <<machineVars, listed, found, pass, believed, capIdx, devAction, queue>>
\* OnDevicesChange(true or false) by the handler itself: look for another one.
Rearm ==
  /\ client = "rearm"
  /\ devAction' = pass
  /\ PostSoon(queue)
  /\ client' = "notify"
  /\ UNCHANGED <<machineVars, listed, found, pass, believed, capIdx>>

CaptureKept == capIdx   \* mutant
CaptureFound == found   \* mutant
\* updateVideoDevice: pjmedia enumerates again and looks the selected camera up.
CaptureDevice == IF Selected \in present THEN Selected ELSE NoDevice

\* The rest of the handler, which reads dev_.devAction once more for the notice.
Notify ==
  /\ client = "notify"
  /\ capIdx' = IF TypeOf[found] = "VIDEO" THEN CaptureDevice ELSE capIdx
  /\ believed' = IF devAction = "ADDED" THEN believed \cup {found} ELSE believed \ {found}
  /\ client' = "idle"
  /\ UNCHANGED <<machineVars, devAction, queue, listed, found, pass>>

-----------------------------------------------------------------------------
\* capIdx is as MSG_INIT_MEDIA left it.
Init ==
  /\ present \in SUBSET Devices
  /\ changes = 0 /\ hidden = {} /\ signals = {} /\ lastAction = "ADDED"
  /\ overlapped = FALSE
  /\ listed = {} /\ believed = {}
  /\ devAction \in Actions      \* not initialised
  /\ found = NoDevice
  /\ queue = <<[kind |-> "enum", waits |-> {}]>>
  /\ client = "idle" /\ pass = "ADDED"
  /\ capIdx \in {NoDevice} \cup ({Selected} \cap present)

Machine == (\E ch \in hidden : Appear(ch)) \/ (\E ch \in signals : OnDevicesChange(ch))
Client == GetPlatformDevices \/ FoundDevice \/ NothingFound \/ Rearm \/ Notify

Next ==
  \/ \E d \in Devices, action \in Actions : MachineChange(d, action)
  \/ Machine
  \/ Client

\* Changes become visible and are signalled, and the SIP thread runs.
Fairness == WF_vars(Machine) /\ WF_vars(Client)
Spec == Init /\ [][Next]_vars /\ Fairness

-----------------------------------------------------------------------------
(* Properties.                                                               *)

\* Every variable holds a value of its kind.
TypeOK ==
  /\ present \subseteq Devices /\ listed \subseteq Devices /\ believed \subseteq Devices
  /\ changes \in 0 .. MaxChanges
  /\ hidden \subseteq Change /\ signals \subseteq Change
  /\ overlapped \in BOOLEAN
  /\ lastAction \in Actions /\ devAction \in Actions /\ pass \in Actions
  /\ found \in Devices \cup {NoDevice} /\ capIdx \in {Selected, NoDevice}
  /\ queue \in Seq(Message)
  /\ client \in {"idle", "rearm", "notify"}

\* Whatever the signals' order and whoever overwrote dev_.devAction, when the
\* monitor comes to rest the lists are right in the direction that was written
\* last: after an ADDED no plugged device is missing from them, after a REMOVED
\* no pulled device is left in them.  (The other direction may be wrong.)
RestsHalfRight == Quiet => Differing(devAction) = {}

\* If no change comes while one of the opposite direction is being handled, the
\* lists, and the application's copy made from the notices, are right at rest,
\* several devices of one plug and an enumeration that lags included.
RestsRight == Quiet /\ ~overlapped => listed = present /\ believed = present

\* Under the same condition video is not captured from a camera that is gone.
CameraFollows == Quiet /\ ~overlapped /\ capIdx = Selected => Selected \in present

\* The monitor arms itself again after every device it finds and retries when it
\* finds none; once the machine is left alone it stops all the same.
ComesToRest == <>[]Quiet
=============================================================================
