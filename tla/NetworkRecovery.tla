--------------------------- MODULE NetworkRecovery ---------------------------
(***************************************************************************)
(* How the client learns that it has lost the network and has it again.     *)
(* WinNetworkMonitor keeps a copy of the interface table, made once by its   *)
(* constructor.  Windows calls InterfaceChangeCallback on worker threads,    *)
(* once for each row (IPv4, IPv6) of an interface that changed; a callback   *)
(* reads the interface as it is by then, waits for the critical section, and *)
(* brings ONE row of the copy up to date.  Only the first interface to come   *)
(* up and the last to go down are posted to the SIP thread, which asks the    *)
(* system for addresses, tells the application, and restarts ICE.            *)
(*                                                                         *)
(* The rows of an interface are interchangeable to the monitor, which looks  *)
(* for the first that differs: table[l] is how many of them show Connected.  *)
(* The loopback interface is skipped everywhere and left out.                *)
(***************************************************************************)
EXTENDS Integers, Sequences

CONSTANTS
  Luids,      (* network interfaces                                         *)
  Rows,       (* rows of the table per interface: one per address family    *)
  MaxChanges  (* bound: changes of an interface                             *)

ASSUME NetworkAssumption == Rows \in Nat \ {0} /\ MaxChanges \in Nat

VARIABLES
  present,       \* interfaces GetIpInterfaceEntry finds
  link,          \* those that are connected
  addresses,     \* those with an address the client can use
  called,        \* callbacks that have not read their interface yet
  sawUp, sawDown,\* callbacks that have read it, connected or not
  listed,        \* interfaces in mPipTable
  table,         \* how many of the rows of an interface show Connected
  monitor,       \* mInitialized and mHNotification
  sipQueue,      \* MSG_NETWORK_INTERFACE_UP and _DOWN for client_thread_
  mNetworkDown, mReIcePending,
  notice,        \* the last FBR_EV_NW_INTERFACE notice to the application
  changes,       \* changes so far
  told,          \* history: the message posted last
  spoiled,       \* history: interfaces whose last change was missed or overtaken
  blinded        \* history: an UP was withheld because of rows still in motion

machineVars == <<present, link, addresses, changes>>
monitorVars == <<listed, table, told, blinded>>
callbacks   == <<called, sawUp, sawDown>>
sipVars     == <<mNetworkDown, mReIcePending, notice>>
vars == <<machineVars, monitorVars, sipVars, callbacks, monitor, sipQueue, spoiled>>

Pending(l) == called[l] + sawUp[l] + sawDown[l]
RowsOf(l) == IF l \in listed THEN Rows ELSE 0

-----------------------------------------------------------------------------
(* The machine.                                                              *)

\* What Windows owes a registered monitor for a change of l: a callback per row.
\* A change made before that is missed; a later one makes up for it.
Callbacks(l) ==
  IF monitor = "running"
    THEN called' = [called EXCEPT ![l] = @ + Rows] /\ spoiled' = spoiled \ {l}
    ELSE spoiled' = spoiled \cup {l} /\ UNCHANGED called

MachineChange(l) ==
  /\ changes < MaxChanges
  /\ changes' = changes + 1
  /\ Callbacks(l)
  /\ UNCHANGED <<addresses, monitorVars, sipVars, sawUp, sawDown, monitor, sipQueue>>

Connect(l) ==
  /\ l \in present \ link /\ MachineChange(l)
  /\ link' = link \cup {l} /\ UNCHANGED present
Disconnect(l) ==
  /\ l \in link /\ MachineChange(l)
  /\ link' = link \ {l} /\ UNCHANGED present
\* An adapter is enabled or plugged in, disabled or pulled.
PlugIn(l) ==
  /\ l \notin present /\ MachineChange(l)
  /\ present' = present \cup {l} /\ UNCHANGED link
Remove(l) ==
  /\ l \in present /\ MachineChange(l)
  /\ present' = present \ {l} /\ link' = link \ {l}

\* Addresses come (DHCP) and go some time after the link.
AddressFollows(l) ==
  /\ addresses' = IF l \in link THEN addresses \cup {l} ELSE addresses \ {l}
  /\ UNCHANGED <<present, link, changes, monitorVars, sipVars, callbacks, monitor, sipQueue, spoiled>>

-----------------------------------------------------------------------------
(* The monitor's callbacks.                                                  *)

\* GetIpInterfaceEntry, before the critical section is entered ...
Read(l) ==
  /\ called[l] > 0
  /\ called' = [called EXCEPT ![l] = @ - 1]
  /\ \/ /\ l \in link
        /\ sawUp' = [sawUp EXCEPT ![l] = @ + 1]
        /\ UNCHANGED <<sawDown, spoiled>>
     \/ /\ l \in present \ link
        /\ sawDown' = [sawDown EXCEPT ![l] = @ + 1]
        /\ UNCHANGED <<sawUp, spoiled>>
     \/ /\ l \notin present
        /\ spoiled' = spoiled \cup {l}
        /\ UNCHANGED <<sawUp, sawDown>>
  /\ UNCHANGED <<machineVars, monitorVars, sipVars, monitor, sipQueue>>

\* Some row of l shows the opposite of what was read.
AlwaysDiffers(l) == TRUE   \* mutant
SomeRowDown(l) == table[l] < RowsOf(l)
FirstRowUp(l) == l \in listed /\ table[l] = RowsOf(l)   \* mutant: the loop leaves at the first row
SomeRowUp(l) == table[l] > 0

\* Other interfaces of the table that show Connected.
OthersUp(l) == {m \in listed \ {l} : table[m] > 0}
\* Rows that a callback has yet to settle, or that none ever will.
InMotion(m) == Pending(m) > 0 \/ m \in spoiled

Post(m) == sipQueue' = Append(sipQueue, m) /\ told' = m

HandleInterfaceUp(l) ==
  IF OthersUp(l) = {}
    THEN Post("UP") /\ blinded' = FALSE
    ELSE /\ blinded' = (blinded \/ \A m \in OthersUp(l) : InMotion(m))
         /\ UNCHANGED <<sipQueue, told>>

DownAlways(l) == Post("DOWN") /\ UNCHANGED blinded   \* mutant: others are not looked at
HandleInterfaceDown(l) ==
  /\ IF OthersUp(l) = {} THEN Post("DOWN") ELSE UNCHANGED <<sipQueue, told>>
  /\ UNCHANGED blinded

\* ... and handleInterfaceChange inside it: the first row of l that differs, if any,
\* takes the value read.
ApplyUp(l) ==
  /\ sawUp[l] > 0
  /\ sawUp' = [sawUp EXCEPT ![l] = @ - 1]
  /\ IF SomeRowDown(l)
       THEN table' = [table EXCEPT ![l] = @ + 1] /\ HandleInterfaceUp(l)
       ELSE UNCHANGED <<table, sipQueue, told, blinded>>
  /\ spoiled' = IF l \in link THEN spoiled ELSE spoiled \cup {l}
  /\ UNCHANGED <<machineVars, sipVars, called, sawDown, listed, monitor>>

ApplyDown(l) ==
  /\ sawDown[l] > 0
  /\ sawDown' = [sawDown EXCEPT ![l] = @ - 1]
  /\ IF SomeRowUp(l)
       THEN table' = [table EXCEPT ![l] = @ - 1] /\ HandleInterfaceDown(l)
       ELSE UNCHANGED <<table, sipQueue, told, blinded>>
  /\ spoiled' = IF l \notin link THEN spoiled ELSE spoiled \cup {l}
  /\ UNCHANGED <<machineVars, sipVars, called, sawUp, listed, monitor>>

-----------------------------------------------------------------------------
(* The SIP thread.                                                           *)

\* startNetworkMonitor: without a table, the library or the registration, no
\* callback ever comes.
StartNetworkMonitor ==
  /\ monitor = "built"
  /\ monitor' \in {"running", "deaf"}
  /\ UNCHANGED <<machineVars, monitorVars, sipVars, callbacks, sipQueue, spoiled>>

\* DeinitPJSip: CancelMibChangeNotify2 lets the callbacks that run return; the
\* messages die with their handler.
Stop ==
  /\ monitor = "running" /\ \A l \in Luids : sawUp[l] = 0 /\ sawDown[l] = 0
  /\ monitor' = "stopped"
  /\ called' = [l \in Luids |-> 0]
  /\ sipQueue' = <<>>
  /\ UNCHANGED <<machineVars, monitorVars, sipVars, sawUp, sawDown, spoiled>>

Takes(m) == sipQueue # <<>> /\ Head(sipQueue) = m /\ sipQueue' = Tail(sipQueue)

TriggerFirst ==   \* mutant: the re-ICE is looked at before the flag is reset
  /\ Takes("UP")
  /\ mNetworkDown' = FALSE
  /\ notice' = IF mNetworkDown THEN "ADDED" ELSE notice
  /\ mReIcePending' = (mReIcePending /\ mNetworkDown)
  /\ UNCHANGED <<machineVars, monitorVars, callbacks, monitor, spoiled>>
HandleNetworkUpEvent ==
  /\ Takes("UP")
  /\ mNetworkDown' = FALSE
  /\ notice' = IF mNetworkDown THEN "ADDED" ELSE notice
  /\ mReIcePending' = FALSE
  /\ UNCHANGED <<machineVars, monitorVars, callbacks, monitor, spoiled>>

\* pj_enum_ip_interface fails: there is no address the client could use.
HandleNetworkDownEvent ==
  /\ Takes("DOWN")
  /\ IF ~mNetworkDown /\ addresses = {}
       THEN mNetworkDown' = TRUE /\ notice' = "REMOVED"
       ELSE UNCHANGED <<mNetworkDown, notice>>
  /\ UNCHANGED <<machineVars, monitorVars, mReIcePending, callbacks, monitor, spoiled>>

\* The base class wants ICE restarted and has to wait for the network.
PostponeReIce ==
  /\ mNetworkDown /\ ~mReIcePending /\ monitor = "running"
  /\ mReIcePending' = TRUE
  /\ UNCHANGED <<machineVars, monitorVars, mNetworkDown, notice, callbacks, monitor, sipQueue, spoiled>>

-----------------------------------------------------------------------------
\* fetchIfTable, on a machine with any interfaces, connected or not.
Init ==
  /\ present \in SUBSET Luids /\ listed = present
  /\ link \in SUBSET present /\ addresses = link
  /\ table = [l \in Luids |-> IF l \in link THEN Rows ELSE 0]
  /\ monitor = "built"
  /\ called = [l \in Luids |-> 0]
  /\ sawUp = [l \in Luids |-> 0] /\ sawDown = [l \in Luids |-> 0]
  /\ sipQueue = <<>>
  /\ mNetworkDown = FALSE /\ mReIcePending = FALSE /\ notice = "none"
  /\ changes = 0
  /\ told = "none" /\ spoiled = {} /\ blinded = FALSE

CallbackStep(l) == Read(l) \/ ApplyUp(l) \/ ApplyDown(l)
SipStep == HandleNetworkUpEvent \/ HandleNetworkDownEvent

Next ==
  \/ \E l \in Luids :
       \/ Connect(l) \/ Disconnect(l) \/ PlugIn(l) \/ Remove(l)
       \/ AddressFollows(l)
       \/ CallbackStep(l)
  \/ StartNetworkMonitor \/ Stop
  \/ SipStep \/ PostponeReIce

\* Callbacks return and the SIP thread handles its messages; the machine and the
\* application owe nothing.
Fairness == (\A l \in Luids : WF_vars(CallbackStep(l))) /\ WF_vars(SipStep)
Spec == Init /\ [][Next]_vars /\ Fairness

-----------------------------------------------------------------------------
(* Properties.                                                               *)

\* Every variable has its type: no interface has more connected rows than rows.
TypeOK ==
  /\ present \subseteq Luids /\ link \subseteq present /\ addresses \subseteq Luids
  /\ listed \subseteq Luids /\ spoiled \subseteq Luids
  /\ called \in [Luids -> Nat] /\ sawUp \in [Luids -> Nat] /\ sawDown \in [Luids -> Nat]
  /\ table \in [Luids -> 0 .. Rows] /\ \A l \in Luids : table[l] <= RowsOf(l)
  /\ monitor \in {"built", "running", "deaf", "stopped"}
  /\ sipQueue \in Seq({"UP", "DOWN"}) /\ told \in {"none", "UP", "DOWN"}
  /\ mNetworkDown \in BOOLEAN /\ mReIcePending \in BOOLEAN /\ blinded \in BOOLEAN
  /\ notice \in {"none", "ADDED", "REMOVED"}
  /\ changes \in 0 .. MaxChanges

Settled(l) == Pending(l) = 0 /\ l \notin spoiled
AtRest == monitor = "running" /\ \A l \in Luids : Settled(l)

\* One row per callback is enough: when the callbacks of an interface have returned
\* all its rows show its link, unless its last change came before the registration,
\* was the removal of the adapter, or was overtaken by a callback that had read the
\* interface before it (handleInterfaceChange reads outside its critical section).
TableCatchesUp ==
  \A l \in listed : monitor = "running" /\ Settled(l) =>
    table[l] = IF l \in link THEN Rows ELSE 0

\* When all have returned, the last message posted to the SIP thread says whether
\* any interface of the table is connected; but an UP that was withheld because of
\* another interface's rows, which were in motion themselves, is never made up for.
LastWordRight ==
  AtRest /\ told # "none" /\ ~blinded => (told = "UP" <=> listed \cap link # {})

\* A re-ICE that waits for the network is triggered once an interface of the table
\* is connected, with the same exceptions: the client does not wait on for ever.
Stranded == listed \cap link = {} \/ blinded \/ spoiled # {} \/ monitor = "stopped"
ReIceTriggered == mReIcePending ~> (~mReIcePending \/ Stranded)
=============================================================================
