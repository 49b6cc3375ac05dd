------------------------- MODULE CallLifecycleProofs -------------------------
(***************************************************************************)
(* Theorems about CallLifecycle, for every number of calls.                 *)
(***************************************************************************)
EXTENDS CallLifecycle, TLAPS

\* A call whose threads or Init activation exist has an object to run on, and so
\* has ~CallApi.
Started ==
  /\ destroying => fiberHandle \in Calls
  /\ \A c \in Calls : sip[c] # "none" \/ io[c] # "none" \/ init[c] # "none" => obj[c] \in Calls

TypeInv == TypeOK /\ Started

LEMMA UpdateType ==
  ASSUME NEW D, NEW S, NEW f \in [D -> S], NEW x, NEW v \in S
  PROVE  [f EXCEPT ![x] = v] \in [D -> S]
OBVIOUS

LEMMA TypeInit == ASSUME LifecycleAssumption PROVE Init => TypeInv
<1> USE LifecycleAssumption DEF LifecycleAssumption
<1> SUFFICES ASSUME Init PROVE TypeInv
  OBVIOUS
<1>1. /\ calls \in 0 .. MaxCalls /\ quits \in Nat
      /\ sipQueue \in [Calls -> Seq(SipMsgs)] /\ appQueue \in [Calls -> Seq(AppMsgs)]
  BY DEF Init
<1>2. TypeOK
  BY <1>1 DEF Init, TypeOK, UiStates, SipPcs, IoPcs, InitPcs, Dialogs, Faults
<1>3. Started
  BY DEF Init, Started
<1> QED
  BY <1>2, <1>3 DEF TypeInv

\* The types that PostToManager and PostToApp touch are kept by them.
LEMMA PostToManagerType ==
  ASSUME TypeOK, NEW p, NEW m \in SipMsgs, PostToManager(p, m)
  PROVE  sipQueue' \in [Calls -> Seq(SipMsgs)] /\ fault' \in Faults
<1>1. CASE Live(p)
  <2>1. Append(sipQueue[p], m) \in Seq(SipMsgs)
    BY <1>1 DEF Live, TypeOK
  <2>2. sipQueue' \in [Calls -> Seq(SipMsgs)]
    BY <1>1, <2>1 DEF PostToManager, TypeOK, Live
  <2>3. fault' \in Faults
    BY <1>1 DEF PostToManager, TypeOK
  <2> QED
    BY <2>2, <2>3
<1>2. CASE ~Live(p)
  <2>1. ManagerFault(p) \in Faults
    BY DEF ManagerFault, Faults
  <2> QED
    BY <1>2, <2>1 DEF PostToManager, TypeOK
<1> QED
  BY <1>1, <1>2

LEMMA PostToAppType ==
  ASSUME TypeOK, NEW c \in Calls, NEW m \in AppMsgs, PostToApp(c, m)
  PROVE  appQueue' \in [Calls -> Seq(AppMsgs)] /\ fault' \in Faults
<1>1. CASE browser[c] \in Calls
  <2>1. Append(appQueue[browser[c]], m) \in Seq(AppMsgs)
    BY <1>1 DEF TypeOK
  <2>2. appQueue' \in [Calls -> Seq(AppMsgs)]
    <3>1. appQueue \in [Calls -> Seq(AppMsgs)]
      BY DEF TypeOK
    <3>2. \/ appQueue' = appQueue
          \/ appQueue' = [appQueue EXCEPT ![browser[c]] = Append(appQueue[browser[c]], m)]
      BY DEF PostToApp
    <3> QED
      BY <2>1, <3>1, <3>2, UpdateType
  <2>3. fault' \in Faults
    BY <1>1 DEF PostToApp, TypeOK, Faults
  <2> QED
    BY <2>2, <2>3
<1>2. CASE browser[c] \notin Calls
  BY <1>2 DEF PostToApp, TypeOK, Faults
<1> QED
  BY <1>1, <1>2

LEMMA TypeNext == ASSUME LifecycleAssumption PROVE TypeInv /\ [Next]_vars => TypeInv'
<1> USE LifecycleAssumption DEF LifecycleAssumption
<1> SUFFICES ASSUME TypeInv, [Next]_vars PROVE TypeInv'
  OBVIOUS
<1> USE DEF TypeInv
<1> DEFINE Goal == TypeInv'
<1>1. CASE JoinClick
  <2> DEFINE c == calls + 1
             o == IF fiberHandle = Null THEN c ELSE fiberHandle
  <2>1. c \in Calls /\ o \in Calls /\ calls' = c
    BY <1>1 DEF JoinClick, TypeOK, Calls, Null
  <2>2. /\ obj' = [obj EXCEPT ![c] = o] /\ fiberHandle' = o
        /\ mAppThread' = [mAppThread EXCEPT ![o] = c]
        /\ sip' = [sip EXCEPT ![c] = "ctor"] /\ io' = [io EXCEPT ![c] = "start"]
        /\ init' = [init EXCEPT ![c] = "run"]
        /\ uiState' = "Connecting" /\ terminateCall' = FALSE
        /\ \/ mSipManager' = mSipManager
           \/ \E p \in {Null, Wild} : mSipManager' = [mSipManager EXCEPT ![o] = p]
    BY <1>1 DEF JoinClick, FlagAfterInit
  <2>3. UNCHANGED <<windowClosed, freed, remoteWidget, stopped, manager, sipQueue, dialog, levelCheck,
                    ioLoaded, appQueue, browser, destroying, quits, fault>>
    BY <1>1 DEF JoinClick
  <2> HIDE DEF c, o
  <2>4. mSipManager' \in [Calls -> {Wild, Null} \cup Calls]
    BY <2>1, <2>2 DEF TypeOK
  <2>5. calls' \in 0 .. MaxCalls
    BY <2>1 DEF Calls
  <2>6. TypeOK'
    BY <2>1, <2>2, <2>3, <2>4, <2>5 DEF TypeOK, UiStates, SipPcs, IoPcs, InitPcs
  <2>7. Started'
    BY <2>1, <2>2 DEF Started, TypeOK
  <2> QED
    BY <2>6, <2>7
<1>2. CASE DisconnectClick \/ CloseWindow
  <2>1. TypeOK'
    BY <1>2 DEF DisconnectClick, CloseWindow, SetFiberOff, FlagAfterShutdown, TypeOK, UiStates,
       Faults, sipVars, ioVars, appVars
  <2>2. Started'
    BY <1>2 DEF DisconnectClick, CloseWindow, SetFiberOff, Started, TypeOK, sipVars, ioVars, appVars
  <2> QED
    BY <2>1, <2>2
<1>3. CASE SigInt
  BY <1>3 DEF SigInt, TypeOK, Started, uiVars, sipVars, ioVars, appVars
<1>4. ASSUME NEW c \in Calls, SipConstruct(c) PROVE Goal
  <2>1. sipQueue[c] \o ConstructorPosts \in Seq(SipMsgs)
    BY DEF TypeOK, ConstructorPosts, SipMsgs
  <2>2. obj[c] \in Calls
    BY <1>4 DEF SipConstruct, Started
  <2>3. TypeOK'
    BY <1>4, <2>1, <2>2 DEF SipConstruct, TypeOK, SipPcs, uiVars, ioVars, appVars
  <2>4. Started'
    BY <1>4, <2>2 DEF SipConstruct, Started, TypeOK, uiVars, ioVars, appVars
  <2> QED
    BY <2>3, <2>4
<1>5. ASSUME NEW c \in Calls, SipDispatch(c) PROVE Goal
  <2>1. ASSUME NEW m, SipTakes(c, m)
        PROVE  /\ sipQueue' \in [Calls -> Seq(SipMsgs)] /\ obj[c] \in Calls
               /\ UNCHANGED <<uiVars, ioVars, init, quits, manager, browser, terminateCall, mSipManager>>
    <3>1. Tail(sipQueue[c]) \in Seq(SipMsgs)
      BY <2>1 DEF SipTakes, TypeOK
    <3> QED
      BY <2>1, <3>1 DEF SipTakes, TypeOK, Started
  <2>2. CASE SipEnumerate(c) \/ SipInitMedia(c) \/ SipInitDefaults(c)
    <3>1. UNCHANGED <<appQueue, fault>> \/ \E m \in AppMsgs : PostToApp(c, m)
      BY <2>2 DEF SipEnumerate, SipInitMedia, SipInitDefaults, AppMsgs
    <3>2. appQueue' \in [Calls -> Seq(AppMsgs)] /\ fault' \in Faults
      BY <3>1, PostToAppType DEF TypeOK
    <3>3. levelCheck' \subseteq Calls
      BY <2>2 DEF SipEnumerate, SipInitMedia, SipInitDefaults, TypeOK
    <3> QED
      BY <2>1, <2>2, <3>2, <3>3
      DEF SipEnumerate, SipInitMedia, SipInitDefaults, TypeOK, Started, uiVars, ioVars
  <2>3. CASE SipMakeCall(c) \/ SipToken(c)
    BY <2>1, <2>3 DEF SipMakeCall, SipToken, TypeOK, Started, Dialogs, uiVars, ioVars
  <2>4. CASE SipHangUp(c)
    <3>1. appQueue' \in [Calls -> Seq(AppMsgs)] /\ fault' \in Faults
      BY <2>4, PostToAppType DEF SipHangUp, TypeOK, AppMsgs
    <3> QED
      BY <2>1, <2>4, <3>1 DEF SipHangUp, TypeOK, Started, Dialogs, uiVars, ioVars
  <2>5. CASE SipExit(c)
    BY <2>1, <2>5 DEF SipExit, TypeOK, Started, SipPcs, uiVars, ioVars
  <2> QED
    BY <1>5, <2>2, <2>3, <2>4, <2>5 DEF SipDispatch
<1>17. ASSUME NEW c \in Calls, SipLevelSilent(c) PROVE Goal
  <2>1. Append(sipQueue[c], "defaults") \in Seq(SipMsgs)
    BY DEF TypeOK, SipMsgs
  <2>2. sipQueue' \in [Calls -> Seq(SipMsgs)]
    BY <1>17, <2>1 DEF SipLevelSilent, TypeOK
  <2> QED
    BY <1>17, <2>2 DEF SipLevelSilent, ChecksLeft, TypeOK, Started, uiVars, ioVars, appVars
<1>18. ASSUME NEW c \in Calls, IoInput(c) PROVE Goal
  <2>1. sipQueue' \in [Calls -> Seq(SipMsgs)] /\ fault' \in Faults
    BY <1>18, PostToManagerType DEF IoInput, SipMsgs
  <2> QED
    BY <1>18, <2>1 DEF IoInput, TypeOK, Started, uiVars, ioVars, appVars
<1>6. ASSUME NEW c \in Calls, RemoteAnswers(c) \/ RemoteHangsUp(c) PROVE Goal
  <2>1. PICK b, a, m : a \in Dialogs /\ m \in AppMsgs /\ RemoteEvent(c, b, a, m)
    <3>1. CASE RemoteAnswers(c)
      <4>1. "up" \in Dialogs /\ "remote" \in AppMsgs
        BY DEF Dialogs, AppMsgs
      <4> QED
        BY <3>1, <4>1 DEF RemoteAnswers
    <3>2. CASE RemoteHangsUp(c)
      <4>1. "over" \in Dialogs /\ "disconnect" \in AppMsgs
        BY DEF Dialogs, AppMsgs
      <4> QED
        BY <3>2, <4>1 DEF RemoteHangsUp
    <3> QED
      BY <1>6, <3>1, <3>2
  <2>2. appQueue' \in [Calls -> Seq(AppMsgs)] /\ fault' \in Faults
    BY <2>1, PostToAppType DEF RemoteEvent
  <2> QED
    BY <2>1, <2>2 DEF RemoteEvent, TypeOK, Started, uiVars, ioVars
<1>7. ASSUME NEW c \in Calls, SipDelete(c) PROVE Goal
  <2>1. sip' = [sip EXCEPT ![c] = "clear"]
        /\ UNCHANGED <<uiVars, ioVars, appVars, dialog, levelCheck, browser, terminateCall, mSipManager>>
    BY <1>7 DEF SipDelete
  <2>2. /\ manager' \in [Calls -> {"none", "live", "deleted"}]
        /\ sipQueue' \in [Calls -> Seq(SipMsgs)] /\ fault' \in Faults
    <3> DEFINE p == mSipManager[obj[c]]
    <3>1. CASE Live(p)
      <4>1. /\ manager' = [manager EXCEPT ![p] = "deleted"]
            /\ sipQueue' = [sipQueue EXCEPT ![p] = <<>>] /\ fault' = fault
        BY <1>7, <3>1 DEF SipDelete, Live, Calls, Null
      <4>2. manager' \in [Calls -> {"none", "live", "deleted"}]
        BY <4>1 DEF TypeOK
      <4>3. sipQueue \in [Calls -> Seq(SipMsgs)] /\ <<>> \in Seq(SipMsgs) /\ fault \in Faults
        BY DEF TypeOK
      <4> QED
        BY <4>1, <4>2, <4>3, UpdateType
    <3>2. CASE ~Live(p)
      <4>1. ManagerFault(p) \in Faults
        BY DEF ManagerFault, Faults
      <4>2. UNCHANGED <<manager, sipQueue>> /\ (fault' = fault \/ fault' = ManagerFault(p))
        BY <1>7, <3>2 DEF SipDelete
      <4> QED
        BY <4>1, <4>2 DEF TypeOK
    <3> QED
      BY <3>1, <3>2
  <2>3. obj[c] \in Calls
    BY <1>7 DEF SipDelete, Started
  <2> QED
    BY <2>1, <2>2, <2>3 DEF TypeOK, Started, SipPcs, uiVars, ioVars, appVars
<1>8. ASSUME NEW c \in Calls, SipClear(c) \/ SipQuit(c) PROVE Goal
  <2>1. obj[c] \in Calls
    BY <1>8 DEF SipClear, SipQuit, Started
  <2>2. CASE SipClear(c)
    BY <2>1, <2>2 DEF SipClear, TypeOK, Started, SipPcs, uiVars, ioVars, appVars
  <2>3. CASE SipQuit(c)
    BY <2>1, <2>3 DEF SipQuit, TypeOK, Started, SipPcs, Faults, uiVars, ioVars
  <2> QED
    BY <1>8, <2>2, <2>3
<1>9. ASSUME NEW c \in Calls, IoStart(c) \/ IoTimer(c) \/ IoUnwind(c) PROVE Goal
  <2>1. obj[c] \in Calls
    BY <1>9 DEF IoStart, IoTimer, IoUnwind, IoGoes, Started
  <2>2. PICK to \in IoPcs : io' = [io EXCEPT ![c] = to]
    BY <1>9 DEF IoStart, IoTimer, IoUnwind, IoGoes, IoPcs
  <2>3. /\ UNCHANGED <<uiVars, sipVars, appVars, ioLoaded, terminateCall, mSipManager, fault>>
        /\ stopped' = stopped \/ stopped' = stopped \cup {obj[c]}
    BY <1>9 DEF IoStart, IoTimer, IoUnwind
  <2>4. TypeOK'
    BY <2>1, <2>2, <2>3 DEF TypeOK, uiVars, sipVars, appVars
  <2>5. Started'
    BY <2>1, <2>2, <2>3 DEF Started, TypeOK, uiVars, sipVars, appVars
  <2> QED
    BY <2>4, <2>5
<1>10. ASSUME NEW c \in Calls, IoHangup(c) \/ IoDeinit(c) PROVE Goal
  <2>1. obj[c] \in Calls
    BY <1>10 DEF IoHangup, IoDeinit, IoLoad, IoGoes, Started
  <2>2. PICK to \in IoPcs : io' = [io EXCEPT ![c] = to]
    BY <1>10 DEF IoHangup, IoDeinit, IoLoad, IoGoes, IoPcs
  <2>3. /\ UNCHANGED <<uiVars, sipVars, appVars, stopped, terminateCall, mSipManager, fault>>
        /\ ioLoaded' = [ioLoaded EXCEPT ![c] = mSipManager[obj[c]]]
    BY <1>10 DEF IoHangup, IoDeinit, IoLoad
  <2>4. TypeOK'
    BY <2>1, <2>2, <2>3 DEF TypeOK, uiVars, sipVars, appVars
  <2>5. Started'
    BY <2>1, <2>2, <2>3 DEF Started, TypeOK, uiVars, sipVars, appVars
  <2> QED
    BY <2>4, <2>5
<1>11. ASSUME NEW c \in Calls, IoClose(c) \/ IoExit(c) PROVE Goal
  <2>1. obj[c] \in Calls
    BY <1>11 DEF IoClose, IoExit, IoPost, IoGoes, Started
  <2>2. sipQueue' \in [Calls -> Seq(SipMsgs)] /\ fault' \in Faults
    BY <1>11, PostToManagerType DEF IoClose, IoExit, IoPost, SipMsgs
  <2>3. PICK to \in IoPcs : io' = [io EXCEPT ![c] = to]
    BY <1>11 DEF IoClose, IoExit, IoPost, IoGoes, IoPcs
  <2>4. UNCHANGED <<uiVars, appVars, ioLoaded, stopped, manager, sip, dialog, levelCheck, browser,
                    terminateCall, mSipManager>>
    BY <1>11 DEF IoClose, IoExit, IoPost
  <2>5. TypeOK'
    BY <2>2, <2>3, <2>4 DEF TypeOK, uiVars, appVars
  <2>6. Started'
    BY <2>1, <2>3, <2>4 DEF Started, TypeOK, uiVars, appVars
  <2> QED
    BY <2>5, <2>6
<1>12. ASSUME NEW c \in Calls, UseFreed(c) PROVE Goal
  BY <1>12 DEF UseFreed, TypeOK, Started, Faults, uiVars, sipVars, ioVars, appVars
<1>13. ASSUME NEW t \in Calls, AppDispatch(t) PROVE Goal
  <2>1. ASSUME NEW m, AppTakes(t, m)
        PROVE  /\ appQueue' \in [Calls -> Seq(AppMsgs)] /\ obj[t] \in Calls
               /\ UNCHANGED <<calls, fiberHandle, windowClosed, obj, mAppThread, freed, destroying,
                              init, quits, ioVars, manager, sip, dialog, levelCheck, browser,
                              mSipManager>>
    <3>1. Tail(appQueue[t]) \in Seq(AppMsgs)
      BY <2>1 DEF AppTakes, TypeOK
    <3> QED
      BY <2>1, <3>1 DEF AppTakes, TypeOK, Started
  <2>2. CASE AppDevices(t) \/ AppStartCall(t)
    <3>1. sipQueue' \in [Calls -> Seq(SipMsgs)] /\ fault' \in Faults
      BY <2>2, PostToManagerType DEF AppDevices, AppStartCall, SipMsgs
    <3> QED
      BY <2>1, <2>2, <3>1 DEF AppDevices, AppStartCall, TypeOK, Started, ioVars
  <2>3. CASE AppShowRemote(t)
    BY <2>1, <2>3 DEF AppShowRemote, TypeOK, Started, ManagerFault, Faults, UiStates, ioVars
  <2>4. CASE AppDisconnected(t)
    BY <2>1, <2>4 DEF AppDisconnected, TypeOK, Started, UiStates, ioVars
  <2> QED
    BY <1>13, <2>2, <2>3, <2>4 DEF AppDispatch
<1>14. ASSUME NEW t \in Calls, QuitRun(t) \/ InitReturn(t) PROVE Goal
  <2>1. obj[t] \in Calls
    BY <1>14 DEF QuitRun, EndRun, OnTop, Active, InitReturn, Started
  <2>2. PICK to \in InitPcs : init' = [init EXCEPT ![t] = to]
    BY <1>14 DEF QuitRun, EndRun, InitReturn, InitPcs
  <2>3. /\ UNCHANGED <<uiVars, sipVars, ioVars, terminateCall, mSipManager, fault>>
        /\ appQueue' = appQueue \/ appQueue' = [appQueue EXCEPT ![t] = <<>>]
    BY <1>14 DEF QuitRun, EndRun, InitReturn
  <2>4. quits' \in Nat
    BY <1>14 DEF QuitRun, EndRun, InitReturn, TypeOK
  <2>5. TypeOK'
    <3>1. appQueue \in [Calls -> Seq(AppMsgs)] /\ <<>> \in Seq(AppMsgs)
      BY DEF TypeOK
    <3>2. appQueue' \in [Calls -> Seq(AppMsgs)]
      BY <2>3, <3>1, UpdateType
    <3> QED
      BY <2>2, <2>3, <2>4, <3>2 DEF TypeOK, uiVars, sipVars, ioVars
  <2>6. Started'
    BY <2>1, <2>2, <2>3 DEF Started, TypeOK, uiVars, sipVars, ioVars
  <2> QED
    BY <2>5, <2>6
<1>15. CASE DestroyReturn
  <2>1. fiberHandle' \in {Null} \cup Calls /\ destroying' = FALSE
    BY <1>15 DEF DestroyReturn
  <2>2. freed' \subseteq Calls
    BY <1>15 DEF DestroyReturn, TypeOK, Started
  <2>3. appQueue' \in [Calls -> Seq(AppMsgs)]
    BY <1>15 DEF DestroyReturn, TypeOK
  <2>4. UNCHANGED <<calls, uiState, windowClosed, obj, mAppThread, remoteWidget, sipVars, ioVars,
                    init, quits, terminateCall, mSipManager, fault>>
    BY <1>15 DEF DestroyReturn
  <2> QED
    BY <2>1, <2>2, <2>3, <2>4 DEF TypeOK, Started, sipVars, ioVars
<1>16. CASE UNCHANGED vars
  BY <1>16 DEF vars, uiVars, sipVars, ioVars, appVars, TypeOK, Started
<1> QED
  BY <1>1, <1>2, <1>3, <1>4, <1>5, <1>6, <1>7, <1>8, <1>9, <1>10, <1>11, <1>12, <1>13, <1>14,
     <1>15, <1>16, <1>17, <1>18
  DEF Next, User, UiThread, SipThread, IoThread

\* Every variable of the call lifecycle keeps its type, with Inits nested, handles
\* reused, slow managers and interrupts or without.
THEOREM TypeCorrect == ASSUME LifecycleAssumption PROVE Spec => []TypeOK
<1>1. Init => TypeInv
  BY TypeInit
<1>2. TypeInv /\ [Next]_vars => TypeInv'
  BY TypeNext
<1>3. TypeInv => TypeOK
  BY DEF TypeInv
<1> QED
  BY <1>1, <1>2, <1>3, PTL DEF Spec

-----------------------------------------------------------------------------
(* One object per call: what belongs to a call stays its own, even if the      *)
(* manager is slow.                                                           *)

\* Call c runs on the object that its own Join created.
Own(c) ==
  /\ obj[c] \in {Null, c}
  /\ obj[c] = c <=> c <= calls
  /\ obj[c] = c => mAppThread[c] = c
  /\ sip[c] # "none" <=> c <= calls
  /\ io[c] # "none" <=> c <= calls
  /\ init[c] # "none" => c <= calls
  /\ fiberHandle = c => c <= calls
  /\ c \in freed => sip[c] = "done"
  /\ c \in stopped => io[c] \notin {"none", "start", "poll"}

OwnInv == TypeInv /\ \A c \in Calls : Own(c)

LEMMA OwnInit == ASSUME LifecycleAssumption PROVE Init => OwnInv
<1> SUFFICES ASSUME Init PROVE OwnInv
  OBVIOUS
<1>1. TypeInv
  BY TypeInit
<1>2. ASSUME NEW c \in Calls PROVE Own(c)
  <2>1. ~(c <= calls) /\ c # Null
    BY LifecycleAssumption DEF Init, Calls, Null, LifecycleAssumption
  <2> QED
    BY <2>1 DEF Init, Own
<1> QED
  BY <1>1, <1>2 DEF OwnInv

LEMMA OwnNext ==
  ASSUME LifecycleAssumption, ~ReuseHandle
  PROVE  OwnInv /\ [Next]_vars => OwnInv'
<1> SUFFICES ASSUME OwnInv, [Next]_vars PROVE OwnInv'
  OBVIOUS
<1>a. TypeInv /\ TypeInv' /\ TypeOK
  BY TypeNext DEF OwnInv, TypeInv
<1>b. \A d \in Calls : Own(d)
  BY DEF OwnInv
<1>c. /\ sip \in [Calls -> SipPcs] /\ io \in [Calls -> IoPcs] /\ init \in [Calls -> InitPcs]
      /\ \A c \in Calls : c # Null /\ c \in Int
  BY <1>a, LifecycleAssumption DEF TypeOK, Calls, Null, LifecycleAssumption
<1> SUFFICES ASSUME NEW d \in Calls PROVE Own(d)'
  BY <1>a DEF OwnInv
<1>e. Own(d)
  BY <1>b
<1>1. CASE JoinClick
  <2>1. fiberHandle = Null /\ calls + 1 \in Calls /\ calls \in Int
    BY <1>1, <1>a, LifecycleAssumption DEF JoinClick, TypeOK, Calls, LifecycleAssumption
  <2>2. /\ calls' = calls + 1 /\ obj' = [obj EXCEPT ![calls + 1] = calls + 1]
        /\ fiberHandle' = calls + 1
        /\ mAppThread' = [mAppThread EXCEPT ![calls + 1] = calls + 1]
        /\ sip' = [sip EXCEPT ![calls + 1] = "ctor"]
        /\ io' = [io EXCEPT ![calls + 1] = "start"]
        /\ init' = [init EXCEPT ![calls + 1] = "run"]
        /\ UNCHANGED <<freed, stopped>>
    BY <1>1, <2>1 DEF JoinClick
  <2>3. CASE d = calls + 1
    <3>1. sip[d] = "none" /\ io[d] = "none"
      BY <1>e, <2>1, <2>3 DEF Own
    <3>2. d \notin stopped /\ d \notin freed
      BY <1>e, <3>1 DEF Own
    <3> QED
      BY <1>a, <2>1, <2>2, <2>3, <3>2 DEF Own, TypeOK
  <2>4. CASE d # calls + 1
    <3>1. d <= calls' <=> d <= calls
      BY <2>1, <2>2, <2>4, <1>c
    <3> QED
      BY <1>a, <1>e, <2>1, <2>2, <2>4, <3>1 DEF Own, TypeOK
  <2> QED
    BY <2>3, <2>4
<1>2. CASE DisconnectClick \/ CloseWindow \/ SigInt
  BY <1>2, <1>e DEF DisconnectClick, CloseWindow, SetFiberOff, SigInt, Own, uiVars, sipVars, ioVars,
     appVars
<1>12. ASSUME NEW c \in Calls, SipLevelSilent(c) \/ IoInput(c) PROVE Own(d)'
  BY <1>12, <1>e DEF SipLevelSilent, IoInput, Own, uiVars, ioVars, appVars
<1>3. ASSUME NEW c \in Calls, SipThread(c) \/ RemoteAnswers(c) \/ RemoteHangsUp(c) PROVE Own(d)'
  <2>1. /\ UNCHANGED <<uiVars, ioVars, init>>
        /\ sip[c] \notin {"none", "done"}
        /\ \E pc \in SipPcs \ {"none"} : sip' = [sip EXCEPT ![c] = pc]
    BY <1>c, <1>3 DEF SipThread, SipConstruct, SipDispatch, SipEnumerate, SipInitMedia, SipInitDefaults,
       SipMakeCall, SipToken, SipHangUp, SipExit, SipTakes, SipDelete, SipClear, SipQuit, RemoteAnswers, RemoteHangsUp,
       RemoteEvent, appVars, SipPcs
  <2> QED
    BY <1>c, <1>e, <2>1 DEF Own, uiVars, ioVars
<1>4. ASSUME NEW c \in Calls, IoStart(c) PROVE Own(d)'
  <2>1. io[c] = "start" /\ obj[c] = c /\ c \notin stopped
    BY <1>4, <1>b, <1>c DEF IoStart, IoGoes, Own
  <2>2. /\ io' = [io EXCEPT ![c] = "poll"]
        /\ UNCHANGED <<uiVars, sipVars, appVars, stopped>>
    BY <1>4, <2>1 DEF IoStart, IoGoes
  <2> QED
    BY <1>c, <1>e, <2>1, <2>2 DEF Own, uiVars, sipVars, appVars
<1>5. ASSUME NEW c \in Calls, IoTimer(c) PROVE Own(d)'
  <2>1. io[c] = "poll" /\ obj[c] = c
    BY <1>5, <1>b, <1>c DEF IoTimer, IoGoes, Own
  <2>2. /\ io' = [io EXCEPT ![c] = "hangup"] /\ stopped' = stopped \cup {c}
        /\ UNCHANGED <<uiVars, sipVars, appVars>>
    BY <1>5, <2>1 DEF IoTimer, IoGoes
  <2> QED
    BY <1>c, <1>e, <2>1, <2>2 DEF Own, uiVars, sipVars, appVars
<1>6. ASSUME NEW c \in Calls,
             IoHangup(c) \/ IoClose(c) \/ IoDeinit(c) \/ IoExit(c) \/ IoUnwind(c)
      PROVE  Own(d)'
  <2>1. /\ io[c] # "none" /\ UNCHANGED <<uiVars, appVars, sip, stopped>>
        /\ \E pc \in IoPcs \ {"none", "start", "poll"} : io' = [io EXCEPT ![c] = pc]
    BY <1>6 DEF IoHangup, IoClose, IoDeinit, IoExit, IoUnwind, IoLoad, IoPost, IoGoes, IoPcs, sipVars
  <2> QED
    BY <1>c, <1>e, <2>1 DEF Own, uiVars, appVars
<1>7. ASSUME NEW c \in Calls, UseFreed(c) PROVE Own(d)'
  BY <1>7, <1>e DEF UseFreed, Own, uiVars, sipVars, ioVars, appVars
<1>8. ASSUME NEW t \in Calls, AppDispatch(t) PROVE Own(d)'
  BY <1>8, <1>e DEF AppDispatch, AppDevices, AppStartCall, AppShowRemote, AppDisconnected, AppTakes,
     Own, ioVars
<1>9. ASSUME NEW t \in Calls, QuitRun(t) \/ InitReturn(t) PROVE Own(d)'
  <2>1. /\ init[t] # "none" /\ \E pc \in InitPcs : init' = [init EXCEPT ![t] = pc]
        /\ UNCHANGED <<uiVars, sipVars, ioVars>>
    BY <1>9 DEF QuitRun, EndRun, OnTop, Active, InitReturn, InitPcs
  <2> QED
    BY <1>c, <1>e, <2>1 DEF Own, uiVars, sipVars, ioVars
<1>10. CASE DestroyReturn
  <2>1. /\ fiberHandle \in Calls /\ fiberHandle' = Null /\ freed' = freed \cup {fiberHandle}
        /\ UNCHANGED <<calls, obj, mAppThread, sipVars, ioVars, init>>
    BY <1>10, <1>a DEF DestroyReturn, TypeInv, Started
  <2>2. sip[fiberHandle] = "done"
    BY <1>10, <1>b, <2>1 DEF DestroyReturn, SipJoined, Own
  <2> QED
    BY <1>c, <1>e, <2>1, <2>2 DEF Own, sipVars, ioVars
<1>11. CASE UNCHANGED vars
  BY <1>11, <1>e DEF vars, uiVars, sipVars, ioVars, appVars, Own
<1> QED
  BY <1>1, <1>2, <1>3, <1>4, <1>5, <1>6, <1>7, <1>8, <1>9, <1>10, <1>11, <1>12
  DEF Next, User, UiThread, IoThread

LEMMA OwnAlways ==
  ASSUME LifecycleAssumption, ~ReuseHandle
  PROVE  Spec => []OwnInv
<1>1. Init => OwnInv
  BY OwnInit
<1>2. OwnInv /\ [Next]_vars => OwnInv'
  BY OwnNext
<1> QED
  BY <1>1, <1>2, PTL DEF Spec

\* It takes a handle that is used again to run the IO thread on a stopped service:
\* with one object per call mIoService is never run twice (callapi.cpp 178-202).
THEOREM FreshService ==
  ASSUME LifecycleAssumption, ~ReuseHandle
  PROVE  Spec => RunOnFreshService
<1>1. OwnInv /\ [Next]_vars =>
        [\A c \in Calls : io[c] = "start" /\ io'[c] # "start" => obj[c] \notin stopped]_vars
  <2> SUFFICES ASSUME OwnInv, NEW c \in Calls, io[c] = "start" PROVE obj[c] \notin stopped
    OBVIOUS
  <2>1. obj[c] = c
    BY LifecycleAssumption DEF OwnInv, Own
  <2> QED
    BY <2>1 DEF OwnInv, Own
<1> QED
  BY <1>1, OwnAlways, PTL DEF Spec, RunOnFreshService

-----------------------------------------------------------------------------
(* One object per call and a manager constructed within a second: what the   *)
(* order of the shutdown messages guarantees, SIGINT or not.                 *)

Teardown == {"delete", "clear", "quit", "done"}

\* The member points to the manager as long as the SIP thread reads messages.
Published(c) ==
  /\ sip[c] \in {"loop", "delete"} => manager[c] = "live" /\ mSipManager[c] = c
  /\ io[c] \in {"close", "exit"} => ioLoaded[c] = c

\* The IO thread starts the shutdown on a published manager, and the SIP thread
\* finishes it when the IO thread has posted its last message.
Ordered(c) ==
  /\ io[c] \in {"hangup", "close", "deinit", "exit"} => sip[c] = "loop"
  /\ sip[c] \in Teardown => IoDone(c)
  /\ Contains(sipQueue[c], "exit") => IoDone(c)
  /\ IoDone(c) => \/ sip[c] \in Teardown
                  \/ sip[c] = "loop" /\ Contains(sipQueue[c], "exit")

OrderInv == TypeInv /\ \A c \in Calls : Own(c) /\ Published(c) /\ Ordered(c)

LEMMA ContainsEmpty == ASSUME NEW m PROVE ~Contains(<<>>, m)
BY DEF Contains

LEMMA ContainsAppend ==
  ASSUME NEW S, NEW q \in Seq(S), NEW x \in S, NEW m
  PROVE  Contains(Append(q, x), m) <=> Contains(q, m) \/ x = m
<1>1. Len(Append(q, x)) = Len(q) + 1 /\ Append(q, x)[Len(q) + 1] = x
  OBVIOUS
<1>2. \A i \in 1 .. Len(q) : Append(q, x)[i] = q[i]
  OBVIOUS
<1>3. DOMAIN q = 1 .. Len(q) /\ DOMAIN Append(q, x) = 1 .. Len(q) + 1 /\ Len(q) \in Nat
  OBVIOUS
<1>4. \A i \in 1 .. Len(q) + 1 : i \in 1 .. Len(q) \/ i = Len(q) + 1
  BY <1>3
<1>5. Len(q) + 1 \in 1 .. Len(q) + 1 /\ 1 .. Len(q) \subseteq 1 .. Len(q) + 1
  BY <1>3
<1> QED
  BY <1>1, <1>2, <1>3, <1>4, <1>5 DEF Contains

LEMMA ContainsTail ==
  ASSUME NEW S, NEW q \in Seq(S), q # <<>>, NEW m, Contains(Tail(q), m)
  PROVE  Contains(q, m)
<1>1. PICK i \in 1 .. Len(q) - 1 : Tail(q)[i] = m
  BY DEF Contains
<1>2. Tail(q)[i] = q[i + 1] /\ i + 1 \in DOMAIN q
  OBVIOUS
<1> QED
  BY <1>1, <1>2 DEF Contains

LEMMA ContainsTailBack ==
  ASSUME NEW S, NEW q \in Seq(S), q # <<>>, NEW m, Contains(q, m), Head(q) # m
  PROVE  Contains(Tail(q), m)
<1>1. PICK i \in 1 .. Len(q) : q[i] = m
  BY DEF Contains
<1>2. i # 1 /\ i \in Nat
  BY <1>1
<1>3. i - 1 \in 1 .. Len(q) - 1 /\ Tail(q)[i - 1] = q[i]
  BY <1>1, <1>2
<1>4. DOMAIN Tail(q) = 1 .. Len(q) - 1
  OBVIOUS
<1> QED
  BY <1>1, <1>3, <1>4 DEF Contains

\* Posting anything but the exit message leaves the exit messages as they are.
LEMMA PostKeepsExit ==
  ASSUME TypeOK, NEW p, NEW m \in SipMsgs, m # "exit", PostToManager(p, m), NEW d \in Calls
  PROVE  Contains(sipQueue'[d], "exit") <=> Contains(sipQueue[d], "exit")
<1>1. sipQueue \in [Calls -> Seq(SipMsgs)]
  BY DEF TypeOK
<1>2. CASE Live(p) /\ p = d
  <2>1. sipQueue'[d] = Append(sipQueue[d], m)
    BY <1>1, <1>2 DEF PostToManager
  <2>2. sipQueue[d] \in Seq(SipMsgs)
    BY <1>1
  <2> QED
    BY <2>1, <2>2, ContainsAppend
<1>3. CASE ~(Live(p) /\ p = d)
  <2>1. sipQueue'[d] = sipQueue[d]
    BY <1>1, <1>3 DEF PostToManager
  <2> QED
    BY <2>1
<1> QED
  BY <1>2, <1>3

\* So does the manager that initialises media again after a silent level check.
LEMMA SilentKeepsExit ==
  ASSUME TypeOK, NEW c \in Calls, SipLevelSilent(c), NEW d \in Calls
  PROVE  Contains(sipQueue'[d], "exit") <=> Contains(sipQueue[d], "exit")
<1>1. sipQueue \in [Calls -> Seq(SipMsgs)] /\ "defaults" \in SipMsgs
  BY DEF TypeOK, SipMsgs
<1>2. \/ d # c /\ sipQueue'[d] = sipQueue[d]
      \/ d = c /\ sipQueue'[d] = Append(sipQueue[d], "defaults")
  BY <1>1 DEF SipLevelSilent
<1>3. Contains(Append(sipQueue[d], "defaults"), "exit") <=> Contains(sipQueue[d], "exit")
  BY <1>1, ContainsAppend
<1> QED
  BY <1>2, <1>3

LEMMA OrderInit == ASSUME LifecycleAssumption PROVE Init => OrderInv
<1> SUFFICES ASSUME Init PROVE OrderInv
  OBVIOUS
<1>1. TypeInv
  BY TypeInit
<1>2. ASSUME NEW c \in Calls PROVE Own(c) /\ Published(c) /\ Ordered(c)
  <2>1. ~(c <= calls) /\ c # Null
    BY LifecycleAssumption DEF Init, Calls, Null, LifecycleAssumption
  <2>2. ~Contains(sipQueue[c], "exit")
    BY ContainsEmpty DEF Init
  <2> QED
    BY <2>1, <2>2 DEF Init, Own, Published, Ordered, IoDone, Teardown
<1> QED
  BY <1>1, <1>2 DEF OrderInv

LEMMA OrderNext ==
  ASSUME LifecycleAssumption, ~ReuseHandle, ~SlowStart
  PROVE  OrderInv /\ [Next]_vars => OrderInv'
<1> SUFFICES ASSUME OrderInv, [Next]_vars PROVE OrderInv'
  OBVIOUS
<1> DEFINE Good(d) == Published(d) /\ Ordered(d)
<1>a. TypeInv /\ TypeInv' /\ TypeOK
  BY TypeNext DEF OrderInv, TypeInv
<1>b. \A d \in Calls : Own(d) /\ Good(d)
  BY DEF OrderInv
<1>own. \A d \in Calls : Own(d)'
  BY OwnNext DEF OrderInv, OwnInv
<1>c. sipQueue \in [Calls -> Seq(SipMsgs)]
  BY <1>a DEF TypeOK
<1>d. \A c \in Calls : c # Null /\ c \in Int
  BY LifecycleAssumption DEF Calls, Null, LifecycleAssumption
<1> SUFFICES ASSUME NEW d \in Calls PROVE Good(d)'
  BY <1>a, <1>own DEF OrderInv
<1>e. Own(d) /\ Good(d)
  BY <1>b
<1>1. CASE JoinClick
  <2>1. fiberHandle = Null
    BY <1>1 DEF JoinClick
  <2>2. calls + 1 \in Calls /\ calls \in Int
    BY <1>1, <1>a, LifecycleAssumption DEF JoinClick, TypeOK, Calls, LifecycleAssumption
  <2>3. /\ calls' = calls + 1 /\ obj' = [obj EXCEPT ![calls + 1] = calls + 1]
        /\ fiberHandle' = calls + 1
        /\ mAppThread' = [mAppThread EXCEPT ![calls + 1] = calls + 1]
        /\ sip' = [sip EXCEPT ![calls + 1] = "ctor"]
        /\ io' = [io EXCEPT ![calls + 1] = "start"]
        /\ init' = [init EXCEPT ![calls + 1] = "run"]
        /\ UNCHANGED <<freed, stopped, manager, sipQueue, ioLoaded>>
    BY <1>1, <2>1 DEF JoinClick
  <2>4. d # calls + 1 => mSipManager'[d] = mSipManager[d]
    BY <1>1, <1>a, <2>1 DEF JoinClick, TypeOK
  <2>5. CASE d = calls + 1
    <3>1. sip[d] = "none" /\ io[d] = "none"
      BY <1>e, <2>2, <2>5 DEF Own
    <3>2. ~Contains(sipQueue[d], "exit") /\ d \notin stopped /\ d \notin freed
      BY <1>e, <3>1 DEF Own, Ordered, IoDone
    <3> QED
      BY <1>a, <2>2, <2>3, <2>5, <3>2 DEF Own, Published, Ordered, IoDone, Teardown, TypeOK
  <2>6. CASE d # calls + 1
    <3>1. d <= calls' <=> d <= calls
      BY <2>2, <2>3, <2>6, <1>d
    <3> QED
      BY <1>a, <1>e, <2>2, <2>3, <2>4, <2>6, <3>1 DEF Own, Published, Ordered, IoDone, TypeOK
  <2> QED
    BY <2>5, <2>6
<1>2. CASE DisconnectClick \/ CloseWindow
  BY <1>2, <1>e DEF DisconnectClick, CloseWindow, SetFiberOff, Own, Published, Ordered, IoDone,
     sipVars, ioVars, appVars
<1>3. CASE SigInt
  BY <1>3, <1>e DEF SigInt, Own, Published, Ordered, IoDone, uiVars, sipVars, ioVars, appVars
<1>4. ASSUME NEW c \in Calls, SipConstruct(c) PROVE Good(d)'
  <2>1. sip[c] = "ctor" /\ obj[c] = c
    BY <1>4, <1>b, <1>d DEF SipConstruct, Own
  <2>2. ~Contains(sipQueue[c], "exit") /\ ~IoDone(c)
    BY <2>1, <1>b DEF Ordered, IoDone, Teardown
  <2>3. ~Contains(sipQueue[c] \o ConstructorPosts, "exit")
    <3>1. sipQueue[c] \o ConstructorPosts = Append(sipQueue[c], "enum") /\ "enum" \in SipMsgs
      BY <1>c DEF ConstructorPosts, SipMsgs
    <3> QED
      BY <1>c, <2>2, <3>1, ContainsAppend
  <2>4. CASE d = c
    BY <1>4, <1>a, <1>e, <2>1, <2>2, <2>3, <2>4 DEF SipConstruct, Own, Published, Ordered, IoDone,
       Teardown, TypeOK, uiVars, ioVars, appVars
  <2>5. CASE d # c
    BY <1>4, <1>a, <1>e, <2>1, <2>5 DEF SipConstruct, Own, Published, Ordered, IoDone, TypeOK,
       uiVars, ioVars, appVars
  <2> QED
    BY <2>4, <2>5
<1>5. ASSUME NEW c \in Calls, SipDispatch(c) PROVE Good(d)'
  <2>1. PICK m : SipTakes(c, m) /\ (m = "exit" <=> sip' # sip)
                 /\ (sip' = sip \/ sip' = [sip EXCEPT ![c] = "delete"])
    BY <1>5, <1>a DEF SipDispatch, SipEnumerate, SipInitMedia, SipInitDefaults, SipMakeCall, SipToken,
       SipHangUp, SipExit, SipTakes, TypeOK
  <2>2. /\ sip[c] = "loop" /\ sipQueue[c] # <<>> /\ Head(sipQueue[c]) = m
        /\ sipQueue' = [sipQueue EXCEPT ![c] = Tail(@)]
        /\ UNCHANGED <<uiVars, ioVars, init, manager, mSipManager>>
    BY <2>1 DEF SipTakes
  <2>3. sipQueue[c] \in Seq(SipMsgs)
    BY <1>c
  <2>4. CASE d # c
    BY <1>a, <1>c, <1>e, <2>1, <2>2, <2>4 DEF Own, Published, Ordered, IoDone, TypeOK, uiVars,
         ioVars
  <2>5. CASE d = c /\ m # "exit"
    <3>1. Contains(sipQueue'[c], "exit") <=> Contains(sipQueue[c], "exit")
      BY <1>c, <2>2, <2>3, <2>5, ContainsTail, ContainsTailBack
    <3> QED
      BY <1>e, <2>1, <2>2, <2>5, <3>1 DEF Own, Published, Ordered, IoDone, uiVars, ioVars
  <2>6. CASE d = c /\ m = "exit"
    <3>1. Contains(sipQueue[c], "exit")
      <4>1. 1 \in DOMAIN sipQueue[c] /\ sipQueue[c][1] = "exit"
        BY <2>2, <2>3, <2>6
      <4> QED
        BY <4>1 DEF Contains
    <3>2. IoDone(c)
      BY <1>e, <2>6, <3>1 DEF Ordered
    <3>3. sip' = [sip EXCEPT ![c] = "delete"]
      BY <2>1, <2>6
    <3> QED
      BY <1>a, <1>e, <2>2, <2>6, <3>2, <3>3 DEF Own, Published, Ordered, IoDone, Teardown, TypeOK,
         uiVars, ioVars
  <2> QED
    BY <2>4, <2>5, <2>6
<1>22. ASSUME NEW c \in Calls, SipLevelSilent(c) PROVE Good(d)'
  <2>1. Contains(sipQueue'[d], "exit") <=> Contains(sipQueue[d], "exit")
    BY <1>22, <1>a, SilentKeepsExit
  <2> QED
    BY <1>22, <1>e, <2>1 DEF SipLevelSilent, Own, Published, Ordered, IoDone, uiVars, ioVars, appVars
<1>23. ASSUME NEW c \in Calls, IoInput(c) PROVE Good(d)'
  <2>1. Contains(sipQueue'[d], "exit") <=> Contains(sipQueue[d], "exit")
    BY <1>23, <1>a, PostKeepsExit DEF IoInput, SipMsgs
  <2> QED
    BY <1>23, <1>e, <2>1 DEF IoInput, Own, Published, Ordered, IoDone, uiVars, ioVars, appVars
<1>6. ASSUME NEW c \in Calls, RemoteAnswers(c) \/ RemoteHangsUp(c) PROVE Good(d)'
  BY <1>6, <1>e DEF RemoteAnswers, RemoteHangsUp, RemoteEvent, Own, Published, Ordered, IoDone,
     uiVars, ioVars
<1>7. ASSUME NEW c \in Calls, SipDelete(c) PROVE Good(d)'
  <2>1. sip[c] = "delete" /\ obj[c] = c /\ mSipManager[c] = c /\ manager[c] = "live" /\ IoDone(c)
    BY <1>7, <1>b, <1>d DEF SipDelete, Own, Published, Ordered, Teardown
  <2>2. /\ manager' = [manager EXCEPT ![c] = "deleted"]
        /\ sipQueue' = [sipQueue EXCEPT ![c] = <<>>]
        /\ sip' = [sip EXCEPT ![c] = "clear"]
        /\ UNCHANGED <<uiVars, ioVars, appVars, mSipManager>>
    BY <1>7, <1>d, <2>1 DEF SipDelete, Live
  <2>3. ~Contains(<<>>, "exit")
    BY ContainsEmpty
  <2> QED
    BY <1>a, <1>c, <1>e, <2>1, <2>2, <2>3 DEF Own, Published, Ordered, IoDone, Teardown, TypeOK,
       uiVars, ioVars, appVars
<1>8. ASSUME NEW c \in Calls, SipClear(c) PROVE Good(d)'
  <2>1. sip[c] = "clear" /\ obj[c] = c /\ IoDone(c)
    BY <1>8, <1>b, <1>d DEF SipClear, Own, Ordered, Teardown
  <2> QED
    BY <1>8, <1>a, <1>e, <2>1 DEF SipClear, Own, Published, Ordered, IoDone, Teardown, TypeOK,
       uiVars, ioVars, appVars
<1>9. ASSUME NEW c \in Calls, SipQuit(c) PROVE Good(d)'
  <2>1. sip[c] = "quit" /\ IoDone(c)
    BY <1>9, <1>b DEF SipQuit, Ordered, Teardown
  <2> QED
    BY <1>9, <1>a, <1>e, <2>1 DEF SipQuit, Own, Published, Ordered, IoDone, Teardown, TypeOK,
       uiVars, ioVars
<1>10. ASSUME NEW c \in Calls, IoStart(c) PROVE Good(d)'
  <2>1. io[c] = "start" /\ obj[c] = c /\ c \notin stopped
    BY <1>10, <1>b, <1>d DEF IoStart, IoGoes, Own, Ordered
  <2>2. /\ io' = [io EXCEPT ![c] = "poll"]
        /\ UNCHANGED <<uiVars, sipVars, appVars, ioLoaded, stopped, mSipManager>>
    BY <1>10, <2>1 DEF IoStart, IoGoes
  <2> QED
    BY <1>a, <1>e, <2>1, <2>2 DEF Own, Published, Ordered, IoDone, Teardown, TypeOK, uiVars,
         sipVars, appVars
<1>11. ASSUME NEW c \in Calls, IoTimer(c) PROVE Good(d)'
  <2>1. io[c] = "poll" /\ obj[c] = c /\ sip[c] # "ctor"
    BY <1>11, <1>b, <1>d DEF IoTimer, IoGoes, Own
  <2>2. sip[c] = "loop"
    <3>1. sip[c] \in SipPcs
      BY <1>a DEF TypeOK
    <3>2. sip[c] # "none" /\ ~IoDone(c)
      BY <1>b, <2>1 DEF Own, IoDone
    <3>3. sip[c] \notin Teardown
      BY <1>b, <3>2 DEF Ordered
    <3> QED
      BY <2>1, <3>1, <3>2, <3>3 DEF SipPcs, Teardown
  <2>3. /\ io' = [io EXCEPT ![c] = "hangup"] /\ stopped' = stopped \cup {c}
        /\ UNCHANGED <<uiVars, sipVars, appVars, ioLoaded, mSipManager>>
    BY <1>11, <2>1 DEF IoTimer, IoGoes
  <2> QED
    BY <1>a, <1>e, <2>1, <2>2, <2>3 DEF Own, Published, Ordered, IoDone, Teardown, TypeOK, uiVars,
         sipVars, appVars
<1>12. ASSUME NEW c \in Calls, IoHangup(c) \/ IoDeinit(c) PROVE Good(d)'
  <2>1. io[c] \in {"hangup", "deinit"} /\ obj[c] = c
    BY <1>12, <1>b, <1>d DEF IoHangup, IoDeinit, IoLoad, IoGoes, Own
  <2>2. sip[c] = "loop" /\ mSipManager[c] = c
    BY <1>b, <2>1 DEF Published, Ordered
  <2>3. /\ \/ io[c] = "hangup" /\ io' = [io EXCEPT ![c] = "close"]
           \/ io[c] = "deinit" /\ io' = [io EXCEPT ![c] = "exit"]
        /\ ioLoaded' = [ioLoaded EXCEPT ![c] = c]
        /\ UNCHANGED <<uiVars, sipVars, appVars, stopped, mSipManager>>
    BY <1>12, <1>d, <2>1, <2>2 DEF IoHangup, IoDeinit, IoLoad, IoGoes
  <2> QED
    BY <1>a, <1>e, <2>1, <2>2, <2>3 DEF Own, Published, Ordered, IoDone, Teardown, TypeOK, uiVars,
         sipVars, appVars
<1>13. ASSUME NEW c \in Calls, IoClose(c) PROVE Good(d)'
  <2>1. io[c] = "close" /\ sip[c] = "loop"
    BY <1>13, <1>b DEF IoClose, IoPost, IoGoes, Ordered
  <2>2. /\ io' = [io EXCEPT ![c] = "deinit"] /\ PostToManager(ioLoaded[c], "close")
        /\ UNCHANGED <<uiVars, appVars, ioLoaded, stopped, manager, sip, mSipManager>>
    BY <1>13 DEF IoClose, IoPost, IoGoes
  <2>3. Contains(sipQueue'[d], "exit") <=> Contains(sipQueue[d], "exit")
    BY <1>a, <2>2, PostKeepsExit DEF SipMsgs
  <2> QED
    BY <1>a, <1>e, <2>1, <2>2, <2>3 DEF Own, Published, Ordered, IoDone, Teardown, TypeOK, uiVars,
         appVars
<1>14. ASSUME NEW c \in Calls, IoExit(c) PROVE Good(d)'
  <2>1. io[c] = "exit" /\ ioLoaded[c] = c /\ sip[c] = "loop" /\ manager[c] = "live"
    BY <1>14, <1>b DEF IoExit, IoPost, IoGoes, Published, Ordered
  <2>2. /\ io' = [io EXCEPT ![c] = "unwind"]
        /\ sipQueue' = [sipQueue EXCEPT ![c] = Append(@, "exit")]
        /\ UNCHANGED <<uiVars, appVars, ioLoaded, stopped, manager, sip, mSipManager>>
    BY <1>14, <2>1 DEF IoExit, IoPost, IoGoes, PostToManager, Live
  <2>3. Contains(Append(sipQueue[c], "exit"), "exit")
    BY <1>c, ContainsAppend DEF SipMsgs
  <2> QED
    BY <1>a, <1>c, <1>e, <2>1, <2>2, <2>3 DEF Own, Published, Ordered, IoDone, Teardown, TypeOK,
         uiVars, appVars
<1>15. ASSUME NEW c \in Calls, IoUnwind(c) PROVE Good(d)'
  <2>1. /\ io[c] = "unwind" /\ io' = [io EXCEPT ![c] = "done"]
        /\ UNCHANGED <<uiVars, sipVars, appVars, ioLoaded, stopped, mSipManager>>
    BY <1>15 DEF IoUnwind, IoGoes
  <2> QED
    BY <1>a, <1>e, <2>1 DEF Own, Published, Ordered, IoDone, Teardown, TypeOK, uiVars, sipVars,
         appVars
<1>16. ASSUME NEW c \in Calls, UseFreed(c) PROVE Good(d)'
  BY <1>16, <1>e DEF UseFreed, Own, Published, Ordered, IoDone, uiVars, sipVars, ioVars, appVars
<1>17. ASSUME NEW t \in Calls, AppDevices(t) \/ AppStartCall(t) PROVE Good(d)'
  <2>1. UNCHANGED <<calls, fiberHandle, obj, mAppThread, freed, init, ioVars, manager, sip, mSipManager>>
    BY <1>17 DEF AppDevices, AppStartCall, AppTakes
  <2>2. Contains(sipQueue'[d], "exit") <=> Contains(sipQueue[d], "exit")
    BY <1>17, <1>a, PostKeepsExit DEF AppDevices, AppStartCall, SipMsgs
  <2> QED
    BY <1>e, <2>1, <2>2 DEF Own, Published, Ordered, IoDone, ioVars
<1>18. ASSUME NEW t \in Calls, AppShowRemote(t) \/ AppDisconnected(t) PROVE Good(d)'
  BY <1>18, <1>e DEF AppShowRemote, AppDisconnected, AppTakes, Own, Published, Ordered, IoDone,
       ioVars
<1>19. ASSUME NEW t \in Calls, QuitRun(t) \/ InitReturn(t) PROVE Good(d)'
  <2>1. /\ init[t] # "none" /\ init' = [init EXCEPT ![t] = init'[t]]
        /\ UNCHANGED <<uiVars, sipVars, ioVars, mSipManager>>
    BY <1>19, <1>a DEF QuitRun, EndRun, OnTop, Active, InitReturn, TypeOK
  <2> QED
    BY <1>a, <1>e, <2>1 DEF Own, Published, Ordered, IoDone, TypeOK, uiVars, sipVars, ioVars
<1>20. CASE DestroyReturn
  <2>1. /\ fiberHandle \in Calls /\ fiberHandle' = Null /\ freed' = freed \cup {fiberHandle}
        /\ UNCHANGED <<calls, obj, mAppThread, sipVars, ioVars, init, mSipManager>>
    BY <1>20, <1>a DEF DestroyReturn, TypeInv, Started
  <2>2. sip[fiberHandle] = "done"
    BY <1>20, <1>b, <2>1 DEF DestroyReturn, SipJoined, Own
  <2> QED
    BY <1>d, <1>e, <2>1, <2>2 DEF Own, Published, Ordered, IoDone, sipVars, ioVars
<1>21. CASE UNCHANGED vars
  BY <1>21, <1>e DEF vars, uiVars, sipVars, ioVars, appVars, Own, Published, Ordered, IoDone
<1> QED
  BY <1>1, <1>2, <1>3, <1>4, <1>5, <1>6, <1>7, <1>8, <1>9, <1>10, <1>11, <1>12, <1>13, <1>14,
     <1>15, <1>16, <1>17, <1>18, <1>19, <1>20, <1>21, <1>22, <1>23
  DEF Next, User, UiThread, SipThread, IoThread, AppDispatch

LEMMA OrderAlways ==
  ASSUME LifecycleAssumption, ~ReuseHandle, ~SlowStart
  PROVE  Spec => []OrderInv
<1>1. Init => OrderInv
  BY OrderInit
<1>2. OrderInv /\ [Next]_vars => OrderInv'
  BY OrderNext
<1> QED
  BY <1>1, <1>2, PTL DEF Spec

\* The IO thread never finishes without leaving the SIP thread the message that
\* stops it, which ~CallApi waits for (callapi.cpp 287-294, 585-596).
THEOREM ExitIsPosted ==
  ASSUME LifecycleAssumption, ~ReuseHandle, ~SlowStart
  PROVE  Spec => []NoOrphan
<1>1. OrderInv => NoOrphan
  BY DEF OrderInv, NoOrphan, Orphaned, Ordered, Teardown
<1> QED
  BY <1>1, OrderAlways, PTL
=============================================================================
