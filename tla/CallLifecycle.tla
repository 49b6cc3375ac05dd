--------------------------- MODULE CallLifecycle ---------------------------
(***************************************************************************)
(* Start and teardown of a call in the WPF client.  Three threads share    *)
(* one CallApi object: the UI thread, which runs CallApi::Init and pumps    *)
(* messages inside it; the SIP thread (CallApi::startSip), which owns the   *)
(* SIP manager; and the IO thread (CallApi::runIoService), which polls the  *)
(* global terminateCall once a second and asks the manager to leave, and   *)
(* until then reads the commands in test.txt.                              *)
(*                                                                         *)
(* A call is one activation of CallApi::Init, numbered from 1.  A CallApi   *)
(* object is named by the first call made on it; 0 is the null pointer.     *)
(***************************************************************************)
EXTENDS Integers, Sequences, FiniteSets

CONSTANTS
  MaxCalls,    (* bound: how many times Join is clicked                     *)
  ReuseHandle, (* TRUE: Join may be clicked on an object that ran a call    *)
  NestedJoin,  (* TRUE: Join may be clicked while an earlier Init still runs*)
  SlowStart,   (* TRUE: the manager may take longer than the 1 s IO timer   *)
  Interrupts,  (* TRUE: SIGINT may arrive once a call was started           *)
  BuiltInMic,  (* TRUE: the Automatic microphone is a built-in one          *)
  MaxCommands  (* bound: commands of test.txt that wait in a manager's queue*)

ASSUME LifecycleAssumption ==
  /\ MaxCalls \in Nat \ {0} /\ MaxCommands \in Nat
  /\ {ReuseHandle, NestedJoin, SlowStart, Interrupts, BuiltInMic} \subseteq BOOLEAN
  /\ NestedJoin => ReuseHandle

Calls == 1 .. MaxCalls
Null  == 0
Wild  == -1      \* an uninitialised pointer that is not null

VARIABLES
  calls,         \* number of Init activations so far
  fiberHandle,   \* FiberAPI.fiberHandle: an object or Null
  uiState,       \* MainWindowViewModel state
  windowClosed,  \* Window_Closed has run
  terminateCall, \* the process-wide flag
  obj,           \* obj[c]: the CallApi object call c runs on
  mAppThread,    \* mAppThread[o]: the latest Init on object o (mSipThread is set with it)
  freed,         \* objects already deleted
  remoteWidget,  \* objects whose mUiWidget[1] has been created
  stopped,       \* objects whose mIoService is in the stopped state
  mSipManager,   \* mSipManager[o]: Null, Wild, or the call that made the manager
  manager,       \* manager[c]: life of the SIP manager made by call c
  sip, sipQueue, \* SIP thread of call c: where it is, its message queue
  dialog,        \* the SIP dialog of call c (kept by the external base class)
  levelCheck,    \* calls whose manager is checking the Automatic microphone's level
  io, ioLoaded,  \* IO thread of call c, and the pointer it loaded
  init,          \* Init activation c: where the UI thread is in it
  appQueue,      \* message queue of the Win32Thread object of Init activation c
  browser,       \* browser[c]: the activation whose queue manager c posts to
  destroying,    \* the UI thread is inside ~CallApi of fiberHandle
  quits,         \* WM_QUIT messages in the UI thread's window queue
  fault          \* first access through a bad pointer ("none" if none)

uiVars  == <<calls, fiberHandle, uiState, windowClosed, obj, mAppThread, freed, remoteWidget,
             destroying>>
sipVars == <<manager, sip, sipQueue, dialog, levelCheck, browser>>
ioVars  == <<io, ioLoaded, stopped>>
appVars == <<init, appQueue, quits>>
vars == <<uiVars, sipVars, ioVars, appVars, terminateCall, mSipManager, fault>>

UiStates  == {"Disconnected", "Connecting", "Connected"}
AppMsgs   == {"devices", "local", "remote", "disconnect"}
SipMsgs   == {"enum", "media", "defaults", "make", "token", "close", "exit"}
SipPcs    == {"none", "ctor", "loop", "delete", "clear", "quit", "done"}
IoPcs     == {"none", "start", "poll", "hangup", "close", "deinit", "exit", "unwind", "done"}
InitPcs   == {"none", "run", "joinIo", "returned"}
Dialogs   == {"none", "calling", "up", "over"}
Faults    == {"none", "null", "wild", "stale", "widget", "dangling", "freed", "late"}

Contains(q, m) == \E i \in DOMAIN q : q[i] = m
CountOf(q, S)  == Cardinality({i \in DOMAIN q : q[i] \in S})

-----------------------------------------------------------------------------
(* The UI thread's stack: Init activations nest, the newest on top.          *)

Active == {c \in Calls : init[c] \in {"run", "joinIo"}}
OnTop(c) == c \in Active /\ \A d \in Active : d <= c
\* The UI thread takes messages: it is in WPF's own loop or in the pump of the
\* newest Init, and not inside ~CallApi.
Pumping == ~destroying /\ \A c \in Active : OnTop(c) => init[c] = "run"
\* Input is handled after posted messages, so a pending WM_QUIT comes first.
TakesInput == Pumping /\ quits = 0 /\ ~windowClosed /\ fault = "none"

\* What using pointer p as a SIP manager does to fault.
ManagerFault(p) == CASE p = Null -> "null"
                     [] p = Wild -> "wild"
                     [] OTHER    -> "stale"
Live(p) == p \in Calls /\ manager[p] = "live"

\* p->post...(m): append m to the queue of the SIP thread the manager runs on.
PostToManager(p, m) ==
  \/ /\ Live(p)
     /\ sipQueue' = [sipQueue EXCEPT ![p] = Append(@, m)]
     /\ UNCHANGED fault
  \/ /\ ~Live(p)
     /\ fault' = ManagerFault(p)
     /\ UNCHANGED sipQueue

\* browser_thread_->Post(m) by manager c.
PostToApp(c, m) ==
  \/ /\ init[browser[c]] # "returned"
     /\ appQueue' = [appQueue EXCEPT ![browser[c]] = Append(@, m)]
     /\ UNCHANGED fault
  \/ /\ init[browser[c]] = "returned"
     /\ fault' = "dangling"
     /\ UNCHANGED appQueue

-----------------------------------------------------------------------------
(* The user.                                                                 *)

FlagNotReset == terminateCall   \* mutant
\* The flag after CallApi::Init's first line.
FlagAfterInit == FALSE

\* btnJoinMeeting_Click: CreateFiber unless there is a handle, then Init, up to
\* the point where it pumps.  Until then the new threads see no other change.
JoinClick ==
  /\ TakesInput
  /\ uiState = "Disconnected"
  /\ calls < MaxCalls
  /\ fiberHandle # Null => ReuseHandle
  /\ Active # {} => NestedJoin
  /\ LET c == calls + 1
         o == IF fiberHandle = Null THEN c ELSE fiberHandle
     IN  /\ calls' = c
         /\ obj' = [obj EXCEPT ![c] = o]
         /\ fiberHandle' = o
         /\ mAppThread' = [mAppThread EXCEPT ![o] = c]
         /\ \/ o # c /\ UNCHANGED mSipManager
            \/ o = c /\ \E p \in {Null, Wild} : mSipManager' = [mSipManager EXCEPT ![o] = p]
         /\ sip' = [sip EXCEPT ![c] = "ctor"]
         /\ io' = [io EXCEPT ![c] = "start"]
         /\ init' = [init EXCEPT ![c] = "run"]
  /\ uiState' = "Connecting"
  /\ terminateCall' = FlagAfterInit
  /\ UNCHANGED <<windowClosed, freed, remoteWidget, stopped, manager, sipQueue, dialog, levelCheck,
                 ioLoaded, appQueue, browser, destroying, quits, fault>>

FlagNotSet == terminateCall   \* mutant
\* The flag after CallApi::shutdown, which is called only when there is an object.
FlagAfterShutdown == terminateCall \/ fiberHandle # Null

\* setFiberOff with a handle: hideWindows, shutdown (whose join is on the member
\* ioThread that was never started, so it returns at once), and ~CallApi, which
\* waits for the SIP thread.  mUiWidget[1] has no initial value: calling through
\* it before the remote view exists either fails or reaches a leaked old widget.
SetFiberOff ==
  /\ uiState' = "Disconnected"
  /\ terminateCall' = FlagAfterShutdown
  /\ \/ destroying' = (fiberHandle # Null) /\ UNCHANGED fault
     \/ /\ fiberHandle \notin remoteWidget \cup {Null}
        /\ fault' = "widget"
        /\ UNCHANGED destroying
  /\ UNCHANGED <<calls, fiberHandle, obj, mAppThread, freed, remoteWidget, ioVars, sipVars, appVars,
                 mSipManager>>

DisconnectClick ==
  /\ TakesInput
  /\ uiState # "Disconnected"
  /\ SetFiberOff
  /\ UNCHANGED windowClosed

CloseWindow ==
  /\ TakesInput
  /\ windowClosed' = TRUE
  /\ SetFiberOff

\* SIGINT: the handler is installed by startSip.
SigInt ==
  /\ fault = "none" /\ Interrupts
  /\ \E c \in Calls : sip[c] # "none"
  /\ terminateCall' = TRUE
  /\ UNCHANGED <<uiVars, sipVars, ioVars, appVars, mSipManager, fault>>

-----------------------------------------------------------------------------
(* The SIP thread of call c.                                                 *)

\* What the manager's constructor posts to its own thread.
ConstructorPosts == <<"enum">>

\* mSipManager = new skinnySipManager(..., mAppThread, ...)
SipConstruct(c) ==
  /\ fault = "none" /\ sip[c] = "ctor" /\ obj[c] \notin freed
  /\ manager' = [manager EXCEPT ![c] = "live"]
  /\ mSipManager' = [mSipManager EXCEPT ![obj[c]] = c]
  /\ browser' = [browser EXCEPT ![c] = mAppThread[obj[c]]]
  /\ sipQueue' = [sipQueue EXCEPT ![c] = @ \o ConstructorPosts]
  /\ sip' = [sip EXCEPT ![c] = "loop"]
  /\ UNCHANGED <<uiVars, ioVars, appVars, dialog, levelCheck, terminateCall, fault>>

\* The manager's thread takes message m from its queue.
SipTakes(c, m) ==
  /\ fault = "none" /\ sip[c] = "loop" /\ manager[c] = "live"
  /\ sipQueue[c] # <<>> /\ Head(sipQueue[c]) = m
  /\ sipQueue' = [sipQueue EXCEPT ![c] = Tail(@)]
  /\ UNCHANGED <<uiVars, ioVars, init, quits, manager, browser, terminateCall, mSipManager>>

\* GetPlatformDevices tells the application the device list.
SipEnumerate(c) ==
  /\ SipTakes(c, "enum")
  /\ PostToApp(c, "devices")
  /\ UNCHANGED <<sip, dialog, levelCheck>>

\* MSG_INIT_MEDIA with the Automatic devices that initMediaEngine names: the base
\* class creates the local stream.  A built-in microphone gets its level checked.
SipInitMedia(c) ==
  /\ SipTakes(c, "media")
  /\ PostToApp(c, "local")
  /\ levelCheck' = IF BuiltInMic THEN levelCheck \cup {c} ELSE levelCheck
  /\ UNCHANGED <<sip, dialog>>

\* MSG_INIT_MEDIA with the default devices, by their own ids, after a silent check.
\* The base class, which is not in the tree, may create a local stream once more.
SipInitDefaults(c) ==
  /\ SipTakes(c, "defaults")
  /\ UNCHANGED <<appQueue, fault>> \/ PostToApp(c, "local")
  /\ UNCHANGED <<sip, dialog, levelCheck>>

CheckGoesOn(c) == levelCheck   \* mutant
\* The checks left once manager c has judged its own.
ChecksLeft(c) == levelCheck \ {c}

\* MSG_AUTO_MIC_LEVEL_CHECK has polled 20 times and heard nothing.
SipLevelSilent(c) ==
  /\ fault = "none" /\ sip[c] = "loop" /\ manager[c] = "live" /\ c \in levelCheck
  /\ levelCheck' = ChecksLeft(c)
  /\ sipQueue' = [sipQueue EXCEPT ![c] = Append(@, "defaults")]
  /\ UNCHANGED <<uiVars, ioVars, appVars, manager, sip, dialog, browser, terminateCall, mSipManager,
                 fault>>

SipMakeCall(c) ==
  /\ SipTakes(c, "make")
  /\ dialog' = [dialog EXCEPT ![c] = "calling"]
  /\ UNCHANGED <<sip, levelCheck, appQueue, fault>>

\* A request or release of the token for sharing the screen concerns the base class.
SipToken(c) == SipTakes(c, "token") /\ UNCHANGED <<sip, dialog, levelCheck, appQueue, fault>>

\* The hangup may or may not be reported to the application.
SipHangUp(c) ==
  /\ SipTakes(c, "close")
  /\ dialog' = [dialog EXCEPT ![c] = "over"]
  /\ \/ UNCHANGED <<appQueue, fault>>
     \/ dialog[c] \in {"calling", "up"} /\ PostToApp(c, "disconnect")
  /\ UNCHANGED <<sip, levelCheck>>

\* The exit message quits the thread's loop.
SipExit(c) ==
  /\ SipTakes(c, "exit")
  /\ sip' = [sip EXCEPT ![c] = "delete"]
  /\ UNCHANGED <<dialog, levelCheck, appQueue, fault>>

SipDispatch(c) ==
  \/ SipEnumerate(c) \/ SipInitMedia(c) \/ SipInitDefaults(c) \/ SipMakeCall(c)
  \/ SipToken(c) \/ SipHangUp(c) \/ SipExit(c)

\* The far end answers, or hangs up; the base class tells the application.
RemoteEvent(c, before, after, m) ==
  /\ fault = "none" /\ sip[c] = "loop" /\ manager[c] = "live" /\ dialog[c] \in before
  /\ dialog' = [dialog EXCEPT ![c] = after]
  /\ PostToApp(c, m)
  /\ UNCHANGED <<uiVars, ioVars, init, quits, manager, sip, sipQueue, levelCheck, browser,
                 terminateCall, mSipManager>>

RemoteAnswers(c) == RemoteEvent(c, {"calling"}, "up", "remote")
RemoteHangsUp(c) == RemoteEvent(c, {"calling", "up"}, "over", "disconnect")

\* delete (mSipManager): whatever the member points to now.
SipDelete(c) ==
  /\ fault = "none" /\ sip[c] = "delete" /\ obj[c] \notin freed
  /\ LET p == mSipManager[obj[c]] IN
     \/ /\ Live(p)
        /\ manager' = [manager EXCEPT ![p] = "deleted"]
        /\ sipQueue' = [sipQueue EXCEPT ![p] = <<>>]
        /\ UNCHANGED fault
     \/ p = Null /\ UNCHANGED <<manager, sipQueue, fault>>
     \/ p # Null /\ ~Live(p) /\ fault' = ManagerFault(p) /\ UNCHANGED <<manager, sipQueue>>
  /\ sip' = [sip EXCEPT ![c] = "clear"]
  /\ UNCHANGED <<uiVars, ioVars, appVars, dialog, levelCheck, browser, terminateCall, mSipManager>>

\* mSipManager = NULL
SipClear(c) ==
  /\ fault = "none" /\ sip[c] = "clear" /\ obj[c] \notin freed
  /\ mSipManager' = [mSipManager EXCEPT ![obj[c]] = Null]
  /\ sip' = [sip EXCEPT ![c] = "quit"]
  /\ UNCHANGED <<uiVars, ioVars, appVars, manager, sipQueue, dialog, levelCheck, browser,
                 terminateCall, fault>>

QuitLost(t) == FALSE               \* mutant
\* Win32Thread::Quit has an effect only while the thread is in Run (id_ is set).
QuitReaches(t) == init[t] = "run"

\* mAppThread->Quit(): WM_QUIT to the UI thread.
SipQuit(c) ==
  /\ fault = "none" /\ sip[c] = "quit" /\ obj[c] \notin freed
  /\ LET t == mAppThread[obj[c]] IN
     /\ quits' = IF QuitReaches(t) THEN quits + 1 ELSE quits
     /\ fault' = IF init[t] = "returned" THEN "dangling" ELSE fault
  /\ sip' = [sip EXCEPT ![c] = "done"]
  /\ UNCHANGED <<uiVars, ioVars, init, appQueue, manager, sipQueue, dialog, levelCheck, browser,
                 terminateCall, mSipManager>>

-----------------------------------------------------------------------------
(* The IO thread of call c.                                                  *)

IoGoes(c, from, to) ==
  /\ fault = "none" /\ io[c] = from
  /\ io' = [io EXCEPT ![c] = to]

\* runIoService up to mIoService.run(), with the timer and the reading of test.txt
\* started.  run() returns at once on a service that was stopped and not reset.
IoStart(c) ==
  /\ obj[c] \notin freed
  /\ \/ obj[c] \in stopped /\ IoGoes(c, "start", "hangup")
     \/ obj[c] \notin stopped /\ IoGoes(c, "start", "poll")
  /\ UNCHANGED <<uiVars, sipVars, appVars, ioLoaded, stopped, terminateCall, mSipManager, fault>>

StopRequested(o) == terminateCall \/ o \in stopped

\* Input::read_handler has read a command: tokenRequest or tokenRelease, through
\* mSipManager without a check.  Every read starts at the beginning of test.txt, so
\* a file with a command gives it again and again; it need not give one.
IoInput(c) ==
  /\ fault = "none" /\ io[c] = "poll" /\ obj[c] \notin freed
  /\ LET p == mSipManager[obj[c]] IN
     /\ (IF p \in Calls THEN CountOf(sipQueue[p], {"token"}) ELSE 0) < MaxCommands
     /\ PostToManager(p, "token")
  /\ UNCHANGED <<uiVars, ioVars, appVars, manager, sip, dialog, levelCheck, browser, terminateCall,
                 mSipManager>>

\* deadline_handler sees terminateCall and stops the service; or another run()
\* of the same service was stopped.  The timer is set for 1 s.
IoTimer(c) ==
  /\ obj[c] \notin freed
  /\ StopRequested(obj[c])
  /\ sip[c] = "ctor" => SlowStart
  /\ IoGoes(c, "poll", "hangup")
  /\ stopped' = stopped \cup {obj[c]}
  /\ UNCHANGED <<uiVars, sipVars, appVars, ioLoaded, terminateCall, mSipManager, fault>>

\* if (mSipManager): one load, kept for the call that follows.
IoLoad(c, from, post, next) ==
  /\ obj[c] \notin freed
  /\ LET p == mSipManager[obj[c]] IN
     /\ IoGoes(c, from, IF p = Null THEN next ELSE post)
     /\ ioLoaded' = [ioLoaded EXCEPT ![c] = p]
  /\ UNCHANGED <<uiVars, sipVars, appVars, stopped, terminateCall, mSipManager, fault>>

IoPost(c, from, m, next) ==
  /\ IoGoes(c, from, next)
  /\ PostToManager(ioLoaded[c], m)
  /\ UNCHANGED <<uiVars, appVars, ioLoaded, stopped, manager, sip, dialog, levelCheck, browser,
                 terminateCall, mSipManager>>

ExitBeforeClose(c) == IoPost(c, "close", "exit", "deinit")   \* mutant
ExitSkipped(c) == IoLoad(c, "deinit", "unwind", "unwind")    \* mutant

IoHangup(c) == IoLoad(c, "hangup", "close", "deinit")
IoClose(c)  == IoPost(c, "close", "close", "deinit")
IoDeinit(c) == IoLoad(c, "deinit", "exit", "unwind")
IoExit(c)   == IoPost(c, "exit", "exit", "unwind")

\* runIoService returns: ~deadline_timer still uses the object's mIoService.
IoUnwind(c) ==
  /\ obj[c] \notin freed
  /\ IoGoes(c, "unwind", "done")
  /\ UNCHANGED <<uiVars, sipVars, appVars, ioLoaded, stopped, terminateCall, mSipManager, fault>>

\* A thread of call c is about to use a CallApi object that has been deleted.
UseFreed(c) ==
  /\ fault = "none" /\ obj[c] \in freed
  /\ \/ /\ \/ sip[c] \in {"ctor", "delete", "clear", "quit"}
           \/ io[c] \in {"start", "poll", "hangup", "deinit"}
        /\ fault' = "freed"
     \/ io[c] = "unwind" /\ fault' = "late"
  /\ UNCHANGED <<uiVars, sipVars, ioVars, appVars, terminateCall, mSipManager>>

-----------------------------------------------------------------------------
(* The UI thread inside Init.                                                *)

\* CallApi::OnMessage takes message m from the queue of Init activation t.
AppTakes(t, m) ==
  /\ fault = "none" /\ Pumping /\ init[t] = "run"
  /\ appQueue[t] # <<>> /\ Head(appQueue[t]) = m
  /\ appQueue' = [appQueue EXCEPT ![t] = Tail(@)]
  /\ UNCHANGED <<calls, fiberHandle, windowClosed, obj, mAppThread, freed, destroying, init, quits,
                 ioVars, manager, sip, dialog, levelCheck, browser, mSipManager>>

\* APP_MSG_NOTIFY_LOCAL_DEVICES runs initMediaEngine, APP_MSG_CREATE_LOCAL_STREAM
\* runs startCall: each posts to mSipManager without a check.
AppDevices(t) ==
  /\ AppTakes(t, "devices") /\ PostToManager(mSipManager[obj[t]], "media")
  /\ UNCHANGED <<uiState, terminateCall, remoteWidget>>
AppStartCall(t) ==
  /\ AppTakes(t, "local") /\ PostToManager(mSipManager[obj[t]], "make")
  /\ UNCHANGED <<uiState, terminateCall, remoteWidget>>

\* showRemoteVideo creates mUiWidget[1] and posts the renderer; then SHOWREMOTE.
AppShowRemote(t) ==
  /\ AppTakes(t, "remote")
  /\ remoteWidget' = remoteWidget \cup {obj[t]}
  /\ IF Live(mSipManager[obj[t]])
       THEN uiState' = "Connected" /\ UNCHANGED fault
       ELSE fault' = ManagerFault(mSipManager[obj[t]]) /\ UNCHANGED uiState
  /\ UNCHANGED <<terminateCall, sipQueue>>

AppDisconnected(t) ==
  /\ AppTakes(t, "disconnect")
  /\ uiState' = "Disconnected"
  /\ terminateCall' = TRUE
  /\ UNCHANGED <<remoteWidget, sipQueue, fault>>

AppDispatch(t) == AppDevices(t) \/ AppStartCall(t) \/ AppShowRemote(t) \/ AppDisconnected(t)

EndRun(t, left) ==
  /\ fault = "none" /\ Pumping /\ OnTop(t) /\ appQueue[t] = <<>>
  /\ quits' = left
  /\ init' = [init EXCEPT ![t] = "joinIo"]
  /\ UNCHANGED <<uiVars, sipVars, ioVars, appQueue, terminateCall, mSipManager, fault>>

RunEndsByItself(t) == EndRun(t, quits - 1)        \* mutant
QuitNotRemoved(t) == quits > 0 /\ EndRun(t, quits) \* mutant

\* WM_QUIT ends the newest Run.  What the SIP thread posted before Quit has been
\* dispatched by then.
QuitRun(t) == quits > 0 /\ EndRun(t, quits - 1)

\* ioThread.join() of the local thread, then Init returns and its Win32Thread dies.
InitReturn(t) ==
  /\ fault = "none" /\ init[t] = "joinIo" /\ io[t] = "done"
  /\ init' = [init EXCEPT ![t] = "returned"]
  /\ appQueue' = [appQueue EXCEPT ![t] = <<>>]
  /\ UNCHANGED <<uiVars, sipVars, ioVars, quits, terminateCall, mSipManager, fault>>

SipNotJoined == TRUE   \* mutant
\* mSipThread.join() returns.
SipJoined == sip[mAppThread[fiberHandle]] = "done"

\* mSipThread.join() in ~CallApi returns; ~MessageHandler drops the object's messages.
DestroyReturn ==
  /\ fault = "none" /\ destroying
  /\ SipJoined
  /\ freed' = freed \cup {fiberHandle}
  /\ appQueue' = [t \in Calls |-> IF obj[t] = fiberHandle THEN <<>> ELSE appQueue[t]]
  /\ fiberHandle' = Null
  /\ destroying' = FALSE
  /\ UNCHANGED <<calls, uiState, windowClosed, obj, mAppThread, remoteWidget, sipVars, ioVars, init, quits,
                 terminateCall, mSipManager, fault>>

-----------------------------------------------------------------------------
Init ==
  /\ calls = 0
  /\ fiberHandle = Null
  /\ uiState = "Disconnected"
  /\ windowClosed = FALSE
  /\ terminateCall = FALSE
  /\ obj = [c \in Calls |-> Null]
  /\ mAppThread = [c \in Calls |-> Null]
  /\ freed = {}
  /\ remoteWidget = {}
  /\ stopped = {}
  /\ mSipManager = [c \in Calls |-> Null]
  /\ manager = [c \in Calls |-> "none"]
  /\ sip = [c \in Calls |-> "none"]
  /\ sipQueue = [c \in Calls |-> <<>>]
  /\ dialog = [c \in Calls |-> "none"]
  /\ levelCheck = {}
  /\ io = [c \in Calls |-> "none"]
  /\ ioLoaded = [c \in Calls |-> Null]
  /\ init = [c \in Calls |-> "none"]
  /\ appQueue = [c \in Calls |-> <<>>]
  /\ browser = [c \in Calls |-> Null]
  /\ destroying = FALSE
  /\ quits = 0
  /\ fault = "none"

User == JoinClick \/ DisconnectClick \/ CloseWindow \/ SigInt

SipThread(c) == SipConstruct(c) \/ SipDispatch(c) \/ SipDelete(c) \/ SipClear(c) \/ SipQuit(c)

IoThread(c) ==
  \/ IoStart(c) \/ IoTimer(c) \/ IoHangup(c) \/ IoClose(c) \/ IoDeinit(c) \/ IoExit(c)
  \/ IoUnwind(c) \/ UseFreed(c)

UiThread == DestroyReturn \/ \E t \in Calls : AppDispatch(t) \/ QuitRun(t) \/ InitReturn(t)

Next ==
  \/ User
  \/ UiThread
  \/ \E c \in Calls :
       SipThread(c) \/ IoThread(c) \/ IoInput(c) \/ RemoteAnswers(c) \/ RemoteHangsUp(c) \/ SipLevelSilent(c)

\* Every thread runs; the user, the far end, signals, test.txt and a silent
\* microphone need never act.
Fairness ==
  /\ WF_vars(UiThread)
  /\ \A c \in Calls : WF_vars(SipThread(c)) /\ WF_vars(IoThread(c))

Spec == Init /\ [][Next]_vars /\ Fairness
-----------------------------------------------------------------------------
(* Properties.                                                               *)

\* Every variable holds a value of its kind.
TypeOK ==
  /\ calls \in 0 .. MaxCalls
  /\ fiberHandle \in {Null} \cup Calls
  /\ uiState \in UiStates
  /\ windowClosed \in BOOLEAN /\ terminateCall \in BOOLEAN /\ destroying \in BOOLEAN
  /\ obj \in [Calls -> {Null} \cup Calls]
  /\ mAppThread \in [Calls -> {Null} \cup Calls]
  /\ freed \subseteq Calls /\ remoteWidget \subseteq Calls /\ stopped \subseteq Calls
  /\ mSipManager \in [Calls -> {Wild, Null} \cup Calls]
  /\ manager \in [Calls -> {"none", "live", "deleted"}]
  /\ sip \in [Calls -> SipPcs] /\ sipQueue \in [Calls -> Seq(SipMsgs)]
  /\ dialog \in [Calls -> Dialogs] /\ levelCheck \subseteq Calls
  /\ io \in [Calls -> IoPcs] /\ ioLoaded \in [Calls -> {Wild, Null} \cup Calls]
  /\ init \in [Calls -> InitPcs] /\ appQueue \in [Calls -> Seq(AppMsgs)]
  /\ browser \in [Calls -> {Null} \cup Calls]
  /\ quits \in Nat
  /\ fault \in Faults

IoDone(c) == io[c] \in {"unwind", "done"}

\* The unsynchronised mSipManager, mAppThread and this are never used before the
\* manager exists, after it was deleted, or after the object or the Win32Thread
\* they belong to is gone: nothing but the order of the shutdown messages
\* protects them (callapi.cpp 178-202, 279-294, 585-596).
ManagerSafe == fault \notin {"null", "wild", "stale", "dangling", "freed"}

\* ~CallApi joins only the SIP thread.  That thread stops only at the IO thread's
\* last message, so when the object is freed hangupCall and deinitSip are over.  It
\* is not the IO thread's last use of the object: runIoService has yet to unwind its
\* timer, whose destructor goes to the freed mIoService (fault "late").
FreedAfterLastPost == \A c \in Calls : obj[c] \in freed => sip[c] = "done" /\ IoDone(c)

\* A SIP thread whose IO thread has finished still has its exit message to read:
\* otherwise nobody will ever stop it and ~CallApi waits for ever.
Orphaned(c) == /\ IoDone(c)
               /\ \/ sip[c] = "ctor"
                  \/ sip[c] = "loop" /\ ~Contains(sipQueue[c], "exit")
NoOrphan == \A c \in Calls : ~Orphaned(c)

\* However Inits nest, no WM_QUIT is ever in the queue that no SIP thread has
\* accounted for: WPF's own loop, under all the pumps, never sees one.
NoSurplusQuit ==
  quits + Cardinality({c \in Calls : init[c] \in {"joinIo", "returned"}})
    <= Cardinality({c \in Calls : sip[c] = "done"})

\* Setting up a call goes in turn through the two threads' queues: device list,
\* media, local stream, make call.  The level check that the first media starts may
\* initialise media once more, and so dial once more, but never a third time, and
\* whatever the far end and the hangup do no device list or check comes on top.
AtFirstMedia(c) == CountOf(sipQueue[c], {"enum", "media"}) + CountOf(appQueue[c], {"devices"})
AtDefaults(c) == CountOf(sipQueue[c], {"defaults"}) + (IF c \in levelCheck THEN 1 ELSE 0)
AtDial(c) ==
  CountOf(sipQueue[c], {"make"}) + CountOf(appQueue[c], {"local"})
  + (IF dialog[c] \in {"calling", "up"} THEN 1 ELSE 0)
SetupInTurn ==
  \A c \in Calls : /\ AtFirstMedia(c) + AtDefaults(c) <= 1
                   /\ 2 * AtFirstMedia(c) + AtDefaults(c) + AtDial(c) <= 2

\* A call is torn down only when the user or the far end asked for it: while the
\* window says Connecting or Connected, the IO thread has not begun the hangup.
EndsOnlyWhenAsked ==
  \A c \in Active : io[c] \notin {"none", "start", "poll"} => uiState = "Disconnected"

\* Disconnect and closing the window return: the UI thread does not hang in ~CallApi.
DestroyCompletes == destroying ~> (~destroying \/ fault # "none")

\* Once the process-wide flag asks for it, every call in progress ends and its
\* Init gives the UI thread back to WPF.
TerminationEnds ==
  \A c \in Calls :
    (terminateCall /\ init[c] = "run") ~> (init[c] = "returned" \/ fault # "none")

\* When the manager outlives the first tick of the IO thread's timer, the calls
\* that never end are exactly those whose exit message was skipped.
HangMeansOrphan ==
  \A c \in Calls :
    (terminateCall /\ init[c] = "run") ~> (init[c] = "returned" \/ fault # "none" \/ Orphaned(c))

\* boost/asio/io_service.hpp says reset must be called before any second run of
\* a stopped service: the IO thread never calls run on a stopped mIoService.
RunOnFreshService ==
  [][\A c \in Calls : io[c] = "start" /\ io'[c] # "start" => obj[c] \notin stopped]_vars

-----------------------------------------------------------------------------
(* The abstract specification this one implements.                           *)

Phase == IF Active = {} THEN "idle"
         ELSE IF manager[calls] = "deleted" THEN "closing" ELSE "open"
Holder == IF \E c \in Calls : manager[c] = "live"
            THEN CHOOSE c \in Calls : manager[c] = "live" ELSE 0

Abstract == INSTANCE SerialCalls
  WITH n <- calls, phase <- Phase, holder <- Holder, connected <- (uiState = "Connected")

\* Without nested Inits the client keeps the promise of SerialCalls.
ImplementsSerialCalls == Abstract!Spec
=============================================================================
