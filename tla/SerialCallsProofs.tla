-------------------------- MODULE SerialCallsProofs --------------------------
(***************************************************************************)
(* Without nested Inits CallLifecycle implements SerialCalls, for every      *)
(* number of calls, on old handles or new ones, with slow managers and       *)
(* SIGINT; an object is freed only after the last post of the IO thread; and  *)
(* a call is set up in turn, and at most twice.  However Inits nest, WPF's    *)
(* own loop sees no WM_QUIT.  With one object per call, as long as no SIGINT  *)
(* and no second local stream arrives, a call ends only when it is asked and, *)
(* if besides its manager is made in time and no command is read before that, *)
(* nothing is used too late.                                                 *)
(***************************************************************************)
EXTENDS CallLifecycleProofs, MCInterruptedCalls, FiniteSetTheorems

\* Steps that no part of SerialInv can see.
Still == UNCHANGED <<calls, obj, mAppThread, sip, init, manager, mSipManager, quits>>

CallStep(c) ==
  \/ SipConstruct(c) \/ SipExit(c) \/ SipDelete(c) \/ SipClear(c) \/ SipQuit(c)
  \/ QuitRun(c) \/ InitReturn(c)

LEMMA StepKinds ==
  ASSUME [Next]_vars
  PROVE  \/ JoinClick
         \/ \E c \in Calls : CallStep(c)
         \/ /\ Still
            /\ \/ uiState' \in {uiState, "Disconnected"}
               \/ \E t \in Calls : AppShowRemote(t)
<1> DEFINE Goal == \/ JoinClick
                   \/ \E c \in Calls : CallStep(c)
                   \/ /\ Still
                      /\ \/ uiState' \in {uiState, "Disconnected"}
                         \/ \E t \in Calls : AppShowRemote(t)
<1>1. CASE DisconnectClick \/ CloseWindow
  BY <1>1 DEF DisconnectClick, CloseWindow, SetFiberOff, Still, sipVars, appVars
<1>2. CASE SigInt
  BY <1>2 DEF SigInt, Still, uiVars, sipVars, appVars
<1>3. ASSUME NEW c \in Calls, SipDispatch(c) PROVE Goal
  <2>1. CASE SipExit(c)
    BY <2>1 DEF CallStep
  <2>2. CASE SipEnumerate(c) \/ SipInitMedia(c) \/ SipInitDefaults(c) \/ SipMakeCall(c)
             \/ SipToken(c) \/ SipHangUp(c)
    BY <2>2 DEF SipEnumerate, SipInitMedia, SipInitDefaults, SipMakeCall, SipToken, SipHangUp,
       SipTakes, Still, uiVars
  <2> QED
    BY <1>3, <2>1, <2>2 DEF SipDispatch
<1>4. ASSUME NEW c \in Calls,
             RemoteAnswers(c) \/ RemoteHangsUp(c) \/ SipLevelSilent(c) \/ IoInput(c)
      PROVE  Goal
  BY <1>4 DEF RemoteAnswers, RemoteHangsUp, RemoteEvent, SipLevelSilent, IoInput, Still, uiVars,
     appVars
<1>5. ASSUME NEW c \in Calls, IoThread(c) PROVE Goal
  BY <1>5 DEF IoThread, IoStart, IoTimer, IoHangup, IoClose, IoDeinit, IoExit, IoUnwind, IoLoad,
     IoPost, UseFreed, Still, uiVars, sipVars, appVars
<1>6. ASSUME NEW t \in Calls, AppDispatch(t) PROVE Goal
  BY <1>6 DEF AppDispatch, AppDevices, AppStartCall, AppShowRemote, AppDisconnected, AppTakes, Still
<1>7. CASE DestroyReturn
  BY <1>7 DEF DestroyReturn, Still, sipVars
<1>8. CASE UNCHANGED vars
  BY <1>8 DEF vars, uiVars, sipVars, appVars, Still
<1> QED
  BY <1>1, <1>2, <1>3, <1>4, <1>5, <1>6, <1>7, <1>8
  DEF Next, User, UiThread, SipThread, CallStep

-----------------------------------------------------------------------------
(* Calls come one after another.                                             *)

\* Every call but the last is over.
Behind(c) == c < calls => init[c] = "returned" /\ sip[c] = "done" /\ manager[c] = "deleted"
Ahead(c)  == calls < c => init[c] = "none" /\ sip[c] = "none" /\ manager[c] = "none"

\* Init of the last call cannot return before its SIP thread has let it, and the
\* thread finds its own manager and its own Init through the object they share.
Last(c) ==
  c = calls =>
    /\ mAppThread[obj[c]] = c
    /\ sip[c] # "none" /\ init[c] # "none"
    /\ sip[c] # "done" => init[c] = "run"
    /\ sip[c] \in {"loop", "delete"} => mSipManager[obj[c]] = c
    /\ manager[c] = CASE sip[c] = "ctor" -> "none"
                      [] sip[c] \in {"loop", "delete"} -> "live"
                      [] OTHER -> "deleted"
    /\ quits = IF sip[c] = "done" /\ init[c] = "run" THEN 1 ELSE 0

SerialInv ==
  /\ TypeInv
  /\ calls = 0 => quits = 0
  /\ \A c \in Calls : Behind(c) /\ Ahead(c) /\ Last(c)

LEMMA SerialInit == ASSUME LifecycleAssumption PROVE Init => SerialInv
<1> SUFFICES ASSUME Init PROVE SerialInv
  OBVIOUS
<1>1. TypeInv
  BY TypeInit
<1>2. ASSUME NEW c \in Calls PROVE 0 < c
  BY LifecycleAssumption DEF Calls, LifecycleAssumption
<1>3. ASSUME NEW c \in Calls PROVE Behind(c) /\ Ahead(c) /\ Last(c)
  BY <1>2 DEF Init, Behind, Ahead, Last
<1> QED
  BY <1>1, <1>3 DEF Init, SerialInv

LEMMA CallOrder ==
  ASSUME LifecycleAssumption, TypeOK, NEW c \in Calls
  PROVE  c # Null /\ (c < calls \/ c = calls \/ calls < c) /\ ~(calls < c /\ c < calls)
         /\ ~(c < c) /\ calls \in Int /\ c \in Int
BY DEF TypeOK, Calls, Null, LifecycleAssumption

\* A SIP thread or an Init that is at work is that of the last call.
LEMMA AtWork ==
  ASSUME LifecycleAssumption, SerialInv, NEW c \in Calls,
         sip[c] \notin {"none", "done"} \/ init[c] \in {"run", "joinIo"} \/ manager[c] = "live"
  PROVE  c = calls
BY CallOrder DEF SerialInv, TypeInv, Behind, Ahead

\* The first click of a call, when the last one is over.
LEMMA SerialJoin ==
  ASSUME LifecycleAssumption, ~NestedJoin, SerialInv, JoinClick
  PROVE  SerialInv'
<1> DEFINE k == calls + 1
           o == IF fiberHandle = Null THEN k ELSE fiberHandle
<1>a. TypeInv /\ TypeOK
  BY DEF SerialInv, TypeInv
<1>1. /\ k \in Calls /\ o \in Calls /\ calls' = k /\ calls \in Int
      /\ obj' = [obj EXCEPT ![k] = o] /\ mAppThread' = [mAppThread EXCEPT ![o] = k]
      /\ sip' = [sip EXCEPT ![k] = "ctor"] /\ init' = [init EXCEPT ![k] = "run"]
      /\ UNCHANGED <<manager, quits>>
      /\ quits = 0 /\ Active = {}
  BY <1>a DEF JoinClick, TakesInput, TypeOK, Calls, Null
<1> HIDE DEF k, o
<1>2. TypeInv'
  BY <1>a, TypeNext DEF Next, User
<1>3. calls < k
  BY <1>1 DEF k
<1>4. ASSUME NEW c \in Calls PROVE (Behind(c) /\ Ahead(c) /\ Last(c))'
  <2>1. Behind(c) /\ Ahead(c) /\ Last(c)
    BY DEF SerialInv
  <2>2. c = k \/ c = calls \/ c < calls \/ (calls < c /\ k < c)
    BY <1>a, <1>1, CallOrder DEF k
  <2>3. CASE c = k
    <3>1. manager[c] = "none" /\ sip'[c] = "ctor" /\ init'[c] = "run" /\ obj'[c] = o
          /\ mAppThread'[o] = k /\ quits' = 0
      BY <1>a, <1>1, <1>3, <2>1, <2>3 DEF Ahead, TypeOK
    <3>2. ~(c < calls') /\ ~(calls' < c)
      BY <1>a, <1>1, <2>3, CallOrder DEF k
    <3> QED
      BY <1>1, <2>3, <3>1, <3>2 DEF Behind, Ahead, Last
  <2>4. CASE c = calls
    <3>1. init[c] \notin {"run", "joinIo"}
      BY <1>1 DEF Active
    <3>2. init[c] = "returned" /\ sip[c] = "done" /\ manager[c] = "deleted"
      BY <1>a, <2>1, <2>4, <3>1 DEF Last, TypeOK, InitPcs, SipPcs
    <3>3. c # k /\ ~(calls' < c) /\ c # calls'
      BY <1>1, <2>4 DEF k
    <3> QED
      BY <1>a, <1>1, <3>2, <3>3 DEF Behind, Ahead, Last, TypeOK
  <2>5. CASE c < calls
    <3>1. c # k /\ ~(calls' < c) /\ c # calls' /\ c \in Int
      BY <1>a, <1>1, <2>5, CallOrder DEF k
    <3> QED
      BY <1>a, <1>1, <2>1, <2>5, <3>1 DEF Behind, Ahead, Last, TypeOK
  <2>6. CASE calls < c /\ k < c
    <3>1. c # k /\ ~(c < calls') /\ c # calls' /\ c \in Int
      BY <1>a, <1>1, <2>6, CallOrder DEF k
    <3> QED
      BY <1>a, <1>1, <2>1, <2>6, <3>1 DEF Behind, Ahead, Last, TypeOK
  <2> QED
    BY <2>2, <2>3, <2>4, <2>5, <2>6
<1>5. calls' # 0
  BY <1>a, <1>1 DEF k, TypeOK
<1> QED
  BY <1>2, <1>4, <1>5 DEF SerialInv

\* A step of the last call, by its SIP thread or in its Init.
LEMMA SerialStep ==
  ASSUME LifecycleAssumption, SerialInv, TypeInv', NEW c \in Calls, CallStep(c)
  PROVE  SerialInv' /\ c = calls
<1>a. TypeOK
  BY DEF SerialInv, TypeInv
<1>1. c = calls
  <2>1. sip[c] \notin {"none", "done"} \/ init[c] \in {"run", "joinIo"}
    BY DEF CallStep, SipConstruct, SipExit, SipTakes, SipDelete, SipClear, SipQuit, QuitRun, EndRun,
       OnTop, Active, InitReturn
  <2> QED
    BY <2>1, AtWork
<1>2. Last(c) /\ calls # 0 /\ obj[c] \in Calls
  BY <1>a, <1>1, CallOrder DEF SerialInv, TypeInv, Started, Last, Null
<1>3. UNCHANGED <<calls, obj, mAppThread>>
  BY DEF CallStep, SipConstruct, SipExit, SipTakes, SipDelete, SipClear, SipQuit, QuitRun, EndRun,
     InitReturn, uiVars
<1>4. /\ \E x : sip' = [sip EXCEPT ![c] = x]
      /\ \E x : init' = [init EXCEPT ![c] = x]
      /\ \E x : manager' = [manager EXCEPT ![c] = x]
      /\ Last(c)'
  <2>1. CASE SipConstruct(c)
    <3>1. sip[c] = "ctor" /\ init[c] = "run" /\ quits = 0
      BY <1>1, <1>2, <2>1 DEF SipConstruct, Last
    <3> QED
      BY <1>a, <1>1, <1>2, <1>3, <2>1, <3>1 DEF SipConstruct, Last, TypeOK, appVars
  <2>2. CASE SipExit(c)
    BY <1>a, <1>1, <1>2, <1>3, <2>2 DEF SipExit, SipTakes, Last, TypeOK
  <2>3. CASE SipDelete(c)
    <3>1. /\ sip[c] = "delete" /\ mSipManager[obj[c]] = c /\ manager[c] = "live"
          /\ init[c] = "run" /\ quits = 0
      BY <1>1, <1>2, <2>3 DEF SipDelete, Last
    <3>2. c # Null /\ Live(c)
      BY <1>a, <3>1, CallOrder DEF Live
    <3>3. manager' = [manager EXCEPT ![c] = "deleted"] /\ sip' = [sip EXCEPT ![c] = "clear"]
          /\ UNCHANGED <<appVars, mSipManager>>
      BY <2>3, <3>1, <3>2 DEF SipDelete
    <3> QED
      BY <1>a, <1>1, <1>2, <1>3, <3>1, <3>3 DEF Last, TypeOK, appVars
  <2>4. CASE SipClear(c)
    BY <1>a, <1>1, <1>2, <1>3, <2>4 DEF SipClear, Last, TypeOK, appVars
  <2>5. CASE SipQuit(c)
    <3>1. sip[c] = "quit" /\ init[c] = "run" /\ quits = 0 /\ mAppThread[obj[c]] = c
          /\ manager[c] = "deleted"
      BY <1>1, <1>2, <2>5 DEF SipQuit, Last
    <3>2. sip' = [sip EXCEPT ![c] = "done"] /\ quits' = 1
          /\ UNCHANGED <<init, manager, mSipManager>>
      BY <2>5, <3>1 DEF SipQuit, QuitReaches
    <3> QED
      BY <1>a, <1>1, <1>2, <1>3, <3>1, <3>2 DEF Last, TypeOK
  <2>6. CASE QuitRun(c)
    <3>1. quits > 0 /\ quits' = quits - 1 /\ init' = [init EXCEPT ![c] = "joinIo"]
          /\ UNCHANGED <<sip, manager, mSipManager>>
      BY <2>6 DEF QuitRun, EndRun, sipVars
    <3>2. quits = 1 /\ sip[c] = "done"
      BY <1>1, <1>2, <3>1 DEF Last
    <3>3. quits' = 0
      BY <3>1, <3>2
    <3> QED
      BY <1>a, <1>1, <1>2, <1>3, <3>1, <3>2, <3>3 DEF Last, TypeOK
  <2>7. CASE InitReturn(c)
    <3>1. init[c] = "joinIo" /\ init' = [init EXCEPT ![c] = "returned"]
          /\ UNCHANGED <<sip, manager, mSipManager, quits>>
      BY <2>7 DEF InitReturn, sipVars
    <3>2. sip[c] = "done"
      BY <1>1, <1>2, <3>1 DEF Last
    <3> QED
      BY <1>a, <1>1, <1>2, <1>3, <3>1, <3>2 DEF Last, TypeOK
  <2> QED
    BY <2>1, <2>2, <2>3, <2>4, <2>5, <2>6, <2>7 DEF CallStep
<1>5. ASSUME NEW d \in Calls PROVE (Behind(d) /\ Ahead(d) /\ Last(d))'
  <2>1. CASE d = c
    BY <1>a, <1>1, <1>3, <1>4, <2>1, CallOrder DEF Behind, Ahead
  <2>2. CASE d # c
    <3>1. sip'[d] = sip[d] /\ init'[d] = init[d] /\ manager'[d] = manager[d] /\ d # calls'
      BY <1>a, <1>1, <1>3, <1>4, <2>2 DEF TypeOK
    <3> QED
      BY <1>3, <3>1 DEF SerialInv, Behind, Ahead, Last
  <2> QED
    BY <2>1, <2>2
<1> QED
  BY <1>1, <1>2, <1>3, <1>5 DEF SerialInv

LEMMA SerialStill == ASSUME SerialInv, TypeInv', Still PROVE SerialInv'
<1>1. ASSUME NEW c \in Calls PROVE (Behind(c) /\ Ahead(c) /\ Last(c))'
  BY DEF SerialInv, Still, Behind, Ahead, Last
<1> QED
  BY <1>1 DEF SerialInv, Still

LEMMA SerialNext ==
  ASSUME LifecycleAssumption, ~NestedJoin
  PROVE  SerialInv /\ [Next]_vars => SerialInv'
<1> SUFFICES ASSUME SerialInv, [Next]_vars PROVE SerialInv'
  OBVIOUS
<1>1. TypeInv'
  BY TypeNext DEF SerialInv
<1> QED
  BY <1>1, StepKinds, SerialJoin, SerialStep, SerialStill

-----------------------------------------------------------------------------
(* The refinement, step by step.                                             *)

\* What the mapping makes of a state in which no call was made yet, or the last.
PhaseOf(i, g)  == IF i = "returned" THEN "idle" ELSE IF g = "deleted" THEN "closing" ELSE "open"
HolderOf(k, g) == IF g = "live" THEN k ELSE 0
Mapped ==
  /\ calls = 0 => Phase = "idle" /\ Holder = 0
  /\ calls # 0 => /\ calls \in Calls
                  /\ Phase = PhaseOf(init[calls], manager[calls])
                  /\ Holder = HolderOf(calls, manager[calls])

LEMMA Mapping == ASSUME LifecycleAssumption PROVE SerialInv => Mapped
<1> SUFFICES ASSUME SerialInv PROVE Mapped
  OBVIOUS
<1>a. TypeOK
  BY DEF SerialInv, TypeInv
<1>1. ASSUME NEW c \in Calls, manager[c] = "live" \/ c \in Active PROVE c = calls
  BY <1>1, AtWork DEF Active
<1>2. calls # 0 => calls \in Calls
  BY <1>a, LifecycleAssumption DEF TypeOK, Calls, LifecycleAssumption
<1>3. CASE calls = 0
  <2>1. \A c \in Calls : c # calls
    BY <1>3, <1>a, CallOrder DEF Null
  <2>2. Active = {} /\ ~\E c \in Calls : manager[c] = "live"
    BY <1>1, <2>1 DEF Active
  <2> QED
    BY <1>3, <2>2 DEF Phase, Holder, Mapped
<1>4. CASE calls # 0
  <2>1. Last(calls) /\ calls \in Calls
    BY <1>2, <1>4 DEF SerialInv
  <2>2. Active = IF init[calls] = "returned" THEN {} ELSE {calls}
    <3>1. init[calls] \in {"run", "joinIo", "returned"}
      BY <1>a, <2>1 DEF Last, TypeOK, InitPcs
    <3>2. calls \in Active <=> init[calls] # "returned"
      BY <2>1, <3>1 DEF Active
    <3> QED
      BY <1>1, <3>2 DEF Active
  <2>3. Holder = HolderOf(calls, manager[calls])
    BY <1>1, <2>1 DEF Holder, HolderOf
  <2> QED
    BY <1>4, <2>1, <2>2, <2>3 DEF Phase, Mapped, PhaseOf, HolderOf
<1> QED
  BY <1>3, <1>4

\* Every step of the client is a step of SerialCalls, or none at all.
LEMMA SerialRefines ==
  ASSUME LifecycleAssumption, ~NestedJoin, SerialInv, Mapped, Mapped', TypeInv', [Next]_vars
  PROVE  [Abstract!Next]_(Abstract!vars)
<1> DEFINE Goal == [Abstract!Next]_(Abstract!vars)
<1>a. TypeOK
  BY DEF SerialInv, TypeInv
<1>1. CASE JoinClick
  <2>1. /\ Active = {} /\ uiState = "Disconnected" /\ uiState' = "Connecting"
        /\ calls' = calls + 1 /\ calls' \in Calls /\ UNCHANGED manager
        /\ init' = [init EXCEPT ![calls + 1] = "run"]
    BY <1>1, <1>a DEF JoinClick, TypeOK, Calls
  <2>2. calls < calls' /\ calls' # 0
    BY <1>a, <2>1 DEF TypeOK, Calls
  <2>3. manager[calls'] = "none" /\ init'[calls'] = "run"
    BY <1>a, <2>1, <2>2 DEF SerialInv, Ahead, TypeOK
  <2>4. Phase' = "open" /\ Holder' = 0
    BY <2>1, <2>2, <2>3 DEF Mapped, PhaseOf, HolderOf
  <2>5. Phase = "idle"
    BY <2>1 DEF Phase
  <2>6. Holder = 0
    <3>1. CASE calls = 0
      BY <3>1 DEF Mapped
    <3>2. CASE calls # 0
      <4>1. calls \in Calls /\ Last(calls) /\ init[calls] \notin {"run", "joinIo"}
        BY <2>1, <3>2 DEF Mapped, SerialInv, Active
      <4>2. manager[calls] = "deleted"
        BY <1>a, <4>1 DEF Last, TypeOK, InitPcs, SipPcs
      <4> QED
        BY <3>2, <4>2 DEF Mapped, HolderOf
    <3> QED
      BY <3>1, <3>2
  <2>7. Abstract!Open
    BY <2>1, <2>4, <2>5, <2>6 DEF Abstract!Open
  <2> QED
    BY <2>7 DEF Abstract!Next
<1>2. ASSUME NEW c \in Calls, CallStep(c) PROVE Goal
  <2>1. c = calls /\ calls # 0 /\ calls' = calls /\ Last(c)
    <3>1. c = calls /\ SerialInv'
      BY <1>2, SerialStep
    <3>2. calls' = calls
      BY <1>2 DEF CallStep, SipConstruct, SipExit, SipTakes, SipDelete, SipClear, SipQuit, QuitRun,
         EndRun, InitReturn, uiVars
    <3> QED
      BY <1>a, <3>1, <3>2, CallOrder DEF SerialInv, Null
  <2>2. UNCHANGED uiState
    BY <1>2 DEF CallStep, SipConstruct, SipExit, SipTakes, SipDelete, SipClear, SipQuit, QuitRun,
       EndRun, InitReturn, uiVars
  <2>3. /\ Phase = PhaseOf(init[c], manager[c]) /\ Phase' = PhaseOf(init'[c], manager'[c])
        /\ Holder = HolderOf(c, manager[c]) /\ Holder' = HolderOf(c, manager'[c])
    BY <2>1 DEF Mapped
  <2>4. CASE SipConstruct(c)
    <3>1. manager[c] = "none" /\ manager'[c] = "live" /\ init[c] = "run" /\ init'[c] = "run"
      BY <1>a, <2>1, <2>4 DEF SipConstruct, Last, TypeOK, appVars
    <3>2. Abstract!Acquire
      BY <2>1, <2>2, <2>3, <3>1 DEF Abstract!Acquire, PhaseOf, HolderOf
    <3> QED
      BY <3>2 DEF Abstract!Next
  <2>5. CASE SipDelete(c)
    <3>1. /\ sip[c] = "delete" /\ manager[c] = "live" /\ init[c] = "run"
          /\ mSipManager[obj[c]] = c /\ UNCHANGED init
      BY <2>1, <2>5 DEF SipDelete, Last, appVars
    <3>2. manager'[c] = "deleted"
      BY <1>a, <2>1, <2>5, <3>1, CallOrder DEF SipDelete, Live, TypeOK
    <3>3. Abstract!Release
      BY <2>1, <2>2, <2>3, <3>1, <3>2 DEF Abstract!Release, PhaseOf, HolderOf
    <3> QED
      BY <3>3 DEF Abstract!Next
  <2>6. CASE InitReturn(c)
    <3>1. /\ init[c] = "joinIo" /\ init'[c] = "returned" /\ UNCHANGED manager
          /\ manager[c] = "deleted"
      BY <1>a, <2>1, <2>6 DEF InitReturn, Last, TypeOK, sipVars
    <3>2. Abstract!Return
      BY <2>1, <2>2, <2>3, <3>1 DEF Abstract!Return, PhaseOf, HolderOf
    <3> QED
      BY <3>2 DEF Abstract!Next
  <2>7. CASE SipExit(c) \/ SipClear(c) \/ SipQuit(c) \/ QuitRun(c)
    <3>1. UNCHANGED manager /\ (init[c] = "returned" <=> init'[c] = "returned")
      BY <1>a, <2>7 DEF SipExit, SipTakes, SipClear, SipQuit, QuitRun, EndRun, OnTop, Active,
         TypeOK, sipVars, appVars
    <3> QED
      BY <2>1, <2>2, <2>3, <3>1 DEF PhaseOf, Abstract!vars
  <2> QED
    BY <1>2, <2>4, <2>5, <2>6, <2>7 DEF CallStep
<1>3. CASE Still /\ (uiState' \in {uiState, "Disconnected"} \/ \E t \in Calls : AppShowRemote(t))
  <2>1. UNCHANGED <<calls, Phase, Holder>>
    BY <1>3 DEF Still, Phase, Holder, Active
  <2>2. CASE uiState' = uiState
    BY <2>1, <2>2 DEF Abstract!vars
  <2>3. CASE uiState' = "Disconnected"
    <3>1. Abstract!Disconnect
      BY <2>1, <2>3 DEF Abstract!Disconnect
    <3> QED
      BY <3>1 DEF Abstract!Next
  <2>4. ASSUME NEW t \in Calls, AppShowRemote(t), uiState' # uiState PROVE Goal
    <3>1. init[t] = "run" /\ Live(mSipManager[obj[t]]) /\ uiState' = "Connected"
      BY <2>4 DEF AppShowRemote, AppTakes
    <3>2. t = calls /\ mSipManager[obj[t]] = calls /\ calls # 0
      BY <1>a, <3>1, AtWork, CallOrder DEF Live, Null
    <3>3. Holder = calls /\ Phase = "open"
      BY <3>1, <3>2 DEF Live, Mapped, PhaseOf, HolderOf
    <3>4. Abstract!Connect
      BY <2>1, <3>1, <3>3 DEF Abstract!Connect
    <3> QED
      BY <3>4 DEF Abstract!Next
  <2> QED
    BY <1>3, <2>2, <2>3, <2>4
<1> QED
  BY <1>1, <1>2, <1>3, StepKinds

\* Calls run one after another; each takes the SIP stack once and gives it back
\* before its Init returns; the window says Connected only for a call that holds it
\* (callapi.cpp 142-175, 279-294, skinnysipmanager.cpp 317).
THEOREM CallsAreSerial ==
  ASSUME LifecycleAssumption, ~NestedJoin
  PROVE  Spec => ImplementsSerialCalls
<1>1. Init => SerialInv /\ Abstract!Init
  <2> SUFFICES ASSUME Init PROVE SerialInv /\ Abstract!Init
    OBVIOUS
  <2>1. SerialInv /\ Mapped
    BY SerialInit, Mapping
  <2> QED
    BY <2>1 DEF Init, Mapped, Abstract!Init
<1>2. SerialInv /\ [Next]_vars => SerialInv'
  BY SerialNext
<1>3. SerialInv => Mapped /\ TypeInv
  BY Mapping DEF SerialInv
<1>4. SerialInv /\ Mapped /\ Mapped' /\ TypeInv' /\ [Next]_vars => [Abstract!Next]_(Abstract!vars)
  BY SerialRefines
<1> QED
  BY <1>1, <1>2, <1>3, <1>4, PTL DEF Spec, ImplementsSerialCalls, Abstract!Spec

-----------------------------------------------------------------------------
(* The object of a call is deleted after the last message of its IO thread.   *)

\* A SIP thread ends when the IO thread of its call has posted its last message,
\* and Init returns after that thread.
Exits(c) ==
  /\ calls < c => obj[c] = Null /\ io[c] = "none"
  /\ init[c] = "returned" => io[c] = "done"
  /\ sip[c] \in Teardown \/ Contains(sipQueue[c], "exit") => IoDone(c)

\* The client deletes an object once, and no call starts on it after that.
FreedFor(c) == obj[c] \in freed => sip[c] = "done"

ExitInv ==
  /\ SerialInv
  /\ fiberHandle \notin freed /\ fiberHandle <= calls /\ \A o \in freed : o <= calls
  /\ \A c \in Calls : Exits(c) /\ FreedFor(c)

LEMMA ExitInit == ASSUME LifecycleAssumption PROVE Init => ExitInv
<1> SUFFICES ASSUME Init PROVE ExitInv
  OBVIOUS
<1>1. SerialInv
  BY SerialInit
<1>2. ASSUME NEW c \in Calls PROVE Exits(c) /\ FreedFor(c)
  BY ContainsEmpty DEF Init, Exits, FreedFor, Teardown
<1> QED
  BY <1>1, <1>2 DEF Init, ExitInv, Null

\* A message to a manager arrives in the queue of the last call, or nowhere.
LEMMA PostsToLast ==
  ASSUME LifecycleAssumption, SerialInv, NEW p, NEW m, PostToManager(p, m), NEW d \in Calls
  PROVE  \/ sipQueue'[d] = sipQueue[d]
         \/ d = calls /\ manager[d] = "live" /\ sipQueue'[d] = Append(sipQueue[d], m)
<1>0. sipQueue \in [Calls -> Seq(SipMsgs)]
  BY DEF SerialInv, TypeInv, TypeOK
<1>1. CASE Live(p)
  <2>1. p \in Calls /\ p = calls /\ manager[p] = "live"
    BY <1>1, AtWork DEF Live
  <2>2. sipQueue' = [sipQueue EXCEPT ![p] = Append(sipQueue[p], m)]
    BY <1>1 DEF PostToManager
  <2> QED
    BY <1>0, <2>1, <2>2
<1>2. CASE ~Live(p)
  BY <1>2 DEF PostToManager
<1> QED
  BY <1>1, <1>2

LEMMA ExitNext ==
  ASSUME LifecycleAssumption, ~NestedJoin
  PROVE  ExitInv /\ [Next]_vars => ExitInv'
<1> SUFFICES ASSUME ExitInv, [Next]_vars PROVE ExitInv'
  OBVIOUS
<1>a. SerialInv /\ SerialInv' /\ TypeOK /\ TypeOK' /\ TypeInv
  BY SerialNext DEF ExitInv, SerialInv, TypeInv
<1>b. \A c \in Calls : Exits(c) /\ FreedFor(c) /\ Behind(c) /\ Ahead(c) /\ Last(c)
  BY DEF ExitInv, SerialInv
<1>c. /\ sip \in [Calls -> SipPcs] /\ io \in [Calls -> IoPcs] /\ init \in [Calls -> InitPcs]
      /\ sipQueue \in [Calls -> Seq(SipMsgs)] /\ obj \in [Calls -> {Null} \cup Calls]
      /\ calls \in Int /\ \A c \in Calls : c # Null /\ c \in Int /\ 0 <= c
  BY <1>a, LifecycleAssumption DEF TypeOK, Calls, Null, LifecycleAssumption
<1> DEFINE Handle == (fiberHandle \notin freed /\ fiberHandle <= calls /\ \A o \in freed : o <= calls)'
           Good == Handle /\ \A d \in Calls : (Exits(d) /\ FreedFor(d))'
<1> SUFFICES Good
  BY <1>a DEF ExitInv
<1>d. UNCHANGED <<fiberHandle, freed, calls>> => Handle
  BY DEF ExitInv
<1>1. CASE JoinClick
  <2> DEFINE k == calls + 1
             o == IF fiberHandle = Null THEN k ELSE fiberHandle
  <2>1. /\ k \in Calls /\ calls' = k /\ fiberHandle' = o /\ obj' = [obj EXCEPT ![k] = o]
        /\ sip' = [sip EXCEPT ![k] = "ctor"] /\ io' = [io EXCEPT ![k] = "start"]
        /\ init' = [init EXCEPT ![k] = "run"] /\ UNCHANGED <<freed, sipQueue>>
    BY <1>1, <1>a DEF JoinClick, TypeOK, Calls
  <2>2. calls < k /\ k \notin freed
    BY <1>c DEF ExitInv
  <2>3. o \notin freed /\ o <= k
    <3>1. fiberHandle \in Int /\ k \in Int /\ calls <= k
      BY <1>a, <1>c DEF TypeOK, Null
    <3>2. fiberHandle \notin freed /\ fiberHandle <= calls
      BY DEF ExitInv
    <3> HIDE DEF k
    <3> QED
      BY <1>c, <2>2, <3>1, <3>2
  <2> HIDE DEF o
  <2>4. Handle
    BY <1>a, <1>c, <2>1, <2>3 DEF ExitInv, TypeOK, Calls
  <2>5. ASSUME NEW d \in Calls PROVE (Exits(d) /\ FreedFor(d))'
    <3>1. CASE d = k
      <4>1. io[d] = "none" /\ ~Contains(sipQueue[d], "exit")
        BY <1>b, <2>2, <3>1 DEF Exits, IoDone
      <4> HIDE DEF k
      <4>2. sip'[d] = "ctor" /\ init'[d] = "run" /\ obj'[d] = o /\ ~(calls' < d)
        BY <1>c, <2>1, <3>1
      <4> QED
        BY <2>1, <2>3, <4>1, <4>2 DEF Exits, FreedFor, Teardown
    <3>2. CASE d # k
      <4>1. calls' < d => calls < d
        BY <1>c, <2>1
      <4> HIDE DEF k
      <4> QED
        BY <1>b, <1>c, <2>1, <3>2, <4>1 DEF Exits, FreedFor, IoDone
    <3> QED
      BY <3>1, <3>2
  <2> QED
    BY <2>4, <2>5
<1>2. CASE DisconnectClick \/ CloseWindow \/ SigInt \/ UNCHANGED vars
  BY <1>2, <1>b, <1>d DEF DisconnectClick, CloseWindow, SetFiberOff, SigInt, vars, uiVars, sipVars,
     ioVars, appVars, Exits, FreedFor, IoDone
<1>3. ASSUME NEW c \in Calls, SipConstruct(c) \/ SipClear(c) \/ SipQuit(c) PROVE Good
  <2>1. /\ UNCHANGED <<uiVars, ioVars, init>> /\ sip[c] \notin {"none", "done"}
        /\ \E pc \in SipPcs : /\ sip' = [sip EXCEPT ![c] = pc]
                              /\ pc \in Teardown => sip[c] \in Teardown
        /\ \/ UNCHANGED sipQueue
           \/ sipQueue' = [sipQueue EXCEPT ![c] = Append(sipQueue[c], "enum")]
    BY <1>3, <1>c DEF SipConstruct, ConstructorPosts, SipClear, SipQuit, SipPcs, Teardown, appVars
  <2>2. ASSUME NEW d \in Calls PROVE (Exits(d) /\ FreedFor(d))'
    <3>1. Contains(sipQueue'[d], "exit") => Contains(sipQueue[d], "exit")
      <4>1. sipQueue[c] \in Seq(SipMsgs) /\ "enum" \in SipMsgs
        BY <1>c DEF SipMsgs
      <4>2. Contains(Append(sipQueue[c], "enum"), "exit") => Contains(sipQueue[c], "exit")
        BY <4>1, ContainsAppend
      <4>3. sipQueue'[d] = sipQueue[d] \/ (d = c /\ sipQueue'[d] = Append(sipQueue[d], "enum"))
        BY <1>c, <2>1
      <4> QED
        BY <4>2, <4>3
    <3>2. sip'[d] \in Teardown => sip[d] \in Teardown
      BY <1>c, <2>1
    <3>3. sip[d] = "done" => sip'[d] = "done"
      BY <1>c, <2>1
    <3> QED
      BY <1>b, <2>1, <3>1, <3>2, <3>3 DEF Exits, FreedFor, IoDone, uiVars, ioVars
  <2> QED
    BY <1>d, <2>1, <2>2 DEF uiVars
<1>4. ASSUME NEW c \in Calls, SipDispatch(c) PROVE Good
  <2>1. PICK m \in SipMsgs : /\ SipTakes(c, m)
                             /\ \/ sip' = sip
                                \/ m = "exit" /\ sip' = [sip EXCEPT ![c] = "delete"]
    BY <1>4 DEF SipDispatch, SipEnumerate, SipInitMedia, SipInitDefaults, SipMakeCall, SipToken,
       SipHangUp, SipExit, SipMsgs
  <2>2. /\ sip[c] = "loop" /\ sipQueue[c] # <<>> /\ sipQueue[c] \in Seq(SipMsgs)
        /\ Head(sipQueue[c]) = m /\ sipQueue' = [sipQueue EXCEPT ![c] = Tail(sipQueue[c])]
        /\ UNCHANGED <<uiVars, ioVars, init>>
    BY <1>c, <2>1 DEF SipTakes
  <2>3. Contains(Tail(sipQueue[c]), "exit") => Contains(sipQueue[c], "exit")
    BY <2>2, ContainsTail
  <2>4. m = "exit" => IoDone(c)
    <3>1. m = "exit" => Contains(sipQueue[c], "exit")
      <4>1. 1 \in DOMAIN sipQueue[c] /\ sipQueue[c][1] = m
        BY <2>2
      <4> QED
        BY <4>1 DEF Contains
    <3> QED
      BY <1>b, <3>1 DEF Exits
  <2>5. ASSUME NEW d \in Calls PROVE (Exits(d) /\ FreedFor(d))'
    <3>1. CASE d = c
      BY <1>b, <1>c, <2>1, <2>2, <2>3, <2>4, <3>1 DEF Exits, FreedFor, IoDone, uiVars, ioVars
    <3>2. CASE d # c
      BY <1>b, <1>c, <2>1, <2>2, <3>2 DEF Exits, FreedFor, IoDone, uiVars, ioVars
    <3> QED
      BY <3>1, <3>2
  <2> QED
    BY <1>d, <2>2, <2>5 DEF uiVars
<1>5. ASSUME NEW c \in Calls, RemoteAnswers(c) \/ RemoteHangsUp(c) PROVE Good
  BY <1>5, <1>b, <1>d DEF RemoteAnswers, RemoteHangsUp, RemoteEvent, uiVars, ioVars, Exits, FreedFor,
     IoDone
<1>13. ASSUME NEW c \in Calls, SipLevelSilent(c) \/ IoInput(c) PROVE Good
  <2>1. UNCHANGED <<uiVars, ioVars, init, sip>>
    BY <1>13 DEF SipLevelSilent, IoInput, appVars
  <2>2. ASSUME NEW d \in Calls PROVE (Exits(d) /\ FreedFor(d))'
    <3>1. Contains(sipQueue'[d], "exit") <=> Contains(sipQueue[d], "exit")
      <4>1. CASE SipLevelSilent(c)
        BY <1>a, <4>1, SilentKeepsExit
      <4>2. CASE IoInput(c)
        <5>1. PostToManager(mSipManager[obj[c]], "token") /\ "token" \in SipMsgs
          BY <4>2 DEF IoInput, SipMsgs
        <5> QED
          BY <1>a, <5>1, PostKeepsExit
      <4> QED
        BY <1>13, <4>1, <4>2
    <3> QED
      BY <1>b, <2>1, <3>1 DEF Exits, FreedFor, IoDone, uiVars, ioVars
  <2> QED
    BY <1>d, <2>1, <2>2 DEF uiVars
<1>6. ASSUME NEW c \in Calls, SipDelete(c) PROVE Good
  <2>1. /\ sip[c] = "delete" /\ sip' = [sip EXCEPT ![c] = "clear"]
        /\ sipQueue' = sipQueue \/ \E p \in Calls : sipQueue' = [sipQueue EXCEPT ![p] = <<>>]
        /\ UNCHANGED <<uiVars, ioVars, init>>
    BY <1>6 DEF SipDelete, Live, appVars
  <2>2. ASSUME NEW d \in Calls PROVE (Exits(d) /\ FreedFor(d))'
    <3>1. Contains(sipQueue'[d], "exit") => Contains(sipQueue[d], "exit")
      <4>1. sipQueue'[d] = sipQueue[d] \/ sipQueue'[d] = <<>>
        BY <1>c, <2>1
      <4> QED
        BY <4>1, ContainsEmpty
    <3>2. /\ sip'[d] \in Teardown => sip[d] \in Teardown
          /\ sip[d] = "done" => sip'[d] = "done"
      BY <1>c, <2>1 DEF Teardown
    <3> QED
      BY <1>b, <2>1, <3>1, <3>2 DEF Exits, FreedFor, IoDone, uiVars, ioVars
  <2> QED
    BY <1>d, <2>1, <2>2 DEF uiVars
<1>7. ASSUME NEW c \in Calls, IoStart(c) \/ IoTimer(c) \/ IoHangup(c) \/ IoDeinit(c) \/ IoUnwind(c)
      PROVE  Good
  <2>1. /\ io[c] \notin {"none", "done"} /\ UNCHANGED <<uiVars, sipVars, init>>
        /\ \E pc \in IoPcs : io' = [io EXCEPT ![c] = pc] /\ (io[c] = "unwind" => pc = "done")
    BY <1>7 DEF IoStart, IoTimer, IoHangup, IoDeinit, IoUnwind, IoLoad, IoGoes, IoPcs, appVars
  <2>2. ASSUME NEW d \in Calls PROVE (Exits(d) /\ FreedFor(d))'
    <3>1. /\ IoDone(d) => IoDone(d)'
          /\ io[d] \in {"none", "done"} => io'[d] = io[d]
      BY <1>c, <2>1 DEF IoDone
    <3> QED
      BY <1>b, <2>1, <3>1 DEF Exits, FreedFor, uiVars, sipVars
  <2> QED
    BY <1>d, <2>1, <2>2 DEF uiVars
<1>8. ASSUME NEW c \in Calls, IoClose(c) \/ IoExit(c) PROVE Good
  <2>1. PICK m \in {"close", "exit"} :
          /\ io[c] = m /\ PostToManager(ioLoaded[c], m) /\ UNCHANGED <<uiVars, sip, init>>
          /\ io' = [io EXCEPT ![c] = IF m = "close" THEN "deinit" ELSE "unwind"]
    BY <1>8 DEF IoClose, IoExit, IoPost, IoGoes, appVars
  <2>2. c = calls
    <3>1. init[c] # "returned" /\ ~(calls < c)
      BY <1>b, <2>1 DEF Exits
    <3> QED
      BY <1>a, <1>b, <3>1, CallOrder DEF Behind
  <2>3. ASSUME NEW d \in Calls PROVE (Exits(d) /\ FreedFor(d))'
    <3>1. /\ IoDone(d) => IoDone(d)'
          /\ io[d] \in {"none", "done"} => io'[d] = io[d]
      BY <1>c, <2>1 DEF IoDone
    <3>2. Contains(sipQueue'[d], "exit") => Contains(sipQueue[d], "exit") \/ IoDone(d)'
      <4>1. CASE sipQueue'[d] = sipQueue[d]
        BY <4>1
      <4>2. CASE d = calls /\ sipQueue'[d] = Append(sipQueue[d], m)
        <5>1. m \in SipMsgs /\ sipQueue[d] \in Seq(SipMsgs)
          BY <1>c DEF SipMsgs
        <5>2. m = "exit" => IoDone(d)'
          BY <1>c, <2>1, <2>2, <4>2 DEF IoDone
        <5> QED
          BY <4>2, <5>1, <5>2, ContainsAppend
      <4> QED
        BY <1>a, <2>1, <4>1, <4>2, PostsToLast
    <3> QED
      BY <1>b, <2>1, <3>1, <3>2 DEF Exits, FreedFor, uiVars
  <2> QED
    BY <1>d, <2>1, <2>3 DEF uiVars
<1>9. ASSUME NEW c \in Calls, UseFreed(c) PROVE Good
  BY <1>9, <1>b, <1>d DEF UseFreed, uiVars, sipVars, ioVars, appVars, Exits, FreedFor, IoDone
<1>10. ASSUME NEW t \in Calls, AppDispatch(t) PROVE Good
  <2>1. UNCHANGED <<calls, fiberHandle, obj, freed, init, io, sip>>
    BY <1>10 DEF AppDispatch, AppDevices, AppStartCall, AppShowRemote, AppDisconnected, AppTakes, ioVars
  <2>2. UNCHANGED sipQueue \/ \E p, m \in SipMsgs \ {"exit"} : PostToManager(mSipManager[obj[t]], m)
    BY <1>10 DEF AppDispatch, AppDevices, AppStartCall, AppShowRemote, AppDisconnected, SipMsgs
  <2>3. ASSUME NEW d \in Calls PROVE (Exits(d) /\ FreedFor(d))'
    <3>1. Contains(sipQueue'[d], "exit") => Contains(sipQueue[d], "exit")
      BY <1>a, <2>2, PostKeepsExit
    <3> QED
      BY <1>b, <2>1, <3>1 DEF Exits, FreedFor, IoDone
  <2> QED
    BY <1>d, <2>1, <2>3
<1>11. ASSUME NEW t \in Calls, QuitRun(t) \/ InitReturn(t) PROVE Good
  <2>1. /\ UNCHANGED <<uiVars, sipVars, ioVars>>
        /\ \E pc \in InitPcs : init' = [init EXCEPT ![t] = pc] /\ (pc = "returned" => io[t] = "done")
    BY <1>11 DEF QuitRun, EndRun, InitReturn, InitPcs
  <2>2. ASSUME NEW d \in Calls PROVE (Exits(d) /\ FreedFor(d))'
    BY <1>b, <1>c, <2>1 DEF Exits, FreedFor, IoDone, uiVars, sipVars, ioVars
  <2> QED
    BY <1>d, <2>1, <2>2 DEF uiVars
<1>12. CASE DestroyReturn
  <2>1. /\ fiberHandle \in Calls /\ fiberHandle' = Null /\ freed' = freed \cup {fiberHandle}
        /\ UNCHANGED <<calls, obj, sip, sipQueue, io, init>>
        /\ sip[mAppThread[fiberHandle]] = "done"
    BY <1>12, <1>a DEF DestroyReturn, SipJoined, TypeInv, Started, sipVars, ioVars
  <2>2. Handle
    BY <1>a, <1>c, <2>1 DEF ExitInv, TypeOK, Null
  <2>3. ASSUME NEW d \in Calls, obj[d] = fiberHandle PROVE sip[d] = "done"
    <3>1. ~(calls < d)
      BY <1>b, <1>c, <2>1, <2>3 DEF Exits
    <3>2. CASE d < calls
      BY <1>b, <3>2 DEF Behind
    <3>3. CASE d = calls
      BY <1>b, <2>1, <2>3, <3>3 DEF Last
    <3> QED
      BY <1>a, <3>1, <3>2, <3>3, CallOrder
  <2>4. ASSUME NEW d \in Calls PROVE (Exits(d) /\ FreedFor(d))'
    BY <1>b, <2>1, <2>3 DEF Exits, FreedFor, IoDone
  <2> QED
    BY <2>2, <2>4
<1> QED
  BY <1>1, <1>2, <1>3, <1>4, <1>5, <1>6, <1>7, <1>8, <1>9, <1>10, <1>11, <1>12, <1>13
  DEF Next, User, UiThread, SipThread, IoThread

\* The object is deleted only after its SIP threads ended and its IO threads posted
\* their last message, also when it runs several calls or a manager is slow.  All that
\* an IO thread can have left then is the unwinding of runIoService, whose timer goes
\* back to the object's mIoService and may find it deleted (callapi.cpp 159-163,
\* 585-596, FiberAPI.cpp 15-24).
THEOREM FreedAfterPosts ==
  ASSUME LifecycleAssumption, ~NestedJoin
  PROVE  Spec => []FreedAfterLastPost
<1>1. Init => ExitInv
  BY ExitInit
<1>2. ExitInv /\ [Next]_vars => ExitInv'
  BY ExitNext
<1>3. ExitInv => FreedAfterLastPost
  BY DEF ExitInv, Exits, FreedFor, FreedAfterLastPost, Teardown
<1> QED
  BY <1>1, <1>2, <1>3, PTL DEF Spec

-----------------------------------------------------------------------------
(* Nested Inits: each WM_QUIT is that of a SIP thread that ended.            *)

Ended == {c \in Calls : init[c] \in {"joinIo", "returned"}}
Done  == {c \in Calls : sip[c] = "done"}

QuitInv ==
  /\ TypeInv
  /\ \A c \in Calls : calls < c => sip[c] = "none"
  /\ NoSurplusQuit

LEMMA CallSets ==
  ASSUME LifecycleAssumption, NEW S, S \subseteq Calls
  PROVE  IsFiniteSet(S) /\ Cardinality(S) \in Nat
<1>1. IsFiniteSet(Calls)
  BY FS_Interval DEF Calls, LifecycleAssumption
<1> QED
  BY <1>1, FS_Subset, FS_CardinalityType

LEMMA QuitInit == ASSUME LifecycleAssumption PROVE Init => QuitInv
<1> SUFFICES ASSUME Init PROVE QuitInv
  OBVIOUS
<1>1. TypeInv
  BY TypeInit
<1>2. Ended = {} /\ quits = 0
  BY DEF Init, Ended
<1>3. Cardinality(Ended) = 0 /\ Cardinality(Done) \in Nat
  BY <1>2, CallSets, FS_EmptySet DEF Done
<1>4. NoSurplusQuit
  BY <1>2, <1>3 DEF NoSurplusQuit, Ended, Done
<1> QED
  BY <1>1, <1>4 DEF QuitInv, Init

LEMMA QuitNext == ASSUME LifecycleAssumption PROVE QuitInv /\ [Next]_vars => QuitInv'
<1> SUFFICES ASSUME QuitInv, [Next]_vars PROVE QuitInv'
  OBVIOUS
<1>a. TypeInv /\ TypeInv' /\ TypeOK /\ quits \in Nat
  BY TypeNext DEF QuitInv, TypeInv, TypeOK
<1>b. /\ quits + Cardinality(Ended) <= Cardinality(Done)
      /\ Ended \subseteq Calls /\ Done \subseteq Calls
  BY DEF QuitInv, NoSurplusQuit, Ended, Done
<1>c. /\ IsFiniteSet(Ended) /\ Cardinality(Ended) \in Nat
      /\ IsFiniteSet(Done) /\ Cardinality(Done) \in Nat
      /\ Cardinality(Ended') \in Nat /\ Cardinality(Done') \in Nat
  BY <1>b, CallSets DEF Ended, Done
<1> DEFINE Kept == (\A c \in Calls : calls < c => sip[c] = "none")'
           NoSurplus == quits' + Cardinality(Ended') <= Cardinality(Done')
<1> SUFFICES Kept /\ NoSurplus
  BY <1>a DEF QuitInv, NoSurplusQuit, Ended, Done
<1>1. CASE JoinClick
  <2>1. /\ calls' = calls + 1 /\ calls' \in Calls /\ UNCHANGED quits
        /\ sip' = [sip EXCEPT ![calls + 1] = "ctor"]
        /\ init' = [init EXCEPT ![calls + 1] = "run"]
    BY <1>1, <1>a DEF JoinClick, TypeOK, Calls
  <2>2. sip[calls + 1] = "none"
    BY <1>a, <2>1 DEF QuitInv, TypeOK, Calls
  <2>3. Done' = Done
    BY <1>a, <2>1, <2>2 DEF Done, TypeOK
  <2>4. Ended' \subseteq Ended
    BY <1>a, <2>1 DEF Ended, TypeOK
  <2>5. Cardinality(Ended') <= Cardinality(Ended)
    BY <1>c, <2>4, FS_Subset
  <2>6. Kept
    BY <1>a, <2>1 DEF QuitInv, TypeOK, Calls
  <2> QED
    BY <1>a, <1>b, <1>c, <2>1, <2>3, <2>5, <2>6
<1>2. ASSUME NEW c \in Calls, SipQuit(c) PROVE Kept /\ NoSurplus
  <2>1. /\ sip[c] = "quit" /\ sip' = [sip EXCEPT ![c] = "done"] /\ UNCHANGED <<init, calls>>
        /\ quits' \in {quits, quits + 1}
    BY <1>2 DEF SipQuit, uiVars
  <2>2. Done' = Done \cup {c} /\ c \notin Done /\ Ended' = Ended
    BY <1>a, <2>1 DEF Done, Ended, TypeOK
  <2>3. Cardinality(Done') = Cardinality(Done) + 1
    BY <1>c, <2>2, FS_AddElement
  <2>4. Kept
    BY <1>a, <2>1 DEF QuitInv, TypeOK
  <2> QED
    BY <1>a, <1>b, <1>c, <2>1, <2>2, <2>3, <2>4
<1>3. ASSUME NEW t \in Calls, QuitRun(t) PROVE Kept /\ NoSurplus
  <2>1. /\ init[t] = "run" /\ init' = [init EXCEPT ![t] = "joinIo"] /\ UNCHANGED <<sip, calls>>
        /\ quits' = quits - 1
    BY <1>3 DEF QuitRun, EndRun, Pumping, OnTop, uiVars, sipVars
  <2>2. Ended' = Ended \cup {t} /\ t \notin Ended /\ Done' = Done
    BY <1>a, <2>1 DEF Done, Ended, TypeOK
  <2>3. Cardinality(Ended') = Cardinality(Ended) + 1
    BY <1>c, <2>2, FS_AddElement
  <2>4. Kept
    BY <2>1 DEF QuitInv
  <2> QED
    BY <1>a, <1>b, <1>c, <2>1, <2>2, <2>3, <2>4
<1>4. ASSUME NEW t \in Calls, InitReturn(t) PROVE Kept /\ NoSurplus
  <2>1. /\ init[t] = "joinIo" /\ init' = [init EXCEPT ![t] = "returned"]
        /\ UNCHANGED <<sip, calls, quits>>
    BY <1>4 DEF InitReturn, uiVars, sipVars
  <2>2. Ended' = Ended /\ Done' = Done
    BY <1>a, <2>1 DEF Done, Ended, TypeOK
  <2> QED
    BY <1>b, <2>1, <2>2 DEF QuitInv
<1>5. ASSUME NEW c \in Calls, SipConstruct(c) \/ SipExit(c) \/ SipDelete(c) \/ SipClear(c)
      PROVE  Kept /\ NoSurplus
  <2>1. /\ sip[c] \notin {"none", "done"} /\ UNCHANGED <<init, calls, quits>>
        /\ \E pc \in SipPcs \ {"done"} : sip' = [sip EXCEPT ![c] = pc]
    BY <1>5 DEF SipConstruct, SipExit, SipTakes, SipDelete, SipClear, SipPcs, uiVars, appVars
  <2>2. Ended' = Ended /\ Done' = Done
    BY <1>a, <2>1 DEF Done, Ended, TypeOK
  <2>3. Kept
    BY <1>a, <2>1 DEF QuitInv, TypeOK
  <2> QED
    BY <1>b, <2>1, <2>2, <2>3
<1>6. CASE Still
  <2>1. Ended' = Ended /\ Done' = Done /\ quits' = quits /\ Kept
    BY <1>6 DEF Still, Ended, Done, QuitInv
  <2> QED
    BY <1>b, <2>1
<1> QED
  BY <1>1, <1>2, <1>3, <1>4, <1>5, <1>6, StepKinds DEF CallStep

\* However Inits nest, on whatever handles, no WM_QUIT is left for WPF's own loop:
\* each that waits is that of a SIP thread whose Init still pumps
\* (callapi.cpp 155-163, 294).
THEOREM NoQuitLeft == ASSUME LifecycleAssumption PROVE Spec => []NoSurplusQuit
<1>1. Init => QuitInv
  BY QuitInit
<1>2. QuitInv /\ [Next]_vars => QuitInv'
  BY QuitNext
<1>3. QuitInv => NoSurplusQuit
  BY DEF QuitInv
<1> QED
  BY <1>1, <1>2, <1>3, PTL DEF Spec

-----------------------------------------------------------------------------
(* One call at a time: whose threads are at work.                            *)

Base == LifecycleAssumption /\ ~NestedJoin /\ SerialInv

LEMMA BaseFacts ==
  ASSUME Base
  PROVE  /\ TypeOK
         /\ \A c \in Calls : Behind(c) /\ Ahead(c) /\ Last(c)
         /\ \A c \in Calls : c # Null /\ c # Wild
BY DEF Base, LifecycleAssumption, SerialInv, TypeInv, Calls, Null, Wild

\* A SIP thread that is neither before nor after its life is the last call's, and
\* finds its own things.
LEMMA SipAlive ==
  ASSUME Base, NEW c \in Calls, sip[c] \notin {"none", "done"}
  PROVE  /\ c = calls /\ init[c] = "run" /\ mAppThread[obj[c]] = c
         /\ sip[c] \in {"loop", "delete"} => manager[c] = "live" /\ mSipManager[obj[c]] = c
<1>1. c = calls
  BY AtWork DEF Base
<1> QED
  BY <1>1, BaseFacts DEF Last

\* An Init that runs is the last call's.
LEMMA InitAlive ==
  ASSUME Base, NEW c \in Calls, init[c] \in {"run", "joinIo"}
  PROVE  c = calls
BY AtWork DEF Base

-----------------------------------------------------------------------------
(* What goes through the two queues of a call.                               *)

Talking == {"calling", "up"}

\* Nothing is in the queues of a call whose SIP thread does not read yet.
Fresh(c) ==
  sip[c] \in {"none", "ctor"} =>
    sipQueue[c] = <<>> /\ appQueue[c] = <<>> /\ dialog[c] = "none" /\ c \notin levelCheck

\* A call's manager posts to its own Init.
Mine(c) == sip[c] = "loop" => browser[c] = c

Homed == \A c \in Calls : Fresh(c) /\ Mine(c)

SipReads(c, m) ==
  /\ sip[c] = "loop" /\ sipQueue[c] # <<>> /\ Head(sipQueue[c]) = m
  /\ sipQueue'[c] = Tail(sipQueue[c])
SipGets(c, m)  == sipQueue'[c] = Append(sipQueue[c], m)
SipKeeps(c)    == sipQueue'[c] = sipQueue[c]
AppReads(c, m) == appQueue[c] # <<>> /\ Head(appQueue[c]) = m /\ appQueue'[c] = Tail(appQueue[c])
AppGets(c, m)  == appQueue'[c] = Append(appQueue[c], m)
AppKeeps(c)    == appQueue'[c] = appQueue[c]
ChecksOn(c)    == c \in levelCheck' <=> c \in levelCheck
TalksOn(c)     == dialog'[c] = dialog[c]

\* What a step can do to the queues, the dialog and the level check of call c.
Dropped(c) ==
  /\ sipQueue'[c] \in {sipQueue[c], <<>>} /\ appQueue'[c] \in {appQueue[c], <<>>}
  /\ TalksOn(c) /\ ChecksOn(c)
Begun(c) ==
  sip[c] = "ctor" /\ sipQueue'[c] = <<"enum">> /\ AppKeeps(c) /\ TalksOn(c) /\ ChecksOn(c)
Listed(c) == SipReads(c, "enum") /\ AppGets(c, "devices") /\ TalksOn(c) /\ ChecksOn(c)
Opened(c) == SipReads(c, "media") /\ AppGets(c, "local") /\ TalksOn(c)
Reopened(c) ==
  /\ SipReads(c, "defaults") /\ TalksOn(c) /\ ChecksOn(c)
  /\ AppKeeps(c) \/ (AppGets(c, "local") /\ SecondStream)
Dialled(c) == SipReads(c, "make") /\ AppKeeps(c) /\ dialog'[c] = "calling" /\ ChecksOn(c)
Skipped(c) ==
  \E m \in {"token", "exit"} : SipReads(c, m) /\ AppKeeps(c) /\ TalksOn(c) /\ ChecksOn(c)
Closed(c) ==
  /\ SipReads(c, "close") /\ dialog'[c] = "over" /\ ChecksOn(c)
  /\ AppKeeps(c) \/ (dialog[c] \in Talking /\ AppGets(c, "disconnect"))
Judged(c) ==
  c \in levelCheck /\ c \notin levelCheck' /\ SipGets(c, "defaults") /\ AppKeeps(c) /\ TalksOn(c)
Heard(c) ==
  /\ dialog[c] \in Talking /\ SipKeeps(c) /\ ChecksOn(c)
  /\ \/ dialog'[c] = "up" /\ AppGets(c, "remote")
     \/ dialog'[c] = "over" /\ AppGets(c, "disconnect")
Told(c) ==
  \E m \in {"token", "close", "exit"} : SipGets(c, m) /\ AppKeeps(c) /\ TalksOn(c) /\ ChecksOn(c)
Answered(c) ==
  /\ TalksOn(c) /\ ChecksOn(c)
  /\ \/ AppReads(c, "devices") /\ (SipKeeps(c) \/ SipGets(c, "media"))
     \/ AppReads(c, "local") /\ (SipKeeps(c) \/ SipGets(c, "make"))
Shown(c) ==
  \E m \in {"remote", "disconnect"} : AppReads(c, m) /\ SipKeeps(c) /\ TalksOn(c) /\ ChecksOn(c)

Move(c) ==
  \/ Dropped(c) \/ Begun(c) \/ Listed(c) \/ Opened(c) \/ Reopened(c) \/ Dialled(c) \/ Skipped(c)
  \/ Closed(c) \/ Judged(c) \/ Heard(c) \/ Told(c) \/ Answered(c) \/ Shown(c)

Moved(c) == Move(c) /\ Fresh(c)' /\ Mine(c)'

LEMMA PostsToApp ==
  ASSUME Base, Homed, NEW c \in Calls, NEW m, sip[c] = "loop", PostToApp(c, m)
  PROVE  /\ appQueue' = [appQueue EXCEPT ![c] = Append(@, m)]
         /\ UNCHANGED fault
<1>1. browser[c] = c /\ init[c] = "run"
  BY SipAlive DEF Homed, Mine
<1> QED
  BY <1>1 DEF PostToApp

\* A call that has no part in a step.
LEMMA Calm ==
  ASSUME Homed, NEW d \in Calls, SipKeeps(d), AppKeeps(d), TalksOn(d), ChecksOn(d),
         browser'[d] = browser[d],
         \/ sip'[d] = sip[d]
         \/ sip'[d] \in Teardown
         \/ sip[d] = "none" /\ sip'[d] = "ctor"
  PROVE  Moved(d)
<1>1. Move(d)
  BY DEF Move, Dropped, SipKeeps, AppKeeps
<1>2. /\ sip'[d] \in {"none", "ctor"} => sip[d] \in {"none", "ctor"}
      /\ sip'[d] = "loop" => sip[d] = "loop"
  BY DEF Teardown
<1> QED
  BY <1>1, <1>2 DEF Moved, Homed, Fresh, Mine, SipKeeps, AppKeeps, TalksOn, ChecksOn

\* The step of a SIP thread that goes on reading, seen from its own call.
LEMMA Reads ==
  ASSUME Homed, NEW c \in Calls, Move(c), sip[c] = "loop", UNCHANGED browser,
         sip'[c] \notin {"none", "ctor"}
  PROVE  Moved(c)
BY DEF Moved, Homed, Fresh, Mine

LEMMA Longer == ASSUME NEW S, NEW q \in Seq(S), NEW x \in S PROVE Append(q, x) # q
<1>1. Len(Append(q, x)) = Len(q) + 1 /\ Len(q) \in Nat
  OBVIOUS
<1> QED
  BY <1>1

\* The steps of the SIP thread of c, and of the far end.
LEMMA MoveSip ==
  ASSUME Base, Homed, NEW c \in Calls,
         SipThread(c) \/ RemoteAnswers(c) \/ RemoteHangsUp(c) \/ SipLevelSilent(c), NEW d \in Calls
  PROVE  Moved(d)
<1>0. /\ sipQueue \in [Calls -> Seq(SipMsgs)] /\ appQueue \in [Calls -> Seq(AppMsgs)]
      /\ sip \in [Calls -> SipPcs] /\ dialog \in [Calls -> Dialogs]
      /\ browser \in [Calls -> {Null} \cup Calls]
  BY BaseFacts DEF TypeOK
<1>1. CASE SipConstruct(c)
  <2>1. /\ mAppThread[obj[c]] = c /\ sip[c] = "ctor"
        /\ sipQueue[c] = <<>> /\ appQueue[c] = <<>> /\ dialog[c] = "none" /\ c \notin levelCheck
    BY <1>1, SipAlive DEF SipConstruct, Homed, Fresh
  <2>2. /\ browser' = [browser EXCEPT ![c] = c]
        /\ sipQueue' = [sipQueue EXCEPT ![c] = <<"enum">>]
        /\ sip' = [sip EXCEPT ![c] = "loop"]
        /\ UNCHANGED <<appQueue, dialog, levelCheck>>
    BY <1>0, <1>1, <2>1 DEF SipConstruct, ConstructorPosts, appVars
  <2>3. CASE d = c
    BY <1>0, <2>1, <2>2, <2>3 DEF Moved, Move, Begun, Fresh, Mine, AppKeeps, TalksOn, ChecksOn
  <2>4. CASE d # c
    BY <1>0, <2>2, <2>4, Calm DEF SipKeeps, AppKeeps, TalksOn, ChecksOn
  <2> QED
    BY <2>3, <2>4
<1>2. CASE SipDispatch(c)
  <2>1. \E m \in SipMsgs : SipTakes(c, m)
    BY <1>2 DEF SipDispatch, SipEnumerate, SipInitMedia, SipInitDefaults, SipMakeCall, SipToken,
       SipHangUp, SipExit, SipMsgs
  <2>2. /\ sip[c] = "loop" /\ sipQueue[c] # <<>>
        /\ sipQueue' = [sipQueue EXCEPT ![c] = Tail(sipQueue[c])]
        /\ UNCHANGED browser
    BY <1>0, <2>1 DEF SipTakes
  <2>3. /\ \E pc \in {"loop", "delete"} : sip' = [sip EXCEPT ![c] = pc]
        /\ \E x : dialog' = [dialog EXCEPT ![c] = x]
        /\ levelCheck' \in {levelCheck, levelCheck \cup {c}}
    <3>1. sip = [sip EXCEPT ![c] = "loop"] /\ dialog = [dialog EXCEPT ![c] = dialog[c]]
      BY <1>0, <2>2
    <3> QED
      BY <1>2, <3>1 DEF SipDispatch, SipEnumerate, SipInitMedia, SipInitDefaults, SipMakeCall,
         SipToken, SipHangUp, SipExit
  <2>4. \/ UNCHANGED appQueue
        \/ \E m : PostToApp(c, m)
    BY <1>2 DEF SipDispatch, SipEnumerate, SipInitMedia, SipInitDefaults, SipMakeCall, SipToken,
       SipHangUp, SipExit
  <2>5. CASE d # c
    <3>1. appQueue'[d] = appQueue[d]
      BY <1>0, <2>2, <2>4, <2>5, PostsToApp
    <3>2. sipQueue'[d] = sipQueue[d] /\ dialog'[d] = dialog[d] /\ sip'[d] = sip[d]
      BY <1>0, <2>2, <2>3, <2>5
    <3> QED
      BY <2>2, <2>3, <2>5, <3>1, <3>2, Calm DEF SipKeeps, AppKeeps, TalksOn, ChecksOn
  <2>6. CASE d = c
    <3>1. ASSUME NEW m, SipTakes(c, m) PROVE SipReads(c, m)
      BY <1>0, <2>2, <3>1 DEF SipTakes, SipReads
    <3>2. ASSUME NEW m, PostToApp(c, m) PROVE AppGets(c, m)
      BY <1>0, <2>2, <3>2, PostsToApp DEF AppGets
    <3>3. ASSUME SipEnumerate(c) PROVE Move(c)
      BY <1>0, <3>1, <3>2, <3>3 DEF SipEnumerate, Move, Listed, TalksOn, ChecksOn
    <3>4. ASSUME SipInitMedia(c) PROVE Move(c)
      BY <1>0, <3>1, <3>2, <3>4 DEF SipInitMedia, Move, Opened, TalksOn
    <3>5. ASSUME SipInitDefaults(c) PROVE Move(c)
      <4>1. AppKeeps(c) \/ (AppGets(c, "local") /\ SecondStream)
        <5>1. CASE UNCHANGED appQueue
          BY <5>1 DEF AppKeeps
        <5>2. CASE PostToApp(c, "local")
          <6>1. appQueue[c] \in Seq(AppMsgs) /\ "local" \in AppMsgs
            BY <1>0 DEF AppMsgs
          <6>2. appQueue'[c] # appQueue[c]
            BY <3>2, <5>2, <6>1, Longer DEF AppGets
          <6>3. SecondStream
            BY <3>5, <6>2 DEF SecondStream
          <6> QED
            BY <3>2, <5>2, <6>3
        <5> QED
          BY <3>5, <5>1, <5>2 DEF SipInitDefaults
      <4> QED
        BY <3>1, <3>5, <4>1 DEF SipInitDefaults, Move, Reopened, TalksOn, ChecksOn
    <3>6. ASSUME SipMakeCall(c) PROVE Move(c)
      BY <1>0, <3>1, <3>6 DEF SipMakeCall, Move, Dialled, AppKeeps, ChecksOn
    <3>7. ASSUME SipToken(c) \/ SipExit(c) PROVE Move(c)
      BY <3>1, <3>7 DEF SipToken, SipExit, Move, Skipped, AppKeeps, TalksOn, ChecksOn
    <3>8. ASSUME SipHangUp(c) PROVE Move(c)
      BY <1>0, <3>1, <3>2, <3>8 DEF SipHangUp, Move, Closed, AppKeeps, ChecksOn, Talking
    <3>9. Move(c)
      BY <1>2, <3>3, <3>4, <3>5, <3>6, <3>7, <3>8 DEF SipDispatch
    <3> QED
      BY <1>0, <2>2, <2>3, <2>6, <3>9, Reads
  <2> QED
    BY <2>5, <2>6
<1>3. CASE SipDelete(c)
  <2>1. /\ sipQueue'[d] \in {sipQueue[d], <<>>} /\ sip[c] = "delete"
        /\ sip' = [sip EXCEPT ![c] = "clear"]
        /\ UNCHANGED <<appQueue, dialog, browser, levelCheck>>
    BY <1>0, <1>3 DEF SipDelete, appVars
  <2>2. sip'[d] = sip[d] \/ sip'[d] = "clear"
    BY <1>0, <2>1
  <2> QED
    BY <2>1, <2>2 DEF Homed, Moved, Move, Dropped, Fresh, Mine, TalksOn, ChecksOn
<1>4. CASE SipClear(c) \/ SipQuit(c)
  <2>1. /\ \E pc \in {"quit", "done"} : sip' = [sip EXCEPT ![c] = pc]
        /\ UNCHANGED <<appQueue, dialog, browser, sipQueue, levelCheck>>
    BY <1>4 DEF SipClear, SipQuit, appVars
  <2> QED
    BY <1>0, <2>1, Calm DEF Teardown, SipKeeps, AppKeeps, TalksOn, ChecksOn
<1>5. CASE SipLevelSilent(c)
  <2>1. /\ sip[c] = "loop" /\ c \in levelCheck /\ levelCheck' = levelCheck \ {c}
        /\ sipQueue' = [sipQueue EXCEPT ![c] = Append(sipQueue[c], "defaults")]
        /\ UNCHANGED <<appQueue, dialog, browser, sip>>
    BY <1>5 DEF SipLevelSilent, ChecksLeft, appVars
  <2>2. CASE d = c
    BY <1>0, <2>1, <2>2, Reads DEF Move, Judged, SipGets, AppKeeps, TalksOn
  <2>3. CASE d # c
    BY <1>0, <2>1, <2>3, Calm DEF SipKeeps, AppKeeps, TalksOn, ChecksOn
  <2> QED
    BY <2>2, <2>3
<1>6. CASE RemoteAnswers(c) \/ RemoteHangsUp(c)
  <2>1. PICK after \in {"up", "over"}, m \in {"remote", "disconnect"} :
          /\ m = "remote" <=> after = "up"
          /\ RemoteEvent(c, Talking, after, m)
    BY <1>6 DEF RemoteAnswers, RemoteHangsUp, RemoteEvent, Talking
  <2>2. /\ sip[c] = "loop" /\ dialog[c] \in Talking /\ dialog' = [dialog EXCEPT ![c] = after]
        /\ PostToApp(c, m)
        /\ UNCHANGED <<sip, sipQueue, browser, levelCheck>>
    BY <2>1 DEF RemoteEvent
  <2>3. appQueue' = [appQueue EXCEPT ![c] = Append(@, m)]
    BY <2>2, PostsToApp
  <2>4. CASE d = c
    BY <1>0, <2>1, <2>2, <2>3, <2>4, Reads DEF Move, Heard, SipKeeps, AppGets, ChecksOn
  <2>5. CASE d # c
    BY <1>0, <2>2, <2>3, <2>5, Calm DEF SipKeeps, AppKeeps, TalksOn, ChecksOn
  <2> QED
    BY <2>4, <2>5
<1> QED
  BY <1>1, <1>2, <1>3, <1>4, <1>5, <1>6 DEF SipThread

\* The steps of the IO thread of c.
LEMMA MoveIo ==
  ASSUME Base, Homed, NEW c \in Calls, IoThread(c) \/ IoInput(c), NEW d \in Calls
  PROVE  Moved(d)
<1>0. UNCHANGED <<sip, appQueue, dialog, browser, levelCheck>>
  BY DEF IoThread, IoStart, IoTimer, IoHangup, IoClose, IoDeinit, IoExit, IoUnwind, IoLoad, IoPost,
     UseFreed, IoInput, sipVars, appVars
<1>1. CASE sipQueue'[d] = sipQueue[d]
  BY <1>0, <1>1, Calm DEF SipKeeps, AppKeeps, TalksOn, ChecksOn
<1>2. CASE sipQueue'[d] # sipQueue[d]
  <2>1. PICK m \in {"token", "close", "exit"} : \E p : PostToManager(p, m)
    BY <1>2 DEF IoThread, IoStart, IoTimer, IoHangup, IoClose, IoDeinit, IoExit, IoUnwind, IoLoad,
       IoPost, UseFreed, IoInput, sipVars
  <2>2. d = calls /\ manager[d] = "live" /\ sipQueue'[d] = Append(sipQueue[d], m)
    BY <1>2, <2>1, PostsToLast DEF Base
  <2>3. sip[d] \notin {"none", "ctor"}
    BY <2>2, BaseFacts DEF Last
  <2> QED
    BY <1>0, <2>2, <2>3 DEF Homed, Moved, Move, Told, Fresh, Mine, SipGets, AppKeeps, TalksOn, ChecksOn
<1> QED
  BY <1>1, <1>2

\* The UI thread dispatches a message, leaves an Init or deletes an object.
LEMMA MoveUi ==
  ASSUME Base, Homed, UiThread, NEW d \in Calls
  PROVE  Moved(d)
<1>0. /\ sipQueue \in [Calls -> Seq(SipMsgs)] /\ appQueue \in [Calls -> Seq(AppMsgs)]
      /\ UNCHANGED <<sip, dialog, browser, levelCheck>>
  BY BaseFacts DEF TypeOK, UiThread, DestroyReturn, AppDispatch, AppDevices, AppStartCall,
     AppShowRemote, AppDisconnected, AppTakes, QuitRun, EndRun, InitReturn, sipVars
<1>1. ASSUME UNCHANGED sipQueue, appQueue'[d] \in {appQueue[d], <<>>} PROVE Moved(d)
  BY <1>0, <1>1 DEF Homed, Moved, Move, Dropped, Fresh, Mine, TalksOn, ChecksOn
<1>2. CASE DestroyReturn
  BY <1>1, <1>2 DEF DestroyReturn, sipVars
<1>3. ASSUME NEW t \in Calls, QuitRun(t) \/ InitReturn(t) PROVE Moved(d)
  BY <1>0, <1>1, <1>3 DEF QuitRun, EndRun, InitReturn, sipVars
<1>4. ASSUME NEW t \in Calls, AppDispatch(t) PROVE Moved(d)
  <2>1. PICK m \in AppMsgs : AppTakes(t, m)
    BY <1>4 DEF AppDispatch, AppDevices, AppStartCall, AppShowRemote, AppDisconnected, AppMsgs
  <2>2. /\ init[t] = "run" /\ appQueue[t] # <<>>
        /\ appQueue' = [appQueue EXCEPT ![t] = Tail(appQueue[t])]
    BY <2>1 DEF AppTakes
  <2>3. t = calls /\ sip[t] \notin {"none", "ctor"}
    BY <2>2, InitAlive DEF Homed, Fresh
  <2>4. ASSUME NEW p, NEW m1, PostToManager(p, m1)
        PROVE  SipKeeps(d) \/ (d = t /\ SipGets(d, m1))
    BY <2>3, <2>4, PostsToLast DEF Base, SipKeeps, SipGets
  <2>5. CASE d # t
    <3>1. UNCHANGED sipQueue \/ \E p, m1 : PostToManager(p, m1)
      BY <1>4 DEF AppDispatch, AppDevices, AppStartCall, AppShowRemote, AppDisconnected
    <3>2. SipKeeps(d)
      BY <2>4, <2>5, <3>1 DEF SipKeeps
    <3> QED
      BY <1>0, <2>2, <2>5, <3>2, Calm DEF AppKeeps, TalksOn, ChecksOn
  <2>6. CASE d = t
    <3>1. ASSUME NEW x, AppTakes(t, x) PROVE AppReads(t, x)
      BY <1>0, <3>1 DEF AppTakes, AppReads
    <3>2. TalksOn(t) /\ ChecksOn(t)
      BY <1>0 DEF TalksOn, ChecksOn
    <3>3. ASSUME AppDevices(t) PROVE Move(t)
      BY <2>4, <2>6, <3>1, <3>2, <3>3 DEF AppDevices, Move, Answered
    <3>4. ASSUME AppStartCall(t) PROVE Move(t)
      BY <2>4, <2>6, <3>1, <3>2, <3>4 DEF AppStartCall, Move, Answered
    <3>5. ASSUME AppShowRemote(t) \/ AppDisconnected(t) PROVE Move(t)
      BY <3>1, <3>2, <3>5 DEF AppShowRemote, AppDisconnected, Move, Shown, SipKeeps
    <3>6. Move(t)
      BY <1>4, <3>3, <3>4, <3>5 DEF AppDispatch
    <3> QED
      BY <1>0, <2>3, <2>6, <3>6 DEF Homed, Moved, Fresh, Mine
  <2> QED
    BY <2>5, <2>6
<1> QED
  BY <1>2, <1>3, <1>4 DEF UiThread

LEMMA MoveUser ==
  ASSUME Base, Homed, User, NEW d \in Calls
  PROVE  Moved(d)
<1>0. sip \in [Calls -> SipPcs] /\ calls \in Int
  BY BaseFacts DEF TypeOK
<1>1. SipKeeps(d) /\ AppKeeps(d) /\ TalksOn(d) /\ ChecksOn(d) /\ UNCHANGED browser
  BY DEF User, JoinClick, DisconnectClick, CloseWindow, SetFiberOff, SigInt, sipVars, appVars,
     SipKeeps, AppKeeps, TalksOn, ChecksOn
<1>2. CASE JoinClick
  <2> DEFINE k == calls + 1
  <2>1. sip' = [sip EXCEPT ![k] = "ctor"]
    BY <1>2 DEF JoinClick
  <2>2. CASE d = k
    <3>1. calls < k
      BY <1>0
    <3>2. sip[d] = "none"
      BY <2>2, <3>1, BaseFacts DEF Ahead
    <3> HIDE DEF k
    <3> QED
      BY <1>0, <1>1, <2>1, <2>2, <3>2, Calm
  <2>3. CASE d # k
    <3> HIDE DEF k
    <3> QED
      BY <1>0, <1>1, <2>1, <2>3, Calm
  <2> QED
    BY <2>2, <2>3
<1>3. CASE DisconnectClick \/ CloseWindow \/ SigInt
  <2>1. UNCHANGED sip
    BY <1>3 DEF DisconnectClick, CloseWindow, SetFiberOff, SigInt, sipVars
  <2> QED
    BY <1>1, <2>1, Calm
<1> QED
  BY <1>2, <1>3 DEF User

\* Every step moves the messages of every call as they should go.
LEMMA MoveNext ==
  ASSUME Base, Homed, [Next]_vars, NEW d \in Calls
  PROVE  Moved(d)
<1>1. CASE UNCHANGED vars
  BY <1>1, Calm DEF vars, sipVars, appVars, SipKeeps, AppKeeps, TalksOn, ChecksOn
<1> QED
  BY <1>1, MoveUser, MoveUi, MoveSip, MoveIo DEF Next

LEMMA HomedNext == ASSUME Base, Homed, [Next]_vars PROVE Homed'
BY MoveNext DEF Homed, Moved

LEMMA HomedInit == Init => Homed
BY DEF Init, Homed, Fresh, Mine

-----------------------------------------------------------------------------
(* Counting messages.                                                        *)

LEMMA CountEmpty == ASSUME NEW S PROVE CountOf(<<>>, S) = 0
<1>1. {i \in DOMAIN <<>> : <<>>[i] \in S} = {}
  OBVIOUS
<1> QED
  BY <1>1, FS_EmptySet DEF CountOf

LEMMA CountFinite ==
  ASSUME NEW T, NEW q \in Seq(T), NEW S
  PROVE  /\ IsFiniteSet({i \in DOMAIN q : q[i] \in S})
         /\ CountOf(q, S) \in Nat
<1>1. DOMAIN q = 1 .. Len(q) /\ Len(q) \in Nat
  OBVIOUS
<1>2. IsFiniteSet(DOMAIN q)
  BY <1>1, FS_Interval
<1>3. IsFiniteSet({i \in DOMAIN q : q[i] \in S})
  BY <1>2, FS_Subset
<1> QED
  BY <1>3, FS_CardinalityType DEF CountOf

LEMMA CountAppend ==
  ASSUME NEW T, NEW q \in Seq(T), NEW x \in T, NEW S
  PROVE  CountOf(Append(q, x), S) = CountOf(q, S) + (IF x \in S THEN 1 ELSE 0)
<1> DEFINE n == Len(q) + 1
           Old == {i \in DOMAIN q : q[i] \in S}
           New == {i \in DOMAIN Append(q, x) : Append(q, x)[i] \in S}
<1>1. /\ DOMAIN q = 1 .. Len(q) /\ DOMAIN Append(q, x) = 1 .. n /\ Len(q) \in Nat
      /\ \A i \in 1 .. Len(q) : Append(q, x)[i] = q[i]
      /\ Append(q, x)[n] = x
  OBVIOUS
<1>2. n \in 1 .. n /\ n \notin DOMAIN q /\ \A i : i \in 1 .. n <=> i \in 1 .. Len(q) \/ i = n
  BY <1>1
<1> HIDE DEF n
<1>3. New = IF x \in S THEN Old \cup {n} ELSE Old
  BY <1>1, <1>2
<1>4. n \notin Old
  BY <1>2
<1>5. IsFiniteSet(Old) /\ Cardinality(Old) \in Nat
  BY CountFinite DEF CountOf
<1>6. CountOf(q, S) = Cardinality(Old) /\ CountOf(Append(q, x), S) = Cardinality(New)
  BY DEF CountOf
<1> HIDE DEF Old, New
<1>7. Cardinality(Old \cup {n}) = Cardinality(Old) + 1
  BY <1>4, <1>5, FS_AddElement
<1> QED
  BY <1>3, <1>5, <1>6, <1>7

LEMMA CountTail ==
  ASSUME NEW T, NEW q \in Seq(T), q # <<>>, NEW S
  PROVE  CountOf(q, S) = CountOf(Tail(q), S) + (IF Head(q) \in S THEN 1 ELSE 0)
<1> DEFINE n == Len(q) - 1
           Old == {i \in DOMAIN q : q[i] \in S}
           New == {i \in DOMAIN Tail(q) : Tail(q)[i] \in S}
           f   == [i \in New |-> i + 1]
<1>1. /\ DOMAIN q = 1 .. n + 1 /\ DOMAIN Tail(q) = 1 .. n /\ n \in Nat
      /\ \A i \in 1 .. n : Tail(q)[i] = q[i + 1]
      /\ Head(q) = q[1]
  OBVIOUS
<1> HIDE DEF n
<1>2. \A i \in New : i \in 1 .. n /\ i \in Int
  BY <1>1
<1>3. f \in [New -> Old \ {1}]
  <2> SUFFICES ASSUME NEW i \in New PROVE i + 1 \in Old \ {1}
    OBVIOUS
  <2>1. i + 1 \in 1 .. n + 1 /\ i + 1 # 1
    BY <1>1, <1>2
  <2> QED
    BY <1>1, <1>2, <2>1
<1>4. \A i, j \in New : f[i] = f[j] => i = j
  BY <1>2
<1>5. \A j \in Old \ {1} : \E i \in New : f[i] = j
  <2> SUFFICES ASSUME NEW j \in Old \ {1} PROVE \E i \in New : f[i] = j
    OBVIOUS
  <2>1. j - 1 \in 1 .. n /\ (j - 1) + 1 = j
    BY <1>1
  <2>2. j - 1 \in New
    BY <1>1, <2>1
  <2> QED
    BY <2>1, <2>2
<1>6. ExistsBijection(New, Old \ {1})
  <2>1. f \in Injection(New, Old \ {1})
    BY <1>3, <1>4 DEF Injection, IsInjective
  <2>2. f \in Surjection(New, Old \ {1})
    BY <1>3, <1>5 DEF Surjection
  <2> QED
    BY <2>1, <2>2 DEF ExistsBijection, Bijection
<1>7. Tail(q) \in Seq(T)
  OBVIOUS
<1>8. /\ IsFiniteSet(New) /\ Cardinality(New) \in Nat
      /\ IsFiniteSet(Old) /\ Cardinality(Old) \in Nat
  BY <1>7, CountFinite DEF CountOf
<1>9. 1 \in Old <=> Head(q) \in S
  BY <1>1
<1>10. CountOf(q, S) = Cardinality(Old) /\ CountOf(Tail(q), S) = Cardinality(New)
  BY DEF CountOf
<1> HIDE DEF Old, New, f
<1>11. Cardinality(New) = Cardinality(Old \ {1})
  BY <1>6, <1>8, FS_Bijection
<1>12. Cardinality(Old \ {1}) = IF 1 \in Old THEN Cardinality(Old) - 1 ELSE Cardinality(Old)
  BY <1>8, FS_RemoveElement
<1> QED
  BY <1>8, <1>9, <1>10, <1>11, <1>12

-----------------------------------------------------------------------------
(* A call is set up in turn.                                                 *)


\* The counts after a message was read or posted.
LEMMA SipCounts ==
  ASSUME Base, NEW c \in Calls, NEW S
  PROVE  /\ CountOf(sipQueue[c], S) \in Nat
         /\ \A m \in SipMsgs : SipReads(c, m) =>
              CountOf(sipQueue[c], S) = CountOf(sipQueue'[c], S) + (IF m \in S THEN 1 ELSE 0)
         /\ \A m \in SipMsgs : SipGets(c, m) =>
              CountOf(sipQueue'[c], S) = CountOf(sipQueue[c], S) + (IF m \in S THEN 1 ELSE 0)
         /\ SipKeeps(c) => CountOf(sipQueue'[c], S) = CountOf(sipQueue[c], S)
<1>1. sipQueue[c] \in Seq(SipMsgs)
  BY BaseFacts DEF TypeOK
<1>2. CountOf(sipQueue[c], S) \in Nat
  BY <1>1, CountFinite
<1>3. ASSUME NEW m \in SipMsgs, SipReads(c, m)
      PROVE  CountOf(sipQueue[c], S) = CountOf(sipQueue'[c], S) + (IF m \in S THEN 1 ELSE 0)
  BY <1>1, <1>3, CountTail DEF SipReads
<1>4. ASSUME NEW m \in SipMsgs, SipGets(c, m)
      PROVE  CountOf(sipQueue'[c], S) = CountOf(sipQueue[c], S) + (IF m \in S THEN 1 ELSE 0)
  BY <1>1, <1>4, CountAppend DEF SipGets
<1> QED
  BY <1>2, <1>3, <1>4 DEF SipKeeps

LEMMA AppCounts ==
  ASSUME Base, NEW c \in Calls, NEW S
  PROVE  /\ CountOf(appQueue[c], S) \in Nat
         /\ \A m \in AppMsgs : AppReads(c, m) =>
              CountOf(appQueue[c], S) = CountOf(appQueue'[c], S) + (IF m \in S THEN 1 ELSE 0)
         /\ \A m \in AppMsgs : AppGets(c, m) =>
              CountOf(appQueue'[c], S) = CountOf(appQueue[c], S) + (IF m \in S THEN 1 ELSE 0)
         /\ AppKeeps(c) => CountOf(appQueue'[c], S) = CountOf(appQueue[c], S)
<1>1. appQueue[c] \in Seq(AppMsgs)
  BY BaseFacts DEF TypeOK
<1>2. CountOf(appQueue[c], S) \in Nat
  BY <1>1, CountFinite
<1>3. ASSUME NEW m \in AppMsgs, AppReads(c, m)
      PROVE  CountOf(appQueue[c], S) = CountOf(appQueue'[c], S) + (IF m \in S THEN 1 ELSE 0)
  BY <1>1, <1>3, CountTail DEF AppReads
<1>4. ASSUME NEW m \in AppMsgs, AppGets(c, m)
      PROVE  CountOf(appQueue'[c], S) = CountOf(appQueue[c], S) + (IF m \in S THEN 1 ELSE 0)
  BY <1>1, <1>4, CountAppend DEF AppGets
<1> QED
  BY <1>2, <1>3, <1>4 DEF AppKeeps

\* How much of the set-up of call c is ahead of media, of the defaults, of dialling.
InTurn(c) ==
  /\ AtFirstMedia(c) + AtDefaults(c) <= 1
  /\ 2 * AtFirstMedia(c) + AtDefaults(c) + AtDial(c) <= 2

LEMMA TurnMove ==
  ASSUME Base, Base', Homed, NEW c \in Calls, Move(c), InTurn(c)
  PROVE  InTurn(c)'
<1> DEFINE sf == CountOf(sipQueue[c], {"enum", "media"})
           sd == CountOf(sipQueue[c], {"defaults"})
           sm == CountOf(sipQueue[c], {"make"})
           af == CountOf(appQueue[c], {"devices"})
           al == CountOf(appQueue[c], {"local"})
           lv == IF c \in levelCheck THEN 1 ELSE 0
           tk == IF dialog[c] \in Talking THEN 1 ELSE 0
<1>1. /\ sf \in Nat /\ sd \in Nat /\ sm \in Nat /\ af \in Nat /\ al \in Nat
      /\ sf' \in Nat /\ sd' \in Nat /\ sm' \in Nat /\ af' \in Nat /\ al' \in Nat
      /\ lv \in {0, 1} /\ lv' \in {0, 1} /\ tk \in {0, 1} /\ tk' \in {0, 1}
  <2>1. sipQueue[c] \in Seq(SipMsgs) /\ appQueue[c] \in Seq(AppMsgs)
    BY BaseFacts DEF TypeOK
  <2>2. sipQueue'[c] \in Seq(SipMsgs) /\ appQueue'[c] \in Seq(AppMsgs)
    BY DEF Base, SerialInv, TypeInv, TypeOK
  <2> QED
    BY <2>1, <2>2, CountFinite
<1> DEFINE Sums(f, d, t) == f + d <= 1 /\ f + f + d + t <= 2
<1>2. PICK f1 \in Nat, d1 \in Nat, m1 \in Nat, g1 \in Nat, l1 \in Nat, v1 \in Nat, t1 \in Nat :
        f1 = sf /\ d1 = sd /\ m1 = sm /\ g1 = af /\ l1 = al /\ v1 = lv /\ t1 = tk
  BY <1>1
<1>3. PICK f2 \in Nat, d2 \in Nat, m2 \in Nat, g2 \in Nat, l2 \in Nat, v2 \in Nat, t2 \in Nat :
        f2 = sf' /\ d2 = sd' /\ m2 = sm' /\ g2 = af' /\ l2 = al' /\ v2 = lv' /\ t2 = tk'
  BY <1>1
<1>25. Sums(f1 + g1, d1 + v1, m1 + l1 + t1)
  BY <1>2 DEF InTurn, AtFirstMedia, AtDefaults, AtDial, Talking
<1>26. ASSUME Sums(f2 + g2, d2 + v2, m2 + l2 + t2) PROVE InTurn(c)'
  BY <1>3, <1>26 DEF InTurn, AtFirstMedia, AtDefaults, AtDial, Talking
<1>27. v1 <= 1 /\ v2 <= 1 /\ t1 <= 1 /\ t2 <= 1
  BY <1>1, <1>2, <1>3
<1>4. SipKeeps(c) => sf' = sf /\ sd' = sd /\ sm' = sm
  BY SipCounts
<1>5. AppKeeps(c) => af' = af /\ al' = al
  BY AppCounts
<1>6. ChecksOn(c) => lv' = lv
  BY DEF ChecksOn
<1>7. TalksOn(c) => tk' = tk
  BY DEF TalksOn
<1>8. /\ SipReads(c, "enum") \/ SipReads(c, "media") => sf = sf' + 1 /\ sd' = sd /\ sm' = sm
      /\ SipReads(c, "defaults") => sd = sd' + 1 /\ sf' = sf /\ sm' = sm
      /\ SipReads(c, "make") => sm = sm' + 1 /\ sf' = sf /\ sd' = sd
      /\ \A m \in {"token", "close", "exit"} : SipReads(c, m) => sf' = sf /\ sd' = sd /\ sm' = sm
  BY <1>1, SipCounts DEF SipMsgs
<1>9. /\ SipGets(c, "media") => sf' = sf + 1 /\ sd' = sd /\ sm' = sm
      /\ SipGets(c, "defaults") => sd' = sd + 1 /\ sf' = sf /\ sm' = sm
      /\ SipGets(c, "make") => sm' = sm + 1 /\ sf' = sf /\ sd' = sd
      /\ \A m \in {"token", "close", "exit"} : SipGets(c, m) => sf' = sf /\ sd' = sd /\ sm' = sm
  BY <1>1, SipCounts DEF SipMsgs
<1>10. /\ AppReads(c, "devices") => af = af' + 1 /\ al' = al
       /\ AppReads(c, "local") => al = al' + 1 /\ af' = af
       /\ \A m \in {"remote", "disconnect"} : AppReads(c, m) => af' = af /\ al' = al
  BY <1>1, AppCounts DEF AppMsgs
<1>11. /\ AppGets(c, "devices") => af' = af + 1 /\ al' = al
       /\ AppGets(c, "local") => al' = al + 1 /\ af' = af
       /\ \A m \in {"remote", "disconnect"} : AppGets(c, m) => af' = af /\ al' = al
  BY <1>1, AppCounts DEF AppMsgs
<1>12. CASE Dropped(c)
  <2>1. sipQueue'[c] = <<>> => sf' = 0 /\ sd' = 0 /\ sm' = 0
    BY CountEmpty
  <2>2. appQueue'[c] = <<>> => af' = 0 /\ al' = 0
    BY CountEmpty
  <2>3. sf' <= sf /\ sd' <= sd /\ sm' <= sm
    BY <1>1, <1>4, <1>12, <2>1 DEF Dropped, SipKeeps
  <2>4. af' <= af /\ al' <= al
    BY <1>1, <1>5, <1>12, <2>2 DEF Dropped, AppKeeps
  <2>5. lv' = lv /\ tk' = tk
    BY <1>6, <1>7, <1>12 DEF Dropped
  <2>9. /\ f2 <= f1 /\ d2 <= d1 /\ m2 <= m1
        /\ g2 <= g1 /\ l2 <= l1
        /\ v2 = v1 /\ t2 = t1
    BY <1>2, <1>3, <2>3, <2>4, <2>5
  <2> HIDE DEF sf, sd, sm, af, al, lv, tk
  <2> QED
    BY <1>25, <1>26, <1>27, <2>9
<1>13. CASE Begun(c)
  <2>1. sipQueue[c] = <<>> /\ appQueue[c] = <<>> /\ dialog[c] = "none" /\ c \notin levelCheck
    BY <1>13 DEF Begun, Homed, Fresh
  <2>2. af' = 0 /\ al' = 0 /\ lv' = 0 /\ tk' = 0
    BY <1>5, <1>6, <1>7, <1>13, <2>1, CountEmpty DEF Begun, Talking
  <2>3. sf' = 1 /\ sd' = 0 /\ sm' = 0
    <3>1. <<"enum">> = Append(<<>>, "enum") /\ <<>> \in Seq(SipMsgs) /\ "enum" \in SipMsgs
      BY DEF SipMsgs
    <3>2. ASSUME NEW S PROVE CountOf(<<"enum">>, S) = IF "enum" \in S THEN 1 ELSE 0
      <4>1. CountOf(Append(<<>>, "enum"), S) = CountOf(<<>>, S) + (IF "enum" \in S THEN 1 ELSE 0)
        <5> DEFINE q == <<>>
        <5>1. q \in Seq(SipMsgs)
          BY <3>1
        <5> HIDE DEF q
        <5>2. CountOf(Append(q, "enum"), S) = CountOf(q, S) + (IF "enum" \in S THEN 1 ELSE 0)
          BY <3>1, <5>1, CountAppend
        <5> QED
          BY <5>2 DEF q
      <4> QED
        BY <3>1, <4>1, CountEmpty
    <3> QED
      BY <1>13, <3>2 DEF Begun
  <2>9. /\ g2 = 0 /\ l2 = 0 /\ v2 = 0 /\ t2 = 0
        /\ f2 = 1 /\ d2 = 0 /\ m2 = 0
    BY <1>2, <1>3, <2>2, <2>3
  <2> HIDE DEF sf, sd, sm, af, al, lv, tk
  <2> QED
    BY <1>25, <1>26, <1>27, <2>9
<1>14. CASE Listed(c)
  <2>1. sf = sf' + 1 /\ sd' = sd /\ sm' = sm /\ af' = af + 1 /\ al' = al /\ lv' = lv /\ tk' = tk
    BY <1>6, <1>7, <1>8, <1>11, <1>14 DEF Listed
  <2>9. f1 = f2 + 1 /\ d2 = d1 /\ m2 = m1 /\ g2 = g1 + 1 /\ l2 = l1 /\ v2 = v1 /\ t2 = t1
    BY <1>2, <1>3, <2>1
  <2> HIDE DEF sf, sd, sm, af, al, lv, tk
  <2> QED
    BY <1>25, <1>26, <1>27, <2>9
<1>15. CASE Opened(c)
  <2>1. sf = sf' + 1 /\ sd' = sd /\ sm' = sm /\ af' = af /\ al' = al + 1 /\ tk' = tk
    BY <1>7, <1>8, <1>11, <1>15 DEF Opened
  <2>9. f1 = f2 + 1 /\ d2 = d1 /\ m2 = m1 /\ g2 = g1 /\ l2 = l1 + 1 /\ t2 = t1
    BY <1>2, <1>3, <2>1
  <2> HIDE DEF sf, sd, sm, af, al, lv, tk
  <2> QED
    BY <1>25, <1>26, <1>27, <2>9
<1>16. CASE Reopened(c)
  <2>1. sd = sd' + 1 /\ sf' = sf /\ sm' = sm /\ af' = af /\ al' \in {al, al + 1} /\ lv' = lv /\ tk' = tk
    BY <1>5, <1>6, <1>7, <1>8, <1>11, <1>16 DEF Reopened
  <2>9. d1 = d2 + 1 /\ f2 = f1 /\ m2 = m1 /\ g2 = g1 /\ l2 \in {l1, l1 + 1} /\ v2 = v1 /\ t2 = t1
    BY <1>2, <1>3, <2>1
  <2> HIDE DEF sf, sd, sm, af, al, lv, tk
  <2> QED
    BY <1>25, <1>26, <1>27, <2>9
<1>17. CASE Dialled(c)
  <2>1. sm = sm' + 1 /\ sf' = sf /\ sd' = sd /\ af' = af /\ al' = al /\ lv' = lv
    BY <1>5, <1>6, <1>8, <1>17 DEF Dialled
  <2>9. m1 = m2 + 1 /\ f2 = f1 /\ d2 = d1 /\ g2 = g1 /\ l2 = l1 /\ v2 = v1
    BY <1>2, <1>3, <2>1
  <2> HIDE DEF sf, sd, sm, af, al, lv, tk
  <2> QED
    BY <1>25, <1>26, <1>27, <2>9
<1>18. CASE Skipped(c)
  <2>1. sm' = sm /\ sf' = sf /\ sd' = sd /\ af' = af /\ al' = al /\ lv' = lv /\ tk' = tk
    BY <1>5, <1>6, <1>7, <1>8, <1>18 DEF Skipped
  <2>9. m2 = m1 /\ f2 = f1 /\ d2 = d1 /\ g2 = g1 /\ l2 = l1 /\ v2 = v1 /\ t2 = t1
    BY <1>2, <1>3, <2>1
  <2> HIDE DEF sf, sd, sm, af, al, lv, tk
  <2> QED
    BY <1>25, <1>26, <1>27, <2>9
<1>19. CASE Closed(c)
  <2>1. sm' = sm /\ sf' = sf /\ sd' = sd /\ af' = af /\ al' = al /\ lv' = lv /\ tk' = 0
    BY <1>5, <1>6, <1>8, <1>11, <1>19 DEF Closed, Talking
  <2>9. m2 = m1 /\ f2 = f1 /\ d2 = d1 /\ g2 = g1 /\ l2 = l1 /\ v2 = v1 /\ t2 = 0
    BY <1>2, <1>3, <2>1
  <2> HIDE DEF sf, sd, sm, af, al, lv, tk
  <2> QED
    BY <1>25, <1>26, <1>27, <2>9
<1>20. CASE Judged(c)
  <2>1. /\ sd' = sd + 1 /\ sm' = sm /\ sf' = sf /\ af' = af /\ al' = al /\ lv = 1 /\ lv' = 0
        /\ tk' = tk
    BY <1>5, <1>7, <1>9, <1>20 DEF Judged
  <2>9. /\ d2 = d1 + 1 /\ m2 = m1 /\ f2 = f1 /\ g2 = g1 /\ l2 = l1 /\ v1 = 1 /\ v2 = 0
        /\ t2 = t1
    BY <1>2, <1>3, <2>1
  <2> HIDE DEF sf, sd, sm, af, al, lv, tk
  <2> QED
    BY <1>25, <1>26, <1>27, <2>9
<1>21. CASE Heard(c)
  <2>1. sm' = sm /\ sf' = sf /\ sd' = sd /\ af' = af /\ al' = al /\ lv' = lv /\ tk = 1
    BY <1>4, <1>6, <1>11, <1>21 DEF Heard
  <2>9. m2 = m1 /\ f2 = f1 /\ d2 = d1 /\ g2 = g1 /\ l2 = l1 /\ v2 = v1 /\ t1 = 1
    BY <1>2, <1>3, <2>1
  <2> HIDE DEF sf, sd, sm, af, al, lv, tk
  <2> QED
    BY <1>25, <1>26, <1>27, <2>9
<1>22. CASE Told(c)
  <2>1. sm' = sm /\ sf' = sf /\ sd' = sd /\ af' = af /\ al' = al /\ lv' = lv /\ tk' = tk
    BY <1>5, <1>6, <1>7, <1>9, <1>22 DEF Told
  <2>9. m2 = m1 /\ f2 = f1 /\ d2 = d1 /\ g2 = g1 /\ l2 = l1 /\ v2 = v1 /\ t2 = t1
    BY <1>2, <1>3, <2>1
  <2> HIDE DEF sf, sd, sm, af, al, lv, tk
  <2> QED
    BY <1>25, <1>26, <1>27, <2>9
<1>23. CASE Answered(c)
  <2>1. /\ sd' = sd /\ lv' = lv /\ tk' = tk
        /\ \/ af = af' + 1 /\ al' = al /\ sf' \in {sf, sf + 1} /\ sm' = sm
           \/ al = al' + 1 /\ af' = af /\ sm' \in {sm, sm + 1} /\ sf' = sf
    BY <1>4, <1>6, <1>7, <1>9, <1>10, <1>23 DEF Answered
  <2>9. /\ d2 = d1 /\ v2 = v1 /\ t2 = t1
        /\ \/ g1 = g2 + 1 /\ l2 = l1 /\ f2 \in {f1, f1 + 1} /\ m2 = m1
           \/ l1 = l2 + 1 /\ g2 = g1 /\ m2 \in {m1, m1 + 1} /\ f2 = f1
    BY <1>2, <1>3, <2>1
  <2> HIDE DEF sf, sd, sm, af, al, lv, tk
  <2> QED
    BY <1>25, <1>26, <1>27, <2>9
<1>24. CASE Shown(c)
  <2>1. sm' = sm /\ sf' = sf /\ sd' = sd /\ af' = af /\ al' = al /\ lv' = lv /\ tk' = tk
    BY <1>4, <1>6, <1>7, <1>10, <1>24 DEF Shown
  <2>9. m2 = m1 /\ f2 = f1 /\ d2 = d1 /\ g2 = g1 /\ l2 = l1 /\ v2 = v1 /\ t2 = t1
    BY <1>2, <1>3, <2>1
  <2> HIDE DEF sf, sd, sm, af, al, lv, tk
  <2> QED
    BY <1>25, <1>26, <1>27, <2>9
<1> QED
  BY <1>12, <1>13, <1>14, <1>15, <1>16, <1>17, <1>18, <1>19, <1>20, <1>21, <1>22, <1>23, <1>24
  DEF Move

TurnInv == Base /\ Homed /\ \A c \in Calls : InTurn(c)

\* Setting up a call goes through the two queues in turn, and a silent level check can
\* make it dial once more but no oftener, on objects used again and with slow managers,
\* signals, commands and hangups included (skinnysipmanager.cpp 513-539, 2106-2260 and
\* 2261-2289, callapi.cpp 209-277).
THEOREM SetUpInTurn ==
  ASSUME LifecycleAssumption, ~NestedJoin
  PROVE  Spec => []SetupInTurn
<1>1. Init => TurnInv
  <2> SUFFICES ASSUME Init PROVE TurnInv
    OBVIOUS
  <2>1. ASSUME NEW c \in Calls PROVE InTurn(c)
    BY CountEmpty DEF Init, InTurn, AtFirstMedia, AtDefaults, AtDial
  <2> QED
    BY <2>1, SerialInit, HomedInit DEF TurnInv, Base
<1>2. TurnInv /\ [Next]_vars => TurnInv'
  <2> SUFFICES ASSUME TurnInv, [Next]_vars PROVE TurnInv'
    OBVIOUS
  <2>1. Base /\ Homed /\ Base' /\ Homed'
    BY SerialNext, HomedNext DEF TurnInv, Base
  <2>2. ASSUME NEW c \in Calls PROVE InTurn(c)'
    BY <2>1, MoveNext, TurnMove DEF TurnInv, Moved
  <2> QED
    BY <2>1, <2>2 DEF TurnInv
<1>3. TurnInv => SetupInTurn
  BY DEF TurnInv, InTurn, SetupInTurn
<1> QED
  BY <1>1, <1>2, <1>3, PTL DEF Spec

-----------------------------------------------------------------------------
(* One setup token, as long as no second local stream makes the call dial again. *)

SetupSip == {"enum", "media", "make"}
SetupApp == {"devices", "local"}

Has(q, S) == \E i \in DOMAIN q : q[i] \in S
One(q, S) == \A i, j \in DOMAIN q : q[i] \in S /\ q[j] \in S => i = j
Tells(q)  == Has(q, {"disconnect"})

\* The SIP thread's queue, the application's queue and the dialog of a call: there
\* is one setup token, and the report of the end is the last there is to report.
Shape(sq, aq, dl) ==
  /\ One(sq, SetupSip) /\ One(aq, SetupApp)
  /\ ~(Has(sq, SetupSip) /\ Has(aq, SetupApp))
  /\ dl \in Talking => ~Has(sq, SetupSip) /\ ~Has(aq, SetupApp)
  /\ Tells(aq) => dl = "over" /\ ~Has(sq, SetupSip) /\ ~Has(aq, SetupApp)
  /\ \A i \in DOMAIN aq : aq[i] = "disconnect" => i = Len(aq)

Shapes == \A c \in Calls : Shape(sipQueue[c], appQueue[c], dialog[c])

LEMMA HasAppend ==
  ASSUME NEW T, NEW q \in Seq(T), NEW x \in T, NEW S
  PROVE  /\ Has(Append(q, x), S) <=> Has(q, S) \/ x \in S
         /\ One(q, S) /\ (x \in S => ~Has(q, S)) => One(Append(q, x), S)
<1>1. /\ DOMAIN q = 1 .. Len(q) /\ DOMAIN Append(q, x) = 1 .. Len(q) + 1 /\ Len(q) \in Nat
      /\ \A i \in 1 .. Len(q) : Append(q, x)[i] = q[i]
      /\ Append(q, x)[Len(q) + 1] = x
  OBVIOUS
<1>2. \A i \in 1 .. Len(q) + 1 : i \in 1 .. Len(q) \/ i = Len(q) + 1
  BY <1>1
<1>3. Len(q) + 1 \in 1 .. Len(q) + 1 /\ 1 .. Len(q) \subseteq 1 .. Len(q) + 1
  BY <1>1
<1>4. Has(Append(q, x), S) <=> Has(q, S) \/ x \in S
  BY <1>1, <1>2, <1>3 DEF Has
<1>5. ASSUME One(q, S), x \in S => ~Has(q, S) PROVE One(Append(q, x), S)
  <2> SUFFICES ASSUME NEW i \in 1 .. Len(q) + 1, NEW j \in 1 .. Len(q) + 1,
                      Append(q, x)[i] \in S, Append(q, x)[j] \in S
               PROVE  i = j
    BY <1>1 DEF One
  <2>1. CASE i \in 1 .. Len(q) /\ j \in 1 .. Len(q)
    BY <1>1, <1>5, <2>1 DEF One
  <2>2. CASE i = Len(q) + 1 /\ j \in 1 .. Len(q)
    BY <1>1, <1>5, <2>2 DEF Has
  <2>3. CASE j = Len(q) + 1 /\ i \in 1 .. Len(q)
    BY <1>1, <1>5, <2>3 DEF Has
  <2> QED
    BY <1>2, <2>1, <2>2, <2>3
<1> QED
  BY <1>4, <1>5

LEMMA HasTail ==
  ASSUME NEW T, NEW q \in Seq(T), q # <<>>, NEW S
  PROVE  /\ Has(Tail(q), S) => Has(q, S)
         /\ Head(q) \in S => Has(q, S)
         /\ One(q, S) => One(Tail(q), S)
         /\ One(q, S) /\ Head(q) \in S => ~Has(Tail(q), S)
<1>1. /\ DOMAIN q = 1 .. Len(q) /\ DOMAIN Tail(q) = 1 .. Len(q) - 1 /\ Len(q) \in Nat \ {0}
      /\ \A i \in 1 .. Len(q) - 1 : Tail(q)[i] = q[i + 1]
      /\ Head(q) = q[1]
  OBVIOUS
<1>2. /\ \A i \in 1 .. Len(q) - 1 : i + 1 \in 1 .. Len(q) /\ i + 1 # 1
      /\ \A i, j \in 1 .. Len(q) - 1 : i + 1 = j + 1 => i = j
      /\ 1 \in 1 .. Len(q)
  BY <1>1
<1>3. Has(Tail(q), S) => Has(q, S)
  BY <1>1, <1>2 DEF Has
<1>4. Head(q) \in S => Has(q, S)
  BY <1>1, <1>2 DEF Has
<1>5. One(q, S) => One(Tail(q), S)
  BY <1>1, <1>2 DEF One
<1>6. One(q, S) /\ Head(q) \in S => ~Has(Tail(q), S)
  BY <1>1, <1>2 DEF One, Has
<1> QED
  BY <1>3, <1>4, <1>5, <1>6

LEMMA HasEmpty == ASSUME NEW S PROVE ~Has(<<>>, S) /\ One(<<>>, S)
BY DEF Has, One

LEMMA ShapeEmpty ==
  ASSUME NEW sq, NEW aq, NEW dl, Shape(sq, aq, dl)
  PROVE  Shape(<<>>, aq, dl) /\ Shape(sq, <<>>, dl)
BY HasEmpty DEF Shape, Tells

LEMMA ShapeNew == Shape(<<"enum">>, <<>>, "none")
BY HasEmpty DEF Shape, Tells, Has, One, Talking

\* The SIP thread takes a message.
LEMMA ShapeSipTakes ==
  ASSUME NEW sq \in Seq(SipMsgs), sq # <<>>, NEW aq, NEW dl, Shape(sq, aq, dl)
  PROVE  /\ Shape(Tail(sq), aq, dl)
         /\ Head(sq) \in SetupSip =>
              /\ ~Has(Tail(sq), SetupSip) /\ ~Has(aq, SetupApp) /\ ~Tells(aq)
              /\ dl \notin Talking
<1>1. /\ Has(Tail(sq), SetupSip) => Has(sq, SetupSip)
      /\ Head(sq) \in SetupSip => Has(sq, SetupSip) /\ ~Has(Tail(sq), SetupSip)
      /\ One(Tail(sq), SetupSip)
  BY HasTail DEF Shape
<1> QED
  BY <1>1 DEF Shape

\* The application takes a message.
LEMMA ShapeAppTakes ==
  ASSUME NEW sq, NEW aq \in Seq(AppMsgs), aq # <<>>, NEW dl, Shape(sq, aq, dl)
  PROVE  /\ Shape(sq, Tail(aq), dl)
         /\ Head(aq) \in SetupApp =>
              /\ ~Has(Tail(aq), SetupApp) /\ ~Has(sq, SetupSip) /\ ~Tells(Tail(aq))
              /\ dl \notin Talking
         /\ Head(aq) = "disconnect" =>
              Tail(aq) = <<>> /\ dl = "over" /\ ~Has(sq, SetupSip)
<1>1. /\ Has(Tail(aq), SetupApp) => Has(aq, SetupApp)
      /\ Head(aq) \in SetupApp => Has(aq, SetupApp) /\ ~Has(Tail(aq), SetupApp)
      /\ One(Tail(aq), SetupApp)
      /\ Tells(Tail(aq)) => Tells(aq)
      /\ Head(aq) = "disconnect" => Tells(aq)
  BY HasTail DEF Shape, Tells
<1>2. /\ DOMAIN aq = 1 .. Len(aq) /\ DOMAIN Tail(aq) = 1 .. Len(aq) - 1 /\ Len(aq) \in Nat \ {0}
      /\ Len(Tail(aq)) = Len(aq) - 1
      /\ \A i \in 1 .. Len(aq) - 1 : Tail(aq)[i] = aq[i + 1] /\ i + 1 \in 1 .. Len(aq)
      /\ Head(aq) = aq[1] /\ 1 \in 1 .. Len(aq)
  OBVIOUS
<1>3. \A i \in DOMAIN Tail(aq) : Tail(aq)[i] = "disconnect" => i = Len(Tail(aq))
  BY <1>2 DEF Shape
<1>4. Head(aq) = "disconnect" => Tail(aq) = <<>>
  <2>1. Head(aq) = "disconnect" => Len(aq) = 1
    BY <1>2 DEF Shape
  <2> QED
    BY <2>1, <1>2
<1>5. Shape(sq, Tail(aq), dl)
  BY <1>1, <1>3 DEF Shape
<1> QED
  BY <1>1, <1>4, <1>5 DEF Shape

\* A message is posted to the SIP thread: a token where there is none, or another.
LEMMA ShapeToSip ==
  ASSUME NEW sq \in Seq(SipMsgs), NEW x \in SipMsgs, NEW aq, NEW dl, Shape(sq, aq, dl),
         x \in SetupSip =>
           ~Has(sq, SetupSip) /\ ~Has(aq, SetupApp) /\ ~Tells(aq) /\ dl \notin Talking
  PROVE  Shape(Append(sq, x), aq, dl)
<1>1. /\ Has(Append(sq, x), SetupSip) <=> Has(sq, SetupSip) \/ x \in SetupSip
      /\ One(Append(sq, x), SetupSip)
  BY HasAppend DEF Shape
<1> QED
  BY <1>1 DEF Shape

\* A message is posted to the application.
LEMMA ShapeToApp ==
  ASSUME NEW sq, NEW aq \in Seq(AppMsgs), NEW x \in AppMsgs, NEW dl, Shape(sq, aq, dl), ~Tells(aq),
         x \in SetupApp => ~Has(sq, SetupSip) /\ ~Has(aq, SetupApp) /\ dl \notin Talking,
         x = "disconnect" => dl \in Talking
  PROVE  Shape(sq, Append(aq, x), IF x = "disconnect" THEN "over" ELSE dl)
<1>1. /\ Has(Append(aq, x), SetupApp) <=> Has(aq, SetupApp) \/ x \in SetupApp
      /\ One(Append(aq, x), SetupApp)
      /\ Tells(Append(aq, x)) <=> Tells(aq) \/ x = "disconnect"
  BY HasAppend DEF Shape, Tells
<1>2. \A i \in DOMAIN Append(aq, x) : Append(aq, x)[i] = "disconnect" => i = Len(Append(aq, x))
  <2>1. /\ DOMAIN aq = 1 .. Len(aq) /\ DOMAIN Append(aq, x) = 1 .. Len(aq) + 1 /\ Len(aq) \in Nat
        /\ \A i \in 1 .. Len(aq) : Append(aq, x)[i] = aq[i]
        /\ Len(Append(aq, x)) = Len(aq) + 1
    OBVIOUS
  <2>2. \A i \in 1 .. Len(aq) + 1 : i \in 1 .. Len(aq) \/ i = Len(aq) + 1
    BY <2>1
  <2>3. \A i \in 1 .. Len(aq) : aq[i] # "disconnect"
    BY <2>1 DEF Tells, Has
  <2> QED
    BY <2>1, <2>2, <2>3
<1>3. x = "disconnect" => x \notin SetupApp
  BY DEF SetupApp
<1> QED
  BY <1>1, <1>2, <1>3 DEF Shape, Talking

\* The dialog begins with the last token, goes on, and ends.
LEMMA ShapeDials ==
  ASSUME NEW sq, NEW aq, NEW dl, Shape(sq, aq, dl)
  PROVE  /\ Shape(sq, aq, "over")
         /\ ~Has(sq, SetupSip) /\ ~Has(aq, SetupApp) /\ ~Tells(aq) =>
              Shape(sq, aq, "calling") /\ Shape(sq, aq, "up")
         /\ dl \in Talking => ~Has(sq, SetupSip) /\ ~Has(aq, SetupApp) /\ ~Tells(aq)
BY DEF Shape, Talking

LEMMA ShapeMove ==
  ASSUME Base, Homed, ~SecondStream, NEW c \in Calls, Move(c),
         Shape(sipQueue[c], appQueue[c], dialog[c])
  PROVE  Shape(sipQueue'[c], appQueue'[c], dialog'[c])
<1> DEFINE sq == sipQueue[c]
           aq == appQueue[c]
           dl == dialog[c]
           Goal == Shape(sipQueue'[c], appQueue'[c], dialog'[c])
<1>1. sq \in Seq(SipMsgs) /\ aq \in Seq(AppMsgs) /\ dl \in Dialogs
  BY BaseFacts DEF TypeOK
<1>2. ASSUME NEW m, SipReads(c, m)
      PROVE  /\ sq # <<>> /\ Head(sq) = m /\ sipQueue'[c] = Tail(sq)
             /\ Shape(Tail(sq), aq, dl)
             /\ m \in SetupSip => /\ ~Has(Tail(sq), SetupSip) /\ ~Has(aq, SetupApp) /\ ~Tells(aq)
                                  /\ dl \notin Talking
  BY <1>1, <1>2, ShapeSipTakes DEF SipReads
<1>3. ASSUME NEW m, AppReads(c, m)
      PROVE  /\ aq # <<>> /\ Head(aq) = m /\ appQueue'[c] = Tail(aq)
             /\ Shape(sq, Tail(aq), dl)
             /\ m \in SetupApp => /\ ~Has(Tail(aq), SetupApp) /\ ~Has(sq, SetupSip)
                                  /\ ~Tells(Tail(aq)) /\ dl \notin Talking
  BY <1>1, <1>3, ShapeAppTakes DEF AppReads
<1>4. CASE Dropped(c)
  BY <1>4, ShapeEmpty DEF Dropped, TalksOn
<1>5. CASE Begun(c)
  <2>1. sipQueue'[c] = <<"enum">> /\ appQueue'[c] = <<>> /\ dialog'[c] = "none"
    BY <1>5 DEF Begun, Homed, Fresh, AppKeeps, TalksOn
  <2> QED
    BY <2>1, ShapeNew
<1>6. CASE Listed(c) \/ Opened(c)
  <2>1. PICK m \in {"enum", "media"}, x \in SetupApp :
          SipReads(c, m) /\ AppGets(c, x) /\ TalksOn(c)
    BY <1>6 DEF Listed, Opened, SetupApp
  <2>2. m \in SetupSip /\ x \in AppMsgs /\ x # "disconnect"
    BY DEF SetupSip, SetupApp, AppMsgs
  <2>3. /\ Shape(Tail(sq), aq, dl) /\ sipQueue'[c] = Tail(sq)
        /\ ~Has(Tail(sq), SetupSip) /\ ~Has(aq, SetupApp) /\ ~Tells(aq) /\ dl \notin Talking
    BY <1>2, <2>1, <2>2
  <2>4. Shape(Tail(sq), Append(aq, x), IF x = "disconnect" THEN "over" ELSE dl)
    BY <1>1, <2>2, <2>3, ShapeToApp
  <2> QED
    BY <2>1, <2>2, <2>3, <2>4 DEF AppGets, TalksOn
<1>7. CASE Reopened(c) \/ Skipped(c)
  <2>1. PICK m : SipReads(c, m) /\ AppKeeps(c) /\ TalksOn(c)
    BY <1>7 DEF Reopened, Skipped
  <2> QED
    BY <1>2, <2>1 DEF AppKeeps, TalksOn
<1>8. CASE Dialled(c)
  <2>1. SipReads(c, "make") /\ AppKeeps(c) /\ dialog'[c] = "calling"
    BY <1>8 DEF Dialled
  <2>2. "make" \in SetupSip
    BY DEF SetupSip
  <2>3. /\ Shape(Tail(sq), aq, dl) /\ sipQueue'[c] = Tail(sq)
        /\ ~Has(Tail(sq), SetupSip) /\ ~Has(aq, SetupApp) /\ ~Tells(aq)
    BY <1>2, <2>1, <2>2
  <2> QED
    BY <2>1, <2>3, ShapeDials DEF AppKeeps
<1>9. ASSUME NEW q, Shape(q, aq, dl), dl \in Talking
      PROVE  Shape(q, Append(aq, "disconnect"), "over")
  <2>1. "disconnect" \in AppMsgs /\ "disconnect" \notin SetupApp
    BY DEF AppMsgs, SetupApp
  <2> QED
    BY <1>1, <1>9, <2>1, ShapeDials, ShapeToApp
<1>10. CASE Closed(c)
  <2>1. sipQueue'[c] = Tail(sq) /\ Shape(Tail(sq), aq, dl) /\ dialog'[c] = "over"
    BY <1>2, <1>10 DEF Closed
  <2>2. CASE AppKeeps(c)
    BY <2>1, <2>2, ShapeDials DEF AppKeeps
  <2>3. CASE dl \in Talking /\ AppGets(c, "disconnect")
    BY <1>9, <2>1, <2>3 DEF AppGets
  <2> QED
    BY <1>10, <2>2, <2>3 DEF Closed
<1>11. CASE Heard(c)
  <2>1. dl \in Talking /\ sipQueue'[c] = sq /\ ~Has(sq, SetupSip) /\ ~Has(aq, SetupApp) /\ ~Tells(aq)
    BY <1>11, ShapeDials DEF Heard, SipKeeps
  <2>2. CASE dialog'[c] = "up" /\ AppGets(c, "remote")
    <3>1. "remote" \in AppMsgs /\ "remote" \notin SetupApp
      BY DEF AppMsgs, SetupApp
    <3>2. Shape(sq, aq, "up")
      BY <2>1, ShapeDials
    <3>3. Shape(sq, Append(aq, "remote"), IF "remote" = "disconnect" THEN "over" ELSE "up")
      BY <1>1, <2>1, <3>1, <3>2, ShapeToApp
    <3> QED
      BY <2>1, <2>2, <3>3 DEF AppGets
  <2>3. CASE dialog'[c] = "over" /\ AppGets(c, "disconnect")
    BY <1>9, <2>1, <2>3 DEF AppGets
  <2> QED
    BY <1>11, <2>2, <2>3 DEF Heard
<1>12. CASE Judged(c) \/ Told(c)
  <2>1. PICK m \in {"defaults", "token", "close", "exit"} : SipGets(c, m) /\ AppKeeps(c) /\ TalksOn(c)
    BY <1>12 DEF Judged, Told
  <2>2. m \in SipMsgs /\ m \notin SetupSip
    BY DEF SipMsgs, SetupSip
  <2>3. Shape(Append(sq, m), aq, dl)
    BY <1>1, <2>2, ShapeToSip
  <2> QED
    BY <2>1, <2>3 DEF SipGets, AppKeeps, TalksOn
<1>13. CASE Answered(c)
  <2>1. PICK x \in SetupApp, m \in {"media", "make"} :
          AppReads(c, x) /\ (SipKeeps(c) \/ SipGets(c, m)) /\ TalksOn(c)
    BY <1>13 DEF Answered, SetupApp
  <2>2. m \in SipMsgs /\ m \in SetupSip
    BY DEF SipMsgs, SetupSip
  <2>3. /\ Shape(sq, Tail(aq), dl) /\ appQueue'[c] = Tail(aq)
        /\ ~Has(Tail(aq), SetupApp) /\ ~Has(sq, SetupSip) /\ ~Tells(Tail(aq)) /\ dl \notin Talking
    BY <1>3, <2>1
  <2>4. Shape(Append(sq, m), Tail(aq), dl)
    BY <1>1, <2>2, <2>3, ShapeToSip
  <2> QED
    BY <2>1, <2>3, <2>4 DEF SipKeeps, SipGets, TalksOn
<1>14. CASE Shown(c)
  <2>1. PICK m : AppReads(c, m) /\ SipKeeps(c) /\ TalksOn(c)
    BY <1>14 DEF Shown
  <2> QED
    BY <1>3, <2>1 DEF SipKeeps, TalksOn
<1> QED
  BY <1>4, <1>5, <1>6, <1>7, <1>8, <1>10, <1>11, <1>12, <1>13, <1>14 DEF Move

LEMMA ShapesNext ==
  ASSUME Base, Homed, Shapes, [Next]_vars, ~SecondStream
  PROVE  Shapes'
BY MoveNext, ShapeMove DEF Shapes, Moved

LEMMA ShapesInit == Init => Shapes
BY HasEmpty DEF Init, Shapes, Shape, Tells, Talking

-----------------------------------------------------------------------------
(* One object per call: a call that nobody disturbed.                        *)

\* The SIP thread has nothing more to tell the application.
Silent(c) ==
  /\ appQueue[c] = <<>>
  /\ \/ sip[c] \in Teardown
     \/ sip[c] = "loop" /\ ~Has(sipQueue[c], SetupSip) /\ dialog[c] \notin Talking

\* The flag is set by the end of the call, and the hangup by the flag.
Asked ==
  /\ terminateCall => uiState = "Disconnected"
  /\ fault = "none" /\ terminateCall /\ calls # 0 => destroying \/ Silent(calls)
  /\ \A c \in Active : io[c] \notin {"none", "start", "poll"} => terminateCall

\* ~CallApi is for the object of the last call.
LastHandle == fiberHandle \in {Null, calls}

Alone == Base /\ ~ReuseHandle /\ OwnInv /\ Homed /\ LastHandle

LEMMA AloneFacts ==
  ASSUME Alone
  PROVE  /\ Base /\ Homed /\ TypeOK
         /\ \A c \in Calls : Own(c) /\ c # Null
         /\ calls \in Calls => obj[calls] = calls /\ mAppThread[calls] = calls
<1>1. /\ Base /\ Homed /\ TypeOK
      /\ \A c \in Calls : Own(c) /\ c # Null
  BY BaseFacts DEF Alone, OwnInv
<1>2. calls <= calls
  BY <1>1 DEF TypeOK
<1> QED
  BY <1>1, <1>2 DEF Own

LEMMA AloneInit == ASSUME LifecycleAssumption, ~ReuseHandle PROVE Init => Alone
<1>1. ~NestedJoin
  BY DEF LifecycleAssumption
<1> QED
  BY <1>1, HomedInit, OwnInit, SerialInit DEF Alone, Base, LastHandle, Init

LEMMA AloneNext == ASSUME Alone, [Next]_vars PROVE Alone'
<1>1. fiberHandle' \in {Null, calls'}
  <2>1. CASE JoinClick
    BY <2>1 DEF JoinClick, Alone
  <2>2. CASE DestroyReturn
    BY <2>2 DEF DestroyReturn
  <2>3. CASE ~(JoinClick \/ DestroyReturn)
    <3>1. UNCHANGED <<fiberHandle, calls>>
      <4>1. CASE DisconnectClick \/ CloseWindow \/ SigInt
        BY <4>1 DEF DisconnectClick, CloseWindow, SetFiberOff, SigInt, uiVars
      <4>2. ASSUME NEW t \in Calls, AppDispatch(t) \/ QuitRun(t) \/ InitReturn(t)
            PROVE  UNCHANGED <<fiberHandle, calls>>
        BY <4>2 DEF AppDispatch, AppDevices, AppStartCall, AppShowRemote, AppDisconnected, AppTakes,
           QuitRun, EndRun, InitReturn, uiVars
      <4>3. ASSUME NEW c \in Calls,
                   SipThread(c) \/ RemoteAnswers(c) \/ RemoteHangsUp(c) \/ SipLevelSilent(c)
            PROVE  UNCHANGED <<fiberHandle, calls>>
        BY <4>3 DEF SipThread, SipConstruct, SipDispatch, SipEnumerate, SipInitMedia, SipInitDefaults,
           SipMakeCall, SipToken, SipHangUp, SipExit, SipTakes, SipDelete, SipClear, SipQuit,
           RemoteAnswers, RemoteHangsUp, RemoteEvent, SipLevelSilent, uiVars
      <4>4. ASSUME NEW c \in Calls, IoThread(c) \/ IoInput(c) PROVE UNCHANGED <<fiberHandle, calls>>
        BY <4>4 DEF IoThread, IoStart, IoTimer, IoHangup, IoClose, IoDeinit, IoExit, IoUnwind,
           IoLoad, IoPost, UseFreed, IoInput, uiVars
      <4>5. CASE UNCHANGED vars
        BY <4>5 DEF vars, uiVars
      <4> QED
        BY <2>3, <4>1, <4>2, <4>3, <4>4, <4>5 DEF Next, User, UiThread
    <3> QED
      BY <3>1 DEF Alone, LastHandle
  <2> QED
    BY <2>1, <2>2, <2>3
<1> QED
  BY <1>1, OwnNext, SerialNext, HomedNext DEF Alone, LastHandle, Base

\* While there are messages for the application, nothing has ended the call.
LEMMA AppHears ==
  ASSUME Base, Homed, Asked, fault = "none", Pumping, NEW c \in Calls, init[c] = "run",
         appQueue[c] # <<>>
  PROVE  ~terminateCall /\ c = calls /\ sip[c] \notin {"none", "ctor"}
<1>1. c = calls /\ calls # 0 /\ ~destroying
  BY InitAlive, BaseFacts DEF Pumping, Null
<1>2. ~terminateCall
  BY <1>1 DEF Asked, Silent
<1> QED
  BY <1>1, <1>2 DEF Homed, Fresh

\* Steps after which the flag, the window and what the SIP thread has to tell are as
\* they were, or the SIP thread has even less.
Quieter ==
  /\ UNCHANGED <<terminateCall, uiState, destroying, calls>>
  /\ Silent(calls) => Silent(calls)'
  /\ fault' = "none" => fault = "none"

LEMMA QuietSip ==
  ASSUME Base, Homed, ~SecondStream, NEW c \in Calls,
         SipThread(c) \/ RemoteAnswers(c) \/ RemoteHangsUp(c) \/ SipLevelSilent(c)
  PROVE  Quieter
<1>0. /\ sipQueue \in [Calls -> Seq(SipMsgs)] /\ sip \in [Calls -> SipPcs] /\ dialog \in [Calls -> Dialogs]
  BY BaseFacts DEF TypeOK
<1>1. /\ UNCHANGED <<terminateCall, uiState, destroying, calls>> /\ fault = "none"
  BY DEF SipThread, SipConstruct, SipDispatch, SipEnumerate, SipInitMedia,
     SipInitDefaults, SipMakeCall, SipToken, SipHangUp, SipExit, SipTakes, SipDelete, SipClear,
     SipQuit, RemoteAnswers, RemoteHangsUp, RemoteEvent, SipLevelSilent, uiVars
<1>2. c = calls
  <2>1. sip[c] \in {"ctor", "loop", "delete", "clear", "quit"}
    BY DEF SipThread, SipConstruct, SipDispatch, SipEnumerate, SipInitMedia,
       SipInitDefaults, SipMakeCall, SipToken, SipHangUp, SipExit, SipTakes, SipDelete, SipClear,
       SipQuit, RemoteAnswers, RemoteHangsUp, RemoteEvent, SipLevelSilent
  <2> QED
    BY <2>1, SipAlive
<1>3. ASSUME Silent(c) PROVE Silent(c)'
  <2>1. appQueue[c] = <<>>
    BY <1>3 DEF Silent
  <2>2. CASE SipDispatch(c)
    <3>1. sip[c] = "loop" /\ sipQueue[c] # <<>> /\ sipQueue'[c] = Tail(sipQueue[c])
      BY <1>0, <2>2 DEF SipDispatch, SipEnumerate, SipInitMedia, SipInitDefaults,
         SipMakeCall, SipToken, SipHangUp, SipExit, SipTakes
    <3>2. ~Has(sipQueue[c], SetupSip) /\ dialog[c] \notin Talking
      BY <1>3, <3>1 DEF Silent, Teardown
    <3>3. Head(sipQueue[c]) \notin SetupSip /\ ~Has(Tail(sipQueue[c]), SetupSip)
      BY <1>0, <3>1, <3>2, HasTail
    <3>4. SipHangUp(c) \/ SipExit(c) \/ SipInitDefaults(c) \/ SipToken(c)
      BY <2>2, <3>3 DEF SipDispatch, SipEnumerate, SipInitMedia, SipMakeCall, SipTakes, SetupSip
    <3>5. SipInitDefaults(c) => UNCHANGED appQueue
      BY DEF SecondStream
    <3>6. UNCHANGED appQueue /\ dialog'[c] \notin Talking /\ sip'[c] \in {"loop", "delete"}
      BY <1>0, <3>1, <3>2, <3>4, <3>5 DEF SipHangUp, SipExit, SipInitDefaults, SipToken, Talking
    <3> QED
      BY <2>1, <3>1, <3>3, <3>6 DEF Silent, Teardown
  <2>3. CASE SipDelete(c) \/ SipClear(c) \/ SipQuit(c)
    <3>1. UNCHANGED appQueue /\ sip'[c] \in Teardown
      BY <1>0, <2>3 DEF SipDelete, SipClear, SipQuit, appVars, Teardown
    <3> QED
      BY <2>1, <3>1 DEF Silent
  <2>4. ~SipConstruct(c) /\ ~RemoteAnswers(c) /\ ~RemoteHangsUp(c)
    BY <1>3 DEF Silent, Teardown, Talking, SipConstruct, RemoteAnswers, RemoteHangsUp, RemoteEvent
  <2>5. CASE SipLevelSilent(c)
    <3>1. /\ sip[c] = "loop" /\ sipQueue' = [sipQueue EXCEPT ![c] = Append(@, "defaults")]
          /\ UNCHANGED <<sip, appQueue, dialog>>
      BY <2>5 DEF SipLevelSilent, appVars
    <3>2. ~Has(sipQueue[c], SetupSip) /\ dialog[c] \notin Talking
      BY <1>3, <3>1 DEF Silent, Teardown
    <3>3. "defaults" \in SipMsgs /\ "defaults" \notin SetupSip /\ sipQueue[c] \in Seq(SipMsgs)
      BY <1>0 DEF SipMsgs, SetupSip
    <3>4. sipQueue'[c] = Append(sipQueue[c], "defaults")
      BY <1>0, <3>1
    <3>5. ~Has(sipQueue'[c], SetupSip)
      BY <3>2, <3>3, <3>4, HasAppend
    <3> QED
      BY <2>1, <3>1, <3>2, <3>5 DEF Silent
  <2> QED
    BY <2>2, <2>3, <2>4, <2>5 DEF SipThread
<1> QED
  BY <1>1, <1>2, <1>3 DEF Quieter

LEMMA QuietIo ==
  ASSUME Base, Homed, NEW c \in Calls, IoThread(c) \/ IoInput(c)
  PROVE  Quieter
<1>0. /\ UNCHANGED <<terminateCall, uiState, destroying, calls, appQueue, sip, dialog>>
      /\ fault = "none"
  BY DEF IoThread, IoStart, IoTimer, IoHangup, IoClose, IoDeinit, IoExit, IoUnwind, IoLoad, IoPost,
     IoGoes, UseFreed, IoInput, uiVars, sipVars, appVars
<1>1. Silent(calls) => Silent(calls)'
  <2> SUFFICES ASSUME Silent(calls), sipQueue'[calls] # sipQueue[calls] PROVE Silent(calls)'
    BY <1>0 DEF Silent
  <2>1. PICK p, m : m \in {"token", "close", "exit"} /\ PostToManager(p, m)
    BY DEF IoThread, IoStart, IoTimer, IoHangup, IoClose, IoDeinit, IoExit, IoUnwind, IoLoad,
       IoPost, UseFreed, IoInput, sipVars
  <2>2. Live(p)
    BY <2>1 DEF PostToManager
  <2>3. calls \in Calls
    BY <2>2, AtWork DEF Live, Base
  <2>4. sipQueue'[calls] = Append(sipQueue[calls], m)
    BY <2>1, <2>3, PostsToLast DEF Base
  <2>5. m \in SipMsgs /\ m \notin SetupSip /\ sipQueue[calls] \in Seq(SipMsgs)
    BY <2>1, <2>3, BaseFacts DEF SipMsgs, SetupSip, TypeOK
  <2>6. ~Has(sipQueue[calls], SetupSip) => ~Has(sipQueue'[calls], SetupSip)
    BY <2>4, <2>5, HasAppend
  <2> QED
    BY <1>0, <2>6 DEF Silent
<1> QED
  BY <1>0, <1>1 DEF Quieter

\* What the flag says of the window and of the SIP thread.
Flagged ==
  /\ terminateCall => uiState = "Disconnected"
  /\ fault = "none" /\ terminateCall /\ calls # 0 => destroying \/ Silent(calls)

LEMMA FlaggedNext ==
  ASSUME Alone, Shapes, Asked, ~SecondStream, \/ Next /\ ~SigInt
                                             \/ UNCHANGED vars
  PROVE  Flagged'
<1>0. Flagged /\ Base /\ Homed
  BY DEF Asked, Flagged, Alone
<1>1. CASE Quieter
  BY <1>0, <1>1 DEF Quieter, Flagged
<1>2. CASE JoinClick
  BY <1>2 DEF JoinClick, FlagAfterInit, Flagged
<1>3. CASE DisconnectClick \/ CloseWindow
  <2>1. /\ uiState' = "Disconnected" /\ fault = "none" /\ ~destroying
        /\ terminateCall' = (terminateCall \/ fiberHandle # Null)
        /\ fault' = "widget" \/ destroying' = (fiberHandle # Null)
        /\ UNCHANGED <<calls, appQueue, sip, sipQueue, dialog>>
    BY <1>3 DEF DisconnectClick, CloseWindow, SetFiberOff, FlagAfterShutdown, TakesInput, Pumping,
       sipVars, appVars
  <2>2. Silent(calls)' <=> Silent(calls)
    BY <2>1 DEF Silent
  <2> QED
    BY <1>0, <2>1, <2>2 DEF Flagged
<1>4. ASSUME NEW t \in Calls, AppDispatch(t) PROVE Flagged'
  <2>1. fault = "none" /\ Pumping /\ init[t] = "run" /\ appQueue[t] # <<>>
    BY <1>4 DEF AppDispatch, AppDevices, AppStartCall, AppShowRemote, AppDisconnected, AppTakes
  <2>2. ~terminateCall /\ t = calls /\ sip[t] \notin {"none", "ctor"}
    BY <1>0, <2>1, AppHears
  <2>3. CASE ~AppDisconnected(t)
    <3>1. ~terminateCall'
      BY <1>4, <2>2, <2>3 DEF AppDispatch, AppDevices, AppStartCall, AppShowRemote
    <3> QED
      BY <3>1 DEF Flagged
  <2>4. CASE AppDisconnected(t)
    <3>1. /\ uiState' = "Disconnected" /\ UNCHANGED <<sipQueue, sip, dialog, calls>>
          /\ Head(appQueue[t]) = "disconnect" /\ appQueue' = [appQueue EXCEPT ![t] = Tail(appQueue[t])]
      BY <2>4 DEF AppDisconnected, AppTakes
    <3>2. appQueue \in [Calls -> Seq(AppMsgs)]
      BY <1>0, BaseFacts DEF TypeOK
    <3>3. Tail(appQueue[t]) = <<>> /\ dialog[t] = "over" /\ ~Has(sipQueue[t], SetupSip)
      BY <1>0, <2>1, <3>1, <3>2, ShapeAppTakes DEF Shapes
    <3>4. sip[t] \in {"loop"} \cup Teardown
      BY <1>0, <2>2, BaseFacts DEF TypeOK, SipPcs, Teardown
    <3>5. Silent(t)'
      BY <2>2, <3>1, <3>2, <3>3, <3>4 DEF Silent, Talking
    <3> QED
      BY <2>2, <3>1, <3>5 DEF Flagged
  <2> QED
    BY <2>3, <2>4
<1>5. ASSUME NEW t \in Calls, QuitRun(t) \/ InitReturn(t) PROVE Quieter
  <2>1. /\ UNCHANGED <<terminateCall, uiState, destroying, calls, sip, sipQueue, dialog>>
        /\ fault = "none"
    BY <1>5 DEF QuitRun, EndRun, InitReturn, uiVars, sipVars
  <2>2. t = calls
    BY <1>0, <1>5, InitAlive DEF QuitRun, EndRun, OnTop, Active, InitReturn
  <2>3. appQueue[calls] = <<>> => appQueue'[calls] = <<>>
    BY <1>0, <1>5, <2>2, BaseFacts DEF QuitRun, EndRun, InitReturn, TypeOK
  <2> QED
    BY <2>1, <2>3 DEF Quieter, Silent
<1>6. CASE DestroyReturn
  <2>1. fiberHandle \in Calls /\ fiberHandle = calls
    BY <1>0, <1>6 DEF DestroyReturn, Alone, Base, SerialInv, TypeInv, Started, LastHandle, Calls, Null
  <2>2. obj[calls] = calls /\ mAppThread[calls] = calls
    BY <2>1, AloneFacts
  <2>3. appQueue'[calls] = <<>> /\ sip'[calls] = "done" /\ UNCHANGED <<calls, terminateCall, uiState>>
    BY <1>6, <2>1, <2>2 DEF DestroyReturn, SipJoined, sipVars
  <2>4. Silent(calls)'
    BY <2>3 DEF Silent, Teardown
  <2> QED
    BY <1>0, <2>3, <2>4 DEF Flagged
<1>7. ASSUME UNCHANGED vars PROVE Quieter
  BY <1>7 DEF vars, uiVars, sipVars, appVars, Quieter, Silent
<1> QED
  BY <1>0, <1>1, <1>2, <1>3, <1>4, <1>5, <1>6, <1>7, QuietSip, QuietIo DEF Next, User, UiThread

LEMMA HangupNext ==
  ASSUME Alone, Asked, \/ Next /\ ~SigInt
                       \/ UNCHANGED vars,
         NEW c \in Calls, (init[c] \in {"run", "joinIo"})', (io[c] \notin {"none", "start", "poll"})'
  PROVE  terminateCall'
<1>0. io \in [Calls -> IoPcs] /\ init \in [Calls -> InitPcs] /\ Base
  BY AloneFacts DEF TypeOK
<1>a. init[c] \in {"run", "joinIo"} /\ io[c] \notin {"none", "start", "poll"} => terminateCall
  BY DEF Asked, Active
<1>1. CASE JoinClick
  <2>1. Active = {} /\ init' = [init EXCEPT ![calls + 1] = "run"] /\ io' = [io EXCEPT ![calls + 1] = "start"]
    <3>1. fiberHandle = Null /\ ~NestedJoin
      BY <1>1 DEF JoinClick, Alone, Base
    <3> QED
      BY <1>1, <3>1 DEF JoinClick
  <2> QED
    BY <1>0, <2>1 DEF Active
<1>2. CASE DisconnectClick \/ CloseWindow
  <2>1. UNCHANGED <<init, io>> /\ (terminateCall => terminateCall')
    BY <1>2 DEF DisconnectClick, CloseWindow, SetFiberOff, FlagAfterShutdown, appVars, ioVars
  <2> QED
    BY <1>a, <2>1
<1>3. ASSUME NEW e \in Calls, IoThread(e) \/ IoInput(e) PROVE terminateCall'
  <2>1. UNCHANGED <<init, terminateCall>>
    BY <1>3 DEF IoThread, IoStart, IoTimer, IoHangup, IoClose, IoDeinit, IoExit, IoUnwind, IoLoad,
       IoPost, UseFreed, IoInput, appVars
  <2>2. CASE c # e \/ UseFreed(e) \/ IoInput(e)
    <3>1. io'[c] = io[c]
      BY <1>0, <1>3, <2>2 DEF IoThread, IoStart, IoTimer, IoHangup, IoClose, IoDeinit, IoExit,
         IoUnwind, IoLoad, IoPost, IoGoes, UseFreed, IoInput, ioVars
    <3> QED
      BY <1>a, <2>1, <3>1
  <2>3. CASE c = e /\ IoStart(c)
    <3>1. obj[c] = c
      BY <1>0, <2>1, InitAlive, AloneFacts
    <3>2. io[c] = "start" /\ c \notin stopped
      BY <2>3, AloneFacts DEF IoStart, IoGoes, Own
    <3>3. io'[c] = "poll"
      BY <1>0, <2>3, <3>1, <3>2 DEF IoStart, IoGoes
    <3> QED
      BY <3>3
  <2>4. CASE c = e /\ IoTimer(c)
    <3>1. obj[c] = c
      BY <1>0, <2>1, InitAlive, AloneFacts
    <3>2. c \notin stopped /\ StopRequested(c)
      BY <2>4, <3>1, AloneFacts DEF IoTimer, IoGoes, Own
    <3> QED
      BY <2>1, <3>2 DEF StopRequested
  <2>5. CASE c = e /\ (IoHangup(c) \/ IoClose(c) \/ IoDeinit(c) \/ IoExit(c) \/ IoUnwind(c))
    <3>1. io[c] \notin {"none", "start", "poll"}
      BY <2>5 DEF IoHangup, IoClose, IoDeinit, IoExit, IoUnwind, IoLoad, IoPost, IoGoes
    <3> QED
      BY <1>a, <2>1, <3>1
  <2> QED
    BY <1>3, <2>2, <2>3, <2>4, <2>5 DEF IoThread
<1>4. CASE \/ DestroyReturn \/ UNCHANGED vars
           \/ \E e \in Calls :
                SipThread(e) \/ RemoteAnswers(e) \/ RemoteHangsUp(e) \/ SipLevelSilent(e)
  <2>1. UNCHANGED <<init, io, terminateCall>>
    BY <1>4 DEF DestroyReturn, vars, SipThread, SipConstruct, SipDispatch, SipEnumerate,
       SipInitMedia, SipInitDefaults, SipMakeCall, SipToken, SipHangUp, SipExit, SipTakes, SipDelete,
       SipClear, SipQuit, RemoteAnswers, RemoteHangsUp, RemoteEvent, SipLevelSilent, ioVars, appVars
  <2> QED
    BY <1>a, <2>1
<1>5. ASSUME NEW t \in Calls, AppDispatch(t) \/ QuitRun(t) \/ InitReturn(t) PROVE terminateCall'
  <2>1. UNCHANGED io /\ (terminateCall => terminateCall')
    BY <1>5 DEF AppDispatch, AppDevices, AppStartCall, AppShowRemote, AppDisconnected, AppTakes,
       QuitRun, EndRun, InitReturn, ioVars
  <2>2. init[c] \in {"run", "joinIo"}
    <3>1. CASE AppDispatch(t)
      BY <3>1 DEF AppDispatch, AppDevices, AppStartCall, AppShowRemote, AppDisconnected, AppTakes
    <3>2. CASE QuitRun(t)
      BY <1>0, <3>2 DEF QuitRun, EndRun, OnTop, Active
    <3>3. CASE InitReturn(t)
      BY <1>0, <3>3 DEF InitReturn
    <3> QED
      BY <1>5, <3>1, <3>2, <3>3
  <2> QED
    BY <1>a, <2>1, <2>2
<1> QED
  BY <1>1, <1>2, <1>3, <1>4, <1>5 DEF Next, User, UiThread

AskedInv == Alone /\ (disturbed \subseteq {"command"} => Shapes /\ Asked)

\* A step that disturbs nothing but with a command.
LEMMA Undisturbed ==
  ASSUME [MCNext]_<<vars, disturbed>>, disturbed' \subseteq {"command"}
  PROVE  /\ [Next]_vars /\ disturbed \subseteq {"command"} /\ ~SecondStream
         /\ (Next /\ ~SigInt) \/ UNCHANGED vars
<1>1. CASE MCNext
  <2>1. "signal" \notin Disturbance /\ "stream" \notin Disturbance /\ disturbed \subseteq {"command"}
    BY <1>1 DEF MCNext
  <2> QED
    BY <1>1, <2>1 DEF MCNext, Disturbance
<1>2. CASE UNCHANGED <<vars, disturbed>>
  <2>1. UNCHANGED <<appQueue, fault>>
    BY <1>2 DEF vars, appVars
  <2> QED
    BY <1>2, <2>1 DEF SecondStream
<1> QED
  BY <1>1, <1>2

LEMMA AskedNext ==
  ASSUME AskedInv, [MCNext]_<<vars, disturbed>>
  PROVE  AskedInv'
<1>1. Alone /\ [Next]_vars
  BY DEF AskedInv, MCNext
<1>2. Alone'
  BY <1>1, AloneNext
<1>3. ASSUME disturbed' \subseteq {"command"} PROVE Shapes' /\ Asked'
  <2>1. Shapes /\ Asked /\ ~SecondStream /\ ((Next /\ ~SigInt) \/ UNCHANGED vars)
    BY <1>3, Undisturbed DEF AskedInv
  <2>2. Flagged'
    BY <1>1, <2>1, FlaggedNext
  <2>3. \A c \in Active' : (io[c] \notin {"none", "start", "poll"})' => terminateCall'
    BY <1>1, <2>1, HangupNext DEF Active
  <2>4. Shapes'
    BY <1>1, <2>1, ShapesNext DEF Alone
  <2> QED
    BY <2>2, <2>3, <2>4 DEF Asked, Flagged
<1> QED
  BY <1>2, <1>3 DEF AskedInv

LEMMA AskedInit == ASSUME LifecycleAssumption, ~ReuseHandle PROVE MCInit => AskedInv
<1>1. Init => Alone /\ Shapes
  BY AloneInit, ShapesInit
<1>2. Init => Asked
  BY DEF Init, Asked, Active
<1> QED
  BY <1>1, <1>2 DEF MCInit, AskedInv

\* Without a SIGINT and a second dialling the hangup of a call follows the end that the
\* user or the far end gave it, and the window says so, however slow the manager is and
\* whatever test.txt asks for (callapi.cpp 204-207, 453-461, 545-594).
THEOREM CallsEndWhenAsked ==
  ASSUME LifecycleAssumption, ~ReuseHandle
  PROVE  MCSpec => []EndsOnlyWhenAskedUnlessDisturbed
<1>1. MCInit => AskedInv
  BY AskedInit
<1>2. AskedInv /\ [MCNext]_<<vars, disturbed>> => AskedInv'
  BY AskedNext
<1>3. AskedInv => EndsOnlyWhenAskedUnlessDisturbed
  BY DEF AskedInv, Asked, EndsOnlyWhenAskedUnlessDisturbed, EndsOnlyWhenAsked
<1> QED
  BY <1>1, <1>2, <1>3, PTL DEF MCSpec

-----------------------------------------------------------------------------
(* And the manager is constructed within a second.                           *)

Prompt == Alone /\ ~SlowStart /\ OrderInv

LEMMA PromptFacts ==
  ASSUME Prompt
  PROVE  /\ Base /\ Homed /\ TypeOK /\ LifecycleAssumption
         /\ \A c \in Calls : Own(c) /\ Published(c) /\ Ordered(c) /\ c # Null
         /\ calls \in Calls => obj[calls] = calls /\ mAppThread[calls] = calls
<1>1. \A c \in Calls : Own(c) /\ Published(c) /\ Ordered(c)
  BY DEF Prompt, OrderInv
<1> QED
  BY <1>1, AloneFacts DEF Prompt, Base

\* A message to the application finds its manager, for the flag is not set yet.
LEMMA AppFinds ==
  ASSUME Prompt, Asked, fault = "none", Pumping, NEW c \in Calls, init[c] = "run",
         appQueue[c] # <<>>
  PROVE  Live(mSipManager[obj[c]])
<1>1. ~terminateCall /\ c = calls /\ sip[c] \notin {"none", "ctor"} /\ obj[c] = c
  BY AppHears, PromptFacts
<1>2. io[c] \in {"none", "start", "poll"}
  BY <1>1 DEF Asked, Active
<1>3. sip[c] \notin Teardown
  BY <1>2, PromptFacts DEF Ordered, IoDone
<1>4. sip[c] = "loop"
  BY <1>1, <1>3, PromptFacts DEF TypeOK, SipPcs, Teardown
<1> QED
  BY <1>1, <1>4, PromptFacts DEF Published, Live

Faultless == {"widget", "late"}

LEMMA SafeNext ==
  ASSUME Prompt, Asked, [Next]_vars, ~EarlyCommand
  PROVE  fault' \in {fault} \cup Faultless
<1>0. Base /\ Homed
  BY PromptFacts
<1>1. CASE DisconnectClick \/ CloseWindow
  BY <1>1 DEF DisconnectClick, CloseWindow, SetFiberOff, Faultless
<1>2. CASE JoinClick \/ SigInt
  BY <1>2 DEF JoinClick, SigInt
<1>3. ASSUME NEW c \in Calls, SipDispatch(c) \/ RemoteAnswers(c) \/ RemoteHangsUp(c)
      PROVE  UNCHANGED fault
  <2>1. sip[c] = "loop"
    BY <1>3 DEF SipDispatch, SipEnumerate, SipInitMedia, SipInitDefaults, SipMakeCall, SipToken,
       SipHangUp, SipExit, SipTakes, RemoteAnswers, RemoteHangsUp, RemoteEvent
  <2>2. UNCHANGED fault \/ \E m \in AppMsgs : PostToApp(c, m)
    BY <1>3 DEF SipDispatch, SipEnumerate, SipInitMedia, SipInitDefaults, SipMakeCall, SipToken,
       SipHangUp, SipExit, RemoteAnswers, RemoteHangsUp, RemoteEvent, AppMsgs
  <2> QED
    BY <1>0, <2>1, <2>2, PostsToApp
<1>4. ASSUME NEW c \in Calls, SipDelete(c) PROVE UNCHANGED fault
  <2>1. mSipManager[obj[c]] = c /\ Live(c)
    BY <1>0, <1>4, SipAlive DEF SipDelete, Live
  <2> QED
    BY <1>4, <2>1, PromptFacts DEF SipDelete
<1>5. ASSUME NEW c \in Calls, SipQuit(c) PROVE UNCHANGED fault
  <2>1. mAppThread[obj[c]] = c /\ init[c] = "run"
    BY <1>0, <1>5, SipAlive DEF SipQuit
  <2> QED
    BY <1>5, <2>1 DEF SipQuit
<1>6. ASSUME NEW c \in Calls, SipConstruct(c) \/ SipClear(c) PROVE UNCHANGED fault
  BY <1>6 DEF SipConstruct, SipClear
<1>7. ASSUME NEW c \in Calls, IoClose(c) \/ IoExit(c) PROVE UNCHANGED fault
  <2>1. io[c] \in {"close", "exit"}
    BY <1>7 DEF IoClose, IoExit, IoPost, IoGoes
  <2>2. ioLoaded[c] = c /\ Live(c)
    BY <2>1, PromptFacts DEF Published, Ordered, Live
  <2> QED
    BY <1>7, <2>2 DEF IoClose, IoExit, IoPost, PostToManager
<1>8. ASSUME NEW c \in Calls, UseFreed(c) PROVE fault' = "late"
  <2>1. c <= calls /\ obj[c] = c
    <3>1. obj[c] # Null
      BY <1>8, PromptFacts DEF UseFreed, TypeOK, Calls, Null, LifecycleAssumption
    <3> QED
      BY <3>1, PromptFacts DEF Own
  <2>2. sip[c] = "done"
    BY <1>8, <2>1, PromptFacts DEF UseFreed, Own
  <2>3. IoDone(c)
    BY <2>2, PromptFacts DEF Ordered, Teardown
  <2> QED
    BY <1>8, <2>2, <2>3 DEF UseFreed, IoDone
<1>9. ASSUME NEW c \in Calls, IoStart(c) \/ IoTimer(c) \/ IoHangup(c) \/ IoDeinit(c) \/ IoUnwind(c)
      PROVE  UNCHANGED fault
  BY <1>9 DEF IoStart, IoTimer, IoHangup, IoDeinit, IoUnwind, IoLoad
<1>10. ASSUME NEW t \in Calls, AppDispatch(t) PROVE UNCHANGED fault
  <2>1. fault = "none" /\ Pumping /\ init[t] = "run" /\ appQueue[t] # <<>>
    BY <1>10 DEF AppDispatch, AppDevices, AppStartCall, AppShowRemote, AppDisconnected, AppTakes
  <2>2. Live(mSipManager[obj[t]])
    BY <2>1, AppFinds
  <2> QED
    BY <1>10, <2>2 DEF AppDispatch, AppDevices, AppStartCall, AppShowRemote, AppDisconnected,
       PostToManager
<1>11. ASSUME NEW t \in Calls, QuitRun(t) \/ InitReturn(t) PROVE UNCHANGED fault
  BY <1>11 DEF QuitRun, EndRun, InitReturn
<1>12. CASE DestroyReturn \/ UNCHANGED vars
  BY <1>12 DEF DestroyReturn, vars
<1>13. ASSUME NEW c \in Calls, IoInput(c) PROVE UNCHANGED fault
  <2>1. io[c] = "poll" /\ sip[c] # "ctor"
    BY <1>13 DEF IoInput, EarlyCommand
  <2>2. obj[c] = c /\ sip[c] = "loop"
    BY <2>1, PromptFacts DEF Own, Ordered, IoDone, Teardown, TypeOK, SipPcs
  <2>3. Live(mSipManager[obj[c]])
    BY <2>2, PromptFacts DEF Published, Live
  <2> QED
    BY <1>13, <2>3 DEF IoInput, PostToManager
<1>14. ASSUME NEW c \in Calls, SipLevelSilent(c) PROVE UNCHANGED fault
  BY <1>14 DEF SipLevelSilent
<1> QED
  BY <1>1, <1>2, <1>3, <1>4, <1>5, <1>6, <1>7, <1>8, <1>9, <1>10, <1>11, <1>12, <1>13, <1>14
  DEF Next, User, UiThread, SipThread, IoThread, Faultless

LEMMA PromptNext == ASSUME Prompt, [Next]_vars PROVE Prompt'
<1>1. LifecycleAssumption /\ ~ReuseHandle /\ ~SlowStart
  BY PromptFacts DEF Prompt, Alone
<1> QED
  BY <1>1, AloneNext, OrderNext DEF Prompt

SafeInv == Prompt /\ AskedInv /\ (disturbed = {} => ManagerSafe)

\* Unless a SIGINT, a command read too early or a second dialling disturbs the order of
\* the messages, no thread uses the manager, the object or the Win32Thread before it is
\* there or after it is gone (callapi.cpp 178-202, 279-294, 488-498, 545-596).
THEOREM NothingIsUsedTooLate ==
  ASSUME LifecycleAssumption, ~ReuseHandle, ~SlowStart
  PROVE  MCSpec => []ManagerSafeUnlessDisturbed
<1>1. MCInit => SafeInv
  BY AskedInit, AloneInit, OrderInit DEF MCInit, Init, SafeInv, Prompt, ManagerSafe
<1>2. SafeInv /\ [MCNext]_<<vars, disturbed>> => SafeInv'
  <2> SUFFICES ASSUME SafeInv, [MCNext]_<<vars, disturbed>> PROVE SafeInv'
    OBVIOUS
  <2>1. [Next]_vars /\ Prompt /\ AskedInv
    BY DEF SafeInv, MCNext
  <2>2. Prompt' /\ AskedInv'
    BY <2>1, PromptNext, AskedNext
  <2>3. ASSUME disturbed' = {} PROVE ManagerSafe'
    <3>1. Asked /\ disturbed = {} /\ ManagerSafe
      <4>1. disturbed \subseteq {"command"} /\ disturbed = {}
        BY <2>3 DEF MCNext
      <4> QED
        BY <4>1 DEF SafeInv, AskedInv
    <3>2. CASE MCNext
      <4>1. ~EarlyCommand
        BY <2>3, <3>2 DEF MCNext, Disturbance
      <4> QED
        BY <2>1, <3>1, <4>1, SafeNext DEF ManagerSafe, Faultless
    <3>3. CASE UNCHANGED <<vars, disturbed>>
      BY <3>1, <3>3 DEF ManagerSafe, vars
    <3> QED
      BY <3>2, <3>3
  <2> QED
    BY <2>2, <2>3 DEF SafeInv
<1>3. SafeInv => ManagerSafeUnlessDisturbed
  BY DEF SafeInv, ManagerSafeUnlessDisturbed
<1> QED
  BY <1>1, <1>2, <1>3, PTL DEF MCSpec
=============================================================================
