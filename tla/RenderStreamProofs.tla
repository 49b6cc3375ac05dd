------------------------- MODULE RenderStreamProofs -------------------------
(***************************************************************************)
(* The path of a frame, for any streams, windows and sizes.                 *)
(***************************************************************************)
EXTENDS RenderStream, FiniteSetTheorems, TLAPS

\* A call in progress holds the mutex of a running stream that has a window.
InCall(s) ==
  /\ mutex[s] = s
  /\ s \in running /\ life[s] = "created"
  /\ window[s] \in Renderers /\ seen[s] \in Sizes
MediaOwns == \A s \in Streams : media[s] # "idle" => InCall(s)

\* A stream has a size from its creation on, and what is destroyed was created and has
\* been stopped.
HasSize == \A s \in Streams : life[s] = "created" => fmt[s] \in Sizes
SipStopped ==
  \A s \in Streams :
    sip[1] \in {"destroy", "drop"} /\ sip[2] = s => s \notin running /\ life[s] # "none"

\* A window serves one stream.
OneStream ==
  /\ \A s, t \in Streams : window[s] = window[t] /\ window[s] # None => s = t
  /\ \A s, t \in Streams : sip[1] = "window" /\ sip[3] # None => window[t] # sip[3]

\* What is announced is what the renderer was made for and what the window draws on, or
\* is about to, unless its device could not be created; it is the surface of that size
\* or, if that could not be created, none.
Made(s) == made[s] = announced[s] \/ (DeviceFails /\ made[s] = None)
Announced ==
  \A s \in Streams :
    /\ media[s] \in {"asked", "invoke", "swap", "deliver"} => announced[s] = seen[s]
    /\ media[s] \in {"asked", "invoke", "swap"} => Made(s)
    /\ media[s] \in {"idle", "size", "deliver"} /\ announced[s] # None /\ window[s] # None
         => (Made(s) /\ surface[window[s]] = made[s]) \/ window[s] \in leaked

\* Who waits in Dispatcher.Invoke, and what the UI thread has shown to whom.
Invoked == \A s \in Streams : s \in invokes <=> media[s] = "invoke"
Shown == subscribed => \A s \in Streams : media[s] = "swap" => image[window[s]] = made[s]

\* The SIP thread leaves no stream behind, and ~CallApi returns after it.
AllGone ==
  /\ sip = Gone => \A s \in Streams : life[s] # "created"
  /\ ui = "returned" => sip = Gone

Orderly ==
  /\ MediaOwns /\ HasSize /\ SipStopped /\ OneStream /\ Announced /\ FramesStillThere
  /\ Invoked /\ Shown /\ ShowsWhatIsDrawn /\ AllGone
RenderInv == TypeOK /\ Orderly

LEMMA RenderTypeInit == ASSUME RenderAssumption PROVE Init => TypeOK
BY DEF RenderAssumption, Init, TypeOK, Idle, MediaPcs, SipOps

LEMMA RenderTypeNext == ASSUME RenderAssumption, TypeOK, MediaOwns, SipStopped, [Next]_vars PROVE TypeOK'
<1> USE DEF TypeOK, MediaPcs, SipOps
<1>1. ASSUME NEW s \in Streams, PutFrame(s) \/ MediaGoesOn(s) PROVE TypeOK'
  <2> USE DEF uiVars, MayEnter, AfterLeave, MakesFrame, InitDxWidget
  <2>1. CASE PutFrame(s)
    BY <2>1 DEF PutFrame
  <2>2. CASE SameSize(s)
    BY <2>2 DEF SameSize
  <2>3. CASE FrameSizeChange(s)
    <3>1. media' \in [Streams -> MediaPcs] /\ made' \in [Streams -> Sizes \cup {None}]
      BY <2>3 DEF FrameSizeChange, SurfacesFor
    <3> QED
      BY <2>3, <3>1 DEF FrameSizeChange
  <2>4. CASE DeviceFailure(s)
    <3>1. window[s] \in Renderers
      BY <2>4 DEF DeviceFailure, MediaOwns, InCall
    <3> QED
      BY <2>4, <3>1 DEF DeviceFailure
  <2>5. CASE Swap(s)
    BY <2>5 DEF Swap
  <2>6. CASE DeliverFrame(s)
    BY <2>6 DEF DeliverFrame
  <2>7. CASE InvokeUi(s)
    BY <2>7 DEF InvokeUi, streamVars
  <2> QED
    BY <1>1, <2>1, <2>2, <2>3, <2>4, <2>5, <2>6, <2>7 DEF MediaGoesOn
<1>2. ASSUME NEW s \in Streams, CreateStream(s) \/ SetFormat(s) PROVE TypeOK'
  <2>1. CASE CreateStream(s)
    BY <2>1 DEF CreateStream, drawVars, uiVars
  <2>2. CASE SetFormat(s)
    BY <2>2, RenderAssumption DEF SetFormat, RenderAssumption, drawVars, uiVars
  <2> QED
    BY <1>2, <2>1, <2>2
<1>3. ASSUME NEW s \in Streams, NEW op \in SipOps, NEW r \in Renderers \cup {None}, SipCalls(op, s, r)
      PROVE TypeOK'
  <2>1. UNCHANGED <<streamVars, drawVars, uiVars, changes>> /\ sip' = <<op, s, r>>
    BY <1>3 DEF SipCalls
  <2>2. commands' \in 0 .. MaxCommands
    BY <1>3, RenderAssumption DEF SipCalls, RenderAssumption
  <2> QED
    BY <2>1, <2>2 DEF streamVars, drawVars, uiVars
<1>4. ASSUME NEW s \in Streams, NEW r \in Renderers \cup {None},
             SetWindow(s, r) \/ Start(s) \/ Stop(s) \/ DestroyFrames(s) \/ DestroyMutex(s)
      PROVE TypeOK'
  <2> USE DEF drawVars, uiVars, Idle, SizeForgotten
  <2>1. CASE SetWindow(s, r)
    BY <2>1 DEF SetWindow
  <2>2. CASE Start(s)
    BY <2>2 DEF Start
  <2>3. CASE Stop(s)
    BY <2>3 DEF Stop
  <2>4. CASE DestroyFrames(s)
    BY <2>4 DEF DestroyFrames
  <2>5. CASE DestroyMutex(s)
    BY <2>5 DEF DestroyMutex, SipStopped
  <2> QED
    BY <1>4, <2>1, <2>2, <2>3, <2>4, <2>5
<1>5. CASE SipEnds
  BY <1>5 DEF SipEnds, Gone, streamVars, drawVars, uiVars
<1>6. CASE UiGoesOn \/ Click
  <2> USE DEF streamVars, drawVars, Unsubscribed
  <2>1. ASSUME NEW s \in Streams, RunInvoke(s) PROVE TypeOK'
    BY <2>1 DEF RunInvoke
  <2>2. CASE SetFiberOff \/ DestroyReturns \/ Click
    <3>1. CASE SetFiberOff
      BY <3>1, RenderAssumption DEF SetFiberOff, RenderAssumption
    <3>2. CASE DestroyReturns \/ Click
      BY <3>2 DEF DestroyReturns, Click
    <3> QED
      BY <2>2, <3>1, <3>2
  <2> QED
    BY <1>6, <2>1, <2>2 DEF UiGoesOn
<1>7. CASE UNCHANGED vars
  BY <1>7 DEF vars, streamVars, drawVars, uiVars
<1> QED
  BY <1>1, <1>2, <1>3, <1>4, <1>5, <1>6, <1>7 DEF Next, SipGoesOn

LEMMA OrderlyNext ==
  ASSUME RenderAssumption, RenderInv, [Next]_vars
  PROVE  Orderly'
<1> USE DEF RenderInv, Orderly
<1>1. ASSUME NEW s \in Streams, PutFrame(s) PROVE Orderly'
  <2>1. MediaOwns'
    BY <1>1, RenderAssumption DEF RenderAssumption, TypeOK, MediaOwns, InCall, HasSize, SipStopped,
         PutFrame, uiVars
  <2>2. Announced'
    BY <1>1, RenderAssumption DEF RenderAssumption, TypeOK, Announced, Made, MediaOwns, InCall,
         OneStream, PutFrame, uiVars
  <2>3. FramesStillThere'
    BY <1>1, RenderAssumption DEF RenderAssumption, TypeOK, FramesStillThere, SipStopped,
         MediaOwns, InCall, PutFrame, uiVars
  <2>4. Invoked'
    BY <1>1, RenderAssumption DEF RenderAssumption, TypeOK, Invoked, MediaOwns, InCall, PutFrame,
         uiVars
  <2>5. Shown'
    BY <1>1, RenderAssumption DEF RenderAssumption, TypeOK, Shown, Invoked, MediaOwns, InCall,
         OneStream, PutFrame, uiVars
  <2>6. ShowsWhatIsDrawn'
    BY <1>1, RenderAssumption DEF RenderAssumption, TypeOK, ShowsWhatIsDrawn, Shown, Invoked,
         MediaOwns, InCall, OneStream, PutFrame, uiVars
  <2>7. (HasSize /\ SipStopped /\ OneStream /\ AllGone)'
    BY <1>1 DEF PutFrame, uiVars, HasSize, SipStopped, OneStream, AllGone
  <2> QED
    BY <2>1, <2>2, <2>3, <2>4, <2>5, <2>6, <2>7
<1>2. ASSUME NEW s \in Streams, SameSize(s) PROVE Orderly'
  <2>1. MediaOwns'
    BY <1>2, RenderAssumption DEF RenderAssumption, TypeOK, MediaOwns, InCall, HasSize, SipStopped,
         SameSize, MakesFrame, uiVars
  <2>2. Announced'
    BY <1>2, RenderAssumption DEF RenderAssumption, TypeOK, Announced, Made, MediaOwns, InCall,
         OneStream, SameSize, MakesFrame, uiVars
  <2>3. FramesStillThere'
    BY <1>2, RenderAssumption DEF RenderAssumption, TypeOK, FramesStillThere, SipStopped,
         MediaOwns, InCall, SameSize, MakesFrame, uiVars
  <2>4. Invoked'
    BY <1>2, RenderAssumption DEF RenderAssumption, TypeOK, Invoked, MediaOwns, InCall, SameSize,
         MakesFrame, uiVars
  <2>5. Shown'
    BY <1>2, RenderAssumption DEF RenderAssumption, TypeOK, Shown, Invoked, MediaOwns, InCall,
         OneStream, SameSize, MakesFrame, uiVars
  <2>6. ShowsWhatIsDrawn'
    BY <1>2, RenderAssumption DEF RenderAssumption, TypeOK, ShowsWhatIsDrawn, Shown, Invoked,
         MediaOwns, InCall, OneStream, SameSize, MakesFrame, uiVars
  <2>7. (HasSize /\ SipStopped /\ OneStream /\ AllGone)'
    BY <1>2 DEF SameSize, uiVars, HasSize, SipStopped, OneStream, AllGone
  <2> QED
    BY <2>1, <2>2, <2>3, <2>4, <2>5, <2>6, <2>7
<1>3. ASSUME NEW s \in Streams, FrameSizeChange(s) PROVE Orderly'
  <2>1. MediaOwns'
    BY <1>3, RenderAssumption DEF RenderAssumption, TypeOK, MediaOwns, InCall, HasSize, SipStopped,
         FrameSizeChange, InitDxWidget, SurfacesFor, uiVars
  <2>2. Announced'
    BY <1>3, RenderAssumption DEF RenderAssumption, TypeOK, Announced, Made, MediaOwns, InCall,
         OneStream, FrameSizeChange, InitDxWidget, SurfacesFor, uiVars
  <2>3. FramesStillThere'
    BY <1>3, RenderAssumption DEF RenderAssumption, TypeOK, FramesStillThere, SipStopped,
         MediaOwns, InCall, FrameSizeChange, InitDxWidget, SurfacesFor, uiVars
  <2>4. Invoked'
    BY <1>3, RenderAssumption DEF RenderAssumption, TypeOK, Invoked, MediaOwns, InCall,
         FrameSizeChange, InitDxWidget, SurfacesFor, uiVars
  <2>5. Shown'
    BY <1>3, RenderAssumption DEF RenderAssumption, TypeOK, Shown, Invoked, MediaOwns, InCall,
         OneStream, FrameSizeChange, InitDxWidget, SurfacesFor, uiVars
  <2>6. ShowsWhatIsDrawn'
    BY <1>3, RenderAssumption DEF RenderAssumption, TypeOK, ShowsWhatIsDrawn, Shown, Invoked,
         MediaOwns, InCall, OneStream, FrameSizeChange, InitDxWidget, SurfacesFor, uiVars
  <2>7. (HasSize /\ SipStopped /\ OneStream /\ AllGone)'
    BY <1>3 DEF FrameSizeChange, HasSize, SipStopped, OneStream, AllGone, uiVars
  <2> QED
    BY <2>1, <2>2, <2>3, <2>4, <2>5, <2>6, <2>7
<1>4. ASSUME NEW s \in Streams, Swap(s) PROVE Orderly'
  <2>1. MediaOwns'
    BY <1>4, RenderAssumption DEF RenderAssumption, TypeOK, MediaOwns, InCall, HasSize, SipStopped,
         Swap, MakesFrame, uiVars
  <2>2. Announced'
    BY <1>4, RenderAssumption DEF RenderAssumption, TypeOK, Announced, Made, MediaOwns, InCall,
         OneStream, Swap, MakesFrame, uiVars
  <2>3. FramesStillThere'
    BY <1>4, RenderAssumption DEF RenderAssumption, TypeOK, FramesStillThere, SipStopped,
         MediaOwns, InCall, Swap, MakesFrame, uiVars
  <2>4. Invoked'
    BY <1>4, RenderAssumption DEF RenderAssumption, TypeOK, Invoked, MediaOwns, InCall, Swap,
         MakesFrame, uiVars
  <2>5. Shown'
    BY <1>4, RenderAssumption DEF RenderAssumption, TypeOK, Shown, Invoked, MediaOwns, InCall,
         OneStream, Swap, MakesFrame, uiVars
  <2>6. ShowsWhatIsDrawn'
    BY <1>4, RenderAssumption DEF RenderAssumption, TypeOK, ShowsWhatIsDrawn, Shown, Invoked,
         MediaOwns, InCall, OneStream, Swap, MakesFrame, uiVars
  <2>7. (HasSize /\ SipStopped /\ OneStream /\ AllGone)'
    BY <1>4 DEF Swap, uiVars, HasSize, SipStopped, OneStream, AllGone
  <2> QED
    BY <2>1, <2>2, <2>3, <2>4, <2>5, <2>6, <2>7
<1>5. ASSUME NEW s \in Streams, DeliverFrame(s) PROVE Orderly'
  <2>1. MediaOwns'
    BY <1>5, RenderAssumption DEF RenderAssumption, TypeOK, MediaOwns, InCall, HasSize, SipStopped,
         DeliverFrame, uiVars
  <2>2. Announced'
    BY <1>5, RenderAssumption DEF RenderAssumption, TypeOK, Announced, Made, MediaOwns, InCall,
         OneStream, DeliverFrame, uiVars
  <2>3. FramesStillThere'
    BY <1>5, RenderAssumption DEF RenderAssumption, TypeOK, FramesStillThere, SipStopped,
         MediaOwns, InCall, DeliverFrame, uiVars
  <2>4. Invoked'
    BY <1>5, RenderAssumption DEF RenderAssumption, TypeOK, Invoked, MediaOwns, InCall,
         DeliverFrame, uiVars
  <2>5. Shown'
    BY <1>5, RenderAssumption DEF RenderAssumption, TypeOK, Shown, Invoked, MediaOwns, InCall,
         OneStream, DeliverFrame, uiVars
  <2>6. ShowsWhatIsDrawn'
    BY <1>5, RenderAssumption DEF RenderAssumption, TypeOK, ShowsWhatIsDrawn, Shown, Invoked,
         MediaOwns, InCall, OneStream, DeliverFrame, uiVars
  <2>7. (HasSize /\ SipStopped /\ OneStream /\ AllGone)'
    BY <1>5 DEF DeliverFrame, uiVars, HasSize, SipStopped, OneStream, AllGone
  <2> QED
    BY <2>1, <2>2, <2>3, <2>4, <2>5, <2>6, <2>7
<1>6. ASSUME NEW s \in Streams, CreateStream(s) PROVE Orderly'
  <2>1. MediaOwns'
    BY <1>6, RenderAssumption DEF RenderAssumption, TypeOK, MediaOwns, InCall, HasSize, SipStopped,
         CreateStream, drawVars, uiVars
  <2>2. HasSize'
    BY <1>6, RenderAssumption DEF RenderAssumption, TypeOK, HasSize, CreateStream, drawVars, uiVars
  <2>3. AllGone'
    BY <1>6, RenderAssumption DEF RenderAssumption, TypeOK, AllGone, Idle, Gone, CreateStream,
         drawVars, uiVars
  <2>4. (SipStopped /\ OneStream /\ Announced /\ FramesStillThere /\ Invoked /\ Shown /\ ShowsWhatIsDrawn)'
    BY <1>6 DEF CreateStream, drawVars, uiVars, SipStopped, OneStream, Announced, Made, FramesStillThere,
         Invoked, Shown, ShowsWhatIsDrawn
  <2> QED
    BY <2>1, <2>2, <2>3, <2>4
<1>7. ASSUME NEW s \in Streams, SetFormat(s) PROVE Orderly'
  <2>1. HasSize'
    BY <1>7, RenderAssumption DEF RenderAssumption, TypeOK, HasSize, SetFormat, drawVars, uiVars
  <2>2. (MediaOwns /\ SipStopped /\ OneStream /\ Announced /\ FramesStillThere /\ Invoked /\ Shown /\ ShowsWhatIsDrawn /\ AllGone)'
    BY <1>7 DEF SetFormat, drawVars, uiVars, MediaOwns, InCall, SipStopped, OneStream, Announced, Made,
         FramesStillThere, Invoked, Shown, ShowsWhatIsDrawn, AllGone
  <2> QED
    BY <2>1, <2>2
<1>8. ASSUME NEW s \in Streams, NEW op \in SipOps, NEW r \in Renderers \cup {None}, SipCalls(op, s, r) PROVE Orderly'
  <2>1. SipStopped'
    BY <1>8, RenderAssumption DEF RenderAssumption, TypeOK, SipStopped, MediaOwns, InCall,
         SipCalls, streamVars, drawVars, uiVars, SipOps, Idle
  <2>2. OneStream'
    BY <1>8, RenderAssumption DEF RenderAssumption, TypeOK, OneStream, SipCalls, streamVars,
         drawVars, uiVars, SipOps, Idle
  <2>3. AllGone'
    BY <1>8, RenderAssumption DEF RenderAssumption, TypeOK, AllGone, Idle, Gone, SipCalls,
         streamVars, drawVars, uiVars, SipOps
  <2>4. (MediaOwns /\ HasSize /\ Announced /\ FramesStillThere /\ Invoked /\ Shown /\ ShowsWhatIsDrawn)'
    BY <1>8 DEF SipCalls, streamVars, drawVars, uiVars, SipOps, MediaOwns, InCall, HasSize,
         Announced, Made, FramesStillThere, Invoked, Shown, ShowsWhatIsDrawn
  <2> QED
    BY <2>1, <2>2, <2>3, <2>4
<1>9. ASSUME NEW s \in Streams, NEW r \in Renderers \cup {None}, SetWindow(s, r) PROVE Orderly'
  <2>1. MediaOwns'
    BY <1>9, RenderAssumption DEF RenderAssumption, TypeOK, MediaOwns, InCall, HasSize, SipStopped,
         SetWindow, Locked, SizeForgotten, drawVars, uiVars
  <2>2. SipStopped'
    BY <1>9, RenderAssumption DEF RenderAssumption, TypeOK, SipStopped, MediaOwns, InCall,
         SetWindow, Locked, SizeForgotten, drawVars, uiVars, Idle
  <2>3. OneStream'
    BY <1>9, RenderAssumption DEF RenderAssumption, TypeOK, OneStream, SetWindow, Locked,
         SizeForgotten, drawVars, uiVars, Idle
  <2>4. Announced'
    BY <1>9, RenderAssumption DEF RenderAssumption, TypeOK, Announced, Made, MediaOwns, InCall,
         OneStream, SetWindow, Locked, SizeForgotten, drawVars, uiVars
  <2>5. Shown'
    BY <1>9, RenderAssumption DEF RenderAssumption, TypeOK, Shown, Invoked, MediaOwns, InCall,
         OneStream, SetWindow, Locked, SizeForgotten, drawVars, uiVars
  <2>6. ShowsWhatIsDrawn'
    BY <1>9, RenderAssumption DEF RenderAssumption, TypeOK, ShowsWhatIsDrawn, Shown, Invoked,
         MediaOwns, InCall, OneStream, SetWindow, Locked, SizeForgotten, drawVars, uiVars
  <2>7. AllGone'
    BY <1>9, RenderAssumption DEF RenderAssumption, TypeOK, AllGone, Idle, Gone, SetWindow, Locked,
         SizeForgotten, drawVars, uiVars
  <2>8. (HasSize /\ FramesStillThere /\ Invoked)'
    BY <1>9 DEF SetWindow, drawVars, uiVars, HasSize, FramesStillThere, Invoked
  <2> QED
    BY <2>1, <2>2, <2>3, <2>4, <2>5, <2>6, <2>7, <2>8
<1>10. ASSUME NEW s \in Streams, Start(s) PROVE Orderly'
  <2>1. MediaOwns'
    BY <1>10, RenderAssumption DEF RenderAssumption, TypeOK, MediaOwns, InCall, HasSize,
         SipStopped, Start, drawVars, uiVars
  <2>2. SipStopped'
    BY <1>10, RenderAssumption DEF RenderAssumption, TypeOK, SipStopped, MediaOwns, InCall, Start,
         drawVars, uiVars, Idle
  <2>3. OneStream'
    BY <1>10, RenderAssumption DEF RenderAssumption, TypeOK, OneStream, Start, drawVars, uiVars,
         Idle
  <2>4. AllGone'
    BY <1>10, RenderAssumption DEF RenderAssumption, TypeOK, AllGone, Idle, Gone, Start, drawVars,
         uiVars
  <2>5. (HasSize /\ Announced /\ FramesStillThere /\ Invoked /\ Shown /\ ShowsWhatIsDrawn)'
    BY <1>10 DEF Start, drawVars, uiVars, HasSize, Announced, Made, FramesStillThere, Invoked, Shown,
         ShowsWhatIsDrawn
  <2> QED
    BY <2>1, <2>2, <2>3, <2>4, <2>5
<1>11. ASSUME NEW s \in Streams, Stop(s) PROVE Orderly'
  <2>1. MediaOwns'
    BY <1>11, RenderAssumption DEF RenderAssumption, TypeOK, MediaOwns, InCall, HasSize,
         SipStopped, Stop, Locked, drawVars, uiVars
  <2>2. SipStopped'
    BY <1>11, RenderAssumption DEF RenderAssumption, TypeOK, SipStopped, MediaOwns, InCall, Stop,
         Locked, drawVars, uiVars, Idle
  <2>3. OneStream'
    BY <1>11, RenderAssumption DEF RenderAssumption, TypeOK, OneStream, Stop, Locked, drawVars,
         uiVars, Idle
  <2>4. AllGone'
    BY <1>11, RenderAssumption DEF RenderAssumption, TypeOK, AllGone, Idle, Gone, Stop, Locked,
         drawVars, uiVars
  <2>5. (HasSize /\ Announced /\ FramesStillThere /\ Invoked /\ Shown /\ ShowsWhatIsDrawn)'
    BY <1>11 DEF Stop, drawVars, uiVars, HasSize, Announced, Made, FramesStillThere, Invoked, Shown,
         ShowsWhatIsDrawn
  <2> QED
    BY <2>1, <2>2, <2>3, <2>4, <2>5
<1>12. ASSUME NEW s \in Streams, DestroyFrames(s) PROVE Orderly'
  <2>1. SipStopped'
    BY <1>12, RenderAssumption DEF RenderAssumption, TypeOK, SipStopped, MediaOwns, InCall,
         DestroyFrames, drawVars, uiVars, Idle
  <2>2. OneStream'
    BY <1>12, RenderAssumption DEF RenderAssumption, TypeOK, OneStream, DestroyFrames, drawVars,
         uiVars, Idle
  <2>3. FramesStillThere'
    BY <1>12, RenderAssumption DEF RenderAssumption, TypeOK, FramesStillThere, SipStopped,
         MediaOwns, InCall, DestroyFrames, drawVars, uiVars
  <2>4. AllGone'
    BY <1>12, RenderAssumption DEF RenderAssumption, TypeOK, AllGone, Idle, Gone, DestroyFrames,
         drawVars, uiVars
  <2>5. (MediaOwns /\ HasSize /\ Announced /\ Invoked /\ Shown /\ ShowsWhatIsDrawn)'
    BY <1>12 DEF DestroyFrames, drawVars, uiVars, MediaOwns, InCall, HasSize, Announced, Made,
         Invoked, Shown, ShowsWhatIsDrawn
  <2> QED
    BY <2>1, <2>2, <2>3, <2>4, <2>5
<1>13. ASSUME NEW s \in Streams, DestroyMutex(s) PROVE Orderly'
  <2>1. MediaOwns'
    BY <1>13, RenderAssumption DEF RenderAssumption, TypeOK, MediaOwns, InCall, HasSize,
         SipStopped, DestroyMutex, drawVars, uiVars
  <2>2. HasSize'
    BY <1>13, RenderAssumption DEF RenderAssumption, TypeOK, HasSize, DestroyMutex, drawVars, uiVars
  <2>3. SipStopped'
    BY <1>13, RenderAssumption DEF RenderAssumption, TypeOK, SipStopped, MediaOwns, InCall,
         DestroyMutex, drawVars, uiVars, Idle
  <2>4. OneStream'
    BY <1>13, RenderAssumption DEF RenderAssumption, TypeOK, OneStream, DestroyMutex, drawVars,
         uiVars, Idle
  <2>5. Announced'
    BY <1>13, RenderAssumption DEF RenderAssumption, TypeOK, Announced, Made, MediaOwns, InCall,
         OneStream, DestroyMutex, drawVars, uiVars
  <2>6. Shown'
    BY <1>13, RenderAssumption DEF RenderAssumption, TypeOK, Shown, Invoked, MediaOwns, InCall,
         OneStream, DestroyMutex, drawVars, uiVars
  <2>7. ShowsWhatIsDrawn'
    BY <1>13, RenderAssumption DEF RenderAssumption, TypeOK, ShowsWhatIsDrawn, Shown, Invoked,
         MediaOwns, InCall, OneStream, DestroyMutex, drawVars, uiVars
  <2>8. AllGone'
    BY <1>13, RenderAssumption DEF RenderAssumption, TypeOK, AllGone, Idle, Gone, DestroyMutex,
         drawVars, uiVars
  <2>9. (FramesStillThere /\ Invoked)'
    BY <1>13 DEF DestroyMutex, drawVars, uiVars, FramesStillThere, Invoked
  <2> QED
    BY <2>1, <2>2, <2>3, <2>4, <2>5, <2>6, <2>7, <2>8, <2>9
<1>14. ASSUME NEW s \in Streams, RunInvoke(s) PROVE Orderly'
  <2>1. MediaOwns'
    BY <1>14, RenderAssumption DEF RenderAssumption, TypeOK, MediaOwns, InCall, HasSize,
         SipStopped, Invoked, RunInvoke, streamVars
  <2>2. Announced'
    BY <1>14, RenderAssumption DEF RenderAssumption, TypeOK, Announced, Made, MediaOwns, InCall,
         OneStream, Invoked, RunInvoke, streamVars
  <2>3. FramesStillThere'
    BY <1>14, RenderAssumption DEF RenderAssumption, TypeOK, FramesStillThere, SipStopped,
         MediaOwns, InCall, RunInvoke, streamVars
  <2>4. Invoked'
    BY <1>14, RenderAssumption DEF RenderAssumption, TypeOK, Invoked, MediaOwns, InCall, RunInvoke,
         streamVars
  <2>5. Shown'
    BY <1>14, RenderAssumption DEF RenderAssumption, TypeOK, Shown, Invoked, MediaOwns, InCall,
         OneStream, RunInvoke, streamVars
  <2>6. ShowsWhatIsDrawn'
    BY <1>14, RenderAssumption DEF RenderAssumption, TypeOK, ShowsWhatIsDrawn, Shown, Invoked,
         MediaOwns, InCall, OneStream, RunInvoke, streamVars
  <2>7. (HasSize /\ SipStopped /\ OneStream /\ AllGone)'
    BY <1>14 DEF RunInvoke, streamVars, HasSize, SipStopped, OneStream, AllGone
  <2> QED
    BY <2>1, <2>2, <2>3, <2>4, <2>5, <2>6, <2>7
<1>15. CASE SipEnds \/ DestroyReturns
  BY <1>15 DEF SipEnds, DestroyReturns, MediaOwns, InCall, HasSize, SipStopped, OneStream,
       Announced,
       Made, FramesStillThere, Invoked, Shown, ShowsWhatIsDrawn, AllGone, Idle, Gone, streamVars, drawVars, uiVars
<1>16. CASE SetFiberOff \/ Click \/ UNCHANGED vars
  BY <1>16 DEF SetFiberOff, Click, Unsubscribed, MediaOwns, InCall, HasSize, SipStopped, OneStream,
       Announced,
       Made, FramesStillThere, Invoked, Shown, ShowsWhatIsDrawn, AllGone, streamVars, drawVars, uiVars, vars
<1>17. ASSUME NEW s \in Streams, DeviceFailure(s) PROVE Orderly'
  <2>1. MediaOwns'
    BY <1>17, RenderAssumption DEF RenderAssumption, TypeOK, MediaOwns, InCall, HasSize, SipStopped,
         DeviceFailure, MakesFrame, uiVars
  <2>2. Announced'
    BY <1>17, RenderAssumption DEF RenderAssumption, TypeOK, Announced, Made, MediaOwns, InCall,
         OneStream, DeviceFailure, MakesFrame, uiVars
  <2>3. FramesStillThere'
    BY <1>17, RenderAssumption DEF RenderAssumption, TypeOK, FramesStillThere, SipStopped,
         MediaOwns, InCall, DeviceFailure, MakesFrame, uiVars
  <2>4. Invoked'
    BY <1>17, RenderAssumption DEF RenderAssumption, TypeOK, Invoked, MediaOwns, InCall,
         DeviceFailure, MakesFrame, uiVars
  <2>5. Shown'
    BY <1>17, RenderAssumption DEF RenderAssumption, TypeOK, Shown, Invoked, MediaOwns, InCall,
         OneStream, DeviceFailure, MakesFrame, uiVars
  <2>6. ShowsWhatIsDrawn'
    BY <1>17, RenderAssumption DEF RenderAssumption, TypeOK, ShowsWhatIsDrawn, Shown, Invoked,
         MediaOwns, InCall, OneStream, DeviceFailure, MakesFrame, uiVars
  <2>7. (HasSize /\ SipStopped /\ OneStream /\ AllGone)'
    BY <1>17 DEF DeviceFailure, uiVars, HasSize, SipStopped, OneStream, AllGone
  <2> QED
    BY <2>1, <2>2, <2>3, <2>4, <2>5, <2>6, <2>7
<1>18. ASSUME NEW s \in Streams, InvokeUi(s) PROVE Orderly'
  <2> USE <1>18 DEF InvokeUi, streamVars
  <2>1. MediaOwns'
    BY DEF TypeOK, MediaOwns, InCall
  <2>2. Announced'
    BY RenderAssumption DEF RenderAssumption, TypeOK, Announced, Made, MediaOwns, InCall
  <2>3. FramesStillThere'
    BY DEF TypeOK, FramesStillThere
  <2>4. Invoked'
    BY DEF TypeOK, Invoked
  <2>5. Shown'
    BY DEF TypeOK, Shown
  <2>6. ShowsWhatIsDrawn'
    BY DEF TypeOK, ShowsWhatIsDrawn
  <2>7. (HasSize /\ SipStopped /\ OneStream /\ AllGone)'
    BY DEF HasSize, SipStopped, OneStream, AllGone
  <2> QED
    BY <2>1, <2>2, <2>3, <2>4, <2>5, <2>6, <2>7
<1> QED
  BY <1>1, <1>2, <1>3, <1>4, <1>5, <1>6, <1>7, <1>8, <1>9, <1>10, <1>11, <1>12, <1>13, <1>14,
       <1>15, <1>16, <1>17, <1>18 DEF Next, SipGoesOn, UiGoesOn, MediaGoesOn

LEMMA RenderInvHolds == Spec => []RenderInv
<1>1. Init => RenderInv
  <2> SUFFICES ASSUME Init PROVE RenderInv
    OBVIOUS
  <2>1. TypeOK
    BY RenderAssumption, RenderTypeInit
  <2>2. Orderly
    BY DEF Init, Orderly, MediaOwns, HasSize, SipStopped, OneStream, Announced, Made,
           FramesStillThere, Invoked, Shown, ShowsWhatIsDrawn, AllGone, Idle, Gone
  <2> QED
    BY <2>1, <2>2 DEF RenderInv
<1>2. RenderInv /\ [Next]_vars => RenderInv'
  BY RenderAssumption, RenderTypeNext, OrderlyNext DEF RenderInv, Orderly
<1> QED
  BY <1>1, <1>2, PTL DEF Spec

\* Every variable has its type.
THEOREM RenderTyped == Spec => []TypeOK
<1>1. RenderInv => TypeOK
  BY DEF RenderInv
<1> QED
  BY <1>1, RenderInvHolds, PTL

\* Frames are drawn in their size, or on no surface if that very surface could not be
\* created, except in a window whose device failed (bjn_render_dev.cpp 358-443,
\* DxBjnRenderer.cpp 16-58, DxVideoRenderer.cpp 44-198).
THEOREM RenderSafe == Spec => []DrawnInItsSize
<1>1. RenderInv => DrawnInItsSize
  <2> SUFFICES ASSUME RenderInv, NEW s \in Streams, media[s] = "deliver"
               PROVE  \/ surface[window[s]] = seen[s]
                      \/ DeviceFails /\ made[s] = None /\ surface[window[s]] = None
                      \/ window[s] \in leaked
    BY DEF DrawnInItsSize
  <2>1. seen[s] # None /\ window[s] # None
    BY RenderAssumption DEF RenderInv, Orderly, MediaOwns, InCall, RenderAssumption
  <2> QED
    BY <2>1 DEF RenderInv, Orderly, Announced, Made
<1> QED
  BY <1>1, RenderInvHolds, PTL

\* destroy never deletes a frame that is being drawn, though it does not lock.
THEOREM FramesAreKept == Spec => []FramesStillThere
<1>1. RenderInv => FramesStillThere
  BY DEF RenderInv, Orderly
<1> QED
  BY <1>1, RenderInvHolds, PTL

\* The window shows the surface that is drawn on, as long as it listens.
THEOREM WindowFollows == Spec => []ShowsWhatIsDrawn
<1>1. RenderInv => ShowsWhatIsDrawn
  BY DEF RenderInv, Orderly
<1> QED
  BY <1>1, RenderInvHolds, PTL

\* ~CallApi never returns while a media thread waits for the UI thread, or has read the
\* event's handlers and is about to: a size that is being announced when the handler is
\* removed hangs the window for good.
THEOREM HangupHangs == Spec => []HangsOnInvoke
<1>1. RenderInv => HangsOnInvoke
  <2> SUFFICES ASSUME RenderInv, ui = "returned" PROVE \A s \in Streams : ~Announces(s)
    BY DEF HangsOnInvoke
  <2>1. \A s \in Streams : life[s] # "created"
    BY DEF RenderInv, Orderly, AllGone
  <2> QED
    BY <2>1 DEF RenderInv, Orderly, MediaOwns, InCall, Announces
<1> QED
  BY <1>1, RenderInvHolds, PTL

-----------------------------------------------------------------------------
(* Hanging up, as far as a safety property can say it: TearsDown is a liveness  *)
(* property, which TLC checks.                                                *)

\* Only a call in progress holds a stream's mutex, and a critical section that was
\* not lost is held by the media thread that changes the size of that window.
Busy == \A s \in Streams : mutex[s] # None => mutex[s] = s /\ media[s] # "idle"
Kept ==
  \A r \in Renderers : cs[r] # None /\ r \notin leaked =>
    cs[r] \in Streams /\ media[cs[r]] \in {"asked", "invoke", "swap"} /\ window[cs[r]] = r
\* The handler is attached until setFiberOff.
Listens == subscribed <=> ui \in {"pumping", "clicked"}
\* What the SIP thread stops runs, and what it destroys was created.
Stopping == \A s \in Streams : sip[1] = "stop" /\ sip[2] = s => s \in running
Destroying == \A s \in Streams : sip[1] \in {"destroy", "drop"} /\ sip[2] = s => life[s] = "created"
HangupInv == Busy /\ Kept /\ Listens /\ Stopping /\ Destroying

LEMMA HangupNext == ASSUME RenderAssumption, RenderInv, HangupInv, [Next]_vars PROVE HangupInv'
<1> USE RenderAssumption
    DEF HangupInv, Busy, Kept, Listens, Stopping, Destroying, RenderAssumption, TypeOK
<1>0. TypeOK /\ MediaOwns /\ OneStream /\ SipStopped /\ Invoked
  BY DEF RenderInv, Orderly
<1>1. ASSUME NEW s \in Streams, PutFrame(s) PROVE HangupInv'
  BY <1>0, <1>1 DEF PutFrame, uiVars
<1>2. ASSUME NEW s \in Streams, SameSize(s) PROVE HangupInv'
  BY <1>0, <1>2 DEF SameSize, MakesFrame, uiVars
<1>3. ASSUME NEW s \in Streams, FrameSizeChange(s) PROVE HangupInv'
  <2>1. window[s] \in Renderers
    BY <1>0, <1>3 DEF FrameSizeChange, MediaOwns, InCall
  <2>2. Busy' /\ Kept'
    BY <1>0, <1>3, <2>1 DEF FrameSizeChange, InitDxWidget, OneStream, MayEnter, uiVars
  <2> QED
    BY <1>0, <1>3, <2>2 DEF FrameSizeChange, uiVars
<1>4. ASSUME NEW s \in Streams, DeviceFailure(s) PROVE HangupInv'
  <2>1. window[s] \in Renderers
    BY <1>0, <1>4 DEF DeviceFailure, MediaOwns, InCall
  <2>2. Busy' /\ Kept'
    BY <1>0, <1>4, <2>1 DEF DeviceFailure, MakesFrame, OneStream, MayEnter
  <2> QED
    BY <1>0, <1>4, <2>2 DEF DeviceFailure, uiVars
<1>5. ASSUME NEW s \in Streams, Swap(s) \/ DeliverFrame(s) PROVE HangupInv'
  <2>1. window[s] \in Renderers /\ mutex[s] = s
    BY <1>0, <1>5 DEF Swap, DeliverFrame, MediaOwns, InCall
  <2>2. CASE Swap(s)
    BY <1>0, <2>1, <2>2 DEF Swap, MakesFrame, AfterLeave, OneStream, uiVars
  <2>3. CASE DeliverFrame(s)
    BY <1>0, <2>1, <2>3 DEF DeliverFrame, AfterLeave, OneStream, uiVars
  <2> QED
    BY <1>5, <2>2, <2>3
<1>6. ASSUME NEW s \in Streams, CreateStream(s) \/ SetFormat(s) PROVE HangupInv'
  BY <1>0, <1>6 DEF CreateStream, SetFormat, drawVars, uiVars, Idle
<1>7. ASSUME NEW s \in Streams, NEW op \in SipOps, NEW r \in Renderers \cup {None}, SipCalls(op, s, r)
      PROVE HangupInv'
  BY <1>0, <1>7 DEF SipCalls, SipOps, streamVars, drawVars, uiVars
<1>8. ASSUME NEW s \in Streams, NEW r \in Renderers \cup {None}, SetWindow(s, r) PROVE HangupInv'
  <2>1. media[s] = "idle"
    BY <1>0, <1>8 DEF SetWindow, Locked, MediaOwns, InCall
  <2> QED
    BY <1>0, <1>8, <2>1 DEF SetWindow, Idle, drawVars, uiVars
<1>9. ASSUME NEW s \in Streams, Start(s) \/ Stop(s) \/ DestroyFrames(s) PROVE HangupInv'
  BY <1>0, <1>9 DEF Start, Stop, DestroyFrames, Idle, drawVars, uiVars
<1>10. ASSUME NEW s \in Streams, DestroyMutex(s) PROVE HangupInv'
  BY <1>0, <1>10 DEF DestroyMutex, Idle, drawVars, uiVars
<1>11. CASE SipEnds \/ UNCHANGED vars
  BY <1>0, <1>11 DEF SipEnds, Gone, streamVars, drawVars, uiVars, vars
<1>12. ASSUME NEW s \in Streams, RunInvoke(s) PROVE HangupInv'
  BY <1>0, <1>12 DEF RunInvoke, streamVars, Invoked
<1>13. CASE SetFiberOff \/ Click \/ DestroyReturns
  BY <1>0, <1>13 DEF SetFiberOff, Click, DestroyReturns, Unsubscribed, streamVars, drawVars
<1>14. ASSUME NEW s \in Streams, InvokeUi(s) PROVE HangupInv'
  BY <1>0, <1>14 DEF InvokeUi, streamVars
<1> QED
  BY <1>1, <1>2, <1>3, <1>4, <1>5, <1>6, <1>7, <1>8, <1>9, <1>10, <1>11, <1>12, <1>13, <1>14
     DEF Next, SipGoesOn, UiGoesOn, MediaGoesOn

LEMMA HangupInvHolds == Spec => [](RenderInv /\ HangupInv)
<1>1. Init => HangupInv
  BY DEF Init, HangupInv, Busy, Kept, Listens, Stopping, Destroying, Idle
<1>2. RenderInv /\ HangupInv /\ [Next]_vars => HangupInv'
  BY RenderAssumption, HangupNext
<1> QED
  BY <1>1, <1>2, RenderInvHolds, PTL DEF Spec

\* The mutex of a stream is held by a call in progress, and such a call waits for
\* nothing but the UI thread (Dispatcher.Invoke) or a critical section that was lost
\* because a device could not be created: nobody else keeps the SIP thread waiting.
OnlyTwoWaits ==
  \A s \in Streams :
    /\ mutex[s] # None => mutex[s] = s /\ media[s] # "idle"
    /\ media[s] = "invoke" => s \in invokes
    /\ media[s] \in {"size", "deliver"} => MayEnter(s, window[s]) \/ LockedOut(s)

\* put_frame holds the stream's mutex for no other reason (bjn_render_dev.cpp
\* 257-443, DxBjnRenderer.cpp 16-58).
THEOREM WaitsAreKnown == Spec => []OnlyTwoWaits
<1>1. RenderInv /\ HangupInv => OnlyTwoWaits
  <2> SUFFICES ASSUME RenderInv, HangupInv, NEW s \in Streams,
                      media[s] \in {"size", "deliver"}, window[s] \notin leaked
               PROVE  MayEnter(s, window[s])
    BY DEF OnlyTwoWaits, LockedOut, RenderInv, Orderly, Invoked, HangupInv, Busy
  <2>1. window[s] \in Renderers /\ window[s] # None
    BY RenderAssumption DEF RenderInv, Orderly, MediaOwns, InCall, RenderAssumption
  <2>2. cs[window[s]] = None
    BY <2>1 DEF HangupInv, Kept, RenderInv, Orderly, OneStream
  <2> QED
    BY <2>2 DEF MayEnter
<1> QED
  BY <1>1, HangupInvHolds, PTL

\* What is left for the SIP thread to do once the application hangs up: to stop the
\* streams that run, to destroy those that were created, and to finish the operation
\* it is in, of which start is the one that may make another stream run.
CreatedStreams == {s \in Streams : life[s] = "created"}
RunningCount == Cardinality(running)
CreatedCount == Cardinality(CreatedStreams)
OpWork ==
  CASE sip[1] = "drop" -> 1
    [] sip[1] \in {"gone", "stop", "destroy"} -> 2
    [] sip[1] = "idle" -> 3
    [] sip[1] = "window" -> 4
    [] sip[1] = "start" -> 6
SipWork == 2 * RunningCount + 3 * CreatedCount + OpWork

\* With the handlers gone no media thread begins to announce a size any more (one that
\* has read them goes on to wait), and whatever the SIP thread
\* does leaves it less to do, and nobody gives it more.
Announcing == {s \in Streams : Announces(s)}
Closes ==
  ui = "destroying" =>
    /\ Announcing' \subseteq Announcing
    /\ SipWork \in Nat /\ SipWork' \in Nat
    /\ IF sip' = sip THEN SipWork' = SipWork ELSE SipWork' < SipWork

LEMMA SipWorkNat ==
  ASSUME IsFiniteSet(Streams), TypeOK
  PROVE  /\ IsFiniteSet(running) /\ IsFiniteSet(CreatedStreams)
         /\ RunningCount \in Nat /\ CreatedCount \in Nat /\ OpWork \in 1 .. 6 /\ SipWork \in Nat
<1>1. IsFiniteSet(running) /\ IsFiniteSet(CreatedStreams)
  BY FS_Subset DEF TypeOK, CreatedStreams
<1>2. RunningCount \in Nat /\ CreatedCount \in Nat
  BY <1>1, FS_CardinalityType DEF RunningCount, CreatedCount
<1>3. OpWork \in 1 .. 6
  BY DEF TypeOK, SipOps, OpWork
<1> QED
  BY <1>1, <1>2, <1>3 DEF SipWork

\* A set that loses an element it has, and one that gets another.
LEMMA OneLess ==
  ASSUME NEW S, IsFiniteSet(S), NEW x \in S
  PROVE  Cardinality(S \ {x}) = Cardinality(S) - 1
BY FS_RemoveElement
LEMMA OneMore ==
  ASSUME NEW S, IsFiniteSet(S), NEW x
  PROVE  Cardinality(S \cup {x}) <= Cardinality(S) + 1
<1>1. Cardinality(S \cup {x}) = IF x \in S THEN Cardinality(S) ELSE Cardinality(S) + 1
  BY FS_AddElement
<1>2. Cardinality(S) \in Nat
  BY FS_CardinalityType
<1> QED
  BY <1>1, <1>2

LEMMA ClosesNext ==
  ASSUME RenderAssumption, IsFiniteSet(Streams), RenderInv, HangupInv, ui = "destroying",
         SipWork' \in Nat, RunningCount' \in Nat, CreatedCount' \in Nat, OpWork' \in 1 .. 6,
         [Next]_vars
  PROVE  Closes
<1>0. /\ TypeOK /\ IsFiniteSet(running) /\ IsFiniteSet(CreatedStreams)
      /\ RunningCount \in Nat /\ CreatedCount \in Nat /\ OpWork \in 1 .. 6 /\ SipWork \in Nat
  BY SipWorkNat DEF RenderInv
<1>01. PICK r1 \in Nat, c1 \in Nat, o1 \in 1 .. 6 :
         RunningCount' = r1 /\ CreatedCount' = c1 /\ OpWork' = o1
  OBVIOUS
<1>02. ~subscribed
  BY DEF HangupInv, Listens
\* A step of the SIP thread, seen from the numbers.
<1>a. ASSUME 2 * r1 + 3 * c1 + o1 < 2 * RunningCount + 3 * CreatedCount + OpWork,
             o1 # OpWork, UNCHANGED media
      PROVE  Closes
  <2>1. SipWork' < SipWork
    BY <1>a, <1>01 DEF SipWork
  <2>2. sip' # sip
    BY <1>a, <1>01 DEF OpWork
  <2>3. Announcing' \subseteq Announcing
    BY <1>a DEF Announcing, Announces
  <2> QED
    BY <1>0, <1>a, <2>1, <2>2, <2>3 DEF Closes
\* What changes nothing the SIP thread has to do.
<1>1. ASSUME UNCHANGED <<life, running, sip>>, Announcing' \subseteq Announcing PROVE Closes
  <2>1. UNCHANGED <<RunningCount, CreatedCount, OpWork>>
    BY <1>1 DEF RunningCount, CreatedCount, CreatedStreams, OpWork
  <2>2. SipWork' = SipWork
    BY <2>1 DEF SipWork
  <2> QED
    BY <1>0, <1>1, <2>2 DEF Closes
<1>2. ASSUME NEW s \in Streams, PutFrame(s) \/ MediaGoesOn(s) \/ SetFormat(s) PROVE Closes
  <2>1. UNCHANGED <<life, running, sip>>
    BY <1>2 DEF PutFrame, MediaGoesOn, SameSize, FrameSizeChange, DeviceFailure, InvokeUi, Swap,
         DeliverFrame, SetFormat, streamVars
  <2>2. Announcing' \subseteq Announcing
    BY <1>0, <1>2, <1>02 DEF PutFrame, MediaGoesOn, SameSize, FrameSizeChange, InitDxWidget,
         DeviceFailure, InvokeUi, Swap, DeliverFrame, MakesFrame, SetFormat, drawVars,
         Announcing, Announces, TypeOK
  <2> QED
    BY <1>1, <2>1, <2>2
<1>3. CASE UiGoesOn \/ Click \/ UNCHANGED vars
  <2>1. UNCHANGED <<life, running, sip>>
    BY <1>3 DEF UiGoesOn, RunInvoke, SetFiberOff, DestroyReturns, Click, streamVars, vars
  <2>2. Announcing' \subseteq Announcing
    BY <1>0, <1>3 DEF UiGoesOn, RunInvoke, SetFiberOff, DestroyReturns, Click, drawVars, vars,
         Announcing, Announces, TypeOK
  <2> QED
    BY <1>1, <2>1, <2>2
<1>4. ASSUME NEW s \in Streams, CreateStream(s) PROVE Closes
  BY <1>4 DEF CreateStream
<1>5. ASSUME NEW s \in Streams, NEW op \in SipOps, NEW r \in Renderers \cup {None}, SipCalls(op, s, r)
      PROVE Closes
  <2>1. /\ UNCHANGED <<life, running, media>> /\ sip = Idle /\ sip' = <<op, s, r>>
        /\ op \in {"stop", "destroy"}
    BY <1>5 DEF SipCalls, streamVars, drawVars
  <2>2. UNCHANGED <<RunningCount, CreatedCount>>
    BY <2>1 DEF RunningCount, CreatedCount, CreatedStreams
  <2>3. OpWork = 3 /\ OpWork' = 2
    BY <2>1 DEF OpWork, Idle
  <2> QED
    BY <1>0, <1>01, <1>a, <2>1, <2>2, <2>3
<1>6. ASSUME NEW s \in Streams, NEW r \in Renderers \cup {None}, SetWindow(s, r) PROVE Closes
  <2>1. UNCHANGED <<life, running, media>> /\ sip = <<"window", s, r>> /\ sip' = Idle
    BY <1>6 DEF SetWindow, drawVars
  <2>2. UNCHANGED <<RunningCount, CreatedCount>>
    BY <2>1 DEF RunningCount, CreatedCount, CreatedStreams
  <2>3. OpWork = 4 /\ OpWork' = 3
    BY <2>1 DEF OpWork, Idle
  <2> QED
    BY <1>0, <1>01, <1>a, <2>1, <2>2, <2>3
<1>7. ASSUME NEW s \in Streams, Start(s) PROVE Closes
  <2>1. /\ UNCHANGED <<life, media>> /\ running' = running \cup {s}
        /\ sip = <<"start", s, None>> /\ sip' = Idle
    BY <1>7 DEF Start, drawVars
  <2>2. CreatedCount' = CreatedCount
    BY <2>1 DEF CreatedCount, CreatedStreams
  <2>3. RunningCount' <= RunningCount + 1
    BY <1>0, <2>1, OneMore DEF RunningCount
  <2>4. OpWork = 6 /\ OpWork' = 3
    BY <2>1 DEF OpWork, Idle
  <2> QED
    BY <1>0, <1>01, <1>a, <2>1, <2>2, <2>3, <2>4
<1>8. ASSUME NEW s \in Streams, Stop(s) PROVE Closes
  <2>1. /\ UNCHANGED <<life, media>> /\ running' = running \ {s}
        /\ sip = <<"stop", s, None>> /\ sip' = Idle
    BY <1>8 DEF Stop, drawVars
  <2>2. CreatedCount' = CreatedCount
    BY <2>1 DEF CreatedCount, CreatedStreams
  <2>3. s \in running
    BY <2>1 DEF HangupInv, Stopping
  <2>4. RunningCount' = RunningCount - 1
    BY <1>0, <2>1, <2>3, OneLess DEF RunningCount
  <2>5. OpWork = 2 /\ OpWork' = 3
    BY <2>1 DEF OpWork, Idle
  <2> QED
    BY <1>0, <1>01, <1>a, <2>1, <2>2, <2>4, <2>5
<1>9. ASSUME NEW s \in Streams, DestroyFrames(s) PROVE Closes
  <2>1. /\ UNCHANGED <<life, running, media>>
        /\ sip = <<"destroy", s, None>> /\ sip' = <<"drop", s, None>>
    BY <1>9 DEF DestroyFrames, drawVars
  <2>2. UNCHANGED <<RunningCount, CreatedCount>>
    BY <2>1 DEF RunningCount, CreatedCount, CreatedStreams
  <2>3. OpWork = 2 /\ OpWork' = 1
    BY <2>1 DEF OpWork
  <2> QED
    BY <1>0, <1>01, <1>a, <2>1, <2>2, <2>3
<1>10. ASSUME NEW s \in Streams, DestroyMutex(s) PROVE Closes
  <2>1. /\ UNCHANGED <<running, media>> /\ life' = [life EXCEPT ![s] = "destroyed"]
        /\ sip = <<"drop", s, None>> /\ sip' = Idle
    BY <1>10 DEF DestroyMutex, drawVars
  <2>2. RunningCount' = RunningCount
    BY <2>1 DEF RunningCount
  <2>3. s \in CreatedStreams
    BY <2>1 DEF HangupInv, Destroying, CreatedStreams
  <2>4. CreatedStreams' = CreatedStreams \ {s}
    BY <1>0, <2>1 DEF CreatedStreams, TypeOK
  <2>5. CreatedCount' = CreatedCount - 1
    BY <1>0, <2>3, <2>4, OneLess DEF CreatedCount
  <2>6. OpWork = 1 /\ OpWork' = 3
    BY <2>1 DEF OpWork, Idle
  <2> QED
    BY <1>0, <1>01, <1>a, <2>1, <2>2, <2>5, <2>6
<1>11. CASE SipEnds
  <2>1. UNCHANGED <<life, running, media>> /\ sip = Idle /\ sip' = Gone
    BY <1>11 DEF SipEnds, streamVars, drawVars
  <2>2. UNCHANGED <<RunningCount, CreatedCount>>
    BY <2>1 DEF RunningCount, CreatedCount, CreatedStreams
  <2>3. OpWork = 3 /\ OpWork' = 2
    BY <2>1 DEF OpWork, Idle, Gone
  <2> QED
    BY <1>0, <1>01, <1>a, <2>1, <2>2, <2>3
<1> QED
  BY <1>2, <1>3, <1>4, <1>5, <1>6, <1>7, <1>8, <1>9, <1>10, <1>11 DEF Next, SipGoesOn

\* ~CallApi has only so much to wait for: while it waits, each operation pjmedia
\* performs on a stream leaves fewer to perform, and nothing adds to them
\* (callapi.cpp 159-163, bjn_render_dev.cpp 604-663; the safety half of TearsDown).
THEOREM HangupIsShort == ASSUME IsFiniteSet(Streams) PROVE Spec => [][Closes]_vars
<1> DEFINE Counted ==
      SipWork \in Nat /\ RunningCount \in Nat /\ CreatedCount \in Nat /\ OpWork \in 1 .. 6
<1>1. RenderInv => Counted
  BY SipWorkNat DEF RenderInv
<1>2. ASSUME RenderInv, HangupInv, Counted', [Next]_vars PROVE [Closes]_vars
  <2>1. CASE ui = "destroying"
    BY <1>2, <2>1, RenderAssumption, ClosesNext
  <2>2. CASE ui # "destroying"
    BY <2>2 DEF Closes
  <2> QED
    BY <2>1, <2>2
<1> QED
  BY <1>1, <1>2, HangupInvHolds, PTL DEF Spec
=============================================================================
