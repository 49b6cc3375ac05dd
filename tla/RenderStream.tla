---------------------------- MODULE RenderStream ----------------------------
(***************************************************************************)
(* How a video frame gets to the window.  Three kinds of thread meet here:  *)
(* one media thread per stream (bjn_ren_stream_put_frame, which calls the   *)
(* DxBjnRenderer that is the stream's window), the SIP thread (windows,     *)
(* start, stop, destroy) and the UI thread, which owns the images.  They    *)
(* share one mutex per stream, one critical section per renderer, and the   *)
(* UI thread's dispatcher queue.                                           *)
(*                                                                         *)
(* pjmedia itself is external: it stops a stream before it destroys it, and *)
(* no put_frame call is still running when the stream's mutex is destroyed. *)
(* A window serves one stream at a time: CallApi::OnMessage takes it from    *)
(* one stream before it gives it to another (callapi.cpp:380-434), so far as *)
(* the operations of the absent base class do what they are named for.       *)
(***************************************************************************)
EXTENDS Naturals, FiniteSets

CONSTANTS
  Streams,      (* video streams: self view, remote view                    *)
  Renderers,    (* DxBjnRenderer objects, and the image each is shown in    *)
  Sizes,        (* frame sizes                                              *)
  None,         (* no window, no size, no thread                            *)
  MaxCommands,  (* bound: window changes and starts                         *)
  MaxChanges,   (* bound: format changes                                    *)
  LocalWindow,  (* the renderer whose image is imgLocalStream               *)
  DeviceFails   (* TRUE: CreateDevice and CreateRenderTarget may fail       *)

ASSUME RenderAssumption ==
  /\ None \notin Streams \cup Renderers \cup Sizes
  /\ MaxCommands \in Nat /\ MaxChanges \in Nat
  /\ LocalWindow \in Renderers
  /\ DeviceFails \in BOOLEAN

VARIABLES
  life,         \* life[s]: none, created or destroyed
  running,      \* streams with is_running set
  window,       \* window[s]: _renderWindow
  fmt,          \* fmt[s]: the size in param.fmt
  announced,    \* announced[s]: external_renderer_width_ and _height_
  mutex,        \* mutex[s]: which thread holds the stream's mutex
  frame,        \* streams that have a src_frame
  media, seen,  \* media thread of s: where it is, and the size it read
  made,         \* made[s]: the size of the surface its new renderer has, if it has one
  cs, leaked,   \* cs[r]: whose the critical section is; those never left again
  surface,      \* surface[r]: the size of the device surface behind _pRenderer
  image,        \* image[r]: the size of the surface the UI shows for r
  invokes,      \* streams whose media thread waits in Dispatcher.Invoke
  subscribed,   \* LocalRenderer_Init is attached to the Init event
  ui,           \* the UI thread
  sip,          \* the operation the SIP thread is in: <<name, stream, window>>
  commands, changes

streamVars == <<life, running, window, fmt, announced, mutex, frame>>
drawVars   == <<media, seen, made, cs, leaked, surface>>
uiVars     == <<image, invokes, subscribed, ui>>
vars == <<streamVars, drawVars, uiVars, sip, commands, changes>>

MediaPcs == {"idle", "size", "asked", "invoke", "swap", "deliver"}
SipOps   == {"window", "start", "stop", "destroy", "drop"}
Idle     == <<"idle", None, None>>
Gone     == <<"gone", None, None>>

-----------------------------------------------------------------------------
(* The media thread of stream s: one put_frame call.                         *)

\* The frame is taken in only by a running stream with a window; both are
\* looked at under the mutex.
PutFrame(s) ==
  /\ media[s] = "idle" /\ life[s] = "created"
  /\ mutex[s] = None
  /\ s \in running /\ window[s] # None
  /\ mutex' = [mutex EXCEPT ![s] = s]
  /\ seen' = [seen EXCEPT ![s] = fmt[s]]
  /\ media' = [media EXCEPT ![s] = "size"]
  /\ UNCHANGED <<life, running, window, fmt, announced, frame, made, cs, leaked, surface, uiVars,
                 sip, commands, changes>>

\* A Win32 critical section lets its owner in again.
MayEnter(s, r) == cs[r] \in {None, s}
\* Its owner after one LeaveCriticalSection: an earlier missing leave keeps it.
AfterLeave(s, r) == IF r \in leaked THEN s ELSE None

MakesFrame(s) ==
  /\ media' = [media EXCEPT ![s] = "deliver"]
  /\ frame' = frame \cup {s}

SameSize(s) ==
  /\ media[s] = "size" /\ announced[s] = seen[s]
  /\ MakesFrame(s)
  /\ UNCHANGED <<life, running, window, fmt, announced, mutex, seen, made, cs, leaked, surface,
                 uiVars, sip, commands, changes>>

\* InitDxWidget: Init?.Invoke copies the event's handlers, if it still has any, and
\* calls the copy: the media thread is then on its way to the UI thread, whatever
\* becomes of the event.
InitDxWidget(s) ==
  media' = [media EXCEPT ![s] = IF subscribed THEN "asked" ELSE "swap"]

\* CreateSurfaces: the device surface a new renderer gets.  CreateDevice does not look
\* at what it returns, so the renderer may do without.
SurfacesFor(s) == {seen[s]} \cup (IF DeviceFails THEN {None} ELSE {})

\* FrameSizeChange up to InitDxWidget: a new renderer.
FrameSizeChange(s) ==
  /\ media[s] = "size" /\ announced[s] # seen[s] /\ MayEnter(s, window[s])
  /\ announced' = [announced EXCEPT ![s] = seen[s]]
  /\ cs' = [cs EXCEPT ![window[s]] = s]
  /\ \E z \in SurfacesFor(s) : made' = [made EXCEPT ![s] = z]
  /\ InitDxWidget(s)
  /\ UNCHANGED <<life, running, window, fmt, mutex, frame, seen, leaked, surface, uiVars, sip,
                 commands, changes>>

\* CreateDevice failed: FrameSizeChange returns -1 inside the critical section,
\* and put_frame does not look at what it returns.
DeviceFailure(s) ==
  /\ DeviceFails
  /\ media[s] = "size" /\ announced[s] # seen[s] /\ MayEnter(s, window[s])
  /\ announced' = [announced EXCEPT ![s] = seen[s]]
  /\ cs' = [cs EXCEPT ![window[s]] = s]
  /\ leaked' = leaked \cup {window[s]}
  /\ MakesFrame(s)
  /\ UNCHANGED <<life, running, window, fmt, mutex, seen, made, surface, uiVars, sip, commands,
                 changes>>

InvokeNotAwaited(s) ==   \* mutant: BeginInvoke
  /\ media[s] = "asked"
  /\ invokes' = invokes \cup {s}
  /\ media' = [media EXCEPT ![s] = "swap"]
  /\ UNCHANGED <<streamVars, seen, made, cs, leaked, surface, image, subscribed, ui, sip, commands,
                 changes>>
\* LocalRenderer_Init notes the size and waits in Dispatcher.Invoke.
InvokeUi(s) ==
  /\ media[s] = "asked"
  /\ invokes' = invokes \cup {s}
  /\ media' = [media EXCEPT ![s] = "invoke"]
  /\ UNCHANGED <<streamVars, seen, made, cs, leaked, surface, image, subscribed, ui, sip, commands,
                 changes>>

\* The new renderer replaces the old one, with the surface it has.
Swap(s) ==
  /\ media[s] = "swap"
  /\ surface' = [surface EXCEPT ![window[s]] = made[s]]
  /\ cs' = [cs EXCEPT ![window[s]] = AfterLeave(s, window[s])]
  /\ MakesFrame(s)
  /\ UNCHANGED <<life, running, window, fmt, announced, mutex, seen, made, leaked, uiVars, sip,
                 commands, changes>>

\* DeliverFrame draws on the surface, and the call ends.
DeliverFrame(s) ==
  /\ media[s] = "deliver" /\ MayEnter(s, window[s])
  /\ cs' = [cs EXCEPT ![window[s]] = AfterLeave(s, window[s])]
  /\ media' = [media EXCEPT ![s] = "idle"]
  /\ mutex' = [mutex EXCEPT ![s] = None]
  /\ UNCHANGED <<life, running, window, fmt, announced, frame, seen, made, leaked, surface, uiVars,
                 sip, commands, changes>>

MediaGoesOn(s) ==
  \/ SameSize(s) \/ FrameSizeChange(s) \/ DeviceFailure(s)
  \/ InvokeUi(s) \/ Swap(s) \/ DeliverFrame(s)

-----------------------------------------------------------------------------
(* The SIP thread: pjmedia calls the stream's operations.                    *)

CreateStream(s) ==
  /\ sip = Idle /\ ui # "destroying" /\ life[s] = "none"
  /\ life' = [life EXCEPT ![s] = "created"]
  /\ \E z \in Sizes : fmt' = [fmt EXCEPT ![s] = z]
  /\ UNCHANGED <<running, window, announced, mutex, frame, drawVars, uiVars, sip, commands, changes>>

\* The thread enters an operation; it leaves it when it has had the mutex.
\* While the application only hangs up, streams are stopped and destroyed.
SipCalls(op, s, r) ==
  /\ sip = Idle /\ life[s] = "created"
  /\ \/ /\ ui # "destroying" /\ commands < MaxCommands
        /\ \/ op = "window" /\ \A t \in Streams : r # None => window[t] # r
           \/ op = "start" /\ r = None /\ s \notin running
        /\ commands' = commands + 1
     \/ op = "stop" /\ r = None /\ s \in running /\ UNCHANGED commands
     \/ op = "destroy" /\ r = None /\ s \notin running /\ UNCHANGED commands
  /\ sip' = <<op, s, r>>
  /\ UNCHANGED <<streamVars, drawVars, uiVars, changes>>

Locked(s) == mutex[s] = None

SizeKept(s) == announced   \* mutant
\* Whatever becomes of the window, the next frame announces its size again.
SizeForgotten(s) == [announced EXCEPT ![s] = None]

\* A window is set only where there is none; a null pointer always is.
SetWindow(s, r) ==
  /\ sip = <<"window", s, r>> /\ Locked(s)
  /\ announced' = SizeForgotten(s)
  /\ \/ (window[s] = None \/ r = None) /\ window' = [window EXCEPT ![s] = r]
     \/ window[s] # None /\ r # None /\ UNCHANGED window
  /\ sip' = Idle
  /\ UNCHANGED <<life, running, fmt, mutex, frame, drawVars, uiVars, commands, changes>>

Start(s) ==
  /\ sip = <<"start", s, None>> /\ Locked(s)
  /\ running' = running \cup {s}
  /\ sip' = Idle
  /\ UNCHANGED <<life, window, fmt, announced, mutex, frame, drawVars, uiVars, commands, changes>>

StopUnlocked(s) ==   \* mutant
  /\ sip = <<"stop", s, None>>
  /\ running' = running \ {s}
  /\ sip' = Idle
  /\ UNCHANGED <<life, window, fmt, announced, mutex, frame, drawVars, uiVars, commands, changes>>
Stop(s) ==
  /\ sip = <<"stop", s, None>> /\ Locked(s)
  /\ running' = running \ {s}
  /\ sip' = Idle
  /\ UNCHANGED <<life, window, fmt, announced, mutex, frame, drawVars, uiVars, commands, changes>>

\* The frames are deleted before the mutex is asked for.
DestroyFrames(s) ==
  /\ sip = <<"destroy", s, None>>
  /\ frame' = frame \ {s}
  /\ sip' = <<"drop", s, None>>
  /\ UNCHANGED <<life, running, window, fmt, announced, mutex, drawVars, uiVars, commands, changes>>

DestroyMutex(s) ==
  /\ sip = <<"drop", s, None>> /\ Locked(s) /\ media[s] = "idle"
  /\ life' = [life EXCEPT ![s] = "destroyed"]
  /\ window' = [window EXCEPT ![s] = None]
  /\ sip' = Idle
  /\ UNCHANGED <<running, fmt, announced, mutex, frame, drawVars, uiVars, commands, changes>>

\* The manager is gone once its streams are; only then does the thread end.
SipEnds ==
  /\ sip = Idle /\ ui = "destroying"
  /\ \A s \in Streams : life[s] # "created"
  /\ sip' = Gone
  /\ UNCHANGED <<streamVars, drawVars, uiVars, commands, changes>>

SipGoesOn ==
  \/ \E s \in Streams :
       \/ \E r \in Renderers \cup {None} : SetWindow(s, r)
       \/ Start(s) \/ Stop(s) \/ DestroyFrames(s) \/ DestroyMutex(s)
  \/ SipEnds
SipStops == \E s \in Streams, op \in {"stop", "destroy"} : SipCalls(op, s, None)

FormatAnyTime(s) ==   \* mutant: of a stream that does not exist
  /\ changes < MaxChanges
  /\ \E z \in Sizes \ {fmt[s]} : fmt' = [fmt EXCEPT ![s] = z]
  /\ changes' = changes + 1
  /\ UNCHANGED <<life, running, window, announced, mutex, frame, drawVars, uiVars, sip, commands>>
\* set_cap(FORMAT): the stream changes its size, without the mutex.
SetFormat(s) ==
  /\ life[s] = "created" /\ changes < MaxChanges
  /\ \E z \in Sizes \ {fmt[s]} : fmt' = [fmt EXCEPT ![s] = z]
  /\ changes' = changes + 1
  /\ UNCHANGED <<life, running, window, announced, mutex, frame, drawVars, uiVars, sip, commands>>

-----------------------------------------------------------------------------
(* The UI thread.                                                            *)

\* It runs what was invoked: the new surface becomes the back buffer.
RunInvoke(s) ==
  /\ ui = "pumping" /\ s \in invokes
  /\ image' = [image EXCEPT ![window[s]] = made[s]]
  /\ invokes' = invokes \ {s}
  /\ media' = [media EXCEPT ![s] = "swap"]
  /\ UNCHANGED <<streamVars, seen, made, cs, leaked, surface, subscribed, ui, sip, commands, changes>>

\* btnDisconnect_Click or Window_Closed: input comes after what was posted.
Click ==
  /\ ui = "pumping" /\ invokes = {}
  /\ ui' = "clicked"
  /\ UNCHANGED <<streamVars, drawVars, image, invokes, subscribed, sip, commands, changes>>

Unsubscribed == FALSE

\* setFiberOff: the handlers go and the local image loses its back buffer, then
\* ~CallApi waits for the SIP thread.
SetFiberOff ==
  /\ ui = "clicked"
  /\ subscribed' = Unsubscribed
  /\ image' = [image EXCEPT ![LocalWindow] = None]
  /\ ui' = "destroying"
  /\ UNCHANGED <<streamVars, drawVars, invokes, sip, commands, changes>>

ReturnsAtOnce ==   \* mutant: no join
  /\ ui = "destroying"
  /\ ui' = "returned"
  /\ UNCHANGED <<streamVars, drawVars, image, invokes, subscribed, sip, commands, changes>>
DestroyReturns ==
  /\ ui = "destroying" /\ sip = Gone
  /\ ui' = "returned"
  /\ UNCHANGED <<streamVars, drawVars, image, invokes, subscribed, sip, commands, changes>>

UiGoesOn == (\E s \in Streams : RunInvoke(s)) \/ SetFiberOff \/ DestroyReturns

-----------------------------------------------------------------------------
Init ==
  /\ life = [s \in Streams |-> "none"]
  /\ running = {}
  /\ window = [s \in Streams |-> None]
  /\ fmt = [s \in Streams |-> None]
  /\ announced = [s \in Streams |-> None]
  /\ mutex = [s \in Streams |-> None]
  /\ frame = {}
  /\ media = [s \in Streams |-> "idle"]
  /\ seen = [s \in Streams |-> None]
  /\ made = [s \in Streams |-> None]
  /\ cs = [r \in Renderers |-> None]
  /\ leaked = {}
  /\ surface = [r \in Renderers |-> None]
  /\ image = [r \in Renderers |-> None]
  /\ invokes = {}
  /\ subscribed = TRUE
  /\ ui = "pumping"
  /\ sip = Idle
  /\ commands = 0 /\ changes = 0

Next ==
  \/ \E s \in Streams : PutFrame(s) \/ MediaGoesOn(s) \/ CreateStream(s) \/ SetFormat(s)
  \/ \E s \in Streams, op \in SipOps, r \in Renderers \cup {None} : SipCalls(op, s, r)
  \/ SipGoesOn
  \/ UiGoesOn \/ Click

\* A thread that can go on does; nobody has to send a frame, click, or start
\* anything, but once the application hangs up the SIP thread tears down.  Frames
\* come tens of milliseconds apart, so the SIP thread gets a mutex that is free
\* again and again: strong fairness.
Fairness ==
  /\ \A s \in Streams : WF_vars(MediaGoesOn(s))
  /\ SF_vars(SipGoesOn)
  /\ WF_vars(ui = "destroying" /\ SipStops)
  /\ WF_vars(UiGoesOn)

Spec == Init /\ [][Next]_vars /\ Fairness

-----------------------------------------------------------------------------
(* Properties.                                                               *)

\* Every variable has its type, and a stream has a size from its creation on.
TypeOK ==
  /\ life \in [Streams -> {"none", "created", "destroyed"}]
  /\ running \subseteq Streams /\ frame \subseteq Streams /\ invokes \subseteq Streams
  /\ window \in [Streams -> Renderers \cup {None}]
  /\ fmt \in [Streams -> Sizes \cup {None}]
  /\ \A s \in Streams : fmt[s] = None <=> life[s] = "none"
  /\ announced \in [Streams -> Sizes \cup {None}]
  /\ seen \in [Streams -> Sizes \cup {None}] /\ made \in [Streams -> Sizes \cup {None}]
  /\ mutex \in [Streams -> Streams \cup {None}]
  /\ media \in [Streams -> MediaPcs]
  /\ cs \in [Renderers -> Streams \cup {None}]
  /\ leaked \subseteq Renderers
  /\ surface \in [Renderers -> Sizes \cup {None}]
  /\ image \in [Renderers -> Sizes \cup {None}]
  /\ subscribed \in BOOLEAN
  /\ ui \in {"pumping", "clicked", "destroying", "returned"}
  /\ sip \in ({"idle", "gone"} \cup SipOps) \X (Streams \cup {None}) \X (Renderers \cup {None})
  /\ commands \in 0 .. MaxCommands /\ changes \in 0 .. MaxChanges

\* A frame is drawn on a surface of its own size, or on none, however windows move
\* between streams and formats change: put_frame compares with
\* external_renderer_width_, which set_cap forgets under the mutex.  On none only if
\* CreateRenderTarget failed for this very size, and on a surface of another size only
\* in a window whose device could once not be created.
DrawnInItsSize ==
  \A s \in Streams :
    media[s] = "deliver" =>
      \/ surface[window[s]] = seen[s]
      \/ DeviceFails /\ made[s] = None /\ surface[window[s]] = None
      \/ window[s] \in leaked

\* DxVideoRenderer::Draw's assert(pDeviceSurface != NULL): whoever draws has a
\* device surface to draw on.
DrawsOnASurface ==
  \A s \in Streams : media[s] = "deliver" => surface[window[s]] # None

\* destroy deletes the frames without the mutex, and yet no frame that is being
\* delivered is deleted: stop has waited for the call that was drawing.
FramesStillThere ==
  \A s \in Streams : media[s] = "deliver" => s \in frame

\* The image shows the surface that is drawn on, as long as the window listens
\* and no new size is on its way: Dispatcher.Invoke waits before the swap.
ShowsWhatIsDrawn ==
  \A r \in Renderers :
    (subscribed /\ \A s \in Streams : media[s] \in {"asked", "invoke", "swap"} => window[s] # r)
      => image[r] = surface[r]

\* A media thread that waits for the UI thread, or has read the event's handlers and
\* is about to.
Announces(s) == media[s] \in {"asked", "invoke"}

\* Hanging up hangs when a new size is being announced as the handler is removed: the
\* media thread keeps the stream's mutex while it waits for the UI thread, which waits
\* for the SIP thread, which needs the mutex.
HangsOnInvoke == ui = "returned" => \A s \in Streams : ~Announces(s)

\* The media thread of s is kept out of its renderer for good, by a critical
\* section another thread never left because CreateDevice failed.
LockedOut(s) ==
  media[s] \in {"size", "deliver"} /\ window[s] \in leaked /\ ~MayEnter(s, window[s])

=============================================================================
