---------------------------- MODULE CaptureStream ----------------------------
(***************************************************************************)
(* How a shared screen gets from the capturer into the call.  The factory   *)
(* keeps a table of devices with the sizes they capture; the SIP thread      *)
(* creates a stream in a size of the table, and a capture thread hands each  *)
(* frame to OnIncomingCapturedFrame.  When the screen has another size than  *)
(* the stream, the capture thread writes the new size into the table, posts  *)
(* PJMEDIA_EVENT_ORIENT_CHANGED and delivers nothing more: the stream is to  *)
(* be torn down and made again in the new size.                             *)
(*                                                                         *)
(* One screen device; cameras neither reset nor change their size.  pjmedia  *)
(* is external: its handler of the event destroys the stream and makes it    *)
(* again with default_param; DeRegisterCaptureDataCallback waits for the     *)
(* callback that runs.  The capturer of the screen knows one capability.     *)
(***************************************************************************)
EXTENDS Integers, Sequences

CONSTANTS
  Screens,      (* sizes <<w, h>> the screen, or the shared window, may have *)
  EncWidth,     (* getVideoCodecParams().enc.width                           *)
  MaxChanges,   (* bound: changes of the screen's size                       *)
  MaxRefreshes, (* bound: refreshes of the whole table                       *)
  MaxCommands   (* bound: stops, retries and ends of the sharing             *)

ASSUME CaptureAssumption ==
  /\ Screens \subseteq (Nat \ {0}) \X (Nat \ {0})
  /\ EncWidth \in Nat \ {0}
  /\ MaxChanges \in Nat /\ MaxRefreshes \in Nat /\ MaxCommands \in Nat

VARIABLES
  screen,      \* the size of what is captured
  table, count,   \* info.fmt of the screen's entry, <<I420, RGB32>>, and its fmt_cnt
  cap,         \* the sizes of its _capability
  filling,     \* how far a refresh of the table is, "no" when there is none
  sampled,     \* the size the capturer told the refresh, or None
  slot,        \* the argument fmt_cnt of populateSupportedCapability, from 1
  shared,      \* the application shares its screen
  stream,      \* none, refused (Create), created, running or failed (StartCapture)
  format,      \* param.fmt of the stream
  desired,     \* _desired_width and _height of the capture callback
  firstFrame, changed, resetting,   \* its _first_frame, _changed_.., _reset_in_process
  events,      \* PJMEDIA_EVENT_ORIENT_CHANGED that wait for their handler
  given,       \* the last frame given to capture_cb
  changes, refreshes, commands

entryVars    == <<table, count, cap>>
tableVars    == <<entryVars, filling, sampled, slot, refreshes>>
callbackVars == <<desired, firstFrame, changed, resetting>>
streamVars   == <<shared, stream, format, commands>>
vars == <<screen, changes, tableVars, streamVars, callbackVars, events, given>>

None == <<0, 0>>
Width(s)  == s[1]
Height(s) == s[2]
Even(n)   == 2 * (n \div 2)
FullWidth  == 1920
FullHeight == 1080

\* calculateDesiredWH: as it is if that fits, else scaled down with its proportions.
CalculateDesiredWH(s) ==
  IF Width(s) <= FullWidth /\ Height(s) <= FullHeight THEN s
  ELSE IF Width(s) * FullHeight >= Height(s) * FullWidth
    THEN <<FullWidth, Even(1 + (FullWidth * Height(s)) \div Width(s))>>
    ELSE <<Even(1 + (FullHeight * Width(s)) \div Height(s)), FullHeight>>

\* info.fmt has room for more formats; the third is always zeroed.
Formats == <<table[1], table[2], None>>

\* webrtc_get_capturer_index: the last format of a descending list that is as wide as
\* what is encoded, the first if there is none.
CapturerIndex ==
  LET Steps == {i \in 1 .. count - 1 : /\ Width(Formats[i]) >= EncWidth
                                       /\ Width(Formats[i + 1]) < EncWidth}
  IN IF Steps # {} THEN CHOOSE i \in Steps : \A j \in Steps : i <= j
     ELSE IF count > 0 /\ Width(Formats[count]) >= EncWidth THEN count ELSE 1
Picked == Formats[CapturerIndex]

-----------------------------------------------------------------------------
(* The screen: its resolution, its orientation or the window that is shared.  *)

ScreenChanges ==
  /\ changes < MaxChanges
  /\ \E s \in Screens \ {screen} : screen' = s
  /\ changes' = changes + 1
  /\ UNCHANGED <<tableVars, streamVars, callbackVars, events, given>>

-----------------------------------------------------------------------------
(* The capture thread.                                                       *)

\* The capture thread finds the entry of its screen by its name ...
Named == filling # "zeroed"
\* ... and touches the formats once _capability[0] has a codecType: a zeroed one is VP8.
Coded == count > 0 \/ filling \in {"copied", "scaled"}

TableLeft == table   \* mutant: only the stream learns the new size
\* webrtc_refresh_screen_device: the RGB32 format is made from _capability[1], which
\* getDesireWH does not touch.
RefreshedScreen == <<CalculateDesiredWH(screen), cap[2]>>

OnlyLaterFrames == ~firstFrame /\ changed # screen   \* mutant: a stream is made in the right size
\* The first frame is compared with the stream's size, a later one with the one before.
ResetStream ==
  \/ firstFrame /\ CalculateDesiredWH(screen) # desired
  \/ ~firstFrame /\ changed # screen

\* OnIncomingCapturedFrame for a frame in the size the screen has now.  It holds no
\* lock; a step of the refresh is taken before or after all it does.
FrameResets ==
  /\ stream = "running" /\ ResetStream
  /\ IF Named THEN /\ cap' = <<CalculateDesiredWH(screen), cap[2]>>
                   /\ desired' = CalculateDesiredWH(screen)
              ELSE UNCHANGED <<cap, desired>>
  /\ IF Named /\ Coded THEN table' = RefreshedScreen /\ count' = 2
                       ELSE UNCHANGED <<table, count>>
  /\ firstFrame' = FALSE /\ changed' = screen /\ resetting' = TRUE
  /\ events' = events + 1
  /\ UNCHANGED <<screen, changes, filling, sampled, slot, refreshes, streamVars, given>>

Frame ==
  /\ stream = "running" /\ ~ResetStream
  /\ firstFrame' = FALSE /\ changed' = screen
  /\ given' = IF resetting THEN given ELSE [of |-> screen, size |-> desired, in |-> format]
  /\ UNCHANGED <<screen, changes, tableVars, streamVars, desired, resetting, events>>

-----------------------------------------------------------------------------
(* The SIP thread.                                                           *)

AnyThread == TRUE   \* mutant: streams are made while the table is being filled
SipIsFree == filling = "no"

\* webrtc_cap_factory_refresh: a new, zeroed table ...
RefreshBegins ==
  /\ SipIsFree /\ refreshes < MaxRefreshes
  /\ refreshes' = refreshes + 1
  /\ filling' = "zeroed"
  /\ table' = <<None, None>> /\ cap' = <<None, None>> /\ count' = 0
  /\ UNCHANGED <<screen, changes, sampled, slot, streamVars, callbackVars, events, given>>

\* ... filled while the capture thread may look at it: the name of the screen and the
\* number of its capabilities, ...
FillNames ==
  /\ filling = "zeroed" /\ filling' = "named"
  /\ sampled' = screen /\ count' = 0
  /\ UNCHANGED <<screen, changes, table, cap, slot, refreshes, streamVars, callbackVars, events, given>>

\* ... and twice populateSupportedCapability: the capability as the capturer has it, ...
FillCopies ==
  /\ filling = "named" /\ count <= 1 /\ filling' = "copied"
  /\ slot' = count + 1 /\ cap' = [cap EXCEPT ![slot'] = sampled]
  /\ UNCHANGED <<screen, changes, table, count, sampled, refreshes, streamVars, callbackVars, events, given>>
\* ... getDesireWH, which writes the first one both times, ...
FillScales ==
  /\ filling = "copied" /\ filling' = "scaled"
  /\ cap' = [cap EXCEPT ![1] = CalculateDesiredWH(sampled)]
  /\ UNCHANGED <<screen, changes, table, count, sampled, slot, refreshes, streamVars, callbackVars, events, given>>
\* ... and the format: I420 first, then RGB32.
FillAdds ==
  /\ filling = "scaled" /\ filling' = "named"
  /\ table' = [table EXCEPT ![slot] = cap[slot]] /\ count' = count + 1
  /\ UNCHANGED <<screen, changes, cap, sampled, slot, refreshes, streamVars, callbackVars, events, given>>

FillEnds ==
  /\ filling = "named" /\ count > 1 /\ filling' = "no"
  /\ sampled' = None /\ slot' = 1
  /\ UNCHANGED <<screen, changes, entryVars, refreshes, streamVars, callbackVars, events, given>>

\* default_param and create_stream, which has no stream without a capturer: that is
\* the end of it until the application shares again.
Create ==
  /\ SipIsFree /\ shared /\ stream = "none"
  /\ \/ stream' = "created" /\ format' = Picked
     \/ stream' = "refused" /\ UNCHANGED format
  /\ UNCHANGED <<screen, changes, tableVars, shared, commands, callbackVars, events, given>>

\* A new callback object, whether or not StartCapture then succeeds.
StartCapturer ==
  /\ stream' \in {"running", "failed"}
  /\ desired' = format /\ firstFrame' = TRUE /\ changed' = None /\ resetting' = FALSE
  /\ UNCHANGED <<screen, changes, tableVars, shared, format, events, given>>
Start == SipIsFree /\ shared /\ stream = "created" /\ StartCapturer /\ UNCHANGED commands
StartAgain ==
  /\ SipIsFree /\ stream = "failed" /\ commands < MaxCommands
  /\ StartCapturer /\ commands' = commands + 1

Stop ==
  /\ SipIsFree /\ stream = "running" /\ commands < MaxCommands
  /\ stream' = "created" /\ commands' = commands + 1
  /\ UNCHANGED <<screen, changes, tableVars, shared, format, callbackVars, events, given>>

\* The application shares its screen, or ceases to.
ShareScreen ==
  /\ ~shared /\ commands < MaxCommands
  /\ shared' = TRUE /\ commands' = commands + 1
  /\ UNCHANGED <<screen, changes, tableVars, stream, format, callbackVars, events, given>>
StopSharing ==
  /\ SipIsFree /\ shared /\ commands < MaxCommands
  /\ shared' = FALSE /\ stream' = "none" /\ commands' = commands + 1
  /\ UNCHANGED <<screen, changes, tableVars, format, callbackVars, events, given>>

\* The stream is destroyed, which stops it first; Create and Start follow.
HandleEvent ==
  /\ SipIsFree /\ events > 0
  /\ events' = events - 1 /\ stream' = "none"
  /\ UNCHANGED <<screen, changes, tableVars, shared, format, commands, callbackVars, given>>

SipStep ==
  \/ FillNames \/ FillCopies \/ FillScales \/ FillAdds \/ FillEnds
  \/ Create \/ Start \/ HandleEvent

-----------------------------------------------------------------------------
Init ==
  /\ screen \in Screens
  /\ table = <<CalculateDesiredWH(screen), screen>> /\ count = 2 /\ cap = table
  /\ filling = "no" /\ sampled = None /\ slot = 1
  /\ shared = FALSE /\ stream = "none" /\ format = None
  /\ desired = None /\ firstFrame = TRUE /\ changed = None /\ resetting = FALSE
  /\ events = 0
  /\ given = [of |-> None, size |-> None, in |-> None]
  /\ changes = 0 /\ refreshes = 0 /\ commands = 0

Next ==
  \/ ScreenChanges
  \/ FrameResets \/ Frame
  \/ RefreshBegins \/ StartAgain \/ Stop \/ ShareScreen \/ StopSharing
  \/ SipStep

\* Frames keep coming, and the SIP thread handles what is there to handle.
Fairness == WF_vars(FrameResets \/ Frame) /\ WF_vars(SipStep)
Spec == Init /\ [][Next]_vars /\ Fairness

-----------------------------------------------------------------------------
(* Properties.                                                               *)

Sizes == Screens \cup {CalculateDesiredWH(s) : s \in Screens}

\* The entry of the screen at every step of a refresh.
EntryTyped ==
  /\ table \in (Sizes \cup {None}) \X (Sizes \cup {None})
  /\ cap \in (Sizes \cup {None}) \X (Sizes \cup {None})
  /\ count \in 0 .. 3 /\ slot \in {1, 2}
  /\ sampled \in Screens \cup {None}
  /\ filling \in {"no", "zeroed", "named", "copied", "scaled"}
  /\ filling \in {"named", "copied", "scaled"} => sampled \in Screens
  /\ filling \in {"copied", "scaled"} =>
       count <= 2 /\ cap[slot] \in Sizes /\ (slot = 2 => count >= 1)
  /\ filling = "no" => count >= 2
  /\ count > 0 => table[1] \in Sizes

\* Every variable has its type; a stream that exists has a size a screen can have.
TypeOK ==
  /\ screen \in Screens /\ EntryTyped
  /\ stream \in {"none", "refused", "created", "running", "failed"}
  /\ format \in Sizes \cup {None}
  /\ stream \in {"created", "running", "failed"} => format \in Sizes
  /\ desired \in Sizes \cup {None} /\ changed \in Screens \cup {None}
  /\ firstFrame \in BOOLEAN /\ resetting \in BOOLEAN /\ shared \in BOOLEAN
  /\ events \in Nat
  /\ given \in [of : Screens \cup {None}, size : Sizes \cup {None}, in : Sizes \cup {None}]
  /\ changes \in 0 .. MaxChanges /\ refreshes \in 0 .. MaxRefreshes
  /\ commands \in 0 .. MaxCommands

\* A frame that OnIncomingCapturedFrame delivers has the size the stream was created
\* with, and is scaled with its proportions: the stream's size is that of this very
\* screen, however the screen and the table changed since default_param read it.
DeliveredInFormat ==
  given.of # None => given.size = given.in /\ given.in = CalculateDesiredWH(given.of)

\* The stream delivers the screen as it is now ...
Served == stream = "running" /\ ~firstFrame /\ ~resetting /\ desired = CalculateDesiredWH(screen)
\* ... or cannot: streams are created in the size of the RGB32 entry, which is that
\* of the screen at the last refresh of the table, unscaled.
RgbOutdated == CapturerIndex = 2 /\ table[2] # CalculateDesiredWH(screen)

\* Once the screen keeps its size, a screen that is shared comes through, however its
\* changes fell between the steps of a refresh.  Not so if there was no capturer or
\* StartCapture failed, for nothing tries again, or if the RGB32 entry is outdated:
\* then the stream is torn down and created again for ever.
ShareCatchesUp == <>[](~shared \/ Served \/ stream \in {"refused", "failed"} \/ RgbOutdated)
=============================================================================
