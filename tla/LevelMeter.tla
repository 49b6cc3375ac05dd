----------------------------- MODULE LevelMeter -----------------------------
(***************************************************************************)
(* The level meter of one audio direction of skinnySipManager (the speaker  *)
(* and the microphone have the same code).  A reader on another thread       *)
(* (postGet...VolLvl) starts polling when the decay timer is zero; each      *)
(* poll on the SIP thread posts the next one and takes a unit off the        *)
(* timer, which no lock protects.  Changing the audio device clears the       *)
(* polls, and starts the once-a-second monitor that may report a dead device.*)
(***************************************************************************)
EXTENDS Integers

CONSTANTS
  Decay,     (* polls of one reading: DECAY_POLL_INTERVAL / POLL_INTERVAL   *)
  MaxChecks, (* MAX_TIME_LEVEL_DETECTION                                    *)
  MaxReads,  (* bound: readings                                             *)
  MaxStops,  (* bound: postStop...Volume calls                              *)
  MaxOps     (* bound: device operations                                    *)

ASSUME MeterAssumption ==
  /\ {Decay, MaxChecks} \subseteq Nat \ {0}
  /\ {MaxReads, MaxStops, MaxOps} \subseteq Nat

VARIABLES
  timer,      \* decay timer in units of POLL_INTERVAL; -1 stands for any negative value
  polls,      \* MSG_START_..._MONITOR messages in the SIP thread's queue
  ticks,      \* MSG_MONITOR_LEVEL messages in it
  checkCount, \* checkCount_
  reader,     \* the reading thread, inside postGet...VolLvl
  client,     \* the SIP thread, inside a handler
  changing,   \* aud_dev_change_inprogress_
  loaded,     \* the value timer -= POLL_INTERVAL has read
  reads, stops, ops  \* calls so far

queued == <<polls, ticks>>
counts == <<reads, stops, ops>>
vars == <<timer, queued, checkCount, reader, client, changing, loaded, counts>>

Timers == -1 .. Decay
\* A negative timer stays one until somebody writes it.
Less(t) == IF t = -1 THEN -1 ELSE t - 1

-----------------------------------------------------------------------------
(* The reading thread.  It holds no lock and is preempted between accesses.  *)

ReaderGoes(from, to) == reader = from /\ reader' = to

SeeTimer ==
  /\ timer = 0 /\ reads < MaxReads
  /\ ReaderGoes("out", "set")
  /\ reads' = reads + 1
  /\ UNCHANGED <<timer, queued, checkCount, client, changing, loaded, stops, ops>>

SetTimer ==
  /\ ReaderGoes("set", "post")
  /\ timer' = Decay
  /\ UNCHANGED <<queued, checkCount, client, changing, loaded, counts>>

PostPoll ==
  /\ ReaderGoes("post", "out")
  /\ polls' = polls + 1
  /\ UNCHANGED <<timer, ticks, checkCount, client, changing, loaded, counts>>

\* postStopSpeakerVolume, postStopMicVolume
StopVolume ==
  /\ reader = "out" /\ stops < MaxStops
  /\ timer' = 0
  /\ stops' = stops + 1
  /\ UNCHANGED <<queued, checkCount, reader, client, changing, loaded, reads, ops>>

-----------------------------------------------------------------------------
(* The SIP thread.                                                           *)

ClientGoes(from, to) == client = from /\ client' = to

PollsUnchecked == client' = "repost"   \* mutant
\* getSpeakerSettings, getMicSettings: nothing unless the timer runs.
GetSettings == client' = IF timer # 0 THEN "repost" ELSE "idle"

Poll ==
  /\ client = "idle" /\ polls > 0
  /\ polls' = polls - 1
  /\ GetSettings
  /\ UNCHANGED <<timer, ticks, checkCount, reader, changing, loaded, counts>>

Repost ==
  /\ ClientGoes("repost", "load")
  /\ polls' = polls + 1
  /\ UNCHANGED <<timer, ticks, checkCount, reader, changing, loaded, counts>>

\* timer -= POLL_INTERVAL: a load and a store.
LoadTimer ==
  /\ ClientGoes("load", "store")
  /\ loaded' = timer
  /\ UNCHANGED <<timer, queued, checkCount, reader, changing, counts>>

StoreSame ==   \* mutant: the timer does not decay
  /\ ClientGoes("store", "idle")
  /\ timer' = loaded
  /\ UNCHANGED <<queued, checkCount, reader, changing, loaded, counts>>
StoreTimer ==
  /\ ClientGoes("store", "idle")
  /\ timer' = Less(loaded)
  /\ UNCHANGED <<queued, checkCount, reader, changing, loaded, counts>>

\* At the end of its count the monitor polls once more, if nobody does.
MonitorPolls == timer = 0

CountsPastTheEnd ==   \* mutant
  /\ client = "idle" /\ ticks > 0 /\ checkCount <= MaxChecks
  /\ checkCount' = checkCount + 1
  /\ UNCHANGED <<timer, queued, reader, client, changing, loaded, counts>>
\* monitorSpeakerMic, on MSG_MONITOR_LEVEL.
MonitorCounts ==
  /\ client = "idle" /\ ticks > 0 /\ checkCount # MaxChecks
  /\ checkCount' = checkCount + 1
  /\ UNCHANGED <<timer, queued, reader, client, changing, loaded, counts>>

MonitorEnds ==
  /\ client = "idle" /\ ticks > 0 /\ checkCount = MaxChecks
  /\ ticks' = ticks - 1
  /\ checkCount' = 0
  /\ client' = IF MonitorPolls THEN "restart" ELSE "idle"
  /\ UNCHANGED <<timer, polls, reader, changing, loaded, counts>>

Restart ==
  /\ ClientGoes("restart", "settings")
  /\ timer' = Decay
  /\ UNCHANGED <<queued, checkCount, reader, changing, loaded, counts>>
RestartSettings ==
  /\ client = "settings"
  /\ GetSettings
  /\ UNCHANGED <<timer, queued, checkCount, reader, changing, loaded, counts>>

ClearedLast(step) == step = 2   \* mutant
\* platformPreDeviceOperation: the polls are cleared first, then the timer is.
ClearsPolls(step) == step = 1
PreStep(step) ==
  IF ClearsPolls(step) THEN polls' = 0 /\ UNCHANGED timer ELSE timer' = 0 /\ UNCHANGED polls

PreDeviceOperation ==
  /\ ClientGoes("idle", "pre") /\ ~changing /\ ops < MaxOps
  /\ PreStep(1)
  /\ ops' = ops + 1
  /\ UNCHANGED <<ticks, checkCount, reader, changing, loaded, reads, stops>>

TicksKept == ticks   \* mutant
\* ... and the monitor's message goes too.
TicksAfterPre == 0
PreDeviceOperationEnds ==
  /\ ClientGoes("pre", "idle")
  /\ PreStep(2)
  /\ ticks' = TicksAfterPre
  /\ changing' = TRUE
  /\ UNCHANGED <<checkCount, reader, loaded, counts>>

\* platformPostDeviceOperation, and the monitorSpeakerMic it calls.
PostDeviceOperation ==
  /\ client = "idle" /\ changing
  /\ changing' = FALSE
  /\ checkCount' = 1
  /\ ticks' = ticks + 1
  /\ UNCHANGED <<timer, polls, reader, client, loaded, counts>>

\* resetSavedSpeakerState, resetSavedMicrophoneState: another device was selected.
ResetSavedState ==
  /\ client = "idle" /\ ops < MaxOps
  /\ timer' = 0
  /\ ops' = ops + 1
  /\ UNCHANGED <<queued, checkCount, reader, client, changing, loaded, reads, stops>>

-----------------------------------------------------------------------------
Init ==
  /\ timer = 0 /\ polls = 0 /\ ticks = 0 /\ checkCount = 0
  /\ reader = "out" /\ client = "idle" /\ changing = FALSE
  /\ loaded = 0
  /\ reads = 0 /\ stops = 0 /\ ops = 0

Reader == SetTimer \/ PostPoll
Client == \/ Poll \/ Repost \/ LoadTimer \/ StoreTimer
          \/ MonitorCounts \/ MonitorEnds \/ Restart \/ RestartSettings
          \/ PreDeviceOperationEnds \/ PostDeviceOperation

Next == SeeTimer \/ StopVolume \/ Reader \/ Client \/ PreDeviceOperation \/ ResetSavedState

\* Both threads run; nobody has to read, stop or change a device.  Delayed messages are
\* handled when they are due, so no amount of polls keeps the monitor from its turn.
Fairness ==
  WF_vars(Reader) /\ WF_vars(Client) /\ SF_vars(MonitorCounts \/ MonitorEnds)
Spec == Init /\ [][Next]_vars /\ Fairness

-----------------------------------------------------------------------------
(* Properties.                                                               *)

\* Every variable holds a value of its kind.
TypeOK ==
  /\ timer \in Timers /\ loaded \in Timers
  /\ polls \in Nat /\ ticks \in Nat
  /\ checkCount \in 0 .. MaxChecks
  /\ reader \in {"out", "set", "post"}
  /\ client \in {"idle", "repost", "load", "store", "restart", "settings", "pre"}
  /\ changing \in BOOLEAN
  /\ reads \in 0 .. MaxReads /\ stops \in 0 .. MaxStops /\ ops \in 0 .. MaxOps

\* postGet...VolLvl posts a poll only when the timer is zero.  So a timer that is
\* not zero with no poll to come would stop the meter for good: the level the
\* application shows would never change again.  It never happens, whatever the
\* reader, postStop... and the device operations do between each other's accesses.
MeterNeverStuck ==
  \/ timer = 0
  \/ polls > 0
  \/ reader = "post"
  \/ client \in {"repost", "settings", "pre"}

\* A stop between a poll's check of the timer and its subtraction leaves the timer
\* negative, and polling then goes on for ever.  Only a stop can: readings, device
\* operations and the monitor never take the timer past zero.
OnlyStopsOverrun == stops = 0 => timer >= 0

\* So polling ends by itself when the readings do, unless a stop has made the timer
\* negative for good, and the monitor's count ends in any case.
PollingEnds ==
  /\ <>[](timer = 0 /\ polls = 0) \/ <>[](timer = -1)
  /\ <>[](ticks = 0)

\* However the device operations and the ticks interleave, at most one count towards
\* the dead-device report is running.
OneMonitor == ticks <= 1
=============================================================================
