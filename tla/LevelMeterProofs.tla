-------------------------- MODULE LevelMeterProofs --------------------------
(***************************************************************************)
(* The level meter, for any number of readings, stops and device operations.*)
(***************************************************************************)
EXTENDS LevelMeter, TLAPS

\* A poll in the middle has already posted the next one.
PolledAhead == client \in {"load", "store"} => polls > 0

\* Until somebody calls postStop..., a poll subtracts from what it has checked.
CheckedTimer ==
  stops = 0 =>
    /\ timer >= 0
    /\ client \in {"repost", "load"} => timer > 0
    /\ client = "store" => loaded > 0

\* While the device is being changed the monitor has no message.
MonitorPaused == ticks <= 1 /\ (changing => ticks = 0)

MeterInv == TypeOK /\ PolledAhead /\ MeterNeverStuck /\ CheckedTimer /\ MonitorPaused

LEMMA Sizes ==
  ASSUME MeterAssumption
  PROVE  /\ Decay \in Nat /\ Decay > 0 /\ MaxChecks \in Nat /\ MaxChecks > 0
         /\ MaxReads \in Nat /\ MaxStops \in Nat /\ MaxOps \in Nat
<1>1. Decay \in Nat \ {0} /\ MaxChecks \in Nat \ {0}
  BY DEF MeterAssumption
<1>2. MaxReads \in Nat /\ MaxStops \in Nat /\ MaxOps \in Nat
  BY DEF MeterAssumption
<1> QED
  BY <1>1, <1>2

LEMMA MeterInit == ASSUME MeterAssumption PROVE Init => MeterInv
<1> SUFFICES ASSUME Init PROVE MeterInv
  OBVIOUS
<1>1. TypeOK
  <2>1. timer \in Timers /\ loaded \in Timers
    BY Sizes DEF Init, Timers
  <2>2. checkCount \in 0 .. MaxChecks /\ reads \in 0 .. MaxReads /\ stops \in 0 .. MaxStops
        /\ ops \in 0 .. MaxOps /\ polls \in Nat /\ ticks \in Nat
    BY Sizes DEF Init
  <2> QED
    BY <2>1, <2>2 DEF Init, TypeOK
<1>2. PolledAhead /\ MeterNeverStuck /\ MonitorPaused
  BY DEF Init, PolledAhead, MeterNeverStuck, MonitorPaused
<1>3. CheckedTimer
  BY DEF Init, CheckedTimer
<1> QED
  BY <1>1, <1>2, <1>3 DEF MeterInv

LEMMA MeterTypeNext == ASSUME MeterAssumption, TypeOK, [Next]_vars PROVE TypeOK'
<1> USE Sizes DEF TypeOK, Timers, ReaderGoes, ClientGoes, queued, counts
<1>1. CASE SeeTimer \/ StopVolume \/ Reader
  BY <1>1 DEF SeeTimer, StopVolume, Reader, SetTimer, PostPoll
<1>2. CASE Poll \/ Repost \/ LoadTimer \/ Restart \/ RestartSettings
  BY <1>2 DEF Poll, Repost, LoadTimer, Restart, RestartSettings, GetSettings
<1>3. CASE StoreTimer
  BY <1>3 DEF StoreTimer, Less
<1>4. CASE MonitorCounts \/ MonitorEnds
  <2>1. CASE MonitorCounts
    BY <2>1 DEF MonitorCounts
  <2>2. CASE MonitorEnds
    BY <2>2 DEF MonitorEnds, MonitorPolls
  <2> QED
    BY <1>4, <2>1, <2>2
<1>5. CASE PreDeviceOperation \/ PreDeviceOperationEnds
  <2>1. CASE PreDeviceOperation
    BY <2>1 DEF PreDeviceOperation, PreStep, ClearsPolls
  <2>2. CASE PreDeviceOperationEnds
    BY <2>2 DEF PreDeviceOperationEnds, PreStep, ClearsPolls, TicksAfterPre
  <2> QED
    BY <1>5, <2>1, <2>2
<1>6. CASE PostDeviceOperation \/ ResetSavedState
  <2>1. CASE PostDeviceOperation
    <3>1. checkCount' \in 0 .. MaxChecks /\ ticks' \in Nat
      BY <2>1 DEF PostDeviceOperation
    <3>2. changing' \in BOOLEAN /\ UNCHANGED <<timer, polls, reader, client, loaded, reads, stops, ops>>
      BY <2>1 DEF PostDeviceOperation
    <3> QED
      BY <3>1, <3>2
  <2>2. CASE ResetSavedState
    BY <2>2 DEF ResetSavedState
  <2> QED
    BY <1>6, <2>1, <2>2
<1>7. CASE UNCHANGED vars
  BY <1>7 DEF vars
<1> QED
  BY <1>1, <1>2, <1>3, <1>4, <1>5, <1>6, <1>7 DEF Next, Client

\* One step keeps the meter alive, the timer above what is subtracted from it, and
\* the monitor alone.
LEMMA MeterNext == ASSUME MeterAssumption, MeterInv, [Next]_vars PROVE MeterInv'
<1> USE Sizes DEF ReaderGoes, ClientGoes, queued, counts,
            PolledAhead, MeterNeverStuck, CheckedTimer, MonitorPaused
<1>0. TypeOK /\ TypeOK' /\ PolledAhead /\ MeterNeverStuck /\ CheckedTimer /\ MonitorPaused
  BY MeterTypeNext DEF MeterInv
<1> SUFFICES PolledAhead' /\ MeterNeverStuck' /\ CheckedTimer' /\ MonitorPaused'
  BY <1>0 DEF MeterInv
<1>1. CASE SeeTimer \/ StopVolume \/ Reader
  <2>1. CASE SeeTimer
    BY <1>0, <2>1 DEF SeeTimer, TypeOK, Timers
  <2>2. CASE StopVolume
    BY <1>0, <2>2 DEF StopVolume, TypeOK, Timers
  <2>3. CASE SetTimer
    BY <1>0, <2>3 DEF SetTimer, TypeOK, Timers
  <2>4. CASE PostPoll
    BY <1>0, <2>4 DEF PostPoll, TypeOK, Timers
  <2> QED
    BY <1>1, <2>1, <2>2, <2>3, <2>4 DEF Reader
<1>2. CASE Poll
  BY <1>0, <1>2 DEF Poll, GetSettings, TypeOK, Timers
<1>3. CASE Repost
  BY <1>0, <1>3 DEF Repost, TypeOK, Timers
<1>4. CASE LoadTimer
  BY <1>0, <1>4 DEF LoadTimer, TypeOK, Timers
<1>5. CASE StoreTimer
  BY <1>0, <1>5 DEF StoreTimer, Less, TypeOK, Timers
<1>6. CASE MonitorCounts
  BY <1>0, <1>6 DEF MonitorCounts, TypeOK, Timers
<1>7. CASE MonitorEnds
  BY <1>0, <1>7 DEF MonitorEnds, MonitorPolls, TypeOK, Timers
<1>8. CASE Restart
  BY <1>0, <1>8 DEF Restart, TypeOK, Timers
<1>9. CASE RestartSettings
  BY <1>0, <1>9 DEF RestartSettings, GetSettings, TypeOK, Timers
<1>10. CASE PreDeviceOperation
  BY <1>0, <1>10 DEF PreDeviceOperation, PreStep, ClearsPolls, TypeOK, Timers
<1>11. CASE PreDeviceOperationEnds
  BY <1>0, <1>11 DEF PreDeviceOperationEnds, PreStep, ClearsPolls, TicksAfterPre, TypeOK, Timers
<1>12. CASE PostDeviceOperation
  BY <1>0, <1>12 DEF PostDeviceOperation, TypeOK, Timers
<1>13. CASE ResetSavedState
  BY <1>0, <1>13 DEF ResetSavedState, TypeOK, Timers
<1>14. CASE UNCHANGED vars
  BY <1>0, <1>14 DEF vars
<1> QED
  BY <1>1, <1>2, <1>3, <1>4, <1>5, <1>6, <1>7, <1>8, <1>9, <1>10, <1>11, <1>12, <1>13, <1>14
     DEF Next, Client

LEMMA MeterAlways == Spec => []MeterInv
<1>1. Init => MeterInv
  BY MeterInit, MeterAssumption
<1>2. MeterInv /\ [Next]_vars => MeterInv'
  BY MeterNext, MeterAssumption
<1> QED
  BY <1>1, <1>2, PTL DEF Spec

\* Every variable keeps its type; the polls and ticks on their way are counted, and
\* never below zero.
THEOREM MeterTypes == Spec => []TypeOK
<1>1. MeterInv => TypeOK
  BY DEF MeterInv
<1> QED
  BY <1>1, MeterAlways, PTL

\* A running timer always has a poll to come, so readings never stop for good.
THEOREM NeverStuck == Spec => []MeterNeverStuck
<1>1. MeterInv => MeterNeverStuck
  BY DEF MeterInv
<1> QED
  BY <1>1, MeterAlways, PTL

\* Only postStop... can make the decay timer negative.
THEOREM OverrunNeedsStop == Spec => []OnlyStopsOverrun
<1>1. MeterInv => OnlyStopsOverrun
  BY DEF MeterInv, CheckedTimer, OnlyStopsOverrun
<1> QED
  BY <1>1, MeterAlways, PTL

\* The count towards a dead-device report never runs twice at a time.
THEOREM MonitorAlone == Spec => []OneMonitor
<1>1. MeterInv => OneMonitor
  BY DEF MeterInv, MonitorPaused, OneMonitor
<1> QED
  BY <1>1, MeterAlways, PTL

-----------------------------------------------------------------------------
(* Polling does not feed itself: the safety half of PollingEnds.               *)

\* A chain of polls is a poll in the queue, or one that a handler, the reader or the
\* monitor has yet to post.
Chains ==
  polls + ticks
  + (IF client \in {"repost", "restart", "settings", "pre"} THEN 1 ELSE 0)
  + (IF reader \in {"set", "post"} THEN 1 ELSE 0)
  + (IF changing THEN 1 ELSE 0)

\* However many polls are on their way, each was started by a reading or a device
\* operation of its own: polls do not multiply.
PollsAreAskedFor == polls <= reads + ops

\* A poll is about to take a unit from a timer that had none.
Overrun == client = "store" /\ loaded <= 0

\* What the SIP thread and a reader still have to do.  The timer counts for what it
\* will be when the poll that runs has stored it.
Upcoming == IF client = "store" /\ loaded > timer THEN loaded ELSE timer
FullTimer == 4 * (Decay + 1)
CountLeft == FullTimer + MaxChecks + 6
ReaderWork == CASE reader = "set" -> FullTimer + 3 [] reader = "post" -> 2 [] OTHER -> 0
ClientWork ==
  CASE client = "pre"      -> CountLeft + MaxChecks + 9
    [] client = "restart"  -> FullTimer + 5
    [] client = "settings" -> 4
    [] client = "load"     -> 1
    [] client = "store"    -> 0
    [] OTHER               -> 3
Work ==
  4 * (Upcoming + 1) + polls + (MaxChecks - checkCount) + ReaderWork + ClientWork
  + (IF ticks > 0 THEN CountLeft ELSE 0)
  + (IF changing THEN CountLeft + MaxChecks + 1 ELSE 0)

\* Every step of the two threads leaves less to do, but an overrun.
DiesDown == (Reader \/ Client) /\ ~Overrun => Work \in Nat /\ Work' \in Nat /\ Work' < Work

LEMMA ChainsNext ==
  ASSUME MeterAssumption, MeterInv, Chains <= reads + ops, [Next]_vars
  PROVE  Chains' <= reads' + ops'
<1> USE Sizes DEF ReaderGoes, ClientGoes, queued, counts, Chains
<1>0. /\ polls \in Nat /\ ticks \in Nat /\ reads \in Nat /\ ops \in Nat
      /\ changing \in BOOLEAN
  BY DEF MeterInv, TypeOK
<1>1. CASE SeeTimer \/ StopVolume \/ Reader
  BY <1>0, <1>1 DEF SeeTimer, StopVolume, Reader, SetTimer, PostPoll
<1>2. CASE Poll \/ Repost \/ LoadTimer \/ StoreTimer
  BY <1>0, <1>2 DEF Poll, Repost, LoadTimer, StoreTimer, GetSettings
<1>3. CASE MonitorCounts \/ MonitorEnds \/ Restart \/ RestartSettings
  BY <1>0, <1>3 DEF MonitorCounts, MonitorEnds, MonitorPolls, Restart, RestartSettings, GetSettings
<1>4. CASE PreDeviceOperation
  BY <1>0, <1>4 DEF PreDeviceOperation, PreStep, ClearsPolls
<1>5. CASE PreDeviceOperationEnds
  BY <1>0, <1>5 DEF PreDeviceOperationEnds, PreStep, ClearsPolls, TicksAfterPre
<1>6. CASE PostDeviceOperation \/ ResetSavedState
  BY <1>0, <1>6 DEF PostDeviceOperation, ResetSavedState
<1>7. CASE UNCHANGED vars
  BY <1>7 DEF vars
<1> QED
  BY <1>1, <1>2, <1>3, <1>4, <1>5, <1>6, <1>7 DEF Next, Client

\* A reading posts one poll, a device operation at most one through the monitor, and a
\* poll one in its place: the queue never holds more polls than there were readings
\* and operations, whatever the interleaving.
THEOREM PollsBounded == Spec => []PollsAreAskedFor
<1>1. Init => Chains <= reads + ops
  BY DEF Init, Chains
<1>2. MeterInv /\ (Chains <= reads + ops) /\ [Next]_vars => (Chains <= reads + ops)'
  BY ChainsNext, MeterAssumption
<1>3. MeterInv /\ (Chains <= reads + ops) => PollsAreAskedFor
  <2> SUFFICES ASSUME MeterInv, Chains <= reads + ops PROVE polls <= reads + ops
    BY DEF PollsAreAskedFor
  <2>1. polls \in Nat /\ ticks \in Nat /\ reads \in Nat /\ ops \in Nat
    BY DEF MeterInv, TypeOK
  <2> QED
    BY <2>1 DEF Chains
<1> QED
  BY <1>1, <1>2, <1>3, MeterAlways, PTL DEF Spec

\* The amount of work is a number.
LEMMA WorkNat == ASSUME MeterAssumption, TypeOK PROVE Work \in Nat
<1>1. Upcoming \in Timers
  BY DEF TypeOK, Upcoming
<1>2. 4 * (Upcoming + 1) \in Nat
  BY <1>1, Sizes DEF Timers
<1>3. FullTimer \in Nat /\ CountLeft \in Nat
  BY Sizes DEF FullTimer, CountLeft
<1>4. ReaderWork \in Nat
  BY <1>3 DEF ReaderWork
<1>5. ClientWork \in Nat
  BY <1>3, Sizes DEF ClientWork
<1>6. MaxChecks - checkCount \in Nat /\ polls \in Nat
  BY Sizes DEF TypeOK
<1> HIDE DEF Upcoming, FullTimer, CountLeft, ReaderWork, ClientWork
<1> QED
  BY <1>2, <1>3, <1>4, <1>5, <1>6, Sizes DEF Work

LEMMA WorkShrinks ==
  ASSUME MeterAssumption, MeterInv, MeterInv', Reader \/ Client, ~Overrun
  PROVE  Work' < Work
<1> USE Sizes DEF ReaderGoes, ClientGoes, queued, counts
<1>0. /\ timer \in Int /\ -1 <= timer /\ timer <= Decay
      /\ loaded \in Int /\ -1 <= loaded /\ loaded <= Decay
      /\ polls \in Nat /\ ticks \in {0, 1} /\ (changing => ticks = 0)
      /\ checkCount \in 0 .. MaxChecks /\ changing \in BOOLEAN
  BY DEF MeterInv, MonitorPaused, TypeOK, Timers
<1>1. CASE SetTimer
  BY <1>0, <1>1 DEF SetTimer, Work, Upcoming, FullTimer, CountLeft, ReaderWork, ClientWork
<1>2. CASE PostPoll
  BY <1>0, <1>2 DEF PostPoll, Work, Upcoming, FullTimer, CountLeft, ReaderWork, ClientWork
<1>3. CASE Poll
  BY <1>0, <1>3 DEF Poll, GetSettings, Work, Upcoming, FullTimer, CountLeft, ReaderWork, ClientWork
<1>4. CASE Repost
  BY <1>0, <1>4 DEF Repost, Work, Upcoming, FullTimer, CountLeft, ReaderWork, ClientWork
<1>5. CASE LoadTimer
  BY <1>0, <1>5 DEF LoadTimer, Work, Upcoming, FullTimer, CountLeft, ReaderWork, ClientWork
<1>6. CASE StoreTimer
  BY <1>0, <1>6 DEF StoreTimer, Less, Overrun, Work, Upcoming, FullTimer, CountLeft, ReaderWork, ClientWork
<1>7. CASE MonitorCounts
  BY <1>0, <1>7 DEF MonitorCounts, Work, Upcoming, FullTimer, CountLeft, ReaderWork, ClientWork
<1>8. CASE MonitorEnds
  BY <1>0, <1>8 DEF MonitorEnds, MonitorPolls, Work, Upcoming, FullTimer, CountLeft, ReaderWork, ClientWork
<1>9. CASE Restart
  BY <1>0, <1>9 DEF Restart, Work, Upcoming, FullTimer, CountLeft, ReaderWork, ClientWork
<1>10. CASE RestartSettings
  BY <1>0, <1>10 DEF RestartSettings, GetSettings, Work, Upcoming, FullTimer, CountLeft, ReaderWork, ClientWork
<1>11. CASE PreDeviceOperationEnds
  BY <1>0, <1>11
  DEF PreDeviceOperationEnds, PreStep, ClearsPolls, TicksAfterPre,
      Work, Upcoming, FullTimer, CountLeft, ReaderWork, ClientWork
<1>12. CASE PostDeviceOperation
  BY <1>0, <1>12 DEF PostDeviceOperation, Work, Upcoming, FullTimer, CountLeft, ReaderWork, ClientWork
<1> QED
  BY <1>1, <1>2, <1>3, <1>4, <1>5, <1>6, <1>7, <1>8, <1>9, <1>10, <1>11, <1>12
     DEF Reader, Client

\* Left alone, the two threads run out of work after a bounded number of steps, for any
\* decay and any number of polls on their way, unless a poll takes a unit from a timer
\* that has none; and that needs a stop (PollingEnds then only needs that they run).
THEOREM PollingDiesDown == Spec => [][DiesDown]_vars /\ [](Overrun => stops > 0)
<1> DEFINE Counted == MeterInv /\ Work \in Nat
<1>1. ASSUME Counted, Counted', [Next]_vars PROVE [DiesDown]_vars
  BY <1>1, WorkShrinks, MeterAssumption DEF DiesDown
<1>2. MeterInv => (Overrun => stops > 0)
  BY DEF MeterInv, TypeOK, CheckedTimer, Overrun, Timers
<1>3. MeterInv => Counted
  BY WorkNat, MeterAssumption DEF MeterInv
<1> QED
  BY <1>1, <1>2, <1>3, MeterAlways, PTL DEF Spec
=============================================================================
