------------------------- MODULE DeviceMonitorProofs -------------------------
(***************************************************************************)
(* For any set of devices and any number of changes: the monitor rests half  *)
(* right, overlapping changes included, and right as long as changes of      *)
(* opposite directions do not overlap.                                       *)
(***************************************************************************)
EXTENDS DeviceMonitor, SequenceTheorems, FiniteSetTheorems, TLAPS

\* A change that no enumeration shows yet still has its signal to come, a handler
\* about to arm itself, or a message that will look again after it shows.
Covered(ch) ==
  \/ ch \in signals
  \/ client = "rearm"
  \/ \E i \in 1 .. Len(queue) : queue[i].kind = "soon" \/ ch.id \in queue[i].waits

\* What rests, and what it rests on.
RestInv ==
  /\ RestsHalfRight
  /\ \A ch \in hidden : Covered(ch)
  /\ client = "notify" => queue # <<>>

\* The handler knows which device it is about.
TypeInv == TypeOK /\ (client # "idle" => found \in Devices)

MonitorInv == TypeInv /\ RestInv

\* A message due in 150 ms goes in behind the k messages due before it; those it goes
\* in front of are due in a second.
Inserted(k) ==
  /\ queue' \in Seq(Message) /\ Len(queue') = Len(queue) + 1
  /\ \A i \in 1 .. k : queue'[i] = queue[i]
  /\ queue'[k + 1] = Soon
  /\ \A i \in k + 2 .. Len(queue) + 1 : queue'[i] = queue[i - 1]
  /\ \A i \in k + 1 .. Len(queue) : queue[i].kind = "late"

LEMMA PostSoonInserts ==
  ASSUME queue \in Seq(Message), PostSoon(queue)
  PROVE  \E k \in 0 .. Len(queue) : Inserted(k)
<1>1. PICK k \in 0 .. Len(queue) :
        /\ queue' = SubSeq(queue, 1, k) \o <<Soon>> \o SubSeq(queue, k + 1, Len(queue))
        /\ \A i \in k + 1 .. Len(queue) : queue[i].kind = "late"
  BY DEF PostSoon
<1> DEFINE a == SubSeq(queue, 1, k)
           b == SubSeq(queue, k + 1, Len(queue))
<1>2. /\ \A j \in 1 .. Len(queue) : queue[j] \in Message
      /\ Len(queue) \in Nat /\ k \in Int
  OBVIOUS
<1>3. /\ a \in Seq(Message) /\ Len(a) = k
      /\ \A j \in 1 .. k : a[j] = queue[j]
  <2>1. \A j \in 1 .. k : queue[j] \in Message
    BY <1>2
  <2>2. 1 \in Int /\ k \in Int
    BY <1>2
  <2>3. /\ a \in Seq(Message) /\ Len(a) = IF 1 <= k THEN k - 1 + 1 ELSE 0
        /\ \A j \in 1 .. k - 1 + 1 : a[j] = queue[1 + j - 1]
    BY ONLY <2>1, <2>2, SubSeqProperties
  <2> HIDE DEF a
  <2> QED
    BY <2>3, <1>2
<1>4. /\ b \in Seq(Message) /\ Len(b) = Len(queue) - k
      /\ \A j \in 1 .. Len(queue) - k : b[j] = queue[k + j]
  <2>1. \A j \in k + 1 .. Len(queue) : queue[j] \in Message
    BY <1>2
  <2>2. k + 1 \in Int /\ Len(queue) \in Int
    BY <1>2
  <2>3. /\ b \in Seq(Message)
        /\ Len(b) = IF k + 1 <= Len(queue) THEN Len(queue) - (k + 1) + 1 ELSE 0
        /\ \A j \in 1 .. Len(queue) - (k + 1) + 1 : b[j] = queue[(k + 1) + j - 1]
    BY ONLY <2>1, <2>2, SubSeqProperties
  <2> HIDE DEF b
  <2> QED
    BY <2>3, <1>2
<1>5. Soon \in Message
  BY DEF Soon, Message
<1>6. <<Soon>> \in Seq(Message) /\ Len(<<Soon>>) = 1 /\ <<Soon>>[1] = Soon
  BY <1>5
<1> DEFINE s == a \o <<Soon>>
<1>7. /\ s \in Seq(Message) /\ Len(s) = k + 1
      /\ \A j \in 1 .. k + 1 : s[j] = IF j <= k THEN a[j] ELSE Soon
  <2>1. /\ s \in Seq(Message) /\ Len(s) = Len(a) + Len(<<Soon>>)
        /\ \A j \in 1 .. Len(a) + Len(<<Soon>>) :
             s[j] = IF j <= Len(a) THEN a[j] ELSE <<Soon>>[j - Len(a)]
    BY ONLY <1>3, <1>6, ConcatProperties
  <2> HIDE DEF a, s
  <2> QED
    BY <2>1, <1>2, <1>3, <1>6
<1>8. /\ queue' \in Seq(Message) /\ Len(queue') = Len(queue) + 1
      /\ \A i \in 1 .. Len(queue) + 1 : queue'[i] = IF i <= k + 1 THEN s[i] ELSE b[i - (k + 1)]
  <2>1. queue' = s \o b
    BY <1>1
  <2>2. /\ s \o b \in Seq(Message)
        /\ Len(s \o b) = Len(s) + Len(b)
        /\ \A j \in 1 .. Len(s) + Len(b) :
             (s \o b)[j] = IF j <= Len(s) THEN s[j] ELSE b[j - Len(s)]
    BY ONLY <1>4, <1>7, ConcatProperties
  <2> HIDE DEF s, b
  <2> QED
    BY <2>1, <2>2, <1>2, <1>4, <1>7
<1> HIDE DEF a, b, s
<1>9. ASSUME NEW i \in 1 .. k PROVE queue'[i] = queue[i]
  <2>1. i \in 1 .. Len(queue) + 1 /\ i <= k + 1 /\ i \in 1 .. k + 1 /\ i <= k
    BY <1>2
  <2> QED
    BY <1>3, <1>7, <1>8, <2>1
<1>10. queue'[k + 1] = Soon
  <2>1. k + 1 \in 1 .. Len(queue) + 1 /\ k + 1 \in 1 .. k + 1 /\ ~(k + 1 <= k)
    BY <1>2
  <2> QED
    BY <1>7, <1>8, <2>1
<1>11. ASSUME NEW i \in k + 2 .. Len(queue) + 1 PROVE queue'[i] = queue[i - 1]
  <2>1. i \in 1 .. Len(queue) + 1 /\ ~(i <= k + 1) /\ i - (k + 1) \in 1 .. Len(queue) - k
    BY <1>2
  <2>2. k + (i - (k + 1)) = i - 1
    BY <1>2
  <2>3. queue'[i] = b[i - (k + 1)]
    BY <1>8, <2>1
  <2>4. b[i - (k + 1)] = queue[k + (i - (k + 1))]
    BY <1>4, <2>1
  <2> QED
    BY <2>2, <2>3, <2>4
<1>12. Inserted(k)
  BY <1>1, <1>8, <1>9, <1>10, <1>11 DEF Inserted
<1> QED
  BY <1>12

\* The message that was posted will look again.
LEMMA PostSoonAdds ==
  ASSUME queue \in Seq(Message), PostSoon(queue)
  PROVE  /\ queue' \in Seq(Message) /\ queue' # <<>>
         /\ \E i \in 1 .. Len(queue') : queue'[i].kind = "soon"
<1>1. PICK k \in 0 .. Len(queue) : Inserted(k)
  BY PostSoonInserts
<1>2. queue' \in Seq(Message) /\ Len(queue) \in Nat /\ k \in Nat
  BY <1>1 DEF Inserted
<1>3. k + 1 \in 1 .. Len(queue') /\ queue'[k + 1].kind = "soon"
  BY <1>1, <1>2 DEF Inserted, Soon
<1>4. queue' # <<>>
  BY <1>2, <1>3
<1> QED
  BY <1>2, <1>3, <1>4

\* After the first message leaves, the others still cover what they covered.
LEMMA TailCovers ==
  ASSUME TypeOK, queue # <<>>, NEW ch, NEW i \in 1 .. Len(queue), i # 1,
         queue[i].kind = "soon" \/ ch.id \in queue[i].waits
  PROVE  \E j \in 1 .. Len(Tail(queue)) :
           Tail(queue)[j].kind = "soon" \/ ch.id \in Tail(queue)[j].waits
<1>1. /\ Len(Tail(queue)) = Len(queue) - 1 /\ Len(queue) \in Nat
      /\ \A j \in 1 .. Len(Tail(queue)) : Tail(queue)[j] = queue[j + 1]
  BY HeadTailProperties DEF TypeOK
<1>2. i - 1 \in 1 .. Len(Tail(queue)) /\ Tail(queue)[i - 1] = queue[i]
  BY <1>1
<1> QED
  BY <1>2

LEMMA MonitorInit == ASSUME DeviceAssumption PROVE Init => MonitorInv
<1> SUFFICES ASSUME Init PROVE MonitorInv
  OBVIOUS
<1>1. queue \in Seq(Message) /\ queue # <<>>
  BY DEF Init, Message
<1>2. TypeOK
  <2>1. overlapped \in BOOLEAN
    BY DEF Init
  <2> QED
    BY <1>1, <2>1 DEF Init, TypeOK, DeviceAssumption, Actions
<1>3. RestInv
  BY <1>1 DEF Init, RestInv, RestsHalfRight, Quiet
<1> QED
  BY <1>2, <1>3 DEF MonitorInv, TypeInv, Init

LEMMA TypeNext == ASSUME DeviceAssumption, TypeInv, [Next]_vars PROVE TypeInv'
<1> USE DEF TypeInv, TypeOK, machineVars, clientVars
<1>1. ASSUME NEW d \in Devices, NEW action \in Actions, MachineChange(d, action) PROVE TypeInv'
  <2>1. [id |-> changes + 1, dev |-> d, action |-> action] \in Change /\ changes' \in 0 .. MaxChanges
    BY <1>1 DEF MachineChange, Change, DeviceAssumption
  <2> QED
    BY <1>1, <2>1 DEF MachineChange
<1>2. ASSUME NEW ch \in hidden, Appear(ch) PROVE TypeInv'
  <2>1. ch.dev \in Devices
    BY DEF Change
  <2> QED
    BY <1>2, <2>1 DEF Appear
<1>3. ASSUME NEW ch \in signals, OnDevicesChange(ch) PROVE TypeInv'
  <2>1. ch.action \in Actions
    BY DEF Change
  <2>2. queue' \in Seq(Message)
    BY <1>3, PostSoonAdds DEF OnDevicesChange
  <2> QED
    BY <1>3, <2>1, <2>2 DEF OnDevicesChange
<1>4. CASE GetPlatformDevices
  <2>1. queue' \in Seq(Message)
    BY <1>4 DEF GetPlatformDevices, Due
  <2> QED
    BY <1>4, <2>1 DEF GetPlatformDevices
<1>5. CASE FoundDevice
  <2>1. queue' \in Seq(Message)
    BY <1>5 DEF FoundDevice, Due
  <2>2. PICK d \in Differing(devAction) : FindAndSet(d)
    BY <1>5 DEF FoundDevice, FirstType
  <2>3. d \in Devices
    BY <2>2 DEF Differing
  <2> QED
    BY <1>5, <2>1, <2>2, <2>3 DEF FoundDevice, FindAndSet
<1>6. CASE NothingFound
  <2>1. Late \in Message
    BY DEF Late, Message, Ids, Change
  <2>2. Tail(queue) \in Seq(Message)
    BY <1>6 DEF NothingFound, Due
  <2>3. queue' \in Seq(Message)
    BY <1>6, <2>1, <2>2 DEF NothingFound, Retry
  <2> QED
    BY <1>6, <2>3 DEF NothingFound
<1>7. CASE Rearm
  <2>1. queue' \in Seq(Message)
    BY <1>7, PostSoonAdds DEF Rearm
  <2> QED
    BY <1>7, <2>1 DEF Rearm
<1>8. CASE Notify
  <2>1. CaptureDevice \in {Selected, NoDevice}
    BY DEF CaptureDevice
  <2>2. believed' \subseteq Devices
    BY <1>8 DEF Notify
  <2> QED
    BY <1>8, <2>1, <2>2 DEF Notify
<1>9. CASE UNCHANGED vars
  BY <1>9 DEF vars
<1> QED
  BY <1>1, <1>2, <1>3, <1>4, <1>5, <1>6, <1>7, <1>8, <1>9 DEF Next, Machine, Client

\* The messages in the queue go on covering the hidden changes.
LEMMA CoveredNext ==
  ASSUME MonitorInv, [Next]_vars, TypeInv'
  PROVE  \A ch \in hidden' : Covered(ch)'
<1> SUFFICES ASSUME NEW x \in hidden' PROVE Covered(x)'
  OBVIOUS
<1>0. /\ queue \in Seq(Message)
      /\ \A ch \in hidden : Covered(ch)
  BY DEF MonitorInv, TypeInv, TypeOK, RestInv
<1>1. ASSUME NEW d \in Devices, NEW action \in Actions, MachineChange(d, action) PROVE Covered(x)'
  <2>1. x \in hidden \/ x \in signals'
    BY <1>1 DEF MachineChange
  <2> QED
    BY <1>0, <1>1, <2>1 DEF MachineChange, Covered, clientVars
<1>2. ASSUME NEW ch \in hidden, Appear(ch) PROVE Covered(x)'
  BY <1>0, <1>2 DEF Appear, Covered, clientVars
<1>3. ASSUME NEW ch \in signals, OnDevicesChange(ch) PROVE Covered(x)'
  BY <1>0, <1>3, PostSoonAdds DEF OnDevicesChange, Covered
<1>4. ASSUME x \in hidden, queue # <<>>, Due({"enum"}) \/ Due({"late"}), queue' = Tail(queue),
             UNCHANGED <<signals, client>>
      PROVE  Covered(x)'
  <2>1. x \in signals \/ \E i \in 1 .. Len(queue) : queue[i].kind = "soon" \/ x.id \in queue[i].waits
    BY <1>0, <1>4 DEF Covered, Due
  <2>2. CASE x \in signals
    BY <1>4, <2>2 DEF Covered
  <2>3. ASSUME NEW i \in 1 .. Len(queue), queue[i].kind = "soon" \/ x.id \in queue[i].waits
        PROVE  Covered(x)'
    <3>1. i # 1
      <4>1. Head(queue) = queue[1] /\ x.id \in Ids(hidden)
        BY <1>4 DEF Ids
      <4> QED
        BY <1>4, <2>3, <4>1 DEF Due
    <3>2. \E j \in 1 .. Len(Tail(queue)) :
            Tail(queue)[j].kind = "soon" \/ x.id \in Tail(queue)[j].waits
      BY <1>4, <2>3, <3>1, TailCovers DEF MonitorInv, TypeInv
    <3> QED
      BY <1>4, <3>2 DEF Covered
  <2> QED
    BY <2>1, <2>2, <2>3
<1>5. CASE GetPlatformDevices
  BY <1>4, <1>5 DEF GetPlatformDevices, Due, machineVars
<1>6. CASE FoundDevice
  BY <1>6 DEF FoundDevice, Covered
<1>7. CASE NothingFound
  <2>1. x \in hidden /\ UNCHANGED <<signals, client>> /\ queue # <<>>
    BY <1>7 DEF NothingFound, Due, machineVars, clientVars
  <2>2. CASE Head(queue).kind = "soon"
    <3> DEFINE n == Len(Tail(queue)) + 1
    <3>1. Tail(queue) \in Seq(Message) /\ Late \in Message
      BY <1>0, <2>1 DEF MonitorInv, TypeInv, TypeOK, Late, Message, Ids, Change
    <3>2. queue' = Append(Tail(queue), Late)
      BY <1>7, <2>2 DEF NothingFound, Retry
    <3>3. Len(queue') = n /\ queue'[n] = Late /\ n \in 1 .. n
      BY <3>1, <3>2, AppendProperties
    <3>4. x.id \in Late.waits
      BY <2>1 DEF Late, Ids
    <3> QED
      BY <3>3, <3>4 DEF Covered
  <2>3. CASE Head(queue).kind # "soon"
    <3>1. queue' = Tail(queue)
      BY <1>7, <2>3 DEF NothingFound, Retry
    <3>2. Due({"late"})
      BY <1>7, <2>3 DEF NothingFound, Due
    <3> QED
      BY <1>4, <2>1, <3>1, <3>2
  <2> QED
    BY <2>2, <2>3
<1>8. CASE Rearm
  BY <1>0, <1>8, PostSoonAdds DEF Rearm, Covered
<1>9. CASE Notify
  BY <1>0, <1>9 DEF Notify, Covered, machineVars
<1>10. CASE UNCHANGED vars
  BY <1>0, <1>10 DEF vars, Covered, machineVars, clientVars
<1> QED
  BY <1>1, <1>2, <1>3, <1>5, <1>6, <1>7, <1>8, <1>9, <1>10 DEF Next, Machine, Client

\* At rest the last scan was in the direction of dev_.devAction, and nothing was
\* written or plugged since.
LEMMA RestNext ==
  ASSUME MonitorInv, [Next]_vars, TypeInv'
  PROVE  RestInv'
<1>0. queue \in Seq(Message) /\ (client = "notify" => queue # <<>>)
  BY DEF MonitorInv, TypeInv, TypeOK, RestInv
<1>1. RestsHalfRight' /\ (client' = "notify" => queue' # <<>>)
  <2>1. ASSUME NEW d \in Devices, NEW action \in Actions, MachineChange(d, action)
        PROVE  ~Quiet' /\ UNCHANGED <<client, queue>>
    BY <2>1 DEF MachineChange, Quiet, clientVars
  <2>2. ASSUME NEW ch \in hidden, Appear(ch)
        PROVE  ~Quiet' /\ UNCHANGED <<client, queue>>
    <3>1. Covered(ch)
      BY DEF MonitorInv, RestInv
    <3> QED
      BY <1>0, <2>2, <3>1 DEF Appear, Quiet, Covered, clientVars
  <2>3. ASSUME NEW ch \in signals, OnDevicesChange(ch) PROVE queue' # <<>>
    BY <1>0, <2>3, PostSoonAdds DEF OnDevicesChange
  <2>4. CASE GetPlatformDevices
    <3>1. Differing(devAction)' = {}
      BY <2>4 DEF GetPlatformDevices, machineVars, Differing
    <3> QED
      BY <1>0, <2>4, <3>1 DEF GetPlatformDevices, RestsHalfRight, Due
  <2>5. CASE FoundDevice
    BY <2>5 DEF FoundDevice, RestsHalfRight, Quiet
  <2>6. CASE NothingFound
    <3>1. Differing(devAction)' = {}
      BY <2>6 DEF NothingFound, machineVars, clientVars, Differing
    <3>2. client' # "notify"
      BY <2>6 DEF NothingFound, Due, clientVars
    <3> QED
      BY <3>1, <3>2 DEF RestsHalfRight
  <2>7. CASE Rearm
    BY <1>0, <2>7, PostSoonAdds DEF Rearm, RestsHalfRight, Quiet
  <2>8. CASE Notify
    BY <1>0, <2>8 DEF Notify, RestsHalfRight, Quiet
  <2>9. CASE UNCHANGED vars
    <3>1. RestsHalfRight
      BY DEF MonitorInv, RestInv
    <3> QED
      BY <1>0, <2>9, <3>1 DEF vars, machineVars, clientVars, RestsHalfRight, Quiet, Differing
  <2>10. ~Quiet' => RestsHalfRight'
    BY DEF RestsHalfRight
  <2>11. queue' # <<>> => ~Quiet'
    BY DEF Quiet
  <2> QED
    BY <1>0, <2>1, <2>2, <2>3, <2>4, <2>5, <2>6, <2>7, <2>8, <2>9, <2>10, <2>11 DEF Next, Machine, Client
<1>2. \A ch \in hidden' : Covered(ch)'
  BY CoveredNext
<1> QED
  BY <1>1, <1>2 DEF RestInv

\* The device lists of skinnySipManager rest right in the direction of
\* dev_.devAction, whichever threads wrote it in whatever order.
THEOREM RestsInLastDirection == Spec => []RestsHalfRight
<1>1. Init => MonitorInv
  BY MonitorInit, DeviceAssumption
<1>2. MonitorInv /\ [Next]_vars => MonitorInv'
  <2> SUFFICES ASSUME MonitorInv, [Next]_vars PROVE MonitorInv'
    OBVIOUS
  <2>1. TypeInv'
    BY TypeNext, DeviceAssumption DEF MonitorInv
  <2>2. RestInv'
    BY RestNext, <2>1
  <2> QED
    BY <2>1, <2>2 DEF MonitorInv
<1>3. MonitorInv => RestsHalfRight
  BY DEF MonitorInv, RestInv
<1> QED
  BY <1>1, <1>2, <1>3, PTL DEF Spec

\* No variable of the monitor leaves its type, and none of its lists names a device
\* that is not one.
THEOREM MonitorTypes == Spec => []TypeOK
<1>1. Init => TypeInv
  BY MonitorInit, DeviceAssumption DEF MonitorInv
<1>2. TypeInv /\ [Next]_vars => TypeInv'
  BY TypeNext, DeviceAssumption
<1>3. TypeInv => TypeOK
  BY DEF TypeInv
<1> QED
  BY <1>1, <1>2, <1>3, PTL DEF Spec

-----------------------------------------------------------------------------
(* Waves.  Until a change of the other direction comes in the middle, all    *)
(* that is on its way goes in one direction.                                *)

\* The lists differ from the machine in the wave's direction only.
OneWay ==
  /\ \A ch \in hidden \cup signals : ch.action = lastAction
  /\ lastAction = "ADDED" => listed \subseteq present
  /\ lastAction = "REMOVED" => present \subseteq listed

\* The handler looks in the wave's direction: before its first signal there is
\* nothing to handle but the first enumeration.
Enum(m) == m.kind = "enum"
Looks ==
  /\ client # "idle" => pass = lastAction
  /\ devAction # lastAction =>
       /\ client = "idle"
       /\ \A i \in 1 .. Len(queue) : Enum(queue[i])
       /\ signals = {} => hidden = {} /\ (queue = <<>> => listed = present)
  /\ (\E i \in 1 .. Len(queue) : Enum(queue[i])) => lastAction = "ADDED"

\* The application lacks at most the notice of the device in hand.
Tells ==
  /\ client = "idle" => believed = listed
  /\ client # "idle" /\ pass = "ADDED" => believed \cup {found} = listed
  /\ client # "idle" /\ pass = "REMOVED" => believed \ {found} = listed

\* A camera that captures and is gone has yet to be found missing.
Captures ==
  capIdx = Selected /\ Selected \notin present =>
    /\ lastAction = "REMOVED"
    /\ Selected \in listed \/ (client # "idle" /\ found = Selected)

WaveInv == MonitorInv /\ (~overlapped => OneWay /\ Looks /\ Tells /\ Captures)

LEMMA RestEqual ==
  ASSUME WaveInv, Quiet, ~overlapped
  PROVE  /\ listed = present /\ believed = present
         /\ capIdx = Selected => Selected \in present
<1>1. Differing(devAction) = {} /\ lastAction \in Actions
  BY DEF WaveInv, MonitorInv, RestInv, RestsHalfRight, TypeInv, TypeOK
<1>2. listed = present
  <2>1. CASE devAction = lastAction
    BY <1>1, <2>1 DEF WaveInv, OneWay, Differing, Actions
  <2>2. CASE devAction # lastAction
    BY <2>2 DEF WaveInv, Looks, Quiet
  <2> QED
    BY <2>1, <2>2
<1> QED
  BY <1>2 DEF WaveInv, Tells, Captures, Quiet

\* What PostSoon leaves in the queue is the new message and what was there.
LEMMA PostSoonKeeps ==
  ASSUME queue \in Seq(Message), PostSoon(queue), NEW i \in 1 .. Len(queue'), Enum(queue'[i])
  PROVE  \E j \in 1 .. Len(queue) : Enum(queue[j])
<1>1. PICK k \in 0 .. Len(queue) : Inserted(k)
  BY PostSoonInserts
<1>2. /\ Len(queue) \in Nat /\ Len(queue') = Len(queue) + 1 /\ k \in Nat
      /\ \A j \in 1 .. k : queue'[j] = queue[j]
      /\ queue'[k + 1] = Soon
      /\ \A j \in k + 2 .. Len(queue) + 1 : queue'[j] = queue[j - 1]
  BY <1>1 DEF Inserted
<1>3. i # k + 1
  BY <1>2 DEF Enum, Soon
<1>4. CASE i <= k
  <2>1. i \in 1 .. k /\ i \in 1 .. Len(queue)
    BY <1>2, <1>4
  <2> QED
    BY <1>2, <2>1
<1>5. CASE i > k + 1
  <2>1. i \in k + 2 .. Len(queue) + 1 /\ i - 1 \in 1 .. Len(queue)
    BY <1>2, <1>5
  <2> QED
    BY <1>2, <2>1
<1> QED
  BY <1>2, <1>3, <1>4, <1>5

\* The first message leaves: the others were in the queue before.
LEMMA TailKeeps ==
  ASSUME TypeOK, queue # <<>>
  PROVE  /\ (\E i \in 1 .. Len(Tail(queue)) : Enum(Tail(queue)[i])) =>
              \E i \in 1 .. Len(queue) : Enum(queue[i])
         /\ (\A i \in 1 .. Len(queue) : Enum(queue[i])) =>
              \A i \in 1 .. Len(Tail(queue)) : Enum(Tail(queue)[i])
         /\ 1 \in 1 .. Len(queue) /\ Head(queue) = queue[1]
<1>1. /\ Len(Tail(queue)) = Len(queue) - 1 /\ Len(queue) \in Nat /\ Len(queue) # 0
      /\ \A j \in 1 .. Len(Tail(queue)) : Tail(queue)[j] = queue[j + 1]
  BY HeadTailProperties, EmptySeq DEF TypeOK
<1>2. \A j \in 1 .. Len(Tail(queue)) : j + 1 \in 1 .. Len(queue)
  BY <1>1
<1>3. 1 \in 1 .. Len(queue) /\ Head(queue) = queue[1]
  BY <1>1
<1> QED
  BY <1>1, <1>2, <1>3

LEMMA WaveInit == ASSUME DeviceAssumption PROVE Init => WaveInv
<1> SUFFICES ASSUME Init PROVE WaveInv
  OBVIOUS
<1>1. MonitorInv
  BY MonitorInit
<1>2. Enum(queue[1]) /\ Len(queue) = 1 /\ queue # <<>>
  BY DEF Init, Enum
<1>3. OneWay /\ Tells
  BY DEF Init, OneWay, Tells
<1>4. Looks
  BY <1>2 DEF Init, Looks
<1>5. Captures
  BY DEF Init, Captures, DeviceAssumption
<1> QED
  BY <1>1, <1>3, <1>4, <1>5 DEF WaveInv

\* A message of the handler is at the head: the handler looks in the wave's direction.
LEMMA HandlerLooks ==
  ASSUME TypeOK, Looks, Due({"soon", "late"})
  PROVE  devAction = lastAction
<1>1. 1 \in 1 .. Len(queue) /\ Head(queue) = queue[1]
  BY TailKeeps DEF Due
<1>2. ~Enum(queue[1])
  BY <1>1 DEF Due, Enum
<1> QED
  BY <1>1, <1>2 DEF Looks

LEMMA WaveMachine ==
  ASSUME DeviceAssumption, WaveInv, ~overlapped', TypeInv',
         \/ \E d \in Devices, action \in Actions : MachineChange(d, action)
         \/ Machine
  PROVE  (OneWay /\ Looks /\ Tells /\ Captures)'
<1>0. TypeOK
  BY DEF WaveInv, MonitorInv, TypeInv
<1>1. ASSUME NEW d \in Devices, NEW action \in Actions, MachineChange(d, action)
      PROVE  (OneWay /\ Looks /\ Tells /\ Captures)'
  <2>1. ~overlapped /\ (Quiet \/ action = lastAction)
    BY <1>0, <1>1 DEF MachineChange, TypeOK
  <2>2. OneWay /\ Looks /\ Tells /\ Captures
    BY <2>1 DEF WaveInv
  <2> DEFINE c == [id |-> changes + 1, dev |-> d, action |-> action]
  <2>3. /\ c.action = action /\ hidden' = hidden \cup {c} /\ signals' = signals \cup {c}
        /\ lastAction' = action
        /\ UNCHANGED <<present, listed, found, client, pass, believed, capIdx, devAction, queue>>
    BY <1>1 DEF MachineChange, clientVars
  <2> HIDE DEF c
  <2>4. CASE action = lastAction
    <3>1. OneWay'
      BY <2>2, <2>3, <2>4 DEF OneWay
    <3>2. Looks'
      BY <2>2, <2>3, <2>4 DEF Looks
    <3> QED
      BY <2>2, <2>3, <2>4, <3>1, <3>2 DEF Tells, Captures
  <2>5. CASE Quiet
    <3>1. /\ listed = present /\ believed = present
          /\ capIdx = Selected => Selected \in present
      BY <2>1, <2>5, RestEqual
    <3>2. OneWay'
      BY <2>3, <2>5, <3>1 DEF OneWay, Quiet
    <3>3. Len(queue') = 0 /\ client' = "idle" /\ signals' # {}
      BY <2>3, <2>5 DEF Quiet
    <3>4. Looks'
      BY <3>3 DEF Looks
    <3> QED
      BY <2>3, <3>1, <3>2, <3>3, <3>4 DEF Tells, Captures
  <2> QED
    BY <2>1, <2>4, <2>5
<1>2. ASSUME NEW ch \in hidden, Appear(ch) PROVE (OneWay /\ Looks /\ Tells /\ Captures)'
  <2>1. OneWay /\ Looks /\ Tells /\ Captures
    BY <1>2 DEF Appear, WaveInv
  <2>2. /\ ch.action = lastAction /\ lastAction \in Actions
        /\ UNCHANGED <<signals, lastAction, listed, found, client, pass, believed, capIdx, devAction, queue>>
    BY <1>0, <1>2, <2>1 DEF Appear, OneWay, clientVars, TypeOK
  <2>3. OneWay'
    BY <1>2, <2>1, <2>2 DEF Appear, OneWay, Actions
  <2>4. Looks'
    <3>1. CASE devAction = lastAction
      BY <2>1, <2>2, <3>1 DEF Looks
    <3>2. CASE devAction # lastAction
      <4>1. signals # {}
        BY <2>1, <3>2 DEF Looks
      <4> QED
        BY <2>1, <2>2, <4>1 DEF Looks
    <3> QED
      BY <3>1, <3>2
  <2>5. Captures'
    <3>1. ASSUME Selected \in present, Selected \notin present'
          PROVE  lastAction = "REMOVED" /\ Selected \in listed
      BY <1>2, <2>1, <2>2, <3>1 DEF Appear, OneWay, Actions
    <3> QED
      BY <2>1, <2>2, <3>1 DEF Captures
  <2> QED
    BY <2>1, <2>2, <2>3, <2>4, <2>5 DEF Tells
<1>3. ASSUME NEW ch \in signals, OnDevicesChange(ch)
      PROVE  (OneWay /\ Looks /\ Tells /\ Captures)'
  <2>1. OneWay /\ Looks /\ Tells /\ Captures
    BY <1>3 DEF OnDevicesChange, WaveInv
  <2>2. /\ ch.action = lastAction /\ devAction' = lastAction
        /\ signals' \subseteq signals
        /\ UNCHANGED <<present, hidden, lastAction, listed, found, client, pass, believed, capIdx>>
    BY <1>3, <2>1 DEF OnDevicesChange, OneWay, clientVars
  <2>3. (\E i \in 1 .. Len(queue') : Enum(queue'[i])) => lastAction = "ADDED"
    BY <1>0, <1>3, <2>1, PostSoonKeeps DEF OnDevicesChange, TypeOK, Looks
  <2>4. Looks'
    BY <2>1, <2>2, <2>3 DEF Looks
  <2> QED
    BY <2>1, <2>2, <2>4 DEF OneWay, Tells, Captures
<1> QED
  BY <1>1, <1>2, <1>3 DEF Machine

LEMMA WaveClient ==
  ASSUME DeviceAssumption, WaveInv, ~overlapped', TypeInv', Client
  PROVE  (OneWay /\ Looks /\ Tells /\ Captures)'
<1>0. TypeOK /\ UNCHANGED machineVars
  BY DEF WaveInv, MonitorInv, TypeInv, Client, GetPlatformDevices, FoundDevice, NothingFound,
         Rearm, Notify
<1>1. OneWay /\ Looks /\ Tells /\ Captures /\ lastAction \in Actions
  BY <1>0 DEF WaveInv, machineVars, TypeOK
<1>2. CASE GetPlatformDevices
  <2>1. queue # <<>> /\ Enum(Head(queue)) /\ client = "idle"
    BY <1>2 DEF GetPlatformDevices, Due, Enum
  <2>2. lastAction = "ADDED"
    BY <1>0, <1>1, <2>1, TailKeeps DEF Looks
  <2>3. (\A i \in 1 .. Len(queue) : Enum(queue[i])) =>
          \A i \in 1 .. Len(queue') : Enum(queue'[i])
    BY <1>0, <1>2, <2>1, TailKeeps DEF GetPlatformDevices
  <2>4. /\ listed' = present /\ believed' = present
        /\ UNCHANGED <<present, hidden, signals, lastAction, devAction, found, client, pass, capIdx>>
    BY <1>0, <1>2 DEF GetPlatformDevices, machineVars
  <2>5. OneWay'
    BY <1>1, <2>4 DEF OneWay
  <2>6. Looks'
    BY <1>1, <2>1, <2>2, <2>3, <2>4 DEF Looks
  <2> QED
    BY <1>1, <2>1, <2>2, <2>4, <2>5, <2>6 DEF Tells, Captures
<1>3. CASE FoundDevice
  <2>1. devAction = lastAction
    BY <1>0, <1>1, <1>3, HandlerLooks DEF FoundDevice
  <2>2. PICK d \in Differing(devAction) : FindAndSet(d)
    BY <1>3 DEF FoundDevice, FirstType
  <2>3. /\ pass' = lastAction /\ devAction' = lastAction /\ found' = d
        /\ listed' = IF lastAction = "ADDED" THEN listed \cup {d} ELSE listed \ {d}
        /\ client = "idle" /\ client' = "rearm" /\ queue # <<>> /\ queue' = Tail(queue)
        /\ UNCHANGED <<present, hidden, signals, lastAction, believed, capIdx>>
    BY <1>0, <1>3, <2>1, <2>2 DEF FoundDevice, FindAndSet, Due, machineVars
  <2>4. d \in IF lastAction = "ADDED" THEN present \ listed ELSE listed \ present
    BY <2>1, <2>2 DEF Differing
  <2>5. OneWay'
    BY <1>1, <2>3, <2>4 DEF OneWay
  <2>6. (\E i \in 1 .. Len(queue') : Enum(queue'[i])) => lastAction = "ADDED"
    BY <1>0, <1>1, <2>3, TailKeeps DEF Looks
  <2>7. Looks'
    BY <2>3, <2>6 DEF Looks
  <2>8. Tells'
    BY <1>1, <2>3, <2>4 DEF Tells
  <2>9. Captures'
    BY <1>1, <2>3, <2>4 DEF Captures
  <2> QED
    BY <2>5, <2>7, <2>8, <2>9
<1>4. CASE NothingFound
  <2>1. devAction = lastAction
    BY <1>0, <1>1, <1>4, HandlerLooks DEF NothingFound
  <2>2. /\ UNCHANGED <<present, hidden, signals, lastAction, devAction, listed, found, client,
                       pass, believed, capIdx>>
        /\ queue # <<>> /\ queue' \in {Tail(queue), Append(Tail(queue), Late)}
    BY <1>0, <1>4 DEF NothingFound, Retry, Due, machineVars, clientVars
  <2>3. (\E i \in 1 .. Len(Tail(queue)) : Enum(Tail(queue)[i])) => lastAction = "ADDED"
    BY <1>0, <1>1, <2>2, TailKeeps DEF Looks
  <2>4. ASSUME NEW i \in 1 .. Len(queue'), Enum(queue'[i])
        PROVE  \E j \in 1 .. Len(Tail(queue)) : Enum(Tail(queue)[j])
    <3>1. Tail(queue) \in Seq(Message) /\ ~Enum(Late)
      BY <1>0, <2>2 DEF TypeOK, Late, Enum
    <3>2. CASE queue' = Tail(queue)
      BY <2>4, <3>2
    <3>3. CASE queue' = Append(Tail(queue), Late)
      <4>1. Len(queue') = Len(Tail(queue)) + 1 /\ Len(Tail(queue)) \in Nat
        BY <3>1, <3>3
      <4>2. i # Len(queue') => i \in 1 .. Len(Tail(queue)) /\ queue'[i] = Tail(queue)[i]
        BY <3>1, <3>3, <4>1
      <4>3. queue'[Len(queue')] = Late
        BY <3>1, <3>3, <4>1
      <4> QED
        BY <2>4, <3>1, <4>2, <4>3
    <3> QED
      BY <2>2, <3>2, <3>3
  <2>5. Looks'
    BY <1>1, <2>1, <2>2, <2>3, <2>4 DEF Looks
  <2> QED
    BY <1>1, <2>2, <2>5 DEF OneWay, Tells, Captures
<1>5. CASE Rearm
  <2>1. /\ pass = lastAction /\ devAction' = lastAction /\ client = "rearm" /\ client' = "notify"
        /\ UNCHANGED <<present, hidden, signals, lastAction, listed, found, pass, believed, capIdx>>
    BY <1>0, <1>1, <1>5 DEF Rearm, Looks, machineVars
  <2>2. (\E i \in 1 .. Len(queue') : Enum(queue'[i])) => lastAction = "ADDED"
    BY <1>0, <1>1, <1>5, PostSoonKeeps DEF Rearm, TypeOK, Looks
  <2>3. Looks'
    BY <2>1, <2>2 DEF Looks
  <2> QED
    BY <1>1, <2>1, <2>3 DEF OneWay, Tells, Captures
<1>6. CASE Notify
  <2>1. /\ client = "notify" /\ client' = "idle" /\ pass = lastAction /\ devAction = lastAction
        /\ UNCHANGED <<present, hidden, signals, lastAction, devAction, queue, listed, found, pass>>
    BY <1>0, <1>1, <1>6 DEF Notify, Looks, machineVars
  <2>2. believed' = listed
    BY <1>1, <1>6, <2>1 DEF Notify, Tells, Actions
  <2>3. Looks'
    BY <1>1, <2>1 DEF Looks
  <2>4. Captures'
    <3>1. CASE TypeOf[found] = "VIDEO"
      BY <1>6, <2>1, <3>1 DEF Notify, Captures, CaptureDevice, DeviceAssumption
    <3>2. CASE TypeOf[found] # "VIDEO"
      BY <1>1, <1>6, <2>1, <3>2 DEF Notify, Captures, DeviceAssumption
    <3> QED
      BY <3>1, <3>2
  <2> QED
    BY <1>1, <2>1, <2>2, <2>3, <2>4 DEF OneWay, Tells
<1> QED
  BY <1>2, <1>3, <1>4, <1>5, <1>6 DEF Client

LEMMA WaveNext ==
  ASSUME DeviceAssumption, WaveInv, [Next]_vars
  PROVE  WaveInv'
<1>1. TypeInv'
  BY TypeNext DEF WaveInv, MonitorInv
<1>2. MonitorInv'
  BY <1>1, RestNext DEF WaveInv, MonitorInv
<1>3. ASSUME ~overlapped' PROVE (OneWay /\ Looks /\ Tells /\ Captures)'
  <2>1. CASE UNCHANGED vars
    <3>1. OneWay /\ Looks /\ Tells /\ Captures
      BY <1>3, <2>1 DEF WaveInv, vars, machineVars
    <3> QED
      BY <2>1, <3>1 DEF vars, machineVars, clientVars, OneWay, Looks, Tells, Captures
  <2> QED
    BY <1>1, <1>3, <2>1, WaveMachine, WaveClient DEF Next
<1> QED
  BY <1>2, <1>3 DEF WaveInv

\* Until changes of opposite directions overlap, skinnySipManager's lists and the
\* application's are right whenever all is still.
THEOREM RestsRightInOneDirection == Spec => []RestsRight
<1>1. Init => WaveInv
  BY WaveInit, DeviceAssumption
<1>2. WaveInv /\ [Next]_vars => WaveInv'
  BY WaveNext, DeviceAssumption
<1>3. WaveInv => RestsRight
  BY RestEqual DEF RestsRight
<1> QED
  BY <1>1, <1>2, <1>3, PTL DEF Spec

\* Nor is video captured then from a camera that was pulled.
THEOREM CaptureFollowsCamera == Spec => []CameraFollows
<1>1. Init => WaveInv
  BY WaveInit, DeviceAssumption
<1>2. WaveInv /\ [Next]_vars => WaveInv'
  BY WaveNext, DeviceAssumption
<1>3. WaveInv => CameraFollows
  BY RestEqual DEF CameraFollows
<1> QED
  BY <1>1, <1>2, <1>3, PTL DEF Spec

-----------------------------------------------------------------------------
(* The monitor does not feed itself: the safety half of ComesToRest.           *)

\* Devices whose listing differs from the machine, and messages that, finding nothing,
\* will be sent once more.
Apart == (present \ listed) \cup (listed \ present)
Again(q) == {i \in 1 .. Len(q) : q[i].kind = "soon"}

\* What the machine and the SIP thread still have to do: a change to show may set one
\* more device apart, a device found costs a handler and a message more, a signal
\* costs a message, and a message may come twice.
ClientWork == CASE client = "rearm" -> 4 [] client = "notify" -> 1 [] OTHER -> 0
QueueWork(q) == Len(q) + Cardinality(Again(q))
HiddenCount == Cardinality(hidden)
SignalCount == Cardinality(signals)
ApartCount == Cardinality(Apart)
QueueCount == QueueWork(queue)
Work ==
  5 * HiddenCount + 3 * SignalCount + 4 * ApartCount + QueueCount + ClientWork

\* Every step of theirs leaves less of it.
GetsThere == Machine \/ Client => Work \in Nat /\ Work' \in Nat /\ Work' < Work

FewChanges == IsFiniteSet(hidden) /\ IsFiniteSet(signals)

LEMMA FewNext == ASSUME FewChanges, [Next]_vars PROVE FewChanges'
<1> USE FS_AddElement, FS_RemoveElement DEF FewChanges, machineVars, clientVars
<1>1. ASSUME NEW d, NEW action, MachineChange(d, action) PROVE FewChanges'
  BY <1>1 DEF MachineChange
<1>2. ASSUME NEW ch, Appear(ch) \/ OnDevicesChange(ch) PROVE FewChanges'
  BY <1>2 DEF Appear, OnDevicesChange
<1>3. CASE Client \/ UNCHANGED vars
  BY <1>3 DEF Client, GetPlatformDevices, FoundDevice, NothingFound, Rearm, Notify, vars
<1> QED
  BY <1>1, <1>2, <1>3 DEF Next, Machine

\* A set that grows by an element at most, and one that loses one.
LEMMA OneMore ==
  ASSUME NEW S, IsFiniteSet(S), NEW x, NEW T, T \subseteq S \cup {x}
  PROVE  Cardinality(S) \in Nat /\ Cardinality(T) \in Nat /\ Cardinality(T) <= Cardinality(S) + 1
<1> DEFINE U == S \cup {x}
<1>1. IsFiniteSet(U) /\ Cardinality(U) = IF x \in S THEN Cardinality(S) ELSE Cardinality(S) + 1
  BY FS_AddElement
<1>2. IsFiniteSet(T) /\ Cardinality(T) <= Cardinality(U)
  <2>1. T \in SUBSET U
    OBVIOUS
  <2> HIDE DEF U
  <2> QED
    BY <1>1, <2>1, FS_Subset
<1>3. Cardinality(S) \in Nat /\ Cardinality(T) \in Nat /\ Cardinality(U) \in Nat
  BY <1>1, <1>2, FS_CardinalityType
<1> HIDE DEF U
<1>4. CASE x \in S
  BY <1>1, <1>2, <1>3, <1>4
<1>5. CASE x \notin S
  BY <1>1, <1>2, <1>3, <1>5
<1> QED
  BY <1>3, <1>4, <1>5

LEMMA OneLess ==
  ASSUME NEW S, IsFiniteSet(S), NEW x
  PROVE  /\ IsFiniteSet(S \ {x})
         /\ x \in S => Cardinality(S \ {x}) = Cardinality(S) - 1
         /\ x \notin S => Cardinality(S \ {x}) = Cardinality(S)
<1>1. /\ IsFiniteSet(S \ {x})
      /\ Cardinality(S \ {x}) = IF x \in S THEN Cardinality(S) - 1 ELSE Cardinality(S)
  BY FS_RemoveElement
<1>2. CASE x \in S
  BY <1>1, <1>2
<1>3. CASE x \notin S
  BY <1>1, <1>3
<1> QED
  BY <1>1, <1>2, <1>3

LEMMA AgainFinite ==
  ASSUME NEW q \in Seq(Message)
  PROVE  IsFiniteSet(Again(q)) /\ Cardinality(Again(q)) \in Nat /\ QueueWork(q) \in Nat
<1>1. Again(q) \in SUBSET (1 .. Len(q)) /\ Len(q) \in Nat
  BY DEF Again
<1>2. IsFiniteSet(1 .. Len(q))
  BY <1>1, FS_Interval
<1>3. IsFiniteSet(Again(q)) /\ Cardinality(Again(q)) \in Nat
  BY <1>1, <1>2, FS_Subset, FS_CardinalityType
<1> QED
  BY <1>1, <1>3 DEF QueueWork

\* A message posted is two to handle: those behind it are not sent again, so none of
\* the others is counted anew.
LEMMA PostSoonWork ==
  ASSUME queue \in Seq(Message), PostSoon(queue)
  PROVE  queue' \in Seq(Message) /\ QueueWork(queue') <= QueueWork(queue) + 2
<1>1. PICK k \in 0 .. Len(queue) : Inserted(k)
  BY PostSoonInserts
<1>2. queue' \in Seq(Message) /\ Len(queue') = Len(queue) + 1 /\ Len(queue) \in Nat /\ k \in Nat
  BY <1>1 DEF Inserted
<1>3. Again(queue') \subseteq Again(queue) \cup {k + 1}
  <2> SUFFICES ASSUME NEW i \in 1 .. Len(queue'), queue'[i].kind = "soon", i # k + 1
               PROVE  i \in 1 .. Len(queue) /\ queue[i].kind = "soon"
    BY DEF Again
  <2>1. CASE i <= k
    BY <1>1, <1>2, <2>1 DEF Inserted
  <2>2. CASE i > k + 1
    <3>1. i \in k + 2 .. Len(queue) + 1 /\ i - 1 \in k + 1 .. Len(queue)
      BY <1>2, <2>2
    <3>2. queue'[i].kind = "late"
      BY <1>1, <3>1 DEF Inserted
    <3> QED
      BY <3>2
  <2> QED
    BY <1>2, <2>1, <2>2
<1>4. Cardinality(Again(queue')) <= Cardinality(Again(queue)) + 1
  BY <1>3, AgainFinite, OneMore
<1> QED
  BY <1>2, <1>4, AgainFinite DEF QueueWork

\* A message that leaves takes its own work along.
LEMMA TailWork ==
  ASSUME NEW q \in Seq(Message), q # <<>>
  PROVE  /\ Tail(q) \in Seq(Message) /\ Len(Tail(q)) = Len(q) - 1
         /\ Cardinality(Again(Tail(q))) <=
              Cardinality(Again(q)) - (IF Head(q).kind = "soon" THEN 1 ELSE 0)
<1> DEFINE Rest == Again(q) \ {1}
           f == [i \in Rest |-> i - 1]
<1>1. /\ Tail(q) \in Seq(Message) /\ Len(Tail(q)) = Len(q) - 1 /\ Len(q) \in Nat /\ Len(q) # 0
      /\ Head(q) = q[1]
      /\ \A j \in 1 .. Len(Tail(q)) : Tail(q)[j] = q[j + 1]
  BY HeadTailProperties, EmptySeq
<1>2. IsFiniteSet(Again(q)) /\ Cardinality(Again(q)) \in Nat
  BY AgainFinite
<1>3. /\ IsFiniteSet(Rest)
      /\ Cardinality(Rest) = Cardinality(Again(q)) - (IF Head(q).kind = "soon" THEN 1 ELSE 0)
  <2>1. 1 \in Again(q) <=> Head(q).kind = "soon"
    BY <1>1 DEF Again
  <2> QED
    BY <1>2, <2>1, OneLess
<1>4. f \in Surjection(Rest, Again(Tail(q)))
  <2>1. ASSUME NEW i \in Rest PROVE i - 1 \in Again(Tail(q))
    BY <1>1 DEF Again
  <2>2. ASSUME NEW j \in Again(Tail(q)) PROVE j + 1 \in Rest /\ f[j + 1] = j
    BY <1>1 DEF Again
  <2>3. f \in [Rest -> Again(Tail(q))]
    BY <2>1
  <2>4. \A j \in Again(Tail(q)) : \E i \in Rest : f[i] = j
    BY <2>2
  <2> HIDE DEF f, Rest
  <2> QED
    BY <2>3, <2>4 DEF Surjection
<1> HIDE DEF f, Rest
<1>5. Cardinality(Again(Tail(q))) <= Cardinality(Rest)
  BY <1>3, <1>4, FS_Surjection
<1> QED
  BY <1>1, <1>3, <1>5

LEMMA TailLess ==
  ASSUME NEW q \in Seq(Message), q # <<>>
  PROVE  QueueWork(Tail(q)) < QueueWork(q)
<1> DEFINE t == Tail(q)
<1>1. /\ t \in Seq(Message) /\ Len(t) = Len(q) - 1
      /\ Cardinality(Again(t)) <= Cardinality(Again(q)) - (IF Head(q).kind = "soon" THEN 1 ELSE 0)
  BY TailWork
<1> HIDE DEF t
<1>2. /\ Len(q) \in Nat /\ Len(t) \in Nat
      /\ Cardinality(Again(q)) \in Nat /\ Cardinality(Again(t)) \in Nat
  BY <1>1, AgainFinite
<1>3. QueueWork(t) < QueueWork(q)
  BY <1>1, <1>2 DEF QueueWork
<1> QED
  BY <1>3 DEF t

\* Nothing found, and the message is not sent a third time.
LEMMA RetryWork ==
  ASSUME queue \in Seq(Message), queue # <<>>, Late \in Message, Retry(Head(queue).kind = "soon")
  PROVE  queue' \in Seq(Message) /\ QueueWork(queue') < QueueWork(queue)
<1> DEFINE t == Tail(queue)
<1>1. /\ t \in Seq(Message) /\ Len(t) = Len(queue) - 1
      /\ Cardinality(Again(t)) <= Cardinality(Again(queue)) - (IF Head(queue).kind = "soon" THEN 1 ELSE 0)
  BY TailWork
<1>2. /\ Len(queue) \in Nat /\ Len(t) \in Nat
      /\ Cardinality(Again(queue)) \in Nat /\ Cardinality(Again(t)) \in Nat
  <2> HIDE DEF t
  <2> QED
    BY <1>1, AgainFinite
<1> HIDE DEF t
<1>3. CASE Head(queue).kind = "soon"
  <2>1. queue' = Append(t, Late)
    BY <1>3 DEF Retry, t
  <2>2. /\ queue' \in Seq(Message) /\ Len(queue') = Len(t) + 1
        /\ \A i \in 1 .. Len(t) : queue'[i] = t[i]
        /\ queue'[Len(t) + 1] = Late
    BY <1>1, <2>1, AppendProperties
  <2>3. Again(queue') = Again(t)
    BY <1>2, <2>2 DEF Again, Late
  <2> QED
    BY <1>1, <1>2, <1>3, <2>2, <2>3 DEF QueueWork
<1>4. CASE Head(queue).kind # "soon"
  BY <1>1, <1>2, <1>4 DEF QueueWork, Retry, t
<1> QED
  BY <1>3, <1>4

LEMMA WorkNat ==
  ASSUME IsFiniteSet(Devices), TypeOK, FewChanges
  PROVE  /\ Work \in Nat /\ IsFiniteSet(Apart) /\ ApartCount \in Nat
         /\ HiddenCount \in Nat /\ SignalCount \in Nat
         /\ QueueCount \in Nat /\ ClientWork \in {0, 1, 4}
<1>1. Apart \in SUBSET Devices
  BY DEF TypeOK, Apart
<1>2. IsFiniteSet(Apart) /\ ApartCount \in Nat
  BY <1>1, FS_Subset, FS_CardinalityType DEF ApartCount
<1>3. HiddenCount \in Nat /\ SignalCount \in Nat
  BY FS_CardinalityType DEF FewChanges, HiddenCount, SignalCount
<1>4. QueueCount \in Nat
  BY AgainFinite DEF TypeOK, QueueCount
<1>5. ClientWork \in {0, 1, 4}
  BY DEF ClientWork
<1> QED
  BY <1>2, <1>3, <1>4, <1>5 DEF Work

LEMMA WorkShrinks ==
  ASSUME DeviceAssumption, IsFiniteSet(Devices), TypeOK, FewChanges, Work' \in Nat,
         ClientWork' \in {0, 1, 4}, ApartCount' \in Nat, QueueCount' \in Nat,
         HiddenCount' \in Nat, SignalCount' \in Nat,
         Machine \/ Client
  PROVE  Work' < Work
<1>0. /\ IsFiniteSet(Apart) /\ ApartCount \in Nat /\ queue \in Seq(Message)
      /\ HiddenCount \in Nat /\ SignalCount \in Nat
      /\ QueueCount \in Nat /\ ClientWork \in {0, 1, 4}
  BY WorkNat DEF TypeOK
<1>01. PICK h \in Nat, s \in Nat, a \in Nat, q \in Nat, c \in {0, 1, 4} :
         /\ HiddenCount' = h /\ SignalCount' = s /\ ApartCount' = a
         /\ QueueCount' = q /\ ClientWork' = c
  OBVIOUS
<1>1. ASSUME NEW ch, Appear(ch) PROVE Work' < Work
  <2>1. UNCHANGED <<signals, listed, client, queue>> /\ ch \in hidden /\ hidden' = hidden \ {ch}
    BY <1>1 DEF Appear, clientVars
  <2>2. HiddenCount' = HiddenCount - 1
    BY <2>1, OneLess DEF FewChanges, HiddenCount, SignalCount
  <2>3. Apart' \subseteq Apart \cup {ch.dev}
    BY <1>1, <2>1 DEF Appear, Apart
  <2>4. ApartCount' <= ApartCount + 1
    BY <1>0, <2>3, OneMore DEF ApartCount
  <2>5. SignalCount' = SignalCount /\ QueueCount' = QueueCount /\ ClientWork' = ClientWork
    BY <2>1 DEF SignalCount, QueueCount, ClientWork
  <2> QED
    BY <1>0, <1>01, <2>1, <2>2, <2>4, <2>5 DEF Work
<1>2. ASSUME NEW ch, OnDevicesChange(ch) PROVE Work' < Work
  <2>1. /\ UNCHANGED <<hidden, present, listed, client>> /\ PostSoon(queue)
        /\ ch \in signals /\ signals' = signals \ {ch}
    BY <1>2 DEF OnDevicesChange, clientVars
  <2>2. SignalCount' = SignalCount - 1
    BY <2>1, OneLess DEF FewChanges, HiddenCount, SignalCount
  <2>3. QueueCount' <= QueueCount + 2
    BY <1>0, <2>1, PostSoonWork DEF QueueCount
  <2>4. HiddenCount' = HiddenCount /\ ApartCount' = ApartCount /\ ClientWork' = ClientWork
    BY <2>1 DEF HiddenCount, ApartCount, Apart, ClientWork
  <2> QED
    BY <1>0, <1>01, <2>2, <2>3, <2>4 DEF Work
<1>3. ASSUME GetPlatformDevices PROVE Work' < Work
  <2>1. UNCHANGED <<hidden, signals, present, client>> /\ listed' = present
        /\ queue # <<>> /\ queue' = Tail(queue) /\ Head(queue).kind = "enum"
    BY <1>3 DEF GetPlatformDevices, Due, machineVars
  <2>2. Apart' = {}
    BY <2>1 DEF Apart
  <2>3. ApartCount' = 0
    BY <2>2, FS_EmptySet DEF ApartCount
  <2>4. QueueCount' < QueueCount
    BY <1>0, <2>1, TailLess DEF QueueCount
  <2>5. HiddenCount' = HiddenCount /\ SignalCount' = SignalCount /\ ClientWork' = ClientWork
    BY <2>1 DEF HiddenCount, SignalCount, ClientWork
  <2> QED
    BY <1>0, <1>01, <2>1, <2>3, <2>4, <2>5 DEF Work
<1>4. ASSUME FoundDevice PROVE Work' < Work
  <2>1. /\ UNCHANGED <<hidden, signals, present>> /\ client = "idle" /\ client' = "rearm"
        /\ queue # <<>> /\ queue' = Tail(queue) /\ pass' = devAction
    BY <1>4 DEF FoundDevice, Due, machineVars
  <2>2. PICK d \in FirstType(Differing(devAction)) : FindAndSet(d)
    BY <1>4 DEF FoundDevice
  <2>3. d \in Apart /\ Apart' = Apart \ {d}
    BY <2>1, <2>2 DEF FindAndSet, FirstType, Differing, Apart
  <2>4. ApartCount' = ApartCount - 1
    BY <1>0, <2>3, OneLess DEF ApartCount
  <2>5. QueueCount' < QueueCount
    BY <1>0, <2>1, TailLess DEF QueueCount
  <2>6. HiddenCount' = HiddenCount /\ SignalCount' = SignalCount /\ ClientWork' = 4 /\ ClientWork = 0
    BY <2>1 DEF HiddenCount, SignalCount, ClientWork
  <2> QED
    BY <1>0, <1>01, <2>1, <2>4, <2>5, <2>6 DEF Work
<1>5. ASSUME NothingFound PROVE Work' < Work
  <2>1. /\ UNCHANGED <<hidden, signals, present, listed, client>>
        /\ queue # <<>> /\ Retry(Head(queue).kind = "soon")
    BY <1>5 DEF NothingFound, Due, machineVars, clientVars
  <2>2. Late \in Message
    BY DEF Late, Message, Ids, TypeOK, Change
  <2>3. QueueCount' < QueueCount
    BY <1>0, <2>1, <2>2, RetryWork DEF QueueCount
  <2>4. /\ HiddenCount' = HiddenCount /\ SignalCount' = SignalCount
        /\ ApartCount' = ApartCount /\ ClientWork' = ClientWork
    BY <2>1 DEF HiddenCount, SignalCount, ApartCount, Apart, ClientWork
  <2> QED
    BY <1>0, <1>01, <2>3, <2>4 DEF Work
<1>6. ASSUME Rearm PROVE Work' < Work
  <2>1. /\ UNCHANGED <<hidden, signals, present, listed>> /\ PostSoon(queue)
        /\ client = "rearm" /\ client' = "notify"
    BY <1>6 DEF Rearm, machineVars
  <2>2. QueueCount' <= QueueCount + 2
    BY <1>0, <2>1, PostSoonWork DEF QueueCount
  <2>3. /\ HiddenCount' = HiddenCount /\ SignalCount' = SignalCount
        /\ ApartCount' = ApartCount /\ ClientWork = 4 /\ ClientWork' = 1
    BY <2>1 DEF HiddenCount, SignalCount, ApartCount, Apart, ClientWork
  <2> QED
    BY <1>0, <1>01, <2>1, <2>2, <2>3 DEF Work
<1>7. ASSUME Notify PROVE Work' < Work
  <2>1. /\ UNCHANGED <<hidden, signals, present, listed, queue>>
        /\ client = "notify" /\ client' = "idle"
    BY <1>7 DEF Notify, machineVars
  <2>2. /\ HiddenCount' = HiddenCount /\ SignalCount' = SignalCount
        /\ ApartCount' = ApartCount /\ QueueCount' = QueueCount
        /\ ClientWork = 1 /\ ClientWork' = 0
    BY <2>1 DEF HiddenCount, SignalCount, ApartCount, Apart, QueueCount, ClientWork
  <2> QED
    BY <1>0, <1>01, <2>1, <2>2 DEF Work
<1> QED
  BY <1>1, <1>2, <1>3, <1>4, <1>5, <1>6, <1>7 DEF Machine, Client

\* Between two plugs or unplugs the machine and the SIP thread take a bounded number of
\* steps, however the signals, the enumerations and the retries interleave: the handler
\* that arms itself again does so once per device that differs (ComesToRest then only
\* needs that they run).
THEOREM RestIsNear == ASSUME IsFiniteSet(Devices) PROVE Spec => [][GetsThere]_vars
<1> DEFINE Counted ==
      /\ Work \in Nat /\ ClientWork \in {0, 1, 4} /\ QueueCount \in Nat
      /\ ApartCount \in Nat /\ HiddenCount \in Nat /\ SignalCount \in Nat
<1>1. Init => FewChanges
  BY FS_EmptySet DEF Init, FewChanges
<1>2. FewChanges /\ [Next]_vars => FewChanges'
  BY FewNext
<1>3. TypeOK /\ FewChanges => Counted
  BY WorkNat
<1>4. ASSUME TypeOK, FewChanges, Counted, Counted', [Next]_vars PROVE [GetsThere]_vars
  BY <1>4, WorkShrinks, DeviceAssumption DEF GetsThere
<1> QED
  BY <1>1, <1>2, <1>3, <1>4, MonitorTypes, PTL DEF Spec
=============================================================================
