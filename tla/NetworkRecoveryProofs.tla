------------------------ MODULE NetworkRecoveryProofs ------------------------
(***************************************************************************)
(* The interface table catches up and the last message to the SIP thread is  *)
(* right, for any interfaces, any number of rows and any number of changes.  *)
(***************************************************************************)
EXTENDS NetworkRecovery, TLAPS

\* The callbacks of an interface that have yet to apply what they read are as many
\* as its rows that do not show its link, at least.
Debt ==
  \A l \in listed : monitor # "stopped" /\ l \notin spoiled =>
    /\ l \in link => Rows - table[l] <= Pending(l)
    /\ l \notin link => table[l] <= Pending(l)

Quenched ==
  monitor = "stopped" => \A l \in Luids : called[l] = 0 /\ sawUp[l] = 0 /\ sawDown[l] = 0

\* After an UP some row is up; after a DOWN no interface has all its rows up, or
\* the UP that would have said so was withheld.
Word ==
  /\ told = "UP" => \E m \in listed : table[m] > 0
  /\ told = "DOWN" /\ ~blinded => \A m \in listed : table[m] < Rows

IInv == TypeOK /\ Debt /\ Quenched /\ Word

-----------------------------------------------------------------------------
LEMMA PendingNat ==
  ASSUME TypeOK, NEW l \in Luids
  PROVE  /\ called[l] \in Nat /\ sawUp[l] \in Nat /\ sawDown[l] \in Nat
         /\ table[l] \in Nat /\ Pending(l) \in Nat
BY DEF TypeOK, Pending

\* Types.
LEMMA TypeInit == ASSUME NetworkAssumption PROVE Init => TypeOK
<1> SUFFICES ASSUME Init PROVE TypeOK
  OBVIOUS
<1> USE NetworkAssumption DEF NetworkAssumption
<1>1. sipQueue \in Seq({"UP", "DOWN"})
  BY DEF Init
<1>2. /\ table \in [Luids -> 0 .. Rows]
      /\ \A l \in Luids : table[l] <= RowsOf(l)
  BY DEF Init, RowsOf
<1>3. /\ present \subseteq Luids /\ link \subseteq present /\ addresses \subseteq Luids
      /\ listed \subseteq Luids /\ spoiled \subseteq Luids
  BY DEF Init
<1>4. /\ called \in [Luids -> Nat] /\ sawUp \in [Luids -> Nat] /\ sawDown \in [Luids -> Nat]
      /\ changes \in 0 .. MaxChanges
  BY DEF Init
<1>5. mNetworkDown \in BOOLEAN /\ mReIcePending \in BOOLEAN /\ blinded \in BOOLEAN
  BY DEF Init
<1>6. /\ monitor \in {"built", "running", "deaf", "stopped"}
      /\ told \in {"none", "UP", "DOWN"} /\ notice \in {"none", "ADDED", "REMOVED"}
  BY DEF Init
<1> QED
  BY <1>1, <1>2, <1>3, <1>4, <1>5, <1>6 DEF TypeOK

LEMMA MachineType ==
  ASSUME NetworkAssumption, TypeOK, NEW l \in Luids, MachineChange(l)
  PROVE  /\ called' \in [Luids -> Nat] /\ spoiled' \subseteq Luids
         /\ changes' \in 0 .. MaxChanges
<1>1. called[l] + Rows \in Nat
  BY DEF TypeOK, NetworkAssumption
<1>2. called' \in [Luids -> Nat] /\ spoiled' \subseteq Luids
  BY <1>1 DEF MachineChange, Callbacks, TypeOK
<1>3. changes' \in 0 .. MaxChanges
  BY DEF MachineChange, TypeOK, NetworkAssumption
<1> QED
  BY <1>2, <1>3

\* What the two handlers do to the queue.
LEMMA HandlersType ==
  ASSUME TypeOK, NEW l \in Luids,
         \/ HandleInterfaceUp(l) \/ HandleInterfaceDown(l)
         \/ UNCHANGED <<sipQueue, told, blinded>>
  PROVE  /\ sipQueue' \in Seq({"UP", "DOWN"}) /\ told' \in {"none", "UP", "DOWN"}
         /\ blinded' \in BOOLEAN
<1>1. CASE HandleInterfaceUp(l)
  <2>1. blinded' \in BOOLEAN
    BY <1>1 DEF HandleInterfaceUp, TypeOK
  <2>2. sipQueue' \in Seq({"UP", "DOWN"}) /\ told' \in {"none", "UP", "DOWN"}
    <3>1. Append(sipQueue, "UP") \in Seq({"UP", "DOWN"})
      BY DEF TypeOK
    <3>2. \/ sipQueue' = Append(sipQueue, "UP") /\ told' = "UP"
          \/ sipQueue' = sipQueue /\ told' = told
      BY <1>1 DEF HandleInterfaceUp, Post
    <3> QED
      BY <3>1, <3>2 DEF TypeOK
  <2> QED
    BY <2>1, <2>2
<1>2. CASE HandleInterfaceDown(l)
  <2>1. blinded' \in BOOLEAN
    BY <1>2 DEF HandleInterfaceDown, TypeOK
  <2>2. sipQueue' \in Seq({"UP", "DOWN"}) /\ told' \in {"none", "UP", "DOWN"}
    <3>1. Append(sipQueue, "DOWN") \in Seq({"UP", "DOWN"})
      BY DEF TypeOK
    <3>2. \/ sipQueue' = Append(sipQueue, "DOWN") /\ told' = "DOWN"
          \/ sipQueue' = sipQueue /\ told' = told
      BY <1>2 DEF HandleInterfaceDown, Post
    <3> QED
      BY <3>1, <3>2 DEF TypeOK
  <2> QED
    BY <2>1, <2>2
<1>3. CASE UNCHANGED <<sipQueue, told, blinded>>
  BY <1>3 DEF TypeOK
<1> QED
  BY <1>1, <1>2, <1>3

LEMMA TypeNext == ASSUME NetworkAssumption PROVE TypeOK /\ [Next]_vars => TypeOK'
<1> SUFFICES ASSUME TypeOK, [Next]_vars PROVE TypeOK'
  OBVIOUS
<1> USE NetworkAssumption
<1>1. ASSUME NEW l \in Luids, Connect(l) \/ Disconnect(l) \/ PlugIn(l) \/ Remove(l)
      PROVE  TypeOK'
  <2>1. MachineChange(l)
    BY <1>1 DEF Connect, Disconnect, PlugIn, Remove
  <2>2. present' \subseteq Luids /\ link' \subseteq present'
    BY <1>1 DEF Connect, Disconnect, PlugIn, Remove, TypeOK
  <2>3. UNCHANGED <<addresses, monitorVars, sipVars, sawUp, sawDown, monitor, sipQueue>>
    BY <2>1 DEF MachineChange
  <2> QED
    BY <2>1, <2>2, <2>3, MachineType DEF TypeOK, monitorVars, sipVars, RowsOf
<1>2. ASSUME NEW l \in Luids, AddressFollows(l) PROVE TypeOK'
  BY <1>2 DEF AddressFollows, TypeOK, monitorVars, sipVars, callbacks, RowsOf
<1>3. ASSUME NEW l \in Luids, Read(l) PROVE TypeOK'
  <2>1. called' \in [Luids -> Nat]
    BY <1>3 DEF Read, TypeOK
  <2>2. sawUp' \in [Luids -> Nat] /\ sawDown' \in [Luids -> Nat] /\ spoiled' \subseteq Luids
    <3>1. \/ UNCHANGED sawUp
          \/ sawUp' = [sawUp EXCEPT ![l] = sawUp[l] + 1]
      BY <1>3 DEF Read
    <3>2. \/ UNCHANGED sawDown
          \/ sawDown' = [sawDown EXCEPT ![l] = sawDown[l] + 1]
      BY <1>3 DEF Read
    <3>3. spoiled' \subseteq Luids
      BY <1>3 DEF Read, TypeOK
    <3>4. sawUp \in [Luids -> Nat] /\ sawDown \in [Luids -> Nat]
      BY DEF TypeOK
    <3>5. sawUp' \in [Luids -> Nat]
      BY <3>1, <3>4
    <3>6. sawDown' \in [Luids -> Nat]
      BY <3>2, <3>4
    <3> QED
      BY <3>3, <3>5, <3>6
  <2> QED
    BY <1>3, <2>1, <2>2 DEF Read, TypeOK, machineVars, monitorVars, sipVars, RowsOf
<1>4. ASSUME NEW l \in Luids, ApplyUp(l) PROVE TypeOK'
  <2>1. sawUp' \in [Luids -> Nat] /\ spoiled' \subseteq Luids
    BY <1>4 DEF ApplyUp, TypeOK
  <2>2. /\ table' \in [Luids -> 0 .. Rows]
        /\ \A m \in Luids : table'[m] <= RowsOf(m)
    <3>1. CASE SomeRowDown(l)
      <4>1. table' = [table EXCEPT ![l] = table[l] + 1]
        BY <1>4, <3>1 DEF ApplyUp
      <4>2. table[l] + 1 \in 0 .. Rows /\ table[l] + 1 <= RowsOf(l)
        BY <3>1 DEF SomeRowDown, RowsOf, TypeOK, NetworkAssumption
      <4> QED
        BY <4>1, <4>2 DEF TypeOK
    <3>2. CASE ~SomeRowDown(l)
      BY <1>4, <3>2 DEF ApplyUp, TypeOK
    <3> QED
      BY <3>1, <3>2
  <2>3. HandleInterfaceUp(l) \/ UNCHANGED <<sipQueue, told, blinded>>
    BY <1>4 DEF ApplyUp
  <2>4. /\ sipQueue' \in Seq({"UP", "DOWN"}) /\ told' \in {"none", "UP", "DOWN"}
        /\ blinded' \in BOOLEAN
    BY <2>3, HandlersType
  <2>5. UNCHANGED <<machineVars, sipVars, called, sawDown, listed, monitor>>
    BY <1>4 DEF ApplyUp
  <2> QED
    BY <2>1, <2>2, <2>4, <2>5 DEF TypeOK, machineVars, sipVars, RowsOf
<1>5. ASSUME NEW l \in Luids, ApplyDown(l) PROVE TypeOK'
  <2>1. sawDown' \in [Luids -> Nat] /\ spoiled' \subseteq Luids
    BY <1>5 DEF ApplyDown, TypeOK
  <2>2. /\ table' \in [Luids -> 0 .. Rows]
        /\ \A m \in Luids : table'[m] <= RowsOf(m)
    <3>1. CASE SomeRowUp(l)
      <4>1. table' = [table EXCEPT ![l] = table[l] - 1]
        BY <1>5, <3>1 DEF ApplyDown
      <4>2. table[l] - 1 \in 0 .. Rows /\ table[l] - 1 <= RowsOf(l)
        BY <3>1 DEF SomeRowUp, RowsOf, TypeOK, NetworkAssumption
      <4> QED
        BY <4>1, <4>2 DEF TypeOK
    <3>2. CASE ~SomeRowUp(l)
      BY <1>5, <3>2 DEF ApplyDown, TypeOK
    <3> QED
      BY <3>1, <3>2
  <2>3. HandleInterfaceDown(l) \/ UNCHANGED <<sipQueue, told, blinded>>
    BY <1>5 DEF ApplyDown
  <2>4. /\ sipQueue' \in Seq({"UP", "DOWN"}) /\ told' \in {"none", "UP", "DOWN"}
        /\ blinded' \in BOOLEAN
    BY <2>3, HandlersType
  <2>5. UNCHANGED <<machineVars, sipVars, called, sawUp, listed, monitor>>
    BY <1>5 DEF ApplyDown
  <2> QED
    BY <2>1, <2>2, <2>4, <2>5 DEF TypeOK, machineVars, sipVars, RowsOf
<1>6. CASE StartNetworkMonitor
  BY <1>6 DEF StartNetworkMonitor, TypeOK, machineVars, monitorVars, sipVars, callbacks, RowsOf
<1>7. CASE Stop
  <2>1. called' \in [Luids -> Nat] /\ sipQueue' \in Seq({"UP", "DOWN"})
    BY <1>7 DEF Stop
  <2> QED
    BY <1>7, <2>1 DEF Stop, TypeOK, machineVars, monitorVars, sipVars, RowsOf
<1>8. CASE HandleNetworkUpEvent
  <2>1. sipQueue' \in Seq({"UP", "DOWN"})
    BY <1>8 DEF HandleNetworkUpEvent, Takes, TypeOK
  <2>2. mNetworkDown' \in BOOLEAN /\ mReIcePending' \in BOOLEAN
    BY <1>8 DEF HandleNetworkUpEvent
  <2>3. notice' \in {"none", "ADDED", "REMOVED"}
    BY <1>8 DEF HandleNetworkUpEvent, TypeOK
  <2> QED
    BY <1>8, <2>1, <2>2, <2>3
    DEF HandleNetworkUpEvent, TypeOK, machineVars, monitorVars, callbacks, RowsOf
<1>9. CASE HandleNetworkDownEvent
  <2>1. sipQueue' \in Seq({"UP", "DOWN"})
    BY <1>9 DEF HandleNetworkDownEvent, Takes, TypeOK
  <2>2. mNetworkDown' \in BOOLEAN
    BY <1>9 DEF HandleNetworkDownEvent, TypeOK
  <2>3. notice' \in {"none", "ADDED", "REMOVED"}
    BY <1>9 DEF HandleNetworkDownEvent, TypeOK
  <2> QED
    BY <1>9, <2>1, <2>2, <2>3
    DEF HandleNetworkDownEvent, TypeOK, machineVars, monitorVars, callbacks, RowsOf
<1>10. CASE PostponeReIce
  BY <1>10 DEF PostponeReIce, TypeOK, machineVars, monitorVars, callbacks, RowsOf
<1>11. CASE UNCHANGED vars
  BY <1>11 DEF vars, TypeOK, machineVars, monitorVars, sipVars, callbacks, RowsOf
<1> QED
  BY <1>1, <1>2, <1>3, <1>4, <1>5, <1>6, <1>7, <1>8, <1>9, <1>10, <1>11
  DEF Next, CallbackStep, SipStep
-----------------------------------------------------------------------------
\* A row that an unspoiled interface is in debt for, a callback will settle; and if
\* no callback is left, the rows show the link.
LEMMA RowsShowLink ==
  ASSUME NetworkAssumption, TypeOK, Debt, NEW l \in listed, monitor # "stopped",
         Pending(l) = 0, l \notin spoiled
  PROVE  table[l] = IF l \in link THEN Rows ELSE 0
<1>1. l \in Luids /\ table[l] \in 0 .. Rows
  BY DEF TypeOK
<1>2. CASE l \in link
  <2>1. Rows - table[l] <= 0
    BY <1>2 DEF Debt
  <2> QED
    BY <1>1, <1>2, <2>1 DEF NetworkAssumption
<1>3. CASE l \notin link
  <2>1. table[l] <= 0
    BY <1>3 DEF Debt
  <2> QED
    BY <1>1, <1>3, <2>1
<1> QED
  BY <1>2, <1>3

LEMMA DebtInit == ASSUME NetworkAssumption PROVE Init => Debt /\ Quenched /\ Word
<1> SUFFICES ASSUME Init PROVE Debt /\ Quenched /\ Word
  OBVIOUS
<1>1. ASSUME NEW l \in listed
      PROVE  Pending(l) = 0 /\ table[l] = IF l \in link THEN Rows ELSE 0
  <2>1. l \in Luids
    BY DEF Init
  <2>2. called[l] = 0 /\ sawUp[l] = 0 /\ sawDown[l] = 0
    BY <2>1 DEF Init
  <2>3. table[l] = IF l \in link THEN Rows ELSE 0
    BY <2>1 DEF Init
  <2> QED
    BY <2>2, <2>3 DEF Pending
<1>2. Debt
  BY <1>1 DEF Debt, NetworkAssumption
<1>3. Quenched
  BY DEF Init, Quenched
<1>4. Word
  BY DEF Init, Word
<1> QED
  BY <1>2, <1>3, <1>4

\* A change while the monitor listens brings a callback for every row.
LEMMA DebtMachine ==
  ASSUME NetworkAssumption, TypeOK, Debt, Quenched, NEW l \in Luids, MachineChange(l),
         link' \ {l} = link \ {l}
  PROVE  Debt' /\ Quenched' /\ (Word => Word')
<1>1. UNCHANGED <<listed, table, told, blinded, sawUp, sawDown, monitor>>
  BY DEF MachineChange, monitorVars
<1>2. Quenched'
  BY <1>1 DEF Quenched, MachineChange, Callbacks
<1>3. Word => Word'
  BY <1>1 DEF Word
<1>4. ASSUME NEW m \in listed, monitor # "stopped", m \notin spoiled'
      PROVE  /\ m \in link' => Rows - table[m] <= Pending(m)'
             /\ m \notin link' => table[m] <= Pending(m)'
  <2>1. m \in Luids /\ table[m] \in 0 .. Rows /\ called[m] \in Nat /\ Pending(m) \in Nat
        /\ sawUp[m] \in Nat /\ sawDown[m] \in Nat
    BY PendingNat DEF TypeOK
  <2>2. CASE m = l
    <3>1. called'[m] = called[m] + Rows
      BY <1>4, <2>2, <2>1 DEF MachineChange, Callbacks, TypeOK
    <3>2. Pending(m)' = called[m] + Rows + sawUp[m] + sawDown[m]
      BY <3>1, <1>1 DEF Pending
    <3> QED
      BY <2>1, <3>2 DEF NetworkAssumption
  <2>3. CASE m # l
    <3>1. called'[m] = called[m] /\ m \notin spoiled /\ (m \in link' <=> m \in link)
      BY <1>4, <2>1, <2>3 DEF MachineChange, Callbacks, TypeOK
    <3>2. Pending(m)' = Pending(m)
      BY <3>1, <1>1 DEF Pending
    <3> QED
      BY <1>4, <3>1, <3>2 DEF Debt
  <2> QED
    BY <2>2, <2>3
<1>5. Debt'
  BY <1>1, <1>4 DEF Debt
<1> QED
  BY <1>2, <1>3, <1>5

\* A callback reads: nothing about the table changes.
LEMMA DebtRead ==
  ASSUME NetworkAssumption, TypeOK, Debt, Quenched, NEW l \in Luids, Read(l)
  PROVE  Debt' /\ Quenched' /\ (Word => Word')
<1>1. UNCHANGED <<listed, table, told, blinded, link, monitor>>
  BY DEF Read, monitorVars, machineVars
<1>2. Word => Word'
  BY <1>1 DEF Word
<1>3. called[l] > 0 /\ called' = [called EXCEPT ![l] = called[l] - 1]
  BY DEF Read
<1>4. monitor # "stopped"
  BY <1>3 DEF Quenched
<1>5. Quenched'
  BY <1>1, <1>4 DEF Quenched
<1>6. ASSUME NEW m \in listed, m \notin spoiled'
      PROVE  m \notin spoiled /\ Pending(m)' = Pending(m)
  <2>1. m \in Luids /\ called[m] \in Nat /\ sawUp[m] \in Nat /\ sawDown[m] \in Nat
    BY PendingNat DEF TypeOK
  <2>2. m \notin spoiled
    BY <1>6 DEF Read
  <2>3. CASE m = l
    <3>1. called'[m] = called[m] - 1
      BY <1>3, <2>1, <2>3 DEF TypeOK
    <3>2. \/ sawUp'[m] = sawUp[m] + 1 /\ sawDown'[m] = sawDown[m]
          \/ sawUp'[m] = sawUp[m] /\ sawDown'[m] = sawDown[m] + 1
      BY <1>6, <2>1, <2>3 DEF Read, TypeOK
    <3> QED
      BY <2>1, <2>2, <3>1, <3>2 DEF Pending
  <2>4. CASE m # l
    <3>1. called'[m] = called[m]
      BY <1>3, <2>1, <2>4 DEF TypeOK
    <3>2. sawUp'[m] = sawUp[m] /\ sawDown'[m] = sawDown[m]
      BY <2>1, <2>4 DEF Read, TypeOK
    <3> QED
      BY <2>2, <3>1, <3>2 DEF Pending
  <2> QED
    BY <2>3, <2>4
<1>7. Debt'
  BY <1>1, <1>4, <1>6 DEF Debt
<1> QED
  BY <1>2, <1>5, <1>7

\* A callback that read what is still so takes its row out of the debt ...
LEMMA DebtApply ==
  ASSUME NetworkAssumption, TypeOK, Debt, Quenched, NEW l \in Luids, ApplyUp(l) \/ ApplyDown(l)
  PROVE  Debt' /\ Quenched' /\ monitor # "stopped"
<1>1. UNCHANGED <<listed, link, monitor, called>>
  BY DEF ApplyUp, ApplyDown, machineVars
<1>2. monitor # "stopped"
  BY DEF ApplyUp, ApplyDown, Quenched
<1>3. Quenched'
  BY <1>1, <1>2 DEF Quenched
<1>4. ASSUME NEW m \in listed, m \notin spoiled'
      PROVE  /\ m \in link => Rows - table'[m] <= Pending(m)'
             /\ m \notin link => table'[m] <= Pending(m)'
  <2>1. /\ m \in Luids /\ called[m] \in Nat /\ sawUp[m] \in Nat /\ sawDown[m] \in Nat
        /\ table[m] \in 0 .. Rows /\ RowsOf(m) = Rows
    BY PendingNat DEF TypeOK, RowsOf
  <2>2. m \notin spoiled
    BY <1>4 DEF ApplyUp, ApplyDown
  <2>3. /\ m \in link => Rows - table[m] <= called[m] + sawUp[m] + sawDown[m]
        /\ m \notin link => table[m] <= called[m] + sawUp[m] + sawDown[m]
    BY <1>2, <2>2 DEF Debt, Pending
  <2>4. CASE m # l
    <3>1. table'[m] = table[m] /\ sawUp'[m] = sawUp[m] /\ sawDown'[m] = sawDown[m]
      BY <2>1, <2>4 DEF ApplyUp, ApplyDown, TypeOK
    <3> QED
      BY <1>1, <2>3, <3>1 DEF Pending
  <2>5. CASE m = l /\ ApplyUp(l)
    <3>1. l \in link
      BY <1>4, <2>5 DEF ApplyUp
    <3>2. sawUp[m] > 0 /\ sawUp'[m] = sawUp[m] - 1 /\ sawDown'[m] = sawDown[m]
      BY <2>1, <2>5 DEF ApplyUp, TypeOK
    <3>3. table'[m] = IF table[m] < Rows THEN table[m] + 1 ELSE table[m]
      BY <2>1, <2>5 DEF ApplyUp, SomeRowDown, TypeOK
    <3> QED
      BY <1>1, <2>1, <2>3, <2>5, <3>1, <3>2, <3>3 DEF Pending, NetworkAssumption
  <2>6. CASE m = l /\ ApplyDown(l)
    <3>1. l \notin link
      BY <1>4, <2>6 DEF ApplyDown
    <3>2. sawDown[m] > 0 /\ sawDown'[m] = sawDown[m] - 1 /\ sawUp'[m] = sawUp[m]
      BY <2>1, <2>6 DEF ApplyDown, TypeOK
    <3>3. table'[m] = IF table[m] > 0 THEN table[m] - 1 ELSE table[m]
      BY <2>1, <2>6 DEF ApplyDown, SomeRowUp, TypeOK
    <3> QED
      BY <1>1, <2>1, <2>3, <2>6, <3>1, <3>2, <3>3 DEF Pending, NetworkAssumption
  <2> QED
    BY <2>4, <2>5, <2>6
<1>5. Debt'
  BY <1>1, <1>4 DEF Debt
<1> QED
  BY <1>2, <1>3, <1>5

\* ... and what it posts, or withholds, keeps the last word right.
LEMMA WordUp ==
  ASSUME NetworkAssumption, TypeOK, Debt, Quenched, Word, NEW l \in Luids, ApplyUp(l)
  PROVE  Word'
<1>1. listed' = listed /\ monitor # "stopped"
  BY DebtApply DEF ApplyUp
<1>2. \A m \in listed : m \in Luids /\ table[m] \in 0 .. Rows
  BY DEF TypeOK
<1>3. CASE ~SomeRowDown(l)
  BY <1>1, <1>3 DEF ApplyUp, Word
<1>4. CASE SomeRowDown(l)
  <2>1. table' = [table EXCEPT ![l] = table[l] + 1] /\ HandleInterfaceUp(l)
    BY <1>4 DEF ApplyUp
  <2>2. l \in listed /\ table'[l] > 0 /\ \A m \in listed \ {l} : table'[m] = table[m]
    BY <1>2, <1>4, <2>1 DEF SomeRowDown, RowsOf, TypeOK
  <2>3. told' = "UP" => \E m \in listed : table'[m] > 0
    BY <2>2
  <2>4. CASE OthersUp(l) = {}
    BY <1>1, <2>1, <2>3, <2>4 DEF HandleInterfaceUp, Post, Word
  <2>5. CASE OthersUp(l) # {}
    <3> SUFFICES ASSUME told' = "DOWN", ~blinded' PROVE FALSE
      BY <1>1, <2>3 DEF Word
    <3>1. told = "DOWN" /\ ~blinded /\ \E m \in OthersUp(l) : ~InMotion(m)
      BY <2>1, <2>5 DEF HandleInterfaceUp
    <3>2. PICK m \in OthersUp(l) : ~InMotion(m)
      BY <3>1
    <3>3. m \in listed /\ table[m] > 0 /\ m \in Luids
      BY <1>2 DEF OthersUp
    <3>4. Pending(m) = 0 /\ m \notin spoiled
      BY <3>2, <3>3, PendingNat DEF InMotion
    <3>5. table[m] = IF m \in link THEN Rows ELSE 0
      BY <1>1, <3>3, <3>4, RowsShowLink
    <3>6. table[m] < Rows
      BY <3>1, <3>3 DEF Word
    <3> QED
      BY <1>2, <3>3, <3>5, <3>6 DEF NetworkAssumption
  <2> QED
    BY <2>4, <2>5
<1> QED
  BY <1>3, <1>4

LEMMA WordDown ==
  ASSUME NetworkAssumption, TypeOK, Word, NEW l \in Luids, ApplyDown(l)
  PROVE  Word'
<1>1. listed' = listed
  BY DEF ApplyDown
<1>2. \A m \in listed : m \in Luids /\ table[m] \in 0 .. Rows
  BY DEF TypeOK
<1>3. CASE ~SomeRowUp(l)
  BY <1>1, <1>3 DEF ApplyDown, Word
<1>4. CASE SomeRowUp(l)
  <2>1. table' = [table EXCEPT ![l] = table[l] - 1] /\ HandleInterfaceDown(l)
    BY <1>4 DEF ApplyDown
  <2>2. /\ \A m \in listed \ {l} : table'[m] = table[m]
        /\ l \in listed => table'[l] = table[l] - 1
        /\ blinded' = blinded
    BY <1>2, <2>1 DEF TypeOK, HandleInterfaceDown
  <2>3. CASE OthersUp(l) = {}
    <3>1. told' = "DOWN" /\ \A m \in listed \ {l} : ~(table[m] > 0)
      BY <2>1, <2>3 DEF HandleInterfaceDown, Post, OthersUp
    <3>2. \A m \in listed : table'[m] < Rows
      BY <1>2, <2>2, <3>1 DEF NetworkAssumption
    <3> QED
      BY <1>1, <3>1, <3>2 DEF Word
  <2>4. CASE OthersUp(l) # {}
    <3>1. told' = told /\ \E m \in listed \ {l} : table[m] > 0
      BY <2>1, <2>4 DEF HandleInterfaceDown, OthersUp
    <3>2. \E m \in listed : table'[m] > 0
      BY <2>2, <3>1
    <3>3. told = "DOWN" /\ ~blinded => \A m \in listed : table'[m] < Rows
      <4> SUFFICES ASSUME told = "DOWN", ~blinded, NEW m \in listed PROVE table'[m] < Rows
        OBVIOUS
      <4>1. table[m] < Rows
        BY DEF Word
      <4> QED
        BY <1>2, <2>2, <4>1 DEF NetworkAssumption
    <3> QED
      BY <1>1, <2>2, <3>1, <3>2, <3>3 DEF Word
  <2> QED
    BY <2>3, <2>4
<1> QED
  BY <1>3, <1>4

LEMMA InvNext == ASSUME NetworkAssumption PROVE IInv /\ [Next]_vars => IInv'
<1> SUFFICES ASSUME IInv, [Next]_vars PROVE IInv'
  OBVIOUS
<1>1. TypeOK /\ Debt /\ Quenched /\ Word
  BY DEF IInv
<1>2. TypeOK'
  BY <1>1, TypeNext
<1>3. ASSUME NEW l \in Luids, Connect(l) \/ Disconnect(l) \/ PlugIn(l) \/ Remove(l)
      PROVE  Debt' /\ Quenched' /\ Word'
  <2>1. MachineChange(l) /\ link' \ {l} = link \ {l}
    BY <1>3 DEF Connect, Disconnect, PlugIn, Remove
  <2> QED
    BY <1>1, <2>1, DebtMachine
<1>4. ASSUME NEW l \in Luids, Read(l) PROVE Debt' /\ Quenched' /\ Word'
  BY <1>1, <1>4, DebtRead
<1>5. ASSUME NEW l \in Luids, ApplyUp(l) PROVE Debt' /\ Quenched' /\ Word'
  BY <1>1, <1>5, DebtApply, WordUp
<1>6. ASSUME NEW l \in Luids, ApplyDown(l) PROVE Debt' /\ Quenched' /\ Word'
  BY <1>1, <1>6, DebtApply, WordDown
<1>7. ASSUME StartNetworkMonitor PROVE Debt' /\ Quenched' /\ Word'
  BY <1>1, <1>7
  DEF StartNetworkMonitor, machineVars, monitorVars, callbacks, Debt, Quenched, Word, Pending
<1>8. ASSUME Stop PROVE Debt' /\ Quenched' /\ Word'
  <2>1. Debt' /\ Word'
    BY <1>1, <1>8 DEF Stop, monitorVars, Debt, Word
  <2>2. Quenched'
    BY <1>8 DEF Stop, Quenched
  <2> QED
    BY <2>1, <2>2
<1>9. ASSUME UNCHANGED <<link, callbacks, monitorVars, monitor, spoiled>>
      PROVE  Debt' /\ Quenched' /\ Word'
  BY <1>1, <1>9 DEF callbacks, monitorVars, Debt, Quenched, Word, Pending
<1>10. ASSUME NEW l \in Luids, AddressFollows(l) PROVE UNCHANGED <<link, callbacks, monitorVars, monitor, spoiled>>
  BY <1>10 DEF AddressFollows
<1>11. SipStep \/ PostponeReIce \/ UNCHANGED vars
       => UNCHANGED <<link, callbacks, monitorVars, monitor, spoiled>>
  BY DEF SipStep, HandleNetworkUpEvent, HandleNetworkDownEvent, PostponeReIce, vars, machineVars
<1> QED
  BY <1>2, <1>3, <1>4, <1>5, <1>6, <1>7, <1>8, <1>9, <1>10, <1>11 DEF IInv, Next, CallbackStep

LEMMA Inv == ASSUME NetworkAssumption PROVE Spec => []IInv
<1>1. Init => IInv
  BY TypeInit, DebtInit DEF IInv
<1> QED
  BY <1>1, InvNext, PTL DEF Spec

-----------------------------------------------------------------------------
\* Every variable of NetworkRecovery keeps its type.
THEOREM TypeCorrect == ASSUME NetworkAssumption PROVE Spec => []TypeOK
<1>1. IInv => TypeOK
  BY DEF IInv
<1> QED
  BY <1>1, Inv, PTL

\* The copy of the interface table catches up with the machine: one row per callback
\* is enough, for any number of rows.
THEOREM CatchesUp == ASSUME NetworkAssumption PROVE Spec => []TableCatchesUp
<1>1. IInv => TableCatchesUp
  <2> SUFFICES ASSUME IInv, NEW l \in listed, monitor = "running", Settled(l)
               PROVE  table[l] = IF l \in link THEN Rows ELSE 0
    BY DEF TableCatchesUp
  <2>1. monitor # "stopped" /\ Pending(l) = 0 /\ l \notin spoiled
    BY DEF Settled
  <2> QED
    BY <2>1, RowsShowLink DEF IInv
<1> QED
  BY <1>1, Inv, PTL

\* When the callbacks have returned, the rows show the links, and the last word
\* follows from the rows.
LEMMA LastWordOfInv == ASSUME NetworkAssumption PROVE IInv => LastWordRight
<1> SUFFICES ASSUME IInv, AtRest, told # "none", ~blinded
             PROVE  told = "UP" <=> listed \cap link # {}
  BY DEF LastWordRight
<1>1. TypeOK /\ Debt /\ Word /\ monitor # "stopped"
  <2>1. monitor = "running"
    BY DEF AtRest
  <2> QED
    BY <2>1 DEF IInv
<1>2. \A m \in listed : table[m] = IF m \in link THEN Rows ELSE 0
  <2>1. \A m \in listed : Pending(m) = 0 /\ m \notin spoiled
    BY <1>1 DEF AtRest, Settled, TypeOK
  <2> QED
    BY <1>1, <2>1, RowsShowLink
<1>3. ASSUME told = "UP" PROVE listed \cap link # {}
  <2>1. PICK m \in listed : table[m] > 0
    BY <1>1, <1>3 DEF Word
  <2>2. m \in link
    BY <1>2, <2>1
  <2> QED
    BY <2>2
<1>4. ASSUME told # "UP" PROVE listed \cap link = {}
  <2>1. told = "DOWN"
    BY <1>1, <1>4 DEF TypeOK
  <2>2. \A m \in listed : table[m] < Rows
    BY <1>1, <2>1 DEF Word
  <2>3. \A m \in listed : m \notin link
    BY <1>2, <2>2 DEF NetworkAssumption
  <2> QED
    BY <2>3
<1> QED
  BY <1>3, <1>4

\* The last message posted to the SIP thread tells whether a listed interface is
\* connected.
THEOREM LastWord == ASSUME NetworkAssumption PROVE Spec => []LastWordRight
BY Inv, LastWordOfInv, PTL

-----------------------------------------------------------------------------
(* The SIP thread is never left believing the network gone: the safety half of *)
(* ReIceTriggered.                                                             *)

\* What the SIP thread has yet to hear ends with the last word; what it believes, when
\* it has heard everything, is that word.
Heard ==
  /\ mReIcePending => mNetworkDown
  /\ sipQueue # <<>> => sipQueue[Len(sipQueue)] = told
  /\ monitor # "stopped" /\ sipQueue = <<>> /\ mNetworkDown => told = "DOWN"

\* When the callbacks have returned and a re-ICE waits for an interface that is there,
\* the message that triggers it is in the queue, the last of it.
ReIceHasItsWord ==
  mReIcePending /\ AtRest /\ ~Stranded =>
    sipQueue # <<>> /\ sipQueue[Len(sipQueue)] = "UP"

LEMMA HeardInit == Init => Heard
BY DEF Init, Heard

\* A message posted is the last of the queue.
LEMMA HeardPost ==
  ASSUME TypeOK, Heard, NEW m \in {"UP", "DOWN"}, Post(m), UNCHANGED sipVars
  PROVE  Heard'
<1>1. sipQueue' # <<>> /\ sipQueue'[Len(sipQueue')] = m
  <2>1. sipQueue \in Seq({"UP", "DOWN"}) /\ sipQueue' = Append(sipQueue, m)
    BY DEF Post, TypeOK
  <2>2. Len(sipQueue') = Len(sipQueue) + 1 /\ Len(sipQueue) \in Nat
    BY <2>1
  <2>3. sipQueue'[Len(sipQueue) + 1] = m
    BY <2>1
  <2> QED
    BY <2>2, <2>3
<1>2. told' = m /\ (mReIcePending' => mNetworkDown')
  BY DEF Post, sipVars, Heard
<1> QED
  BY <1>1, <1>2 DEF Heard

LEMMA HeardApply ==
  ASSUME TypeOK, Heard, NEW l \in Luids, ApplyUp(l) \/ ApplyDown(l)
  PROVE  Heard'
<1>1. UNCHANGED sipVars /\ monitor' = monitor
  BY DEF ApplyUp, ApplyDown
<1>2. Post("UP") \/ Post("DOWN") \/ UNCHANGED <<sipQueue, told>>
  BY DEF ApplyUp, ApplyDown, HandleInterfaceUp, HandleInterfaceDown
<1>3. CASE UNCHANGED <<sipQueue, told>>
  BY <1>1, <1>3 DEF sipVars, Heard
<1> QED
  BY <1>1, <1>2, <1>3, HeardPost

\* A message handled leaves the last one last; the last handled leaves its news.
LEMMA HeardSip ==
  ASSUME TypeOK, Heard, SipStep
  PROVE  Heard'
<1>1. UNCHANGED <<told, monitor>>
  BY DEF SipStep, HandleNetworkUpEvent, HandleNetworkDownEvent, monitorVars
<1>2. sipQueue # <<>> /\ sipQueue' = Tail(sipQueue) /\ sipQueue \in Seq({"UP", "DOWN"})
  BY DEF SipStep, HandleNetworkUpEvent, HandleNetworkDownEvent, Takes, TypeOK
<1>3. sipQueue' # <<>> => sipQueue'[Len(sipQueue')] = sipQueue[Len(sipQueue)]
  BY <1>2
<1>4. sipQueue' = <<>> => Head(sipQueue) = sipQueue[Len(sipQueue)]
  BY <1>2
<1>5. CASE HandleNetworkUpEvent
  BY <1>1, <1>2, <1>3, <1>5 DEF HandleNetworkUpEvent, Heard
<1>6. CASE HandleNetworkDownEvent
  <2>1. Head(sipQueue) = "DOWN" /\ mReIcePending' = mReIcePending /\ (mNetworkDown => mNetworkDown')
    BY <1>6 DEF HandleNetworkDownEvent, Takes
  <2>2. sipQueue' = <<>> => told = "DOWN"
    BY <1>2, <1>4, <2>1 DEF Heard
  <2> QED
    BY <1>1, <1>2, <1>3, <2>1, <2>2 DEF Heard
<1> QED
  BY <1>5, <1>6 DEF SipStep

LEMMA HeardNext == ASSUME NetworkAssumption PROVE IInv /\ Heard /\ [Next]_vars => Heard'
<1> SUFFICES ASSUME IInv, Heard, [Next]_vars PROVE Heard'
  OBVIOUS
<1>1. TypeOK
  BY DEF IInv
<1>2. ASSUME NEW l \in Luids, ApplyUp(l) \/ ApplyDown(l) PROVE Heard'
  BY <1>1, <1>2, HeardApply
<1>3. ASSUME SipStep PROVE Heard'
  BY <1>1, <1>3, HeardSip
<1>4. ASSUME UNCHANGED <<sipVars, monitorVars, sipQueue>>, monitor = "stopped" => monitor' = "stopped"
      PROVE  Heard'
  BY <1>4 DEF sipVars, monitorVars, Heard
<1>5. ASSUME NEW l \in Luids, Connect(l) \/ Disconnect(l) \/ PlugIn(l) \/ Remove(l) PROVE Heard'
  <2>1. UNCHANGED <<sipVars, monitorVars, sipQueue, monitor>>
    BY <1>5 DEF Connect, Disconnect, PlugIn, Remove, MachineChange
  <2> QED
    BY <1>4, <2>1
<1>6. ASSUME NEW l \in Luids, Read(l) \/ AddressFollows(l) PROVE Heard'
  BY <1>4, <1>6 DEF Read, AddressFollows
<1>7. ASSUME StartNetworkMonitor \/ UNCHANGED vars PROVE Heard'
  BY <1>4, <1>7 DEF StartNetworkMonitor, vars
<1>8. ASSUME Stop PROVE Heard'
  BY <1>8 DEF Stop, sipVars, Heard
<1>9. ASSUME PostponeReIce PROVE Heard'
  BY <1>9 DEF PostponeReIce, monitorVars, Heard
<1> QED
  BY <1>2, <1>3, <1>5, <1>6, <1>7, <1>8, <1>9 DEF Next, CallbackStep

\* No word is lost between the callbacks and the SIP thread: a re-ICE that waits while
\* an interface of the table is connected has its UP in the queue, or an exception
\* applies (ReIceTriggered then only needs the queue to be served).
THEOREM ReIceNotForgotten == ASSUME NetworkAssumption PROVE Spec => []ReIceHasItsWord
<1>1. IInv => LastWordRight
  BY LastWordOfInv
<1>2. IInv /\ Heard => ReIceHasItsWord
  <2> SUFFICES ASSUME IInv, Heard, mReIcePending, AtRest, ~Stranded
               PROVE  sipQueue # <<>> /\ sipQueue[Len(sipQueue)] = "UP"
    BY DEF ReIceHasItsWord
  <2>1. monitor = "running" /\ ~blinded /\ listed \cap link # {} /\ mNetworkDown
    BY DEF AtRest, Stranded, Heard
  <2>2. told # "DOWN"
    BY <1>1, <2>1 DEF LastWordRight
  <2>3. sipQueue # <<>>
    BY <2>1, <2>2 DEF Heard
  <2>4. sipQueue \in Seq({"UP", "DOWN"}) /\ sipQueue[Len(sipQueue)] = told
    BY <2>3 DEF IInv, TypeOK, Heard
  <2>5. told \in {"UP", "DOWN"}
    BY <2>3, <2>4
  <2> QED
    BY <2>2, <2>3, <2>4, <2>5
<1>3. Init => Heard
  BY HeardInit
<1> QED
  BY <1>2, <1>3, Inv, HeardNext, PTL DEF Spec
=============================================================================
