----------------------------- MODULE SerialCalls -----------------------------
(***************************************************************************)
(* What the client promises about its calls: they run one after another,    *)
(* each takes the process-wide SIP stack once and gives it back before the  *)
(* UI thread returns to the main loop, and the window says "Connected" only *)
(* for a call that holds the stack.                                         *)
(***************************************************************************)
EXTENDS Naturals

VARIABLES
  n,         \* calls opened so far
  phase,     \* of call n: "idle" (none in progress), "open" or "closing"
  holder,    \* the call that holds the SIP stack, 0 if none
  connected  \* the window shows a connected call

vars == <<n, phase, holder, connected>>

Init == n = 0 /\ phase = "idle" /\ holder = 0 /\ connected = FALSE

Open ==
  /\ phase = "idle" /\ ~connected
  /\ n' = n + 1
  /\ phase' = "open"
  /\ UNCHANGED <<holder, connected>>

Acquire ==
  /\ phase = "open" /\ holder = 0
  /\ holder' = n
  /\ UNCHANGED <<n, phase, connected>>

Connect ==
  /\ holder = n /\ phase = "open"
  /\ connected' = TRUE
  /\ UNCHANGED <<n, phase, holder>>

Disconnect ==
  /\ connected' = FALSE
  /\ UNCHANGED <<n, phase, holder>>

Release ==
  /\ phase = "open" /\ holder = n
  /\ holder' = 0
  /\ phase' = "closing"
  /\ UNCHANGED <<n, connected>>

Return ==
  /\ phase = "closing"
  /\ phase' = "idle"
  /\ UNCHANGED <<n, holder, connected>>

Next == Open \/ Acquire \/ Connect \/ Disconnect \/ Release \/ Return

Spec == Init /\ [][Next]_vars
=============================================================================
