-------------------------- MODULE MCInterruptedCalls --------------------------
(* CallLifecycle with a history variable: which of three things that the order *)
(* of the shutdown messages does not provide for have happened.                *)
EXTENDS CallLifecycle

VARIABLE disturbed

\* A command of test.txt is taken up while the manager is still being constructed.
EarlyCommand == \E c \in Calls : sip[c] = "ctor" /\ IoInput(c)
\* A second MSG_INIT_MEDIA creates a second local stream.
SecondStream == \E c \in Calls : SipInitDefaults(c) /\ ~UNCHANGED <<appQueue, fault>>

Disturbance == (IF SigInt THEN {"signal"} ELSE {})
          \cup (IF EarlyCommand THEN {"command"} ELSE {})
          \cup (IF SecondStream THEN {"stream"} ELSE {})

MCInit == Init /\ disturbed = {}
MCNext == Next /\ disturbed' = disturbed \cup Disturbance
MCSpec == MCInit /\ [][MCNext]_<<vars, disturbed>> /\ Fairness

\* Only a SIGINT, which leaves the window and its messages as they are, a command
\* that is read too early, or a second local stream, which dials again while the
\* call may already be ending, can make a thread use the manager, the object or a
\* Win32Thread when it is not there.
ManagerSafeUnlessDisturbed == disturbed # {} \/ ManagerSafe

\* Only a SIGINT or a second dialling tears a call down that neither the user nor
\* the far end ended: terminateCall, which is never the call's own, says nothing
\* left over from the previous one, and commands of test.txt end no call.
EndsOnlyWhenAskedUnlessDisturbed == disturbed \subseteq {"command"} => EndsOnlyWhenAsked
=============================================================================
