------------------------- MODULE CaptureStreamProofs -------------------------
(***************************************************************************)
(* What the capture thread delivers, for any sizes of the screen, any width  *)
(* that is encoded and any number of changes.                               *)
(***************************************************************************)
EXTENDS CaptureStream, TLAPS

\* The callback of a running stream that has not asked for a reset works in the
\* stream's size, and that is the size of the last frame, scaled.
InFormat == stream = "running" /\ ~resetting => desired = format
OfLastFrame ==
  stream = "running" /\ ~resetting /\ ~firstFrame => desired = CalculateDesiredWH(changed)

CaptureInv == TypeOK /\ InFormat /\ OfLastFrame /\ DeliveredInFormat

\* webrtc_get_capturer_index answers with a format that is as wide as what is encoded,
\* or with the first: a zeroed format is picked only if it is the first.
LEMMA PicksAWideOne ==
  ASSUME TypeOK
  PROVE  \/ CapturerIndex = 1
         \/ CapturerIndex \in 1 .. 3 /\ Width(Formats[CapturerIndex]) >= EncWidth
<1> DEFINE Steps == {i \in 1 .. count - 1 : /\ Width(Formats[i]) >= EncWidth
                                            /\ Width(Formats[i + 1]) < EncWidth}
           first == CHOOSE i \in Steps : \A j \in Steps : i <= j
<1>1. Steps \subseteq 1 .. 2
  BY DEF TypeOK, EntryTyped
<1>2. ASSUME Steps # {} PROVE first \in Steps
  <2>1. \E i \in Steps : \A j \in Steps : i <= j
    <3>1. CASE 1 \in Steps
      BY <1>1, <3>1
    <3>2. CASE 1 \notin Steps
      <4>1. Steps = {2}
        BY <1>1, <1>2, <3>2
      <4> QED
        BY <4>1
    <3> QED
      BY <3>1, <3>2
  <2> HIDE DEF Steps
  <2> QED
    BY <2>1
<1>3. CapturerIndex = IF Steps # {} THEN first
                      ELSE IF count > 0 /\ Width(Formats[count]) >= EncWidth THEN count ELSE 1
  BY DEF CapturerIndex
<1>4. CASE Steps # {}
  <2>1. first \in 1 .. 3 /\ Width(Formats[first]) >= EncWidth
    <3>1. first \in Steps
      BY <1>2, <1>4
    <3> HIDE DEF first
    <3> QED
      BY <3>1, <1>1
  <2> HIDE DEF Steps, first
  <2> QED
    BY <1>3, <1>4, <2>1
<1>5. CASE Steps = {} /\ count > 0 /\ Width(Formats[count]) >= EncWidth
  <2>1. count \in 1 .. 3
    BY <1>5 DEF TypeOK, EntryTyped
  <2> HIDE DEF Steps, first
  <2> QED
    BY <1>3, <1>5, <2>1
<1>6. CASE Steps = {} /\ ~(count > 0 /\ Width(Formats[count]) >= EncWidth)
  <2> HIDE DEF Steps, first
  <2> QED
    BY <1>3, <1>6
<1> QED
  BY <1>4, <1>5, <1>6

LEMMA PickedIsASize == ASSUME TypeOK, SipIsFree PROVE Picked \in Sizes
<1>1. PICK a \in Sizes \cup {None}, b \in Sizes \cup {None} : table = <<a, b>>
  BY DEF TypeOK, EntryTyped
<1>2. Formats[1] = a /\ Formats[2] = b /\ Formats[3] = None
  BY <1>1 DEF Formats
<1>3. a \in Sizes
  <2>1. count > 0
    BY DEF TypeOK, EntryTyped, SipIsFree
  <2> QED
    BY <1>1, <2>1 DEF TypeOK, EntryTyped
<1>4. ~(Width(None) >= EncWidth)
  BY CaptureAssumption DEF CaptureAssumption, None, Width
<1>5. CASE CapturerIndex = 1
  BY <1>2, <1>3, <1>5 DEF Picked
<1>6. CASE CapturerIndex \in 1 .. 3 /\ Width(Formats[CapturerIndex]) >= EncWidth
  <2>1. Picked \in {a, b, None}
    BY <1>2, <1>6 DEF Picked
  <2>2. Picked # None
    BY <1>4, <1>6 DEF Picked
  <2> QED
    BY <1>3, <2>1, <2>2
<1> QED
  BY PicksAWideOne, <1>5, <1>6

LEMMA Scaled == ASSUME NEW s \in Screens PROVE s \in Sizes /\ CalculateDesiredWH(s) \in Sizes
BY DEF Sizes

LEMMA CaptureInit == Init => CaptureInv
<1> SUFFICES ASSUME Init PROVE CaptureInv
  OBVIOUS
<1>1. TypeOK
  <2>1. CalculateDesiredWH(screen) \in Sizes /\ screen \in Sizes /\ screen \in Screens
    BY Scaled DEF Init
  <2>2. PICK a \in Sizes, b \in Sizes : table = <<a, b>>
    BY <2>1 DEF Init
  <2>3. EntryTyped
    <3>1. cap = <<a, b>>
      BY <2>2 DEF Init
    <3>2. count = 2 /\ filling = "no" /\ sampled = None /\ slot = 1
      BY DEF Init
    <3> QED
      BY <2>2, <3>1, <3>2 DEF EntryTyped
  <2>4. changes \in 0 .. MaxChanges /\ refreshes \in 0 .. MaxRefreshes /\ commands \in 0 .. MaxCommands
    BY CaptureAssumption DEF Init, CaptureAssumption
  <2> QED
    BY <2>1, <2>3, <2>4 DEF Init, TypeOK
<1>2. InFormat /\ OfLastFrame /\ DeliveredInFormat
  BY DEF Init, InFormat, OfLastFrame, DeliveredInFormat
<1> QED
  BY <1>1, <1>2 DEF CaptureInv

LEMMA EntryNext == ASSUME TypeOK, [Next]_vars PROVE EntryTyped'
<1> USE DEF TypeOK, EntryTyped
<1>1. ASSUME UNCHANGED <<entryVars, filling, sampled, slot>> PROVE EntryTyped'
  BY <1>1 DEF entryVars
<1>2. CASE FrameResets
  <2> DEFINE c == CalculateDesiredWH(screen)
  <2>1. c \in Sizes
    BY Scaled
  <2> HIDE DEF c
  <2>2. PICK a \in Sizes \cup {None}, b \in Sizes \cup {None} : cap = <<a, b>>
    OBVIOUS
  <2>3. UNCHANGED <<filling, sampled, slot>>
    BY <1>2 DEF FrameResets
  <2>4. CASE ~Named
    <3>1. UNCHANGED <<cap, table, count>>
      BY <1>2, <2>4 DEF FrameResets
    <3> QED
      BY <2>3, <3>1, <1>1 DEF entryVars
  <2>5. CASE Named /\ ~Coded
    <3>1. UNCHANGED <<table, count>> /\ cap' = <<c, b>>
      BY <1>2, <2>2, <2>5 DEF FrameResets, c
    <3>2. filling \notin {"copied", "scaled"}
      BY <2>5 DEF Coded
    <3>3. cap' \in (Sizes \cup {None}) \X (Sizes \cup {None})
      BY <2>1, <3>1
    <3> QED
      BY <2>3, <3>1, <3>2, <3>3
  <2>6. CASE Named /\ Coded
    <3>1. table' = <<c, b>> /\ count' = 2 /\ cap' = <<c, b>>
      BY <1>2, <2>2, <2>6 DEF FrameResets, RefreshedScreen, c
    <3>2. /\ table' \in (Sizes \cup {None}) \X (Sizes \cup {None})
          /\ cap' \in (Sizes \cup {None}) \X (Sizes \cup {None})
          /\ table'[1] \in Sizes
      BY <2>1, <3>1
    <3>3. filling \in {"copied", "scaled"} => cap'[slot] \in Sizes
      <4>1. CASE slot = 1
        BY <2>1, <3>1, <4>1
      <4>2. CASE slot = 2
        BY <2>2, <3>1, <4>2
      <4> QED
        BY <4>1, <4>2
    <3> QED
      BY <2>3, <3>1, <3>2, <3>3
  <2> QED
    BY <2>4, <2>5, <2>6
<1>3. CASE RefreshBegins
  BY <1>3 DEF RefreshBegins
<1>4. CASE FillNames
  BY <1>4 DEF FillNames
<1>5. CASE FillCopies
  <2>1. sampled \in Sizes /\ slot' \in {1, 2}
    BY <1>5, Scaled DEF FillCopies
  <2>2. cap' \in (Sizes \cup {None}) \X (Sizes \cup {None}) /\ cap'[slot'] \in Sizes
    BY <1>5, <2>1 DEF FillCopies
  <2>3. UNCHANGED <<table, count, sampled>> /\ slot' = count + 1 /\ count <= 1 /\ filling' = "copied"
    BY <1>5 DEF FillCopies
  <2>4. sampled \in Screens
    BY <1>5 DEF FillCopies
  <2> QED
    BY <2>1, <2>2, <2>3, <2>4
<1>6. CASE FillScales
  <2>1. CalculateDesiredWH(sampled) \in Sizes
    BY <1>6, Scaled DEF FillScales
  <2>2. cap' \in (Sizes \cup {None}) \X (Sizes \cup {None}) /\ cap'[slot] \in Sizes
    BY <1>6, <2>1 DEF FillScales
  <2> QED
    BY <1>6, <2>2 DEF FillScales
<1>7. CASE FillAdds
  <2>1. cap[slot] \in Sizes /\ count <= 2 /\ (slot = 2 => count >= 1) /\ sampled \in Screens
    BY <1>7 DEF FillAdds
  <2>2. table' = [table EXCEPT ![slot] = cap[slot]] /\ filling' = "named" /\ count' = count + 1
    BY <1>7 DEF FillAdds
  <2>3. UNCHANGED <<cap, sampled, slot>>
    BY <1>7 DEF FillAdds
  <2>4. table' \in (Sizes \cup {None}) \X (Sizes \cup {None}) /\ table'[1] \in Sizes
    <3>1. CASE slot = 1
      BY <2>1, <2>2, <3>1
    <3>2. CASE slot = 2
      <4>1. table[1] \in Sizes
        BY <2>1, <3>2
      <4> QED
        BY <2>1, <2>2, <3>2, <4>1
    <3> QED
      BY <3>1, <3>2
  <2>5. count' \in 0 .. 3
    BY <2>1, <2>2
  <2> QED
    BY <2>1, <2>2, <2>3, <2>4, <2>5
<1>8. CASE FillEnds
  BY <1>8 DEF FillEnds, entryVars
<1>9. CASE ScreenChanges \/ Frame
  BY <1>9, <1>1 DEF ScreenChanges, Frame, tableVars
<1>10. CASE Create \/ Start \/ StartAgain \/ Stop
  BY <1>10, <1>1 DEF Create, Start, StartAgain, StartCapturer, Stop, tableVars
<1>11. CASE ShareScreen \/ StopSharing \/ HandleEvent
  BY <1>11, <1>1 DEF ShareScreen, StopSharing, HandleEvent, tableVars
<1>12. CASE UNCHANGED vars
  BY <1>12, <1>1 DEF vars, tableVars
<1> QED
  BY <1>2, <1>3, <1>4, <1>5, <1>6, <1>7, <1>8, <1>9, <1>10, <1>11, <1>12 DEF Next, SipStep

LEMMA CaptureTyped == ASSUME TypeOK, [Next]_vars PROVE TypeOK'
<1> USE DEF TypeOK, tableVars, callbackVars, streamVars
<1> EntryTyped'
  BY EntryNext
<1>1. CASE ScreenChanges
  <2>1. changes' \in 0 .. MaxChanges
    BY <1>1, CaptureAssumption DEF ScreenChanges, CaptureAssumption
  <2> QED
    BY <1>1, <2>1 DEF ScreenChanges
<1>2. CASE FrameResets
  <2>1. CalculateDesiredWH(screen) \in Sizes
    BY Scaled
  <2>2. desired' \in {desired, CalculateDesiredWH(screen)}
    BY <1>2 DEF FrameResets
  <2>3. changed' = screen /\ events' = events + 1 /\ firstFrame' = FALSE /\ resetting' = TRUE
    BY <1>2 DEF FrameResets
  <2>4. UNCHANGED <<screen, shared, stream, format, changes, refreshes, commands, given>>
    BY <1>2 DEF FrameResets
  <2>5. firstFrame' \in BOOLEAN /\ resetting' \in BOOLEAN
    BY <2>3
  <2>6. desired' \in Sizes \cup {None} /\ changed' \in Screens \cup {None} /\ events' \in Nat
    BY <2>1, <2>2, <2>3
  <2> QED
    BY <2>4, <2>5, <2>6
<1>3. CASE Frame
  BY <1>3 DEF Frame
<1>4. CASE RefreshBegins
  <2>1. refreshes' \in 0 .. MaxRefreshes
    BY <1>4, CaptureAssumption DEF RefreshBegins, CaptureAssumption
  <2> QED
    BY <1>4, <2>1 DEF RefreshBegins
<1>5. CASE FillNames \/ FillCopies \/ FillScales \/ FillAdds \/ FillEnds
  BY <1>5 DEF FillNames, FillCopies, FillScales, FillAdds, FillEnds
<1>6. CASE Create
  <2>1. Picked \in Sizes
    BY <1>6, PickedIsASize DEF Create
  <2> QED
    BY <1>6, <2>1 DEF Create
<1>7. CASE Start \/ StartAgain
  <2>1. commands' \in 0 .. MaxCommands
    BY <1>7, CaptureAssumption DEF Start, StartAgain, CaptureAssumption
  <2>2. format \in Sizes
    BY <1>7 DEF Start, StartAgain
  <2> QED
    BY <1>7, <2>1, <2>2 DEF Start, StartAgain, StartCapturer
<1>8. CASE Stop \/ ShareScreen \/ StopSharing
  <2>1. commands' \in 0 .. MaxCommands
    BY <1>8, CaptureAssumption DEF Stop, ShareScreen, StopSharing, CaptureAssumption
  <2>2. CASE Stop
    BY <2>1, <2>2 DEF Stop
  <2>3. CASE ShareScreen
    BY <2>1, <2>3 DEF ShareScreen
  <2>4. CASE StopSharing
    BY <2>1, <2>4 DEF StopSharing
  <2> QED
    BY <1>8, <2>2, <2>3, <2>4
<1>9. CASE HandleEvent
  BY <1>9 DEF HandleEvent
<1>10. CASE UNCHANGED vars
  BY <1>10 DEF vars
<1> QED
  BY <1>1, <1>2, <1>3, <1>4, <1>5, <1>6, <1>7, <1>8, <1>9, <1>10 DEF Next, SipStep

LEMMA CaptureNext == ASSUME CaptureInv, [Next]_vars PROVE CaptureInv'
<1> USE DEF InFormat, OfLastFrame, DeliveredInFormat, tableVars, callbackVars, streamVars
<1>1. TypeOK'
  BY CaptureTyped DEF CaptureInv
<1>2. ASSUME Frame PROVE (InFormat /\ OfLastFrame /\ DeliveredInFormat)'
  <2>1. CASE resetting
    BY <1>2, <2>1 DEF Frame, CaptureInv
  <2>2. CASE ~resetting
    <3>1. desired = format
      BY <1>2, <2>2 DEF Frame, CaptureInv
    <3>2. desired = CalculateDesiredWH(screen)
      BY <1>2, <2>2 DEF Frame, ResetStream, CaptureInv, TypeOK
    <3>3. (InFormat /\ OfLastFrame)'
      BY <1>2, <3>1, <3>2 DEF Frame
    <3>4. given'.of = screen /\ given'.size = desired /\ given'.in = format
      BY <1>2, <2>2 DEF Frame
    <3> QED
      BY <3>1, <3>2, <3>3, <3>4
  <2> QED
    BY <2>1, <2>2 DEF CaptureInv, TypeOK
<1>3. CASE FrameResets
  BY <1>3, <1>1 DEF FrameResets, CaptureInv
<1>4. CASE Start \/ StartAgain
  BY <1>4, <1>1 DEF Start, StartAgain, StartCapturer, CaptureInv
<1>5. CASE ScreenChanges \/ RefreshBegins \/ ShareScreen
  BY <1>5, <1>1 DEF ScreenChanges, RefreshBegins, ShareScreen, CaptureInv
<1>8. CASE FillNames \/ FillCopies \/ FillScales \/ FillAdds \/ FillEnds
  BY <1>8, <1>1 DEF FillNames, FillCopies, FillScales, FillAdds, FillEnds, CaptureInv
<1>6. CASE Create \/ Stop \/ StopSharing \/ HandleEvent
  BY <1>6, <1>1 DEF Create, Stop, StopSharing, HandleEvent, CaptureInv
<1>7. CASE UNCHANGED vars
  BY <1>7, <1>1 DEF vars, CaptureInv
<1> QED
  BY <1>1, <1>2, <1>3, <1>4, <1>5, <1>6, <1>7, <1>8 DEF Next, SipStep, CaptureInv

LEMMA CaptureInvHolds == Spec => []CaptureInv
BY CaptureInit, CaptureNext, PTL DEF Spec

\* Every variable has its type: a stream is always created in a size that some
\* screen has, or has scaled.
THEOREM CaptureTypes == Spec => []TypeOK
<1>1. CaptureInv => TypeOK
  BY DEF CaptureInv
<1> QED
  BY <1>1, CaptureInvHolds, PTL

\* However the screen changes and the table is refreshed, no frame is delivered in
\* another size than its stream's, or out of proportion.
THEOREM Delivered == Spec => []DeliveredInFormat
<1>1. CaptureInv => DeliveredInFormat
  BY DEF CaptureInv
<1> QED
  BY <1>1, CaptureInvHolds, PTL

-----------------------------------------------------------------------------
(* A stream never falls silent for good: the safety half of ShareCatchesUp.    *)

\* A stream that drops its frames has an event on its way that tears it down.
ResetIsPosted == stream = "running" /\ resetting => events > 0

\* When the screen's frames have been seen in its present size, either they come
\* through or the stream is about to be made again.
NeverSilent ==
  stream = "running" /\ ~firstFrame /\ changed = screen => Served \/ events > 0

LEMMA ResetNext == ASSUME TypeOK, ResetIsPosted, [Next]_vars PROVE ResetIsPosted'
<1> USE DEF ResetIsPosted, TypeOK, callbackVars, streamVars
<1>1. CASE FrameResets
  BY <1>1 DEF FrameResets
<1>2. CASE Frame
  BY <1>2 DEF Frame
<1>3. CASE Start \/ StartAgain
  BY <1>3 DEF Start, StartAgain, StartCapturer
<1>4. CASE ScreenChanges \/ RefreshBegins \/ ShareScreen
  BY <1>4 DEF ScreenChanges, RefreshBegins, ShareScreen
<1>7. CASE FillNames \/ FillCopies \/ FillScales \/ FillAdds \/ FillEnds
  BY <1>7 DEF FillNames, FillCopies, FillScales, FillAdds, FillEnds
<1>5. CASE Create \/ Stop \/ StopSharing \/ HandleEvent
  BY <1>5 DEF Create, Stop, StopSharing, HandleEvent
<1>6. CASE UNCHANGED vars
  BY <1>6 DEF vars
<1> QED
  BY <1>1, <1>2, <1>3, <1>4, <1>5, <1>6, <1>7 DEF Next, SipStep

\* A callback that has asked for a reset drops every frame until the stream is made
\* again, so the event it posted must still be there; one that has not delivers the
\* screen as it is.
THEOREM SilenceIsAnswered == Spec => []NeverSilent
<1>1. Init => ResetIsPosted
  BY DEF Init, ResetIsPosted
<1>2. CaptureInv => TypeOK
  BY DEF CaptureInv
<1>3. CaptureInv /\ ResetIsPosted => NeverSilent
  BY DEF CaptureInv, OfLastFrame, ResetIsPosted, NeverSilent, Served
<1> QED
  BY <1>1, <1>2, <1>3, CaptureInvHolds, ResetNext, PTL DEF Spec
=============================================================================
