--------------------------- MODULE AudioSelection ---------------------------
(***************************************************************************)
(* How skinnySipManager chooses a microphone and a speaker (MSG_INIT_MEDIA), *)
(* checks that a built-in microphone it chose hears something, names the     *)
(* device behind the entry "Automatic", and keeps a test sound on the        *)
(* speaker that is selected.  All of it is on the SIP thread; what races is   *)
(* its own delayed messages with the choices that go on arriving.            *)
(*                                                                         *)
(* The hardware query fills in three strings, class, vendor and product, that  *)
(* its caller keeps from one device to the next.  A device it cannot answer    *)
(* for has Hw[d] = <<>>; for the others a part the hardware id lacks is None   *)
(* (without a class there is no part at all).  Such a part, and every part if  *)
(* the query failed, is left as it was.  USB over Thunderbolt exists on Mac OS *)
(* only and is left out.                                                       *)
(***************************************************************************)
EXTENDS Integers, Sequences

CONSTANTS
  Mics, Spks,        (* audio end points                                    *)
  Automatic,         (* AutomaticDeviceGuid                                 *)
  None,              (* no device                                           *)
  Hw,                (* Hw[d]: what the hardware query reads of d           *)
  BuiltIn,           (* devices whose builtIn flag is set                   *)
  Setups,            (* enumerations, defaults, configuration and features  *)
  MaxLevelChecks,    (* auto_level_check_count_ at the start of a check     *)
  MaxRequests,       (* bound: choices of the user                          *)
  MaxTests           (* bound: speaker tests                                *)

Devices == Mics \cup Spks

Members(list) == {list[i] : i \in DOMAIN list}
FirstAt(list, I) == IF I = {} THEN None ELSE list[CHOOSE i \in I : \A j \in I : i <= j]
FirstOf(list, S) == FirstAt(list, {i \in DOMAIN list : list[i] \in S})
\* Any device may be the default communication device, and none if there is none.
Defaults(list) == IF list = <<>> THEN {None} ELSE Members(list)

ASSUME AudioAssumption ==
  /\ {Automatic, None} \cap Devices = {} /\ Automatic # None
  /\ \A c \in Setups : /\ c.mics \in Seq(Mics) /\ c.commMic \in Defaults(c.mics)
                       /\ c.spks \in Seq(Spks) /\ c.commSpk \in Defaults(c.spks)
  /\ BuiltIn \subseteq Devices
  /\ MaxLevelChecks \in Nat /\ MaxRequests \in Nat /\ MaxTests \in Nat

VARIABLES
  mics, spks,         \* audioCaptureDevices_, audioPlayoutDevices_
  commMic, commSpk,   \* default communication devices
  defMic, defSpk,     \* default devices
  rules,              \* the device configuration
  biased, labelled,   \* mBiasedAudioDeviceAutoSelection, mLabelAutomaticDevice
  requests,           \* MSG_INIT_MEDIA messages
  chosen,             \* the request handled last
  picked,             \* selectedDeviceoptions_, and how its devices were selected
  micLabel, spkLabel, \* the names of the entries "Automatic"
  checks,             \* MSG_AUTO_MIC_LEVEL_CHECK messages that wait
  left,               \* auto_level_check_count_
  level,              \* level_determined_ is not 0
  speakerPlay,
  stops,              \* MSG_STOP_TEST_SND messages that wait
  sipUp,              \* isSipInitialized
  asked, tests, cut   \* choices, tests, and tests a hangup stopped, so far

machine  == <<mics, spks, commMic, commSpk, defMic, defSpk, rules, biased, labelled>>
outcome  == <<chosen, picked, micLabel, spkLabel>>
levelVars == <<checks, left, level>>
testVars == <<speakerPlay, stops, sipUp, tests, cut>>
vars == <<machine, requests, outcome, levelVars, testVars, asked>>

NoRequest == [mic |-> None, spk |-> None]
NoChoice  == [mic |-> None, spk |-> None, micSel |-> "none", spkSel |-> "none"]

-----------------------------------------------------------------------------
(* What is known of a device.                                                *)

Queryable == {d \in Devices : Hw[d] # <<>>}
Gives(d, p) == d \in Queryable /\ Hw[d][p] # None

\* GetAudioHardwareIdFromDeviceId: the key the query leaves, over what was there; and
\* the key after the queries of the first n devices of a list.
NoKey == <<None, None, None>>
Read(d, was) == [p \in 1..3 |-> IF Gives(d, p) THEN Hw[d][p] ELSE was[p]]
KeyOf(d) == Read(d, NoKey)
KeyAfter(was, list, n) ==
  [p \in 1..3 |->
     LET J == {j \in 1..n : Gives(list[j], p)}
     IN  IF J = {} THEN was[p] ELSE Hw[list[CHOOSE j \in J : \A k \in J : k <= j]][p]]

\* getMatchingDevice: the first external device that is answered with that key.
\* Built-in devices are not queried.
Externals(list) == [i \in DOMAIN list |-> IF list[i] \in BuiltIn THEN None ELSE list[i]]
AnyMatching(key, list) ==   \* mutant: the class is enough
  LET ext == Externals(list)
  IN  FirstAt(list, {i \in DOMAIN ext : ext[i] \in Queryable /\ KeyAfter(NoKey, ext, i)[1] = key[1]})
Matching(key, list) ==
  LET ext == Externals(list)
  IN  FirstAt(list, {i \in DOMAIN ext : ext[i] \in Queryable /\ KeyAfter(NoKey, ext, i) = key})

\* Some callers ask for the pair of a device whatever its query returned, and some
\* only if it returned TRUE.
PairOf(d, list) == Matching(KeyOf(d), list)
PairIfRead(d, was, list) == IF d \in Queryable THEN Matching(Read(d, was), list) ELSE None

UsbPair(key) == key[1] = "USB" /\ Matching(key, spks) # None

\* The configuration maps prefixes of type:class:vendor:product, with or without
\* the name of the system, to properties; the longest wins, then the system's.
Applies(r, key) == Len(r.key) <= Len(key) /\ r.key = SubSeq(key, 1, Len(r.key))
Beats(r, q) == Len(r.key) > Len(q.key) \/ (Len(r.key) = Len(q.key) /\ r.os /\ ~q.os)
Blacklisted(type, key) ==
  LET found == {r \in rules : Applies(r, <<type>> \o key)}
  IN  \E r \in found : ~r.automatic /\ \A q \in found : ~Beats(q, r)

View(type, d, key) ==
  [dev  |-> d,
   bad  |-> d \notin Queryable \/ Blacklisted(type, key),
   pair |-> type = "MIC" /\ d \in Queryable /\ UsbPair(key)]

SwitchesEagerly(now, new) ==   \* mutant: from good to blacklisted
  (now.bad /\ ~new.bad) \/ (~now.pair /\ new.pair)
Switches(now, new) ==
  /\ now.bad \/ ~new.bad
  /\ (now.bad /\ ~new.bad) \/ (~now.pair /\ new.pair)

\* getPreferredDeviceId: the loop over the list, from the default device on.
Preferred(type, default, list) ==
  LET sel[i \in 0..Len(list)] ==
        IF i = 0 THEN View(type, default, KeyOf(default))
        ELSE LET now == sel[i - 1]
                 new == View(type, list[i], KeyAfter(KeyOf(default), list, i))
             IN  IF list[i] \in Queryable /\ Switches(now, new) THEN new ELSE now
  IN  sel[Len(list)].dev

-----------------------------------------------------------------------------
(* getAutomaticMic and getAutomaticSpk.                                      *)

\* Without the biased selection: the default microphone if it is half of a USB pair,
\* or the first of the list that is.
DefaultIsPair == commMic \in Queryable /\ UsbPair(KeyOf(commMic))
PairPlaces ==
  {i \in DOMAIN mics : mics[i] \in Queryable /\ UsbPair(KeyAfter(KeyOf(commMic), mics, i))}

AutomaticMic ==
  IF biased THEN Preferred("MIC", commMic, mics)
  ELSE IF DefaultIsPair \/ PairPlaces = {} THEN commMic
  ELSE FirstAt(mics, PairPlaces)

AutomaticSpk == IF biased THEN Preferred("SPK", commSpk, spks) ELSE commSpk

\* A default microphone that is built in starts a check, unless another one that
\* is not built in, or that is part of a USB pair, was taken instead.
StartsCheck == commMic \in BuiltIn
DropsCheck ==
  IF biased THEN StartsCheck /\ AutomaticMic \notin BuiltIn ELSE DefaultIsPair \/ PairPlaces # {}
ChecksAfterMic ==
  IF DropsCheck THEN 0 ELSE checks + (IF StartsCheck THEN 1 ELSE 0)

-----------------------------------------------------------------------------
(* MSG_INIT_MEDIA.                                                           *)

Sel(m, s, ms, ss) == [mic |-> m, spk |-> s, micSel |-> ms, spkSel |-> ss]

\* The strings of the query keep the microphone's parts for the speaker.
AutoBoth ==
  LET m == AutomaticMic
      s == AutomaticSpk
      pairOfSpk == PairIfRead(s, KeyOf(m), mics)
  IN  IF PairOf(m, spks) # None THEN Sel(m, PairOf(m, spks), "auto", "paired")
      ELSE IF pairOfSpk # None THEN Sel(pairOfSpk, s, "paired", "auto")
      ELSE Sel(m, s, "auto", "auto")

AutoSpk(m) ==
  IF PairOf(m, spks) # None THEN Sel(m, PairOf(m, spks), "manual", "paired")
                            ELSE Sel(m, AutomaticSpk, "manual", "auto")
AutoMic(s) ==
  IF PairOf(s, mics) # None THEN Sel(PairOf(s, mics), s, "paired", "manual")
                            ELSE Sel(AutomaticMic, s, "auto", "manual")

ChoiceKeepsGuid(req) ==   \* mutant: only the entry "Automatic" of both is resolved
  IF req.mic = Automatic /\ req.spk = Automatic THEN AutoBoth
  ELSE Sel(req.mic, req.spk, "manual", "manual")
Choice(req) ==
  CASE req.mic = Automatic /\ req.spk = Automatic -> AutoBoth
    [] req.mic # Automatic /\ req.spk = Automatic -> AutoSpk(req.mic)
    [] req.mic = Automatic /\ req.spk # Automatic -> AutoMic(req.spk)
    [] OTHER -> Sel(req.mic, req.spk, "manual", "manual")

Manual(sel) == sel = "manual"
Labels(c) == labelled /\ ~(c.mic = None /\ c.spk = None)

\* updateAutomaticDeviceLabel, for the microphone and for the speaker.
Or(d, otherwise) == IF d # None THEN d ELSE otherwise
MicLabel(c) ==
  LET m == AutomaticMic
  IN  IF ~Manual(c.micSel) THEN c.mic
      ELSE IF Manual(c.spkSel) THEN Or(PairIfRead(c.spk, NoKey, mics), m)
      ELSE IF PairIfRead(m, NoKey, spks) # None THEN m
      ELSE Or(PairIfRead(c.spk, KeyOf(m), mics), m)

SpkLabelOfMic(c) == IF Manual(c.spkSel) THEN AutomaticSpk ELSE c.spk   \* mutant
SpkLabel(c) ==
  LET m == IF Manual(c.micSel) THEN c.mic ELSE AutomaticMic
  IN  IF ~Manual(c.spkSel) THEN c.spk ELSE Or(PairIfRead(m, NoKey, spks), AutomaticSpk)

\* getAutomaticMic is called by the choice, or by the label, which asks it not to
\* post a check; its counters start afresh all the same.
ChoiceAsksMic(req) == req.mic = Automatic /\ (req.spk = Automatic \/ PairOf(req.spk, mics) = None)
LabelAsksMic(c) ==
  /\ Labels(c)
  /\ Manual(c.micSel) \/ Manual(c.spkSel)
  /\ Manual(c.micSel) /\ Manual(c.spkSel) => PairIfRead(c.spk, NoKey, mics) = None

ChecksAfter(req, c) ==
  IF req.mic = Automatic /\ req.spk = Automatic /\ c.micSel = "paired" THEN 0
  ELSE IF ChoiceAsksMic(req) THEN ChecksAfterMic
  ELSE checks

\* SetLocalDevicesOptions: a test sound moves to the speaker selected now.
StopsKept(s) ==   \* mutant: the old stop is cleared, the new one not posted
  IF speakerPlay /\ s # picked.spk
    THEN stops' = 0 /\ speakerPlay' = sipUp
    ELSE UNCHANGED <<stops, speakerPlay>>
SetLocalDevicesOptions(s) ==
  IF speakerPlay /\ s # picked.spk
    THEN stops' = (IF sipUp THEN 1 ELSE 0) /\ speakerPlay' = sipUp
    ELSE UNCHANGED <<stops, speakerPlay>>

InitMedia ==
  /\ requests # <<>>
  /\ LET req == Head(requests)
         c   == Choice(req)
     IN  /\ chosen' = req
         /\ picked' = c
         /\ SetLocalDevicesOptions(c.spk)
         /\ micLabel' = IF Labels(c) THEN MicLabel(c) ELSE micLabel
         /\ spkLabel' = IF Labels(c) THEN SpkLabel(c) ELSE spkLabel
         /\ checks' = ChecksAfter(req, c)
         /\ IF StartsCheck /\ (ChoiceAsksMic(req) \/ LabelAsksMic(c))
              THEN left' = MaxLevelChecks /\ level' = FALSE
              ELSE UNCHANGED <<left, level>>
  /\ requests' = Tail(requests)
  /\ UNCHANGED <<machine, sipUp, tests, cut, asked>>

-----------------------------------------------------------------------------
(* The level check.                                                          *)

ReadsForever(heard) == UNCHANGED left   \* mutant
CountsDown(heard) == left' = left - 1

\* MSG_AUTO_MIC_LEVEL_CHECK reads the meter and comes back in 100 ms ...
LevelRead ==
  /\ checks > 0 /\ left > 0
  /\ \E heard \in BOOLEAN : level' = (level \/ heard) /\ CountsDown(heard)
  /\ UNCHANGED <<machine, requests, outcome, checks, testVars, asked>>

\* ... until its count is down: silence selects the default devices instead.
LevelVerdict ==
  /\ checks > 0 /\ left = 0
  /\ checks' = checks - 1
  /\ requests' = IF level THEN requests
                 ELSE Append(requests, [mic |-> defMic, spk |-> defSpk])
  /\ UNCHANGED <<machine, outcome, left, level, testVars, asked>>

-----------------------------------------------------------------------------
(* The speaker test.                                                         *)

CheckSpeaker ==
  /\ tests < MaxTests
  /\ tests' = tests + 1
  /\ IF ~speakerPlay /\ sipUp
       THEN speakerPlay' = TRUE /\ stops' = stops + 1
       ELSE UNCHANGED <<speakerPlay, stops>>
  /\ UNCHANGED <<machine, requests, outcome, levelVars, sipUp, cut, asked>>

StopTestSound ==
  /\ stops > 0
  /\ stops' = stops - 1
  /\ speakerPlay' = FALSE
  /\ UNCHANGED <<machine, requests, outcome, levelVars, sipUp, tests, cut, asked>>

\* platformHangUp stops the sound and leaves its stop message where it is.
HangUp ==
  /\ speakerPlay
  /\ speakerPlay' = FALSE
  /\ cut' = cut + 1
  /\ UNCHANGED <<machine, requests, outcome, levelVars, stops, sipUp, tests, asked>>

SipInitialized ==
  /\ ~sipUp
  /\ sipUp' = TRUE
  /\ UNCHANGED <<machine, requests, outcome, levelVars, speakerPlay, stops, tests, cut, asked>>

-----------------------------------------------------------------------------
\* postInitializeMediaEngine, by the application.
PostInitMedia(m, s) ==
  /\ asked < MaxRequests
  /\ requests' = Append(requests, [mic |-> m, spk |-> s])
  /\ asked' = asked + 1
  /\ UNCHANGED <<machine, outcome, levelVars, testVars>>

Init ==
  /\ \E c \in Setups :
       /\ mics = c.mics /\ commMic = c.commMic /\ defMic = FirstOf(c.mics, Mics)
       /\ spks = c.spks /\ commSpk = c.commSpk /\ defSpk = FirstOf(c.spks, Spks)
       /\ rules = c.rules /\ biased = c.biased /\ labelled = c.labelled
  /\ requests = <<>>
  /\ chosen = NoRequest /\ picked = NoChoice
  /\ micLabel = None /\ spkLabel = None
  /\ checks = 0 /\ left = 0 /\ level = FALSE
  /\ speakerPlay = FALSE /\ stops = 0 /\ sipUp = FALSE
  /\ asked = 0 /\ tests = 0 /\ cut = 0

Next ==
  \/ \E m \in Members(mics) \cup {Automatic}, s \in Members(spks) \cup {Automatic} : PostInitMedia(m, s)
  \/ InitMedia
  \/ LevelRead \/ LevelVerdict
  \/ CheckSpeaker \/ StopTestSound \/ HangUp \/ SipInitialized

\* The SIP thread handles what is posted, and delayed messages become due.
\* Only InitMedia takes a request from the queue.
Fairness ==
  /\ WF_requests(requests # <<>> /\ requests' = Tail(requests))
  /\ WF_vars(LevelRead \/ LevelVerdict)
  /\ WF_vars(StopTestSound)
Spec == Init /\ [][Next]_vars /\ Fairness
-----------------------------------------------------------------------------
(* Properties.                                                               *)

OneOf(D) == D \cup {None}
Requests == [mic : OneOf(Mics) \cup {Automatic}, spk : OneOf(Spks) \cup {Automatic}]
Sels == {"none", "manual", "auto", "paired"}
Selections == [mic : OneOf(Mics), spk : OneOf(Spks), micSel : Sels, spkSel : Sels]

\* The type of every variable: no choice ever leaves the entry "Automatic" itself
\* selected, and no count of pending messages or of readings is negative.
TypeOK ==
  /\ requests \in Seq(Requests) /\ chosen \in Requests /\ picked \in Selections
  /\ micLabel \in OneOf(Mics) /\ spkLabel \in OneOf(Spks)
  /\ checks \in Nat /\ left \in 0..MaxLevelChecks /\ level \in BOOLEAN
  /\ speakerPlay \in BOOLEAN /\ sipUp \in BOOLEAN /\ stops \in Nat
  /\ asked \in Nat /\ tests \in Nat /\ cut \in Nat

\* What getPreferredDeviceId is meant to compute: not blacklisted counts before
\* being half of a USB pair, the default device wins its ties, then the order does.
Score(type, d) ==
  LET v == View(type, d, KeyOf(d)) IN (IF v.bad THEN 0 ELSE 2) + (IF v.pair THEN 1 ELSE 0)
BestOf(type, default, list) ==
  LET Rivals == Members(list) \cap Queryable
  IN  IF \A d \in Rivals : Score(type, d) <= Score(type, default) THEN default
      ELSE FirstOf(list, {d \in Rivals : \A e \in Rivals : Score(type, e) <= Score(type, d)})
\* No device of the list is judged by a part of the key of another.
ReadsEach(default, list) ==
  \A i \in DOMAIN list : list[i] \in Queryable => KeyAfter(KeyOf(default), list, i) = KeyOf(list[i])

\* The one pass of getPreferredDeviceId over the list, with its early exit and its
\* refusal to move to a blacklisted device, finds a best device by that order; but
\* the pass takes over the parts that a hardware id lacks from the devices before it.
PreferredIsBest ==
  /\ ReadsEach(commMic, mics) => Preferred("MIC", commMic, mics) = BestOf("MIC", commMic, mics)
  /\ ReadsEach(commSpk, spks) => Preferred("SPK", commSpk, spks) = BestOf("SPK", commSpk, spks)

\* Whenever MSG_INIT_MEDIA says one device was picked as the pair of the other, no
\* part of the hardware key that is known of both of them differs.  It is the same
\* hardware if both are known in full; a device whose query failed, or that lacks a
\* part, may be paired with a stranger.
PairedMatch ==
  "paired" \in {picked.micSel, picked.spkSel} =>
    \A p \in 1..3 :
      Gives(picked.mic, p) /\ Gives(picked.spk, p) => Hw[picked.mic][p] = Hw[picked.spk][p]

\* What the entries "Automatic" would give, were they chosen in place of what was.
Labelled == labelled /\ chosen # NoRequest /\ ~(picked.mic = None /\ picked.spk = None)
IfMicWereAuto == Choice([mic |-> Automatic, spk |-> chosen.spk]).mic
IfSpkWereAuto == Choice([mic |-> chosen.mic, spk |-> Automatic]).spk

\* The choice pairs a device that does not answer with one that is answered with
\* nothing, and the label does not.
NoBlindPairs == Matching(NoKey, mics) = None /\ Matching(NoKey, spks) = None

\* The name updateAutomaticDeviceLabel puts on "Automatic" is the device the user
\* would get by choosing it; of the microphone it is so unless the speaker was paired
\* with a microphone chosen by hand, where the name is wrong (MicMatchesAutoSpk).
LabelTellsTruth ==
  Labelled /\ NoBlindPairs =>
    /\ spkLabel = IfSpkWereAuto
    /\ (chosen.mic # Automatic /\ picked.spkSel = "paired") \/ micLabel = IfMicWereAuto

\* The comment on updateAutomaticDeviceLabel: under a microphone chosen by hand and an
\* automatic speaker, the microphone's name is selected upon the automatic speaker
\* (the output from getAutomaticSpk), if its own automatic device has no pair.
MicMatchesAutoSpk ==
  /\ Labelled /\ Manual(picked.micSel) /\ ~Manual(picked.spkSel)
  /\ PairIfRead(AutomaticMic, NoKey, spks) = None
  => micLabel = Or(PairIfRead(AutomaticSpk, KeyOf(AutomaticMic), mics), AutomaticMic)

\* A test sound that plays always has a stop to come, and every stop in excess is
\* one that a hangup left behind when it cut a test: selecting another speaker
\* during a test (SetLocalDevicesOptions) leaves none.
StopsMatchTests ==
  /\ speakerPlay => stops > 0
  /\ stops <= cut + (IF speakerPlay THEN 1 ELSE 0)

\* The level check is for built-in microphones: a step that adds one has just
\* selected such a microphone, whatever was paired or preferred after the check
\* was posted.
CheckStartsOnBuiltIn == [][checks' > checks => picked'.mic \in BuiltIn]_vars

\* Delayed messages end by themselves: once the user stops, no check goes on, no
\* sound plays, and silence has switched devices for the last time.
Settles == <>[](requests = <<>> /\ checks = 0 /\ stops = 0 /\ ~speakerPlay)
=============================================================================
