------------------------ MODULE AudioSelectionProofs ------------------------
(***************************************************************************)
(* AudioSelection for any devices, hardware, configuration and number of      *)
(* choices and tests.                                                         *)
(***************************************************************************)
EXTENDS AudioSelection, SequenceTheorems, FiniteSetTheorems, WellFoundedInduction, TLAPS

\* A set of natural numbers has a least one.
LEMMA LeastOf ==
  ASSUME NEW I, I \subseteq Nat, I # {}
  PROVE  \E i \in I : \A j \in I : i <= j
<1> DEFINE R == OpToRel(<, Nat)
<1>1. IsWellFoundedOn(R, Nat)
  BY NatLessThanWellFounded DEF OpToRel
<1>2. \A i, j \in Nat : j < i => <<j, i>> \in R
  BY DEF OpToRel
<1> HIDE DEF R
<1>3. PICK i \in I : \A j \in I : ~ (<<j, i>> \in R)
  BY <1>1, WFMin
<1>4. ASSUME NEW j \in I PROVE i <= j
  <2>1. i \in Nat /\ j \in Nat
    OBVIOUS
  <2>2. j < i => <<j, i>> \in R
    BY <1>2, <2>1
  <2>3. ~ (j < i)
    BY <1>3, <2>2
  <2> QED
    BY <2>1, <2>3
<1> QED
  BY <1>4

\* Induction over the naturals, for a set of numbers.
LEMMA NatSetInduction ==
  ASSUME NEW A, 0 \in A, \A n \in Nat : n \in A => n + 1 \in A
  PROVE  Nat \subseteq A
<1> DEFINE I == Nat \ A
<1> SUFFICES ASSUME I # {} PROVE FALSE
  OBVIOUS
<1>1. PICK i \in I : \A j \in I : i <= j
  BY LeastOf
<1>2. i # 0 /\ i - 1 \in Nat
  BY <1>1
<1>3. i - 1 \in A
  BY <1>1, <1>2
<1> QED
  BY <1>1, <1>2, <1>3

\* FirstAt gives the device at the first of the places, or None if there is none.
LEMMA FirstAtGives ==
  ASSUME NEW D, NEW list \in Seq(D), NEW I \in SUBSET DOMAIN list, FirstAt(list, I) # None
  PROVE  \E i \in I : FirstAt(list, I) = list[i] /\ list[i] \in D
<1>1. I # {} /\ I \subseteq Nat
  BY DEF FirstAt
<1>2. PICK i \in I : \A j \in I : i <= j
  BY <1>1, LeastOf
<1> DEFINE first == CHOOSE k \in I : \A j \in I : k <= j
<1>3. first \in I
  BY <1>2
<1>4. FirstAt(list, I) = list[first]
  BY <1>1 DEF FirstAt
<1> HIDE DEF first
<1>5. list[first] \in D
  BY <1>3
<1> QED
  BY <1>3, <1>4, <1>5

\* A part of the hardware key that a device gives is in the key its query leaves ...
LEMMA ReadGives ==
  ASSUME NEW d, NEW was, NEW p \in 1..3, Gives(d, p)
  PROVE  Read(d, was)[p] = Hw[d][p] /\ KeyOf(d)[p] = Hw[d][p]
BY DEF Read, KeyOf

\* ... also if devices before it were queried with the same strings.
LEMMA LastGives ==
  ASSUME NEW was, NEW list, NEW n \in Nat \ {0}, NEW p \in 1..3, Gives(list[n], p)
  PROVE  KeyAfter(was, list, n)[p] = Hw[list[n]][p]
<1> DEFINE J == {j \in 1..n : Gives(list[j], p)}
           last == CHOOSE j \in J : \A k \in J : k <= j
<1>1. n \in J /\ \A k \in J : k <= n
  OBVIOUS
<1>2. \A j \in J : (\A k \in J : k <= j) => j = n
  <2>1. J \subseteq 1..n
    OBVIOUS
  <2> HIDE DEF J
  <2> QED
    BY <1>1, <2>1
<1>3. last = n
  <2> HIDE DEF J
  <2> QED
    BY <1>1, <1>2
<1>4. KeyAfter(was, list, n)[p] = Hw[list[last]][p]
  BY <1>1 DEF KeyAfter
<1> QED
  BY <1>3, <1>4

\* getMatchingDevice finds a device of the list that contradicts the key in no part
\* that is known of it, or nothing.
LEMMA MatchingPairs ==
  ASSUME AudioAssumption, NEW D, NEW list \in Seq(D), NEW key, Matching(key, list) # None
  PROVE  /\ Matching(key, list) \in D
         /\ \A p \in 1..3 : Gives(Matching(key, list), p) => Hw[Matching(key, list)][p] = key[p]
<1> DEFINE listed == Externals(list)
           I == {i \in DOMAIN listed : listed[i] \in Queryable /\ KeyAfter(NoKey, listed, i) = key}
<1>1. DOMAIN listed = DOMAIN list /\ DOMAIN list = 1 .. Len(list)
  BY DEF Externals
<1>2. Matching(key, list) = FirstAt(list, I)
  BY DEF Matching
<1>3. PICK i \in I : Matching(key, list) = list[i] /\ list[i] \in D
  <2>1. I \in SUBSET DOMAIN list
    BY <1>1
  <2> HIDE DEF I
  <2> QED
    BY <1>2, <2>1, FirstAtGives
<1>4. listed[i] = list[i]
  BY <1>1, <1>3 DEF Externals, AudioAssumption, Queryable
<1>5. i \in Nat \ {0} /\ KeyAfter(NoKey, listed, i) = key
  BY <1>1, <1>3
<1> HIDE DEF listed
<1>6. ASSUME NEW p \in 1..3, Gives(list[i], p) PROVE Hw[list[i]][p] = key[p]
  BY <1>4, <1>5, <1>6, LastGives
<1> QED
  BY <1>3, <1>6

-----------------------------------------------------------------------------
(* The devices of a machine stay what they are.                              *)

Enumerated == mics \in Seq(Mics) /\ spks \in Seq(Spks)

LEMMA EnumeratedInit == ASSUME AudioAssumption, Init PROVE Enumerated
<1>1. PICK c \in Setups : mics = c.mics /\ spks = c.spks
  BY DEF Init
<1> QED
  BY <1>1 DEF AudioAssumption, Enumerated

LEMMA MachineStays == [Next]_vars => UNCHANGED machine
<1> SUFFICES ASSUME [Next]_vars PROVE UNCHANGED machine
  OBVIOUS
<1>1. CASE InitMedia \/ LevelRead \/ LevelVerdict
  BY <1>1 DEF InitMedia, LevelRead, LevelVerdict
<1>2. CASE CheckSpeaker \/ StopTestSound \/ HangUp \/ SipInitialized
  BY <1>2 DEF CheckSpeaker, StopTestSound, HangUp, SipInitialized
<1>3. ASSUME NEW d, NEW e, PostInitMedia(d, e) PROVE UNCHANGED machine
  BY <1>3 DEF PostInitMedia
<1>4. CASE UNCHANGED vars
  BY <1>4 DEF vars
<1>5. CASE Next
  BY <1>1, <1>2, <1>3, <1>5 DEF Next
<1> QED
  BY <1>4, <1>5

LEMMA EnumeratedNext == ASSUME Enumerated, [Next]_vars PROVE Enumerated'
  BY MachineStays DEF Enumerated, machine

-----------------------------------------------------------------------------
(* Pairs.                                                                    *)

PairOK(c) ==
  "paired" \in {c.micSel, c.spkSel} =>
    \A p \in 1..3 : Gives(c.mic, p) /\ Gives(c.spk, p) => Hw[c.mic][p] = Hw[c.spk][p]

\* Every choice MSG_INIT_MEDIA makes pairs devices of which no known part differs.
LEMMA ChoicePairs == ASSUME AudioAssumption, Enumerated, NEW req PROVE PairOK(Choice(req))
<1> DEFINE Agree(d, e) == \A p \in 1..3 : Gives(d, p) /\ Gives(e, p) => Hw[d][p] = Hw[e][p]
<1>1. ASSUME NEW D, NEW list \in Seq(D), NEW d, NEW was, Matching(Read(d, was), list) # None
      PROVE  Agree(d, Matching(Read(d, was), list))
  BY <1>1, MatchingPairs, ReadGives
<1>2. \A d, was : Matching(Read(d, was), spks) # None => Agree(d, Matching(Read(d, was), spks))
  BY <1>1 DEF Enumerated
<1>3. \A d, was : Matching(Read(d, was), mics) # None => Agree(d, Matching(Read(d, was), mics))
  BY <1>1 DEF Enumerated
<1>4. ASSUME NEW d, PairOf(d, spks) # None, NEW s
      PROVE  PairOK(Sel(d, PairOf(d, spks), s, "paired"))
  BY <1>2, <1>4 DEF PairOf, KeyOf, PairOK, Sel
<1>5. ASSUME NEW d, PairOf(d, mics) # None, NEW s
      PROVE  PairOK(Sel(PairOf(d, mics), d, "paired", s))
  BY <1>3, <1>5 DEF PairOf, KeyOf, PairOK, Sel
<1>6. ASSUME NEW d, NEW was, PairIfRead(d, was, mics) # None, NEW s
      PROVE  PairOK(Sel(PairIfRead(d, was, mics), d, "paired", s))
  BY <1>3, <1>6 DEF PairIfRead, PairOK, Sel
<1>7. ASSUME NEW d, NEW e, NEW s \in {"manual", "auto"}, NEW t \in {"manual", "auto"}
      PROVE  PairOK(Sel(d, e, s, t))
  BY DEF PairOK, Sel
<1>8. PairOK(AutoBoth)
  BY <1>4, <1>6, <1>7 DEF AutoBoth
<1>9. PairOK(AutoSpk(req.mic))
  BY <1>4, <1>7 DEF AutoSpk
<1>10. PairOK(AutoMic(req.spk))
  BY <1>5, <1>7 DEF AutoMic
<1>11. PairOK(Sel(req.mic, req.spk, "manual", "manual"))
  BY <1>7
<1> QED
  BY <1>8, <1>9, <1>10, <1>11 DEF Choice

PairsInv == Enumerated /\ PairedMatch

\* Whatever is plugged in, however it is enumerated and whatever the queries of its
\* hardware give: no part of the hardware key that is known of both devices of a pair
\* (AUDIO_DEVICE_SELECT_PAIRED) differs.
THEOREM PairsMatch == Spec => []PairedMatch
<1>1. Init => PairsInv
  <2> SUFFICES ASSUME Init PROVE PairsInv
    OBVIOUS
  <2>1. PairedMatch
    BY DEF Init, NoChoice, PairedMatch
  <2> QED
    BY <2>1, EnumeratedInit, AudioAssumption DEF PairsInv
<1>2. PairsInv /\ [Next]_vars => PairsInv'
  <2> SUFFICES ASSUME PairsInv, [Next]_vars PROVE PairsInv'
    OBVIOUS
  <2>1. Enumerated'
    BY EnumeratedNext DEF PairsInv
  <2>2. CASE InitMedia
    <3>1. picked' = Choice(Head(requests))
      BY <2>2 DEF InitMedia
    <3>2. PairOK(Choice(Head(requests)))
      BY ChoicePairs, AudioAssumption DEF PairsInv
    <3> QED
      BY <2>1, <3>1, <3>2 DEF PairsInv, PairedMatch, PairOK
  <2>3. CASE ~InitMedia
    <3>1. UNCHANGED picked
      BY <2>3 DEF Next, vars, PostInitMedia, LevelRead, LevelVerdict, CheckSpeaker,
                  StopTestSound, HangUp, SipInitialized, outcome
    <3> QED
      BY <2>1, <3>1 DEF PairsInv, PairedMatch
  <2> QED
    BY <2>2, <2>3
<1> QED
  BY <1>1, <1>2, PTL DEF Spec, PairsInv
-----------------------------------------------------------------------------
(* Test sounds.                                                              *)

StopCounts == stops \in Nat /\ cut \in Nat
StopsInv == StopCounts /\ StopsMatchTests

LEMMA StopsNext == StopsInv /\ [Next]_vars => StopsInv'
<1> SUFFICES ASSUME StopsInv, [Next]_vars PROVE StopsInv'
  OBVIOUS
<1>1. CASE InitMedia
  <2>1. PICK s : SetLocalDevicesOptions(s)
    BY <1>1 DEF InitMedia
  <2>2. cut' = cut
    BY <1>1 DEF InitMedia
  <2>3. \/ stops' = stops /\ speakerPlay' = speakerPlay
        \/ stops' = 1 /\ speakerPlay'
        \/ stops' = 0 /\ ~speakerPlay'
    <3>1. CASE sipUp
      BY <2>1, <3>1 DEF SetLocalDevicesOptions
    <3>2. CASE ~sipUp
      BY <2>1, <3>2 DEF SetLocalDevicesOptions
    <3> QED
      BY <3>1, <3>2
  <2> QED
    BY <2>2, <2>3 DEF StopsInv, StopCounts, StopsMatchTests
<1>2. CASE CheckSpeaker
  <2>1. cut' = cut
    BY <1>2 DEF CheckSpeaker
  <2>2. \/ stops' = stops /\ speakerPlay' = speakerPlay
        \/ ~speakerPlay /\ speakerPlay' /\ stops' = stops + 1
    BY <1>2 DEF CheckSpeaker
  <2> QED
    BY <2>1, <2>2 DEF StopsInv, StopCounts, StopsMatchTests
<1>3. CASE StopTestSound
  <2>1. cut' = cut /\ stops > 0 /\ stops' = stops - 1 /\ ~speakerPlay'
    BY <1>3 DEF StopTestSound
  <2> QED
    BY <2>1 DEF StopsInv, StopCounts, StopsMatchTests
<1>4. CASE HangUp
  <2>1. stops' = stops /\ cut' = cut + 1 /\ ~speakerPlay'
    BY <1>4 DEF HangUp
  <2> QED
    BY <2>1 DEF StopsInv, StopCounts, StopsMatchTests
<1>5. CASE UNCHANGED <<stops, cut, speakerPlay>>
  BY <1>5 DEF StopsInv, StopCounts, StopsMatchTests
<1>6. CASE SipInitialized \/ LevelRead \/ LevelVerdict
  BY <1>5, <1>6 DEF SipInitialized, LevelRead, LevelVerdict, testVars
<1>7. ASSUME NEW d, NEW e, PostInitMedia(d, e) PROVE StopsInv'
  BY <1>5, <1>7 DEF PostInitMedia, testVars
<1>8. CASE UNCHANGED vars
  BY <1>5, <1>8 DEF vars, testVars
<1> QED
  BY <1>1, <1>2, <1>3, <1>4, <1>6, <1>7, <1>8 DEF Next

\* For any number of choices, tests and hangups a test sound that plays has a stop
\* to come, and only hangups leave stops behind.
THEOREM StopsMatch == Spec => []StopsMatchTests
<1>1. Init => StopsInv
  <2>1. Init => stops = 0 /\ cut = 0 /\ ~speakerPlay
    BY DEF Init
  <2> QED
    BY <2>1 DEF StopsInv, StopCounts, StopsMatchTests
<1> QED
  BY <1>1, StopsNext, PTL DEF Spec, StopsInv

-----------------------------------------------------------------------------
(* Level checks.                                                             *)

\* A check that getAutomaticMic posts and keeps is for a built-in microphone.
LEMMA KeptCheck ==
  ASSUME checks \in Nat, ChecksAfterMic > checks
  PROVE  AutomaticMic \in BuiltIn
<1>1. StartsCheck /\ ~DropsCheck
  BY DEF ChecksAfterMic
<1>2. CASE biased
  BY <1>1, <1>2 DEF DropsCheck
<1>3. CASE ~biased
  <2>1. AutomaticMic = commMic
    BY <1>1, <1>3 DEF DropsCheck, AutomaticMic
  <2> QED
    BY <1>1, <2>1 DEF StartsCheck
<1> QED
  BY <1>2, <1>3

\* Where the choice asked getAutomaticMic and kept its check, it took its answer.
LEMMA AskedMicTaken ==
  ASSUME NEW req, ChoiceAsksMic(req),
         ~(req.mic = Automatic /\ req.spk = Automatic /\ Choice(req).micSel = "paired")
  PROVE  Choice(req).mic = AutomaticMic
<1>1. req.mic = Automatic
  BY DEF ChoiceAsksMic
<1>2. CASE req.spk = Automatic
  <2>1. Choice(req) = AutoBoth
    BY <1>1, <1>2 DEF Choice
  <2> QED
    BY <1>1, <1>2, <2>1 DEF AutoBoth, Sel
<1>3. CASE req.spk # Automatic
  <2>1. Choice(req) = AutoMic(req.spk)
    BY <1>1, <1>3 DEF Choice
  <2>2. PairOf(req.spk, mics) = None
    BY <1>3 DEF ChoiceAsksMic
  <2> QED
    BY <2>1, <2>2 DEF AutoMic, Sel
<1> QED
  BY <1>2, <1>3

ChecksInv == Enumerated /\ checks \in Nat

LEMMA InitMediaStartsOnBuiltIn ==
  ASSUME ChecksInv, InitMedia
  PROVE  checks' \in Nat /\ (checks' > checks => picked'.mic \in BuiltIn)
<1> DEFINE req == Head(requests)
<1>1. picked' = Choice(req) /\ checks' = ChecksAfter(req, Choice(req))
  BY DEF InitMedia
<1>2. checks' \in Nat
  BY <1>1 DEF ChecksAfter, ChecksAfterMic, ChecksInv
<1>3. ASSUME checks' > checks PROVE picked'.mic \in BuiltIn
  <2>1. /\ ChoiceAsksMic(req) /\ checks' = ChecksAfterMic
        /\ ~(req.mic = Automatic /\ req.spk = Automatic /\ Choice(req).micSel = "paired")
    BY <1>1, <1>3 DEF ChecksAfter, ChecksInv
  <2>2. picked'.mic = AutomaticMic
    BY <1>1, <2>1, AskedMicTaken
  <2> QED
    BY <1>3, <2>1, <2>2, KeptCheck DEF ChecksInv
<1> QED
  BY <1>2, <1>3

\* For any devices, defaults and configuration a level check is added only together
\* with the selection of a built-in microphone.
THEOREM ChecksStartOnBuiltIn == Spec => CheckStartsOnBuiltIn
<1>1. Init => ChecksInv
  <2> SUFFICES ASSUME Init PROVE ChecksInv
    OBVIOUS
  <2> QED
    BY EnumeratedInit, AudioAssumption DEF Init, ChecksInv
<1>2. ChecksInv /\ [Next]_vars =>
        ChecksInv' /\ [checks' > checks => picked'.mic \in BuiltIn]_vars
  <2> SUFFICES ASSUME ChecksInv, [Next]_vars
               PROVE  ChecksInv' /\ (checks' > checks => picked'.mic \in BuiltIn)
    OBVIOUS
  <2>1. Enumerated'
    BY EnumeratedNext DEF ChecksInv
  <2>2. CASE InitMedia
    BY <2>1, <2>2, InitMediaStartsOnBuiltIn DEF ChecksInv
  <2>3. CASE ~InitMedia
    <3>1. checks' \in {checks, checks - 1} /\ (checks' # checks => checks > 0)
      BY <2>3 DEF Next, vars, PostInitMedia, LevelRead, LevelVerdict, CheckSpeaker,
                  StopTestSound, HangUp, SipInitialized, levelVars
    <3> QED
      BY <2>1, <3>1 DEF ChecksInv
  <2> QED
    BY <2>2, <2>3
<1> QED
  BY <1>1, <1>2, PTL DEF Spec, CheckStartsOnBuiltIn
-----------------------------------------------------------------------------
(* The loop of getPreferredDeviceId.                                         *)

\* What the loop of getPreferredDeviceId sees of a place of the list, and one turn.
Seen(type, default, list, i) == View(type, list[i], KeyAfter(KeyOf(default), list, i))
Turn(type, default, list, now, i) ==
  LET new == Seen(type, default, list, i)
  IN  IF list[i] \in Queryable /\ Switches(now, new) THEN new ELSE now
IsLoop(sel, n, type, default, list) ==
  sel = [i \in 0 .. n |-> IF i = 0 THEN View(type, default, KeyOf(default))
                          ELSE Turn(type, default, list, sel[i - 1], i)]

\* The loop is defined: one function gives what is selected after each turn.
LEMMA LoopExists ==
  ASSUME NEW type, NEW default, NEW list, NEW n \in Nat
  PROVE  \E sel : IsLoop(sel, n, type, default, list)
<1> DEFINE first == View(type, default, KeyOf(default))
           turn(now, i) == Turn(type, default, list, now, i)
           A == {k \in Nat : \E sel : IsLoop(sel, k, type, default, list)}
<1>1. 0 \in A
  <2> DEFINE sel == [i \in 0 .. 0 |-> first]
  <2>1. IsLoop(sel, 0, type, default, list)
    BY DEF IsLoop
  <2> QED
    BY <2>1
<1>2. ASSUME NEW k \in Nat, k \in A PROVE k + 1 \in A
  <2>1. PICK sel : IsLoop(sel, k, type, default, list)
    BY <1>2
  <2> DEFINE new == turn(sel[k], k + 1)
             longer == [i \in 0 .. k + 1 |-> IF i = k + 1 THEN new ELSE sel[i]]
  <2>2. \A i \in 0 .. k : sel[i] = IF i = 0 THEN first ELSE turn(sel[i - 1], i)
    BY <2>1 DEF IsLoop
  <2>3. ASSUME NEW i \in 0 .. k + 1
        PROVE  longer[i] = IF i = 0 THEN first ELSE turn(longer[i - 1], i)
    <3>1. CASE i = k + 1
      <4>1. i # 0 /\ i - 1 = k /\ k \in 0 .. k + 1 /\ k # k + 1
        BY <3>1
      <4>2. longer[i - 1] = sel[k] /\ longer[i] = new
        BY <3>1, <4>1
      <4> QED
        BY <3>1, <4>1, <4>2
    <3>2. CASE i \in 0 .. k
      <4>1. longer[i] = sel[i] /\ (i # 0 => i - 1 \in 0 .. k /\ longer[i - 1] = sel[i - 1])
        BY <3>2
      <4> QED
        BY <2>2, <3>2, <4>1
    <3> QED
      BY <3>1, <3>2
  <2>4. IsLoop(longer, k + 1, type, default, list)
    BY <2>3 DEF IsLoop
  <2> QED
    BY <2>4
<1>3. Nat \subseteq A
  BY <1>1, <1>2, NatSetInduction
<1> QED
  BY <1>3

LEMMA PreferredIsLoop ==
  ASSUME NEW type, NEW default, NEW D, NEW list \in Seq(D)
  PROVE  \E sel : /\ IsLoop(sel, Len(list), type, default, list)
                  /\ Preferred(type, default, list) = sel[Len(list)].dev
<1> DEFINE loop == CHOOSE sel : IsLoop(sel, Len(list), type, default, list)
<1>1. IsLoop(loop, Len(list), type, default, list)
  BY LoopExists
<1>2. Preferred(type, default, list) = loop[Len(list)].dev
  BY DEF Preferred, IsLoop, Turn, Seen
<1> QED
  BY <1>1, <1>2

\* The two tests of the loop compare by one order.
OwnView(type, d) == View(type, d, KeyOf(d))

LEMMA ScoreIsNat == ASSUME NEW type, NEW d PROVE Score(type, d) \in 0 .. 3
BY DEF Score, View

LEMMA SwitchesToBetter ==
  ASSUME NEW type, NEW d, NEW e
  PROVE  Switches(OwnView(type, d), OwnView(type, e)) <=> Score(type, d) < Score(type, e)
<1>1. OwnView(type, d).bad \in BOOLEAN /\ OwnView(type, d).pair \in BOOLEAN
  BY DEF OwnView, View
<1>2. OwnView(type, e).bad \in BOOLEAN /\ OwnView(type, e).pair \in BOOLEAN
  BY DEF OwnView, View
<1>3. \A x : Score(type, x) =
        (IF OwnView(type, x).bad THEN 0 ELSE 2) + (IF OwnView(type, x).pair THEN 1 ELSE 0)
  BY DEF Score, OwnView
<1> QED
  BY <1>1, <1>2, <1>3 DEF Switches

\* What has been selected after i turns: the default device, while none was better,
\* or the first of the best.
BestSoFar(type, default, list, i, d) ==
  \/ /\ d = default
     /\ \A j \in 1 .. i : list[j] \in Queryable => Score(type, list[j]) <= Score(type, default)
  \/ \E k \in 1 .. i :
       /\ d = list[k] /\ list[k] \in Queryable /\ Score(type, default) < Score(type, list[k])
       /\ \A j \in 1 .. i : list[j] \in Queryable => Score(type, list[j]) <= Score(type, list[k])
       /\ \A j \in 1 .. k - 1 : list[j] \in Queryable => Score(type, list[j]) < Score(type, list[k])

\* A turn keeps it, if the device of the turn is judged by its own key.
LEMMA TurnKeepsBest ==
  ASSUME NEW type, NEW default, NEW list, NEW i \in Nat, NEW d,
         list[i + 1] \in Queryable =>
           Seen(type, default, list, i + 1) = OwnView(type, list[i + 1]),
         BestSoFar(type, default, list, i, d)
  PROVE  LET now == Turn(type, default, list, OwnView(type, d), i + 1)
         IN  now = OwnView(type, now.dev) /\ BestSoFar(type, default, list, i + 1, now.dev)
<1> DEFINE e == list[i + 1]
           now == Turn(type, default, list, OwnView(type, d), i + 1)
           score(x) == Score(type, x)
<1>1. \A x : score(x) \in 0 .. 3
  BY ScoreIsNat
<1>2. \A x : OwnView(type, x).dev = x
  BY DEF OwnView, View
<1>3. i + 1 \in 1 .. i + 1 /\ 1 .. i + 1 = 1 .. i \cup {i + 1}
  OBVIOUS
<1>4. CASE e \in Queryable /\ score(d) < score(e)
  <2>1. now = OwnView(type, e)
    BY <1>4, SwitchesToBetter DEF Turn
  <2>2. \A j \in 1 .. i : list[j] \in Queryable => score(list[j]) <= score(d)
    BY DEF BestSoFar
  <2>3. score(default) <= score(d)
    BY <1>1 DEF BestSoFar
  <2> HIDE DEF score
  <2>4. \A j \in 1 .. i : list[j] \in Queryable => score(list[j]) < score(e)
    BY <1>1, <1>4, <2>2
  <2>5. score(default) < score(e)
    BY <1>1, <1>4, <2>3
  <2>6. \A j \in 1 .. i + 1 : list[j] \in Queryable => score(list[j]) <= score(e)
    BY <1>1, <1>3, <2>4
  <2>7. i + 1 - 1 = i
    OBVIOUS
  <2>8. BestSoFar(type, default, list, i + 1, e)
    BY <1>3, <1>4, <2>4, <2>5, <2>6, <2>7 DEF BestSoFar, score
  <2> QED
    BY <1>2, <2>1, <2>8
<1>5. CASE ~(e \in Queryable /\ score(d) < score(e))
  <2>1. now = OwnView(type, d)
    BY <1>5, SwitchesToBetter DEF Turn
  <2>2. e \in Queryable => score(e) <= score(d)
    BY <1>1, <1>5
  <2>3. BestSoFar(type, default, list, i + 1, d)
    BY <1>3, <2>2 DEF BestSoFar
  <2> QED
    BY <1>2, <2>1, <2>3
<1> QED
  BY <1>4, <1>5

LEMMA LoopFindsBest ==
  ASSUME NEW type, NEW default, NEW D, NEW list \in Seq(D), NEW sel,
         ReadsEach(default, list), IsLoop(sel, Len(list), type, default, list)
  PROVE  BestSoFar(type, default, list, Len(list), sel[Len(list)].dev)
<1> DEFINE n == Len(list)
           A == {i \in Nat : i <= n =>
                   /\ sel[i] = OwnView(type, sel[i].dev)
                   /\ BestSoFar(type, default, list, i, sel[i].dev)}
<1>1. 0 \in A
  <2>1. sel[0] = OwnView(type, default)
    BY DEF IsLoop, OwnView
  <2>2. sel[0].dev = default
    BY <2>1 DEF OwnView, View
  <2> QED
    BY <2>1, <2>2 DEF BestSoFar
<1>2. ASSUME NEW i \in Nat, i \in A PROVE i + 1 \in A
  <2> SUFFICES ASSUME i + 1 <= n
               PROVE  /\ sel[i + 1] = OwnView(type, sel[i + 1].dev)
                      /\ BestSoFar(type, default, list, i + 1, sel[i + 1].dev)
    OBVIOUS
  <2>1. sel[i] = OwnView(type, sel[i].dev) /\ BestSoFar(type, default, list, i, sel[i].dev)
    BY <1>2
  <2>2. sel[i + 1] = Turn(type, default, list, sel[i], i + 1)
    <3>1. i + 1 \in 0 .. n /\ i + 1 # 0 /\ i + 1 - 1 = i
      OBVIOUS
    <3> QED
      BY <3>1 DEF IsLoop
  <2>3. list[i + 1] \in Queryable =>
          Seen(type, default, list, i + 1) = OwnView(type, list[i + 1])
    BY i + 1 \in DOMAIN list DEF ReadsEach, Seen, OwnView
  <2>4. sel[i + 1] = Turn(type, default, list, OwnView(type, sel[i].dev), i + 1)
    BY <2>1, <2>2
  <2>5. LET now == Turn(type, default, list, OwnView(type, sel[i].dev), i + 1)
        IN  now = OwnView(type, now.dev) /\ BestSoFar(type, default, list, i + 1, now.dev)
    BY <2>1, <2>3, TurnKeepsBest
  <2> QED
    BY <2>4, <2>5
<1>3. Nat \subseteq A
  <2> HIDE DEF A
  <2> QED
    BY <1>1, <1>2, NatSetInduction
<1>4. n \in Nat
  OBVIOUS
<1> QED
  BY <1>3, <1>4

\* The device getPreferredDeviceId returns is the best one there is.
LEMMA PreferredBest ==
  ASSUME NEW type, NEW default, NEW D, NEW list \in Seq(D), ReadsEach(default, list)
  PROVE  Preferred(type, default, list) = BestOf(type, default, list)
<1> DEFINE d == Preferred(type, default, list)
           n == Len(list)
           score(x) == Score(type, x)
           Rivals == Members(list) \cap Queryable
           Top == {x \in Rivals : \A y \in Rivals : score(y) <= score(x)}
           I == {i \in DOMAIN list : list[i] \in Top}
<1>1. n \in Nat /\ DOMAIN list = 1 .. n
  OBVIOUS
<1>2. BestSoFar(type, default, list, n, d)
  BY <1>1, PreferredIsLoop, LoopFindsBest
<1>3. \A x : score(x) \in 0 .. 3
  BY ScoreIsNat
<1>4. BestOf(type, default, list) =
        IF \A x \in Rivals : score(x) <= score(default) THEN default ELSE FirstOf(list, Top)
  BY DEF BestOf
<1>5. \A j \in 1 .. n : list[j] \in Queryable => list[j] \in Rivals
  BY <1>1 DEF Members
<1>6. \A x \in Rivals : \E j \in 1 .. n : x = list[j] /\ list[j] \in Queryable
  BY <1>1 DEF Members
<1> HIDE DEF d, n, score
<1>7. CASE \A x \in Rivals : score(x) <= score(default)
  <2>1. ASSUME NEW k \in 1 .. n, list[k] \in Queryable, score(default) < score(list[k]) PROVE FALSE
    BY <1>3, <1>5, <1>7, <2>1
  <2>2. d = default
    BY <1>2, <2>1 DEF BestSoFar, score
  <2> QED
    BY <1>4, <1>7, <2>2 DEF d
<1>8. CASE \E x \in Rivals : ~(score(x) <= score(default))
  <2>1. ~ \A j \in 1 .. n : list[j] \in Queryable => score(list[j]) <= score(default)
    BY <1>6, <1>8
  <2>2. PICK k \in 1 .. n :
          /\ d = list[k] /\ list[k] \in Queryable
          /\ \A j \in 1 .. n : list[j] \in Queryable => score(list[j]) <= score(list[k])
          /\ \A j \in 1 .. k - 1 : list[j] \in Queryable => score(list[j]) < score(list[k])
    BY <1>2, <2>1 DEF BestSoFar, score
  <2>3. k \in I
    BY <1>1, <1>5, <1>6, <2>2 DEF n
  <2>4. ASSUME NEW j \in I PROVE k <= j
    <3>1. j \in 1 .. n /\ list[j] \in Queryable /\ list[j] \in Top
      BY <1>1 DEF n
    <3>2. score(list[k]) <= score(list[j])
      BY <1>5, <2>2, <3>1
    <3>3. ~(j \in 1 .. k - 1)
      BY <1>3, <2>2, <3>1, <3>2
    <3> QED
      BY <3>1, <3>3, <1>1
  <2>5. (CHOOSE i \in I : \A j \in I : i <= j) = k
    <3>1. \A i \in I : (\A j \in I : i <= j) => i = k
      <4>1. I \subseteq Nat
        BY <1>1 DEF n
      <4> HIDE DEF I
      <4> QED
        BY <2>3, <2>4, <4>1
    <3> HIDE DEF I
    <3> QED
      BY <2>3, <2>4, <3>1
  <2>6. FirstOf(list, Top) = list[CHOOSE i \in I : \A j \in I : i <= j]
    BY <2>3 DEF FirstOf, FirstAt
  <2> QED
    BY <1>4, <1>8, <2>2, <2>5, <2>6 DEF d
<1> QED
  BY <1>7, <1>8 DEF d

-----------------------------------------------------------------------------
(* The machine stays what it is, and so does what would be chosen on it.     *)

LEMMA PairsStay ==
  ASSUME UNCHANGED machine
  PROVE  /\ \A key : UsbPair(key)' = UsbPair(key)
         /\ \A d : PairOf(d, mics)' = PairOf(d, mics) /\ PairOf(d, spks)' = PairOf(d, spks)
         /\ \A d, was : /\ PairIfRead(d, was, mics)' = PairIfRead(d, was, mics)
                        /\ PairIfRead(d, was, spks)' = PairIfRead(d, was, spks)
<1>1. mics' = mics /\ spks' = spks
  BY DEF machine
<1>2. \A key : Matching(key, mics)' = Matching(key, mics) /\ Matching(key, spks)' = Matching(key, spks)
  BY <1>1
<1> QED
  BY <1>1, <1>2 DEF UsbPair, PairOf, PairIfRead

LEMMA AutoStays ==
  ASSUME UNCHANGED machine
  PROVE  AutomaticMic' = AutomaticMic /\ AutomaticSpk' = AutomaticSpk
<1>1. /\ mics' = mics /\ spks' = spks /\ rules' = rules /\ biased' = biased
      /\ commMic' = commMic /\ commSpk' = commSpk
  BY DEF machine
<1>2. \A key : UsbPair(key)' = UsbPair(key)
  BY PairsStay
<1>3. \A type, key : Blacklisted(type, key)' = Blacklisted(type, key)
  BY <1>1 DEF Blacklisted
<1>4. \A type, d, key : View(type, d, key)' = View(type, d, key)
  BY <1>2, <1>3 DEF View
<1>5. /\ Preferred("MIC", commMic, mics)' = Preferred("MIC", commMic, mics)
      /\ Preferred("SPK", commSpk, spks)' = Preferred("SPK", commSpk, spks)
  BY <1>1, <1>4 DEF Preferred
<1>6. DefaultIsPair' = DefaultIsPair /\ PairPlaces' = PairPlaces
  BY <1>1, <1>2 DEF DefaultIsPair, PairPlaces
<1>7. AutomaticMic' = AutomaticMic
  BY <1>1, <1>6, <1>5 DEF AutomaticMic, FirstAt
<1>8. AutomaticSpk' = AutomaticSpk
  BY <1>1, <1>5 DEF AutomaticSpk
<1> QED
  BY <1>7, <1>8

LEMMA ChoiceStays == ASSUME UNCHANGED machine, NEW r PROVE Choice(r)' = Choice(r)
<1>1. AutoBoth' = AutoBoth
  BY PairsStay, AutoStays DEF AutoBoth, machine, Sel
<1>2. \A d : AutoSpk(d)' = AutoSpk(d) /\ AutoMic(d)' = AutoMic(d)
  BY PairsStay, AutoStays DEF AutoSpk, AutoMic, machine, Sel
<1> QED
  BY <1>1, <1>2 DEF Choice, Sel

-----------------------------------------------------------------------------
(* Types.                                                                    *)

MachineInv ==
  /\ Enumerated
  /\ commMic \in OneOf(Mics) /\ commSpk \in OneOf(Spks)
  /\ defMic \in OneOf(Mics) /\ defSpk \in OneOf(Spks)

LEMMA FirstAtIn ==
  ASSUME NEW D, NEW list \in Seq(D), NEW I \in SUBSET DOMAIN list
  PROVE  FirstAt(list, I) \in OneOf(D)
BY FirstAtGives DEF OneOf

LEMMA FirstOfIn ==
  ASSUME NEW D, NEW list \in Seq(D), NEW S
  PROVE  FirstOf(list, S) \in OneOf(D)
BY FirstAtIn DEF FirstOf

LEMMA MatchingIn ==
  ASSUME AudioAssumption, NEW D, NEW list \in Seq(D), NEW key
  PROVE  Matching(key, list) \in OneOf(D)
BY MatchingPairs DEF OneOf

LEMMA DefaultsIn ==
  ASSUME NEW D, NEW list \in Seq(D), NEW d \in Defaults(list)
  PROVE  d \in OneOf(D)
BY DEF Defaults, Members, OneOf

\* getPreferredDeviceId returns the default device or one of the list.
LEMMA PreferredIn ==
  ASSUME NEW type, NEW D, NEW default \in OneOf(D), NEW list \in Seq(D)
  PROVE  Preferred(type, default, list) \in OneOf(D)
<1> DEFINE n == Len(list)
<1>1. PICK sel : IsLoop(sel, n, type, default, list) /\ Preferred(type, default, list) = sel[n].dev
  BY PreferredIsLoop
<1> DEFINE A == {i \in Nat : i <= n => sel[i].dev \in OneOf(D)}
<1>2. 0 \in A
  BY <1>1, 0 \in 0 .. n DEF IsLoop, View
<1>3. ASSUME NEW i \in Nat, i \in A PROVE i + 1 \in A
  <2> SUFFICES ASSUME i + 1 <= n PROVE sel[i + 1].dev \in OneOf(D)
    OBVIOUS
  <2>1. i + 1 \in 0 .. n /\ i + 1 # 0 /\ i + 1 - 1 = i
    OBVIOUS
  <2>2. sel[i + 1] = Turn(type, default, list, sel[i], i + 1)
    BY <1>1, <2>1 DEF IsLoop
  <2>3. sel[i].dev \in OneOf(D)
    BY <1>3
  <2>4. list[i + 1] \in OneOf(D)
    BY DEF OneOf
  <2> QED
    BY <2>2, <2>3, <2>4 DEF Turn, Seen, View
<1>4. Nat \subseteq A
  <2> HIDE DEF A
  <2> QED
    BY <1>2, <1>3, NatSetInduction
<1>5. n \in Nat
  OBVIOUS
<1> QED
  BY <1>1, <1>4, <1>5

LEMMA AutomaticIn ==
  ASSUME MachineInv
  PROVE  AutomaticMic \in OneOf(Mics) /\ AutomaticSpk \in OneOf(Spks)
<1>1. AutomaticMic \in OneOf(Mics)
  <2>1. PairPlaces \in SUBSET DOMAIN mics
    BY DEF PairPlaces
  <2> QED
    BY <2>1, PreferredIn, FirstAtIn DEF AutomaticMic, MachineInv, Enumerated
<1>2. AutomaticSpk \in OneOf(Spks)
  BY PreferredIn DEF AutomaticSpk, MachineInv, Enumerated
<1> QED
  BY <1>1, <1>2

\* A choice selects devices, or none, and never the entry "Automatic".
LEMMA ChoiceIn ==
  ASSUME AudioAssumption, MachineInv, NEW r \in Requests
  PROVE  Choice(r) \in Selections
<1>1. \A d : PairOf(d, mics) \in OneOf(Mics) /\ PairOf(d, spks) \in OneOf(Spks)
  BY MatchingIn DEF MachineInv, Enumerated, PairOf
<1>2. \A d, was : PairIfRead(d, was, mics) \in OneOf(Mics)
  BY MatchingIn DEF MachineInv, Enumerated, PairIfRead, OneOf
<1>3. AutomaticMic \in OneOf(Mics) /\ AutomaticSpk \in OneOf(Spks)
  BY AutomaticIn
<1>4. ASSUME NEW m \in OneOf(Mics), NEW s \in OneOf(Spks), NEW a \in Sels, NEW b \in Sels
      PROVE  Sel(m, s, a, b) \in Selections
  BY DEF Sel, Selections
<1>5. {"manual", "auto", "paired"} \subseteq Sels
  BY DEF Sels
<1>6. AutoBoth \in Selections
  BY <1>1, <1>2, <1>3, <1>4, <1>5 DEF AutoBoth
<1>7. \A m \in OneOf(Mics) : AutoSpk(m) \in Selections
  BY <1>1, <1>3, <1>4, <1>5 DEF AutoSpk
<1>8. \A s \in OneOf(Spks) : AutoMic(s) \in Selections
  BY <1>1, <1>3, <1>4, <1>5 DEF AutoMic
<1>9. /\ r.mic # Automatic => r.mic \in OneOf(Mics)
      /\ r.spk # Automatic => r.spk \in OneOf(Spks)
  BY DEF Requests
<1> QED
  BY <1>4, <1>5, <1>6, <1>7, <1>8, <1>9 DEF Choice

LEMMA LabelsIn ==
  ASSUME AudioAssumption, MachineInv, NEW c \in Selections
  PROVE  MicLabel(c) \in OneOf(Mics) /\ SpkLabel(c) \in OneOf(Spks)
<1>1. \A d, was : /\ PairIfRead(d, was, mics) \in OneOf(Mics)
                  /\ PairIfRead(d, was, spks) \in OneOf(Spks)
  BY MatchingIn DEF MachineInv, Enumerated, PairIfRead, OneOf
<1>2. AutomaticMic \in OneOf(Mics) /\ AutomaticSpk \in OneOf(Spks)
  BY AutomaticIn
<1>3. c.mic \in OneOf(Mics) /\ c.spk \in OneOf(Spks)
  BY DEF Selections
<1> QED
  BY <1>1, <1>2, <1>3 DEF MicLabel, SpkLabel, Or

TypeInv == MachineInv /\ TypeOK

LEMMA TypeInit == ASSUME AudioAssumption, Init PROVE TypeInv
<1>1. PICK c \in Setups :
        /\ mics = c.mics /\ commMic = c.commMic /\ defMic = FirstOf(c.mics, Mics)
        /\ spks = c.spks /\ commSpk = c.commSpk /\ defSpk = FirstOf(c.spks, Spks)
  BY DEF Init
<1>2. /\ c.mics \in Seq(Mics) /\ c.commMic \in Defaults(c.mics)
      /\ c.spks \in Seq(Spks) /\ c.commSpk \in Defaults(c.spks)
  BY DEF AudioAssumption
<1>3. MachineInv
  BY <1>1, <1>2, DefaultsIn, FirstOfIn DEF MachineInv, Enumerated
<1>4. MaxLevelChecks \in Nat
  BY DEF AudioAssumption
<1>5. NoRequest \in Requests /\ NoChoice \in Selections
  BY DEF NoRequest, NoChoice, Requests, Selections, OneOf, Sels
<1>6. requests \in Seq(Requests)
  BY DEF Init
<1>7. /\ micLabel \in OneOf(Mics) /\ spkLabel \in OneOf(Spks)
      /\ checks \in Nat /\ left \in 0..MaxLevelChecks /\ level \in BOOLEAN
      /\ speakerPlay \in BOOLEAN /\ sipUp \in BOOLEAN /\ stops \in Nat
      /\ asked \in Nat /\ tests \in Nat /\ cut \in Nat
  <2>1. /\ micLabel = None /\ spkLabel = None
        /\ checks = 0 /\ left = 0 /\ stops = 0 /\ asked = 0 /\ tests = 0 /\ cut = 0
    BY DEF Init
  <2>2. level \in BOOLEAN /\ speakerPlay \in BOOLEAN /\ sipUp \in BOOLEAN
    BY DEF Init
  <2> QED
    BY <1>4, <2>1, <2>2 DEF OneOf
<1>8. chosen \in Requests /\ picked \in Selections
  BY <1>5 DEF Init
<1> QED
  BY <1>3, <1>6, <1>7, <1>8 DEF TypeInv, TypeOK

LEMMA TypeInitMedia ==
  ASSUME AudioAssumption, TypeInv, InitMedia
  PROVE  TypeOK'
<1> DEFINE req == Head(requests)
           c   == Choice(req)
<1>1. req \in Requests /\ Tail(requests) \in Seq(Requests)
  <2>1. requests \in Seq(Requests) /\ requests # <<>>
    BY DEF InitMedia, TypeInv, TypeOK
  <2> QED
    BY <2>1
<1>2. c \in Selections
  BY <1>1, ChoiceIn DEF TypeInv
<1>3. MicLabel(c) \in OneOf(Mics) /\ SpkLabel(c) \in OneOf(Spks)
  BY <1>2, LabelsIn DEF TypeInv
<1>4. ChecksAfter(req, c) \in Nat
  BY DEF TypeInv, TypeOK, ChecksAfter, ChecksAfterMic
<1> HIDE DEF c, req
<1>5. requests' \in Seq(Requests) /\ chosen' \in Requests /\ picked' \in Selections
  BY <1>1, <1>2 DEF InitMedia, c, req
<1>6. micLabel' \in OneOf(Mics) /\ spkLabel' \in OneOf(Spks)
  BY <1>3 DEF InitMedia, c, req, TypeInv, TypeOK
<1>7. checks' \in Nat
  BY <1>4 DEF InitMedia, c, req
<1>8. left' \in 0..MaxLevelChecks /\ level' \in BOOLEAN
  <2>1. left' = MaxLevelChecks \/ left' = left
    BY DEF InitMedia
  <2>2. level' = FALSE \/ level' = level
    BY DEF InitMedia
  <2>3. level' \in BOOLEAN
    BY <2>2 DEF TypeInv, TypeOK
  <2> QED
    BY <2>1, <2>3 DEF TypeInv, TypeOK, AudioAssumption
<1>9. speakerPlay' \in BOOLEAN /\ stops' \in Nat
  <2>1. SetLocalDevicesOptions(c.spk)
    BY DEF InitMedia, c, req
  <2> QED
    BY <2>1 DEF SetLocalDevicesOptions, TypeInv, TypeOK
<1>10. UNCHANGED <<sipUp, tests, cut, asked>>
  BY DEF InitMedia
<1> QED
  BY <1>5, <1>6, <1>7, <1>8, <1>9, <1>10 DEF TypeInv, TypeOK

LEMMA TypeNext == ASSUME AudioAssumption, TypeInv, [Next]_vars PROVE TypeInv'
<1>1. MachineInv'
  BY MachineStays DEF TypeInv, MachineInv, Enumerated, machine
<1>2. CASE InitMedia
  BY <1>1, <1>2, TypeInitMedia DEF TypeInv
<1>3. CASE LevelRead
  <2>1. left > 0 /\ left' = left - 1 /\ \E heard \in BOOLEAN : level' = (level \/ heard)
    BY <1>3 DEF LevelRead, CountsDown
  <2>2. level' \in BOOLEAN /\ left' \in 0 .. MaxLevelChecks
    BY <2>1 DEF TypeInv, TypeOK, AudioAssumption
  <2> QED
    BY <1>1, <1>3, <2>2 DEF LevelRead, TypeInv, TypeOK, outcome, testVars
<1>4. CASE LevelVerdict
  <2>1. [mic |-> defMic, spk |-> defSpk] \in Requests
    BY DEF TypeInv, MachineInv, Requests
  <2>2. requests' \in Seq(Requests)
    BY <1>4, <2>1 DEF LevelVerdict, TypeInv, TypeOK
  <2>3. checks' \in Nat
    BY <1>4 DEF LevelVerdict, TypeInv, TypeOK
  <2> QED
    BY <1>1, <1>4, <2>2, <2>3 DEF LevelVerdict, TypeInv, TypeOK, outcome, testVars
<1>5. CASE CheckSpeaker \/ StopTestSound \/ HangUp \/ SipInitialized
  <2>1. /\ speakerPlay' \in BOOLEAN /\ sipUp' \in BOOLEAN
        /\ stops' \in Nat /\ tests' \in Nat /\ cut' \in Nat
    <3>1. speakerPlay' \in {TRUE, FALSE, speakerPlay} /\ sipUp' \in {TRUE, sipUp}
      BY <1>5 DEF CheckSpeaker, StopTestSound, HangUp, SipInitialized
    <3>2. speakerPlay' \in BOOLEAN /\ sipUp' \in BOOLEAN
      BY <3>1 DEF TypeInv, TypeOK
    <3>3. /\ stops' \in {stops, stops + 1} \/ (stops > 0 /\ stops' = stops - 1)
          /\ tests' \in {tests, tests + 1} /\ cut' \in {cut, cut + 1}
      BY <1>5 DEF CheckSpeaker, StopTestSound, HangUp, SipInitialized
    <3> QED
      BY <3>2, <3>3 DEF TypeInv, TypeOK
  <2>2. UNCHANGED <<requests, outcome, levelVars, asked>>
    BY <1>5 DEF CheckSpeaker, StopTestSound, HangUp, SipInitialized
  <2> QED
    BY <1>1, <2>1, <2>2 DEF TypeInv, TypeOK, outcome, levelVars
<1>6. ASSUME NEW d \in Members(mics) \cup {Automatic}, NEW e \in Members(spks) \cup {Automatic},
             PostInitMedia(d, e)
      PROVE  TypeInv'
  <2>1. d \in OneOf(Mics) \cup {Automatic} /\ e \in OneOf(Spks) \cup {Automatic}
    BY DEF TypeInv, MachineInv, Enumerated, Members, OneOf
  <2>2. [mic |-> d, spk |-> e] \in Requests
    BY <2>1 DEF Requests
  <2>3. requests' \in Seq(Requests) /\ asked' \in Nat
    BY <1>6, <2>2 DEF PostInitMedia, TypeInv, TypeOK
  <2> QED
    BY <1>1, <1>6, <2>3 DEF PostInitMedia, TypeInv, TypeOK, outcome, levelVars, testVars
<1>7. CASE UNCHANGED vars
  BY <1>1, <1>7 DEF vars, TypeInv, TypeOK, outcome, levelVars, testVars
<1> QED
  BY <1>2, <1>3, <1>4, <1>5, <1>6, <1>7 DEF Next

\* Every variable of AudioSelection keeps its type: whatever is enumerated, no choice
\* leaves "Automatic" itself selected (skinnysipmanager.cpp 2106-2260).
THEOREM SelectionTypes == Spec => []TypeOK
<1>1. Init => TypeInv
  BY TypeInit, AudioAssumption
<1>2. TypeInv /\ [Next]_vars => TypeInv'
  BY TypeNext, AudioAssumption
<1> QED
  BY <1>1, <1>2, PTL DEF Spec, TypeInv

\* For any list, configuration and default device the one pass finds a best device, if
\* it judges each by its own key (skinnysipmanager.cpp 2940-2990).
THEOREM PreferredIsTheBest == Spec => []PreferredIsBest
<1>1. Init => Enumerated
  BY EnumeratedInit, AudioAssumption
<1>2. Enumerated /\ [Next]_vars => Enumerated'
  BY EnumeratedNext
<1>3. Enumerated => PreferredIsBest
  BY PreferredBest DEF Enumerated, PreferredIsBest
<1> QED
  BY <1>1, <1>2, <1>3, PTL DEF Spec

-----------------------------------------------------------------------------
(* Labels.                                                                   *)

\* A device that cannot be queried has the empty key, and where that finds nothing, it
\* makes no difference to the choice whether the query's result is looked at.
LEMMA ReadOrNot ==
  ASSUME NoBlindPairs, NEW d
  PROVE  /\ PairIfRead(d, NoKey, mics) = PairOf(d, mics)
         /\ PairIfRead(d, NoKey, spks) = PairOf(d, spks)
<1>1. d \notin Queryable => KeyOf(d) = NoKey
  BY DEF KeyOf, Read, NoKey, Gives
<1>2. CASE d \in Queryable
  BY <1>2 DEF PairIfRead, PairOf, KeyOf
<1>3. CASE d \notin Queryable
  BY <1>1, <1>3 DEF PairIfRead, PairOf, NoBlindPairs
<1> QED
  BY <1>2, <1>3

\* The label's version of the choice agrees with the choice.
LEMMA LabelsRight ==
  ASSUME NoBlindPairs, NEW r
  PROVE  LET c == Choice(r)
         IN  /\ SpkLabel(c) = Choice([mic |-> r.mic, spk |-> Automatic]).spk
             /\ \/ r.mic # Automatic /\ c.spkSel = "paired"
                \/ MicLabel(c) = Choice([mic |-> Automatic, spk |-> r.spk]).mic
<1> DEFINE c == Choice(r)
           withMic == Choice([mic |-> r.mic, spk |-> Automatic])
           withSpk == Choice([mic |-> Automatic, spk |-> r.spk])
           Goal == /\ SpkLabel(c) = withMic.spk
                   /\ (r.mic # Automatic /\ c.spkSel = "paired") \/ MicLabel(c) = withSpk.mic
<1>0. \A d : /\ PairIfRead(d, NoKey, mics) = PairOf(d, mics)
             /\ PairIfRead(d, NoKey, spks) = PairOf(d, spks)
  BY ReadOrNot
<1>1. withMic = IF r.mic = Automatic THEN AutoBoth ELSE AutoSpk(r.mic)
  BY DEF Choice
<1>2. withSpk = IF r.spk = Automatic THEN AutoBoth ELSE AutoMic(r.spk)
  BY DEF Choice
<1> HIDE DEF c, withMic, withSpk
<1>3. CASE r.mic = Automatic /\ r.spk = Automatic
  <2>1. c = AutoBoth /\ withMic = AutoBoth /\ withSpk = AutoBoth
    BY <1>1, <1>2, <1>3 DEF Choice, c
  <2>2. ~Manual(c.micSel) /\ ~Manual(c.spkSel)
    BY <2>1 DEF AutoBoth, Sel, Manual
  <2> QED
    BY <2>1, <2>2 DEF MicLabel, SpkLabel, c, withMic, withSpk
<1>4. CASE r.mic # Automatic /\ r.spk = Automatic
  <2>1. c = AutoSpk(r.mic) /\ withMic = AutoSpk(r.mic) /\ withSpk = AutoBoth
    BY <1>1, <1>2, <1>4 DEF Choice, c
  <2>2. Manual(c.micSel) /\ ~Manual(c.spkSel) /\ c.spkSel \in {"auto", "paired"}
        /\ (c.spkSel = "auto" => c.spk = AutomaticSpk)
    BY <2>1 DEF AutoSpk, Sel, Manual
  <2>3. SpkLabel(c) = withMic.spk
    BY <2>1, <2>2 DEF SpkLabel
  <2>4. c.spkSel = "auto" => MicLabel(c) = withSpk.mic
    <3>1. SUFFICES ASSUME c.spkSel = "auto" PROVE MicLabel(c) = AutoBoth.mic
      BY <2>1
    <3>2. c.spk = AutomaticSpk
      BY <2>2, <3>1
    <3>3. MicLabel(c) = IF PairOf(AutomaticMic, spks) # None THEN AutomaticMic
                        ELSE Or(PairIfRead(AutomaticSpk, KeyOf(AutomaticMic), mics), AutomaticMic)
      BY <1>0, <2>2, <3>2 DEF MicLabel
    <3>4. AutoBoth.mic = IF PairOf(AutomaticMic, spks) # None THEN AutomaticMic
                         ELSE Or(PairIfRead(AutomaticSpk, KeyOf(AutomaticMic), mics), AutomaticMic)
      BY DEF AutoBoth, Sel, Or
    <3> QED
      BY <3>3, <3>4
  <2> QED
    BY <1>4, <2>2, <2>3, <2>4 DEF c, withMic, withSpk
<1>5. CASE r.mic = Automatic /\ r.spk # Automatic
  <2>1. c = AutoMic(r.spk) /\ withMic = AutoBoth /\ withSpk = AutoMic(r.spk)
    BY <1>1, <1>2, <1>5 DEF Choice, c
  <2>2. ~Manual(c.micSel) /\ Manual(c.spkSel)
    BY <2>1 DEF AutoMic, Sel, Manual
  <2>3. MicLabel(c) = withSpk.mic
    BY <2>1, <2>2 DEF MicLabel
  <2>4. SpkLabel(c) = withMic.spk
    <3>1. SpkLabel(c) = IF Manual(c.micSel)
                          THEN Or(PairOf(c.mic, spks), AutomaticSpk)
                          ELSE Or(PairOf(AutomaticMic, spks), AutomaticSpk)
      BY <1>0, <2>2 DEF SpkLabel
    <3>2. AutoBoth.spk = Or(PairOf(AutomaticMic, spks), AutomaticSpk)
      BY DEF AutoBoth, Sel, Or
    <3> QED
      BY <2>1, <2>2, <3>1, <3>2
  <2> QED
    BY <2>3, <2>4 DEF c, withMic, withSpk
<1>6. CASE r.mic # Automatic /\ r.spk # Automatic
  <2>1. c = Sel(r.mic, r.spk, "manual", "manual") /\ withMic = AutoSpk(r.mic)
        /\ withSpk = AutoMic(r.spk)
    BY <1>1, <1>2, <1>6 DEF Choice, c
  <2>2. Manual(c.micSel) /\ Manual(c.spkSel) /\ c.mic = r.mic /\ c.spk = r.spk
    BY <2>1 DEF Sel, Manual
  <2>3. MicLabel(c) = withSpk.mic
    BY <1>0, <2>1, <2>2 DEF MicLabel, AutoMic, Sel, Or
  <2>4. SpkLabel(c) = withMic.spk
    BY <1>0, <2>1, <2>2 DEF SpkLabel, AutoSpk, Sel, Or
  <2> QED
    BY <2>3, <2>4 DEF c, withMic, withSpk
<1> QED
  BY <1>3, <1>4, <1>5, <1>6 DEF c, withMic, withSpk

\* What was picked last is the choice for what was chosen last.
PickedIsChoice == chosen # NoRequest => picked = Choice(chosen)
LabelInv == PickedIsChoice /\ LabelTellsTruth

LEMMA LabelNext == ASSUME LabelInv, [Next]_vars PROVE LabelInv'
<1>1. UNCHANGED machine
  BY MachineStays
<1>2. \A r : Choice(r)' = Choice(r)
  BY <1>1, ChoiceStays
<1>3. NoBlindPairs' <=> NoBlindPairs
  BY <1>1 DEF NoBlindPairs, machine
<1>4. CASE InitMedia
  <2> DEFINE req == Head(requests)
             c   == Choice(req)
  <2>1. /\ chosen' = req /\ picked' = c
        /\ Labels(c) => micLabel' = MicLabel(c) /\ spkLabel' = SpkLabel(c)
    BY <1>4 DEF InitMedia
  <2>2. NoBlindPairs =>
          /\ SpkLabel(c) = Choice([mic |-> req.mic, spk |-> Automatic]).spk
          /\ \/ req.mic # Automatic /\ c.spkSel = "paired"
             \/ MicLabel(c) = Choice([mic |-> Automatic, spk |-> req.spk]).mic
    BY LabelsRight
  <2>3. /\ Choice(chosen)' = c
        /\ IfMicWereAuto' = Choice([mic |-> Automatic, spk |-> req.spk]).mic
        /\ IfSpkWereAuto' = Choice([mic |-> req.mic, spk |-> Automatic]).spk
    BY <1>2, <2>1 DEF IfMicWereAuto, IfSpkWereAuto
  <2>4. Labelled' => Labels(c)
    BY <1>1, <2>1 DEF Labelled, Labels, machine
  <2> QED
    BY <1>3, <2>1, <2>2, <2>3, <2>4 DEF LabelInv, PickedIsChoice, LabelTellsTruth
<1>5. CASE ~InitMedia
  <2>1. UNCHANGED <<chosen, picked, micLabel, spkLabel>>
    BY <1>5 DEF Next, vars, PostInitMedia, LevelRead, LevelVerdict, CheckSpeaker,
                StopTestSound, HangUp, SipInitialized, outcome
  <2>2. /\ Choice(chosen)' = Choice(chosen)
        /\ IfMicWereAuto' = IfMicWereAuto /\ IfSpkWereAuto' = IfSpkWereAuto
    BY <1>2, <2>1 DEF IfMicWereAuto, IfSpkWereAuto
  <2>3. Labelled' <=> Labelled
    BY <1>1, <2>1 DEF Labelled, machine
  <2> QED
    BY <1>3, <2>1, <2>2, <2>3 DEF LabelInv, PickedIsChoice, LabelTellsTruth
<1> QED
  BY <1>4, <1>5

\* For any devices, of which an empty key finds none, and any choices: the speaker's
\* entry "Automatic" is named after the speaker that choosing it would give, and so is
\* the microphone's, unless the speaker was paired with a microphone chosen by hand
\* (skinnysipmanager.cpp 3257-3452).
THEOREM LabelsTellTheTruth == Spec => []LabelTellsTruth
<1>1. Init => LabelInv
  BY DEF Init, LabelInv, PickedIsChoice, LabelTellsTruth, Labelled
<1>2. LabelInv /\ [Next]_vars => LabelInv'
  BY LabelNext
<1> QED
  BY <1>1, <1>2, PTL DEF Spec, LabelInv

-----------------------------------------------------------------------------
(* The selection does not feed itself: the safety half of Settles.             *)

\* Requests that will ask for the automatic microphone, and may so post a check.
Autos(q) == {i \in 1 .. Len(q) : q[i].mic = Automatic}
Asks == Cardinality(Autos(requests))

\* A check was asked for: by a choice of the user's that it is the only check of.
ChecksAreAskedFor == checks <= asked

\* Every message that the SIP thread handles brings it nearer to rest: there are fewer
\* requests for "Automatic"; or as many, and fewer checks; or as many of both, and
\* fewer requests; or only a reading less to take, or a stop less to handle.
Handles == InitMedia \/ LevelRead \/ LevelVerdict \/ StopTestSound
Fewer(a, b, c, d, e) ==
  \/ a
  \/ Asks' = Asks /\ b
  \/ Asks' = Asks /\ checks' = checks /\ c
  \/ Asks' = Asks /\ checks' = checks /\ requests' = requests /\ d
  \/ Asks' = Asks /\ checks' = checks /\ requests' = requests /\ left' = left /\ e
CalmsDown ==
  Handles =>
    Fewer(Asks' < Asks, checks' < checks, Len(requests') < Len(requests),
          left' < left, stops' < stops)

LEMMA AutosFinite ==
  ASSUME NEW q \in Seq(Requests)
  PROVE  IsFiniteSet(Autos(q)) /\ Cardinality(Autos(q)) \in Nat
<1>1. Autos(q) \in SUBSET (1 .. Len(q)) /\ Len(q) \in Nat
  BY DEF Autos
<1>2. IsFiniteSet(1 .. Len(q))
  BY <1>1, FS_Interval
<1> QED
  BY <1>1, <1>2, FS_Subset, FS_CardinalityType

\* A request that is posted counts if it asks for "Automatic" ...
LEMMA AutosAppend ==
  ASSUME NEW q \in Seq(Requests), NEW r \in Requests
  PROVE  /\ Cardinality(Autos(Append(q, r))) \in Nat
         /\ Cardinality(Autos(Append(q, r))) <= Cardinality(Autos(q)) + 1
         /\ r.mic # Automatic => Autos(Append(q, r)) = Autos(q)
<1> DEFINE p == Append(q, r)
<1>1. /\ p \in Seq(Requests) /\ Len(p) = Len(q) + 1 /\ Len(q) \in Nat
      /\ \A i \in 1 .. Len(q) : p[i] = q[i]
      /\ p[Len(q) + 1] = r
  BY AppendProperties
<1> HIDE DEF p
<1>2. Autos(p) \subseteq Autos(q) \cup {Len(q) + 1}
  BY <1>1 DEF Autos
<1>3. r.mic # Automatic => Autos(p) = Autos(q)
  BY <1>1 DEF Autos
<1> DEFINE U == Autos(q) \cup {Len(q) + 1}
<1>4. /\ IsFiniteSet(Autos(q)) /\ Cardinality(Autos(q)) \in Nat /\ Cardinality(Autos(p)) \in Nat
  BY <1>1, AutosFinite
<1>5. Len(q) + 1 \notin Autos(q)
  BY <1>1 DEF Autos
<1>6. IsFiniteSet(U) /\ Cardinality(U) = Cardinality(Autos(q)) + 1
  <2>1. IsFiniteSet(U) /\ Cardinality(U) = IF Len(q) + 1 \in Autos(q) THEN Cardinality(Autos(q))
                                           ELSE Cardinality(Autos(q)) + 1
    BY <1>4, FS_AddElement
  <2> HIDE DEF U
  <2> QED
    BY <1>5, <2>1
<1>7. Cardinality(Autos(p)) <= Cardinality(U)
  <2>1. Autos(p) \in SUBSET U
    BY <1>2
  <2> HIDE DEF U
  <2> QED
    BY <1>6, <2>1, FS_Subset
<1> HIDE DEF U
<1>8. Cardinality(Autos(p)) <= Cardinality(Autos(q)) + 1
  BY <1>4, <1>6, <1>7
<1> QED
  BY <1>3, <1>4, <1>8 DEF p

\* ... until it is handled.
LEMMA AutosTail ==
  ASSUME NEW q \in Seq(Requests), q # <<>>
  PROVE  /\ Tail(q) \in Seq(Requests) /\ Len(Tail(q)) < Len(q)
         /\ Cardinality(Autos(Tail(q))) <= Cardinality(Autos(q))
         /\ Head(q).mic = Automatic => Cardinality(Autos(Tail(q))) < Cardinality(Autos(q))
<1> DEFINE Rest == Autos(q) \ {1}
           f == [i \in Rest |-> i - 1]
<1>1. /\ Tail(q) \in Seq(Requests) /\ Len(Tail(q)) = Len(q) - 1 /\ Len(q) \in Nat /\ Len(q) # 0
      /\ Head(q) = q[1]
      /\ \A j \in 1 .. Len(Tail(q)) : Tail(q)[j] = q[j + 1]
  BY HeadTailProperties, EmptySeq
<1>2. IsFiniteSet(Autos(q)) /\ Cardinality(Autos(q)) \in Nat /\ Cardinality(Autos(Tail(q))) \in Nat
  BY <1>1, AutosFinite
<1>3. /\ IsFiniteSet(Rest)
      /\ Cardinality(Rest) = IF 1 \in Autos(q) THEN Cardinality(Autos(q)) - 1 ELSE Cardinality(Autos(q))
  BY <1>2, FS_RemoveElement
<1>4. Head(q).mic = Automatic => 1 \in Autos(q)
  BY <1>1 DEF Autos
<1>5. f \in Surjection(Rest, Autos(Tail(q)))
  <2>1. ASSUME NEW i \in Rest PROVE i - 1 \in Autos(Tail(q))
    BY <1>1 DEF Autos
  <2>2. ASSUME NEW j \in Autos(Tail(q)) PROVE j + 1 \in Rest /\ f[j + 1] = j
    BY <1>1 DEF Autos
  <2>3. f \in [Rest -> Autos(Tail(q))]
    BY <2>1
  <2>4. \A j \in Autos(Tail(q)) : \E i \in Rest : f[i] = j
    BY <2>2
  <2> HIDE DEF f, Rest
  <2> QED
    BY <2>3, <2>4 DEF Surjection
<1> HIDE DEF f, Rest
<1>6. Cardinality(Autos(Tail(q))) <= Cardinality(Rest)
  BY <1>3, <1>5, FS_Surjection
<1>7. CASE 1 \in Autos(q)
  BY <1>1, <1>2, <1>3, <1>6, <1>7
<1>8. CASE 1 \notin Autos(q)
  BY <1>1, <1>2, <1>3, <1>4, <1>6, <1>8
<1> QED
  BY <1>7, <1>8

\* Only a request for the automatic microphone adds a check, and it adds one.
LEMMA ChecksOfRequest ==
  ASSUME TypeInv, InitMedia
  PROVE  /\ checks' \in Nat
         /\ Head(requests).mic = Automatic => checks' <= checks + 1
         /\ Head(requests).mic # Automatic => checks' = checks
<1>1. checks' = ChecksAfter(Head(requests), Choice(Head(requests))) /\ checks \in Nat
  BY DEF InitMedia, TypeInv, TypeOK
<1> QED
  BY <1>1 DEF ChecksAfter, ChecksAfterMic, ChoiceAsksMic

\* The default devices, which silence selects, are never "Automatic".
LEMMA VerdictIsManual ==
  ASSUME AudioAssumption, TypeInv
  PROVE  /\ [mic |-> defMic, spk |-> defSpk] \in Requests
         /\ [mic |-> defMic, spk |-> defSpk].mic # Automatic
BY DEF AudioAssumption, TypeInv, MachineInv, Requests, OneOf, Devices

\* Checks and requests that may post one are not more than what was asked.
AskedInv == Asks + checks <= asked

LEMMA AskedNext ==
  ASSUME AudioAssumption, TypeInv, AskedInv, [Next]_vars
  PROVE  AskedInv'
<1>0. requests \in Seq(Requests) /\ checks \in Nat /\ asked \in Nat /\ Asks \in Nat
  BY AutosFinite DEF TypeInv, TypeOK, Asks
<1>1. CASE InitMedia
  <2>1. requests # <<>> /\ requests' = Tail(requests) /\ asked' = asked
    BY <1>1 DEF InitMedia
  <2>2. /\ Asks' \in Nat /\ Asks' <= Asks
        /\ Head(requests).mic = Automatic => Asks' < Asks
    BY <1>0, <2>1, AutosTail, AutosFinite DEF Asks
  <2>3. /\ checks' \in Nat
        /\ Head(requests).mic = Automatic => checks' <= checks + 1
        /\ Head(requests).mic # Automatic => checks' = checks
    BY <1>1, ChecksOfRequest
  <2>4. PICK a \in Nat, c \in Nat : Asks' = a /\ checks' = c
    BY <2>2, <2>3
  <2> QED
    BY <1>0, <2>1, <2>2, <2>3, <2>4 DEF AskedInv
<1>2. CASE LevelVerdict
  <2>1. checks > 0 /\ checks' = checks - 1 /\ asked' = asked
    BY <1>2 DEF LevelVerdict
  <2>2. Asks' = Asks
    BY <1>0, <1>2, VerdictIsManual, AutosAppend DEF LevelVerdict, Asks
  <2> QED
    BY <1>0, <2>1, <2>2 DEF AskedInv
<1>3. ASSUME NEW m \in Members(mics) \cup {Automatic}, NEW s \in Members(spks) \cup {Automatic},
             PostInitMedia(m, s)
      PROVE  AskedInv'
  <2>1. m \in OneOf(Mics) \cup {Automatic} /\ s \in OneOf(Spks) \cup {Automatic}
    BY DEF TypeInv, MachineInv, Enumerated, Members, OneOf
  <2>2. [mic |-> m, spk |-> s] \in Requests
    BY <2>1 DEF Requests
  <2>3. /\ requests' = Append(requests, [mic |-> m, spk |-> s])
        /\ asked' = asked + 1 /\ checks' = checks
    BY <1>3 DEF PostInitMedia, levelVars
  <2>4. Asks' \in Nat /\ Asks' <= Asks + 1
    BY <1>0, <2>2, <2>3, AutosAppend DEF Asks
  <2>5. PICK a \in Nat : Asks' = a
    BY <2>4
  <2> QED
    BY <1>0, <2>3, <2>4, <2>5 DEF AskedInv
<1>4. CASE LevelRead \/ CheckSpeaker \/ StopTestSound \/ HangUp \/ SipInitialized \/ UNCHANGED vars
  BY <1>4 DEF LevelRead, CheckSpeaker, StopTestSound, HangUp, SipInitialized, vars,
              levelVars, AskedInv, Asks
<1> QED
  BY <1>1, <1>2, <1>3, <1>4 DEF Next

\* There are never more level checks than choices of the user's: neither a check nor
\* the request its silence posts leads to another check.
THEOREM ChecksBounded == Spec => []ChecksAreAskedFor
<1>1. Init => TypeInv /\ AskedInv
  <2> SUFFICES ASSUME Init PROVE AskedInv
    BY TypeInit, AudioAssumption
  <2>1. Autos(requests) = {}
    BY DEF Init, Autos
  <2>2. Asks = 0
    BY <2>1, FS_EmptySet DEF Asks
  <2>3. checks = 0 /\ asked = 0
    BY DEF Init
  <2> QED
    BY <2>2, <2>3 DEF AskedInv
<1>2. TypeInv /\ AskedInv /\ [Next]_vars => TypeInv' /\ AskedInv'
  BY TypeNext, AskedNext, AudioAssumption
<1>3. TypeInv /\ AskedInv => ChecksAreAskedFor
  <2> SUFFICES ASSUME TypeInv, AskedInv PROVE checks <= asked
    BY DEF ChecksAreAskedFor
  <2>1. checks \in Nat /\ asked \in Nat /\ Asks \in Nat
    BY AutosFinite DEF TypeInv, TypeOK, Asks
  <2> QED
    BY <2>1 DEF AskedInv
<1> QED
  BY <1>1, <1>2, <1>3, PTL DEF Spec

LEMMA Calmer == ASSUME AudioAssumption, TypeInv, Handles PROVE CalmsDown
<1> USE DEF CalmsDown, Fewer
<1>0. /\ requests \in Seq(Requests) /\ checks \in Nat /\ left \in Nat /\ stops \in Nat
      /\ Asks \in Nat
  <2>1. left \in 0 .. MaxLevelChecks
    BY DEF TypeInv, TypeOK
  <2> QED
    BY <2>1, AutosFinite DEF TypeInv, TypeOK, Asks, AudioAssumption
<1>1. CASE InitMedia
  <2>1. requests # <<>> /\ requests' = Tail(requests)
    BY <1>1 DEF InitMedia
  <2>2. /\ Asks' \in Nat /\ Asks' <= Asks /\ Len(requests') < Len(requests)
        /\ Head(requests).mic = Automatic => Asks' < Asks
    BY <1>0, <2>1, AutosTail, AutosFinite DEF Asks
  <2>3. Head(requests).mic # Automatic => checks' = checks
    BY <1>1, ChecksOfRequest
  <2>4. PICK a \in Nat : Asks' = a
    BY <2>2
  <2>5. Asks' < Asks \/ Asks' = Asks
    BY <1>0, <2>2, <2>4
  <2> QED
    BY <2>2, <2>3, <2>5
<1>2. CASE LevelRead
  BY <1>0, <1>2 DEF LevelRead, CountsDown, Asks
<1>3. CASE LevelVerdict
  <2>1. checks' < checks
    BY <1>0, <1>3 DEF LevelVerdict
  <2>2. Autos(requests') = Autos(requests)
    BY <1>0, <1>3, VerdictIsManual, AutosAppend DEF LevelVerdict
  <2>3. Asks' = Asks
    BY <2>2 DEF Asks
  <2> QED
    BY <2>1, <2>3
<1>4. CASE StopTestSound
  BY <1>0, <1>4 DEF StopTestSound, levelVars, Asks
<1> QED
  BY <1>1, <1>2, <1>3, <1>4 DEF Handles

\* Between two choices of the user's, or tests, the SIP thread handles finitely many
\* messages: no choice, check, verdict and stop keep one another going for ever
\* (Settles then only needs that they are handled).
THEOREM SelectionCalmsDown == Spec => [][CalmsDown]_vars
<1>1. Init => TypeInv
  BY TypeInit, AudioAssumption
<1>2. TypeInv /\ [Next]_vars => TypeInv'
  BY TypeNext, AudioAssumption
<1>3. ASSUME TypeInv, [Next]_vars PROVE [CalmsDown]_vars
  BY <1>3, Calmer, AudioAssumption DEF CalmsDown
<1> QED
  BY <1>1, <1>2, <1>3, PTL DEF Spec
=============================================================================
