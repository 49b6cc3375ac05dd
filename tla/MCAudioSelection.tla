-------------------------- MODULE MCAudioSelection --------------------------
(***************************************************************************)
(* AudioSelection on a laptop: built-in devices, a USB headset, a Bluetooth    *)
(* headset whose hardware id has a class only, a USB camera's microphone, a    *)
(* virtual microphone that the hardware query does not find, and a virtual     *)
(* speaker it can read nothing of.                                             *)
(***************************************************************************)
EXTENDS AudioSelection

CONSTANTS laptopMic, usbMic, btMic, camMic, virtualMic, laptopSpk, usbSpk, btSpk, virtualSpk

MCMics == {laptopMic, usbMic, btMic, camMic, virtualMic}
MCSpks == {laptopSpk, usbSpk, btSpk, virtualSpk}
MCBuiltIn == {laptopMic, laptopSpk}

MCHw ==
  [d \in MCMics \cup MCSpks |->
     CASE d \in {laptopMic, laptopSpk} -> <<"HDAUDIO", "V0", "P0">>
       [] d \in {usbMic, usbSpk}       -> <<"USB", "V1", "P1">>
       [] d \in {btMic, btSpk}         -> <<"BTH", None, None>>
       [] d = camMic                   -> <<"USB", "V3", "P3">>
       [] d = virtualSpk               -> <<None, None, None>>
       [] OTHER                        -> <<>>]

Rule(os, key, automatic) == [os |-> os, key |-> key, automatic |-> automatic]
\* A vendor that is out beats a class that is in; on this system the Bluetooth
\* headset is in after all, and the built-in devices are out.
MCRuleSets ==
  {{Rule(FALSE, <<"MIC", "USB", "V1">>, FALSE), Rule(TRUE, <<"MIC", "USB">>, TRUE)},
   {Rule(FALSE, <<"MIC", "BTH">>, FALSE), Rule(TRUE, <<"MIC", "BTH">>, TRUE),
    Rule(TRUE, <<"MIC", "HDAUDIO">>, FALSE), Rule(TRUE, <<"SPK", "HDAUDIO">>, FALSE)}}

Setup(m, s, cm, cs, r, b, l) ==
  [mics |-> m, spks |-> s, commMic |-> cm, commSpk |-> cs,
   rules |-> r, biased |-> b, labelled |-> l]

\* Microphones, speakers and the default speaker.
MCLists ==
  LET ms == <<laptopMic, btMic, usbMic>>
      vs == <<virtualMic, camMic, usbMic>>
      headset == <<<<laptopSpk, usbSpk>>, laptopSpk>>
  IN  {<<ms, headset>>, <<ms, <<<<btSpk, virtualSpk>>, btSpk>>>>,
       <<vs, headset>>, <<vs, <<<<virtualSpk, laptopSpk>>, laptopSpk>>>>}
\* The configuration is read only if the biased selection is on.
Policies == ({TRUE} \X MCRuleSets) \cup {<<FALSE, {}>>}

\* Every microphone as the default of every list under every policy, a machine
\* without microphones, one without any device, and one without labels.
MCSetups ==
  UNION {{Setup(x[1], x[2][1], cm, x[2][2], p[2], p[1], TRUE) :
            cm \in Defaults(x[1]), p \in Policies} : x \in MCLists}
  \cup {Setup(<<>>, <<laptopSpk>>, None, laptopSpk, {}, TRUE, TRUE),
        Setup(<<>>, <<>>, None, None, {}, FALSE, TRUE),
        Setup(<<laptopMic>>, <<laptopSpk>>, laptopMic, laptopSpk, {}, FALSE, FALSE)}

\* Two headsets that are known in full.
MCHeadsets ==
  {Setup(<<laptopMic, usbMic>>, <<laptopSpk, usbSpk>>, laptopMic, laptopSpk,
         {Rule(FALSE, <<"MIC", "USB">>, FALSE)}, TRUE, TRUE)}
=============================================================================
