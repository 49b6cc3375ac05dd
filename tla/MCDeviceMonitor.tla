--------------------------- MODULE MCDeviceMonitor ---------------------------
(* A microphone and two cameras: the audio lists are scanned before the video  *)
(* list, and the selected camera is not the only one.                          *)
EXTENDS DeviceMonitor

CONSTANTS mic, cam, cam2

MCDevices == {mic, cam, cam2}
MCTypeOf  == [d \in Devices |-> IF d = mic THEN "AUDIO_IN" ELSE "VIDEO"]
=============================================================================
