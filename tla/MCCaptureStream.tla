--------------------------- MODULE MCCaptureStream ---------------------------
(* A laptop screen upright and turned, a large one that is scaled down, and a   *)
(* window smaller than what is encoded.                                       *)
EXTENDS CaptureStream

MCScreens == {<<1280, 720>>, <<720, 1280>>, <<2560, 1600>>, <<640, 480>>}
=============================================================================
