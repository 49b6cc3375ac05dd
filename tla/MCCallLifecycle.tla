--------------------------- MODULE MCCallLifecycle ---------------------------
(* Model-checking instance of CallLifecycle.                                 *)
EXTENDS CallLifecycle
=============================================================================
