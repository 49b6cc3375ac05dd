-------------------------- MODULE MCNetworkRecovery --------------------------
(* Two interfaces, each with an IPv4 and an IPv6 row.                          *)
EXTENDS NetworkRecovery, TLC

CONSTANTS lan, wifi

MCLuids == {lan, wifi}
=============================================================================
