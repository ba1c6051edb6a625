--------------------------- MODULE MCAlarmTransport ---------------------------
(***************************************************************************)
(* Controllers for TLC, with two legacy paths: old firmware with the newer *)
(* or the older path or both, a version with both APIs, UniFi Network      *)
(* 10.6+ with v2 alone, and one that serves neither.                       *)
(***************************************************************************)
EXTENDS ConnectivityCheck

Old(served) == [v2 |-> FALSE, served |-> served]
New(served) == [v2 |-> TRUE, served |-> served]

MCFirmware == {Old({1}), Old({2}), Old({1, 2}), New({1}), New({2}), New({}), Old({})}
=============================================================================
