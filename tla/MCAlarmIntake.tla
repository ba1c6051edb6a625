---------------------------- MODULE MCAlarmIntake ----------------------------
(***************************************************************************)
(* Records for TLC: keys of every table, numbered variants, keys that only *)
(* share a beginning with a known one, unknown keys with and without a     *)
(* coarse category, two records of one kind, and records without a key.    *)
(***************************************************************************)
EXTENDS AlarmIntake

Record(id, key, enum) == [id |-> id, key |-> key, enum |-> enum]

MCRaw == {
    Record(1, <<"CLIENT", "ROAMED", "2">>, "CLIENT_DEVICES"),
    Record(2, <<"WAN", "FAILOVER", "2", "3">>, "AUDIT"),
    Record(3, <<"THREAT", "BLOCKED">>, "UNKNOWN"),
    Record(4, <<"DEVICE", "OVERHEAT", "2">>, "UNIFI_DEVICES"),
    Record(5, <<"EVT", "AP", "Restarted", "Unknown">>, "POWER"),
    Record(6, <<"EVT", "GW", "Honeypot", "Detected">>, "SECURITY"),
    Record(7, <<"EVT", "UPS", "OnBattery">>, "UNIFI_DEVICES"),
    Record(8, <<"EVT", "XG", "Deleted">>, "NONE"),
    Record(9, <<"NEW", "KIND">>, "VPN"),
    Record(10, <<"NEW", "KIND">>, "AUDIT"),
    Record(11, <<"NEW", "KIND">>, "AUDIT"),
    Record(12, <<"EVT", "UPS">>, "NONE"),
    Record(13, <<>>, "POWER"),
    Record(14, <<>>, "UNKNOWN")}
=============================================================================
