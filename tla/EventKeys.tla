------------------------------ MODULE EventKeys ------------------------------
(***************************************************************************)
(* const.py: from the key of a UniFi event to one of the integration's     *)
(* categories (classify_event_key) over its three tables.                  *)
(*                                                                         *)
(* A key is the sequence of its words: EVT_GW_HoneypotDetected is          *)
(* <<"EVT", "GW", "Honeypot", "Detected">>, CLIENT_ROAMED_2 is             *)
(* <<"CLIENT", "ROAMED", "2">>.  startswith is Matches; the empty string   *)
(* is <<>>.                                                                *)
(***************************************************************************)
EXTENDS Naturals, SequencesExt

Categories == {"network_device", "network_wan", "network_client", "security_threat",
               "security_honeypot", "security_firewall", "power"}

\* "", which is no category.
NoCategory == "none"

Keys(kinds, events) == {<<"EVT", k, e>> : k \in kinds, e \in events}

\* UNIFI_KEY_TO_CATEGORY: the prefixes of each category.
LegacyPrefix == [
    network_device |->
        Keys({"AP", "SW", "GW"},
             {"Disconnected", "Connected", "Lost_Contact", "Adopted", "AutoReadopted",
              "Restarted", "Upgraded", "Deleted"})
        \union Keys({"AP"}, {"UpgradeFailed", "UpgradeScheduled", "Isolated"})
        \union Keys({"SW"}, {"StpPortBlocking"})
        \union Keys({"DM"}, {"Connected", "Lost_Contact", "Upgraded"})
        \union Keys({"XG"}, {"AutoReadopted", "Connected", "Lost_Contact"})
        \union {<<"EVT", "IPS", "IDS", "Disconnected">>},
    network_wan |->
        Keys({"GW"}, {"WANTransition", "Failover", "WAN_Transition", "Internet_Access"}),
    network_client |->
        Keys({"WU", "WG"}, {"Connected", "Disconnected", "Roam"})
        \union Keys({"LU", "LG"}, {"Connected", "Disconnected"})
        \union Keys({"WG"}, {"AuthorizationEnded"}),
    security_threat |->
        Keys({"IPS", "GW"}, {"ThreatDetected"})
        \union Keys({"IPS"}, {"IpsAlert"}) \union Keys({"IDS"}, {"Alert"})
        \union Keys({"AP"}, {"DetectRogueAP", "RadarDetected"})
        \union Keys({"SW"}, {"DetectRogueDHCP"}),
    security_honeypot |->
        {<<"EVT", "GW", "Honeypot">>, <<"EVT", "GW", "Honeypot", "Detected">>},
    security_firewall |->
        Keys({"GW"}, {"GeoIPFilteredTraffic", "TrafficRoute", "BlockedTraffic"})
        \union Keys({"LC", "WC"}, {"Blocked"}),
    power |->
        Keys({"SW"}, {"PoEDisconnect", "PoeDisconnect", "PoeOverload", "Overheat"})
        \union Keys({"AP"}, {"PowerCycled"}) \union Keys({"GW"}, {"PowerLoss"})
        \union Keys({"XG"}, {"OutletPowerCycle"})
        \union Keys({"USP"}, {"RpsPowerDeniedByPsuOverload"})
        \union {<<"EVT", "UPS">>}]

\* SYSTEM_LOG_KEY_TO_CATEGORY: the keys of each category.
SystemLogKey == [
    network_device |->
        {<<"DEVICE", e>> : e \in {"DISCONNECTED", "CONNECTED", "LOST_CONTACT", "ADOPTED",
                                  "RESTARTED", "UPGRADED"}}
        \union ({"AP", "SWITCH", "GATEWAY"} \X {"DISCONNECTED", "CONNECTED"}),
    network_wan |->
        {<<"WAN", e>> : e \in {"TRANSITION", "FAILOVER", "DISCONNECTED", "CONNECTED"}}
        \union {<<"INTERNET", e>> : e \in {"UNREACHABLE", "RESTORED"}},
    network_client |->
        {<<"CLIENT", e>> : e \in {"CONNECTED", "DISCONNECTED", "ROAMED"}},
    security_threat |->
        {<<"THREAT", "BLOCKED", "KNOWN", d>> :
            d \in {"DESTINATION_CLIENT", "SOURCE_IP", "DESTINATION_IP"}}
        \union {<<"THREAT", e>> : e \in {"BLOCKED", "DETECTED"}}
        \union ({"IDS", "IPS"} \X {"ALERT"}),
    security_honeypot |-> {<<"HONEYPOT", "DETECTED">>, <<"HONEYPOT">>},
    security_firewall |->
        {<<"GEO_IP", "FILTERED">>, <<"FIREWALL", "BLOCK">>, <<"CLIENT", "BLOCKED">>},
    power |->
        ({"POE"} \X {"OVERLOAD", "DISCONNECT"})
        \union {<<"POWER", "LOSS">>, <<"UPS", "LOW_BATTERY">>, <<"DEVICE", "OVERHEAT">>}]

\* SYSTEM_LOG_CATEGORY_FALLBACK: by the `category` of a v2 event.
EnumFallback == [
    SECURITY |-> "security_threat",
    INTERNET_AND_WAN |-> "network_wan",
    UNIFI_DEVICES |-> "network_device",
    CLIENT_DEVICES |-> "network_client",
    POWER |-> "power",
    VPN |-> "network_wan",
    SOFTWARE_UPDATES |-> "network_device"]

-----------------------------------------------------------------------------
\* _TRAILING_NUMERIC_SUFFIX takes one number off the end.
Numbers == {"1", "2", "3"}

Stripped(key) ==
    IF Len(key) > 1 /\ Last(key) \in Numbers THEN Front(key) ELSE key

InSystemLog(key) == \E c \in Categories : key \in SystemLogKey[c]

SystemLogCategory(key) == CHOOSE c \in Categories : key \in SystemLogKey[c]

\* "EVT_UPS_" alone ends with an underscore, and asks for a third word.
Matches(p, key) == IsPrefix(p, key) /\ (Len(p) = 2 => Len(key) > 2)

\* The categories with a prefix of the key.  They lie in the dict one after
\* another; that a key has one at most, so that their order does not matter,
\* is TablesAgree of AlarmIntake.
PrefixCategories(key) ==
    {c \in Categories : \E p \in LegacyPrefix[c] : Matches(p, key)}

\* Mutant: numbered variants of a key are not looked up (as before #406).
MUT_classify_event_key(key, enum) ==
    IF InSystemLog(key) THEN SystemLogCategory(key)
    ELSE IF PrefixCategories(key) # {} THEN CHOOSE c \in PrefixCategories(key) : TRUE
    ELSE IF enum \in DOMAIN EnumFallback THEN EnumFallback[enum]
    ELSE NoCategory

classify_event_key(key, enum) ==
    IF InSystemLog(key) THEN SystemLogCategory(key)
    ELSE IF InSystemLog(Stripped(key)) THEN SystemLogCategory(Stripped(key))
    ELSE IF PrefixCategories(key) # {} THEN CHOOSE c \in PrefixCategories(key) : TRUE
    ELSE IF enum \in DOMAIN EnumFallback THEN EnumFallback[enum]
    ELSE NoCategory
=============================================================================
