----------------------------- MODULE IntakeProofs -----------------------------
(***************************************************************************)
(* The tables never disagree on a key, whatever words it has, not only on  *)
(* those that TLC is given; and for any records, polls and reloads every   *)
(* record with a key becomes an alert or is counted, and an undocumented   *)
(* key is warned about once.                                               *)
(***************************************************************************)
EXTENDS AlarmIntake, TLAPS

-----------------------------------------------------------------------------
(* The tables.  A key is owned by one category at most because its first   *)
(* two words (of a system log key) or its second and third (of a legacy    *)
(* one) decide which table entries it can match.                           *)

\* Whose a system log key is, by its first words.
SystemLogOwner(v, w) ==
    IF v \in {"WAN", "INTERNET"} THEN "network_wan"
    ELSE IF v \in {"THREAT", "IDS", "IPS"} THEN "security_threat"
    ELSE IF v = "HONEYPOT" THEN "security_honeypot"
    ELSE IF v \in {"GEO_IP", "FIREWALL"} \/ (v = "CLIENT" /\ w = "BLOCKED") THEN "security_firewall"
    ELSE IF v = "CLIENT" THEN "network_client"
    ELSE IF v \in {"POE", "POWER", "UPS"} \/ (v = "DEVICE" /\ w = "OVERHEAT") THEN "power"
    ELSE "network_device"

\* Whose a legacy key is, by the two words after EVT.
LegacyOwner(kind, event) ==
    IF kind = "UPS" THEN "power"
    ELSE IF kind \in {"WU", "WG", "LU", "LG"} THEN "network_client"
    ELSE IF event \in {"WANTransition", "Failover", "WAN_Transition", "Internet_Access"}
         THEN "network_wan"
    ELSE IF event \in {"ThreatDetected", "IpsAlert", "Alert", "DetectRogueAP", "RadarDetected",
                       "DetectRogueDHCP"}
         THEN "security_threat"
    ELSE IF event = "Honeypot" THEN "security_honeypot"
    ELSE IF event \in {"GeoIPFilteredTraffic", "TrafficRoute", "BlockedTraffic", "Blocked"}
         THEN "security_firewall"
    ELSE IF event \in {"PoEDisconnect", "PoeDisconnect", "PoeOverload", "Overheat", "PowerCycled",
                       "PowerLoss", "OutletPowerCycle", "RpsPowerDeniedByPsuOverload"}
         THEN "power"
    ELSE "network_device"

\* What every entry of SYSTEM_LOG_KEY_TO_CATEGORY is like.
SystemLogEntry(k, c) ==
    /\ Len(k) \in 1 .. 4
    /\ k[1] # "EVT"
    /\ k[Len(k)] \notin Numbers
    /\ SystemLogOwner(k[1], k[2]) = c

\* What every key with a prefix of UNIFI_KEY_TO_CATEGORY is like.
LegacyMatch(key, c) ==
    /\ Len(key) >= 2 /\ key[1] = "EVT"
    /\ LegacyOwner(key[2], key[3]) = c

LEMMA Pairs ==
    ASSUME NEW v, NEW w, v # "EVT", w \notin Numbers
    PROVE  SystemLogEntry(<<v, w>>, SystemLogOwner(v, w))
<1> DEFINE k == <<v, w>>
<1>1. Len(k) = 2 /\ k[1] = v /\ k[2] = w
  OBVIOUS
<1> HIDE DEF k
<1>2. SystemLogEntry(k, SystemLogOwner(v, w))
  BY <1>1 DEF SystemLogEntry
<1> QED
  BY <1>2 DEF k

\* SYSTEM_LOG_KEY_TO_CATEGORY, category by category.
LEMMA SystemLogTable ==
    ASSUME NEW c \in Categories, NEW k \in SystemLogKey[c]
    PROVE  SystemLogEntry(k, c)
<1>1. CASE c = "network_device"
  <2>1. PICK v \in {"DEVICE", "AP", "SWITCH", "GATEWAY"},
             w \in {"DISCONNECTED", "CONNECTED", "LOST_CONTACT", "ADOPTED"}
                  \union {"RESTARTED", "UPGRADED"} :
               k = <<v, w>>
    BY <1>1 DEF SystemLogKey
  <2>2. SystemLogOwner(v, w) = c
    BY <1>1, <2>1 DEF SystemLogOwner
  <2>3. v # "EVT" /\ w \notin Numbers
    BY <2>1 DEF Numbers
  <2> QED
    BY <2>1, <2>2, <2>3, Pairs
<1>2. CASE c = "network_wan"
  <2>1. PICK v \in {"WAN", "INTERNET"},
             w \in {"TRANSITION", "FAILOVER", "DISCONNECTED", "CONNECTED"}
                  \union {"UNREACHABLE", "RESTORED"} :
               k = <<v, w>>
    BY <1>2 DEF SystemLogKey
  <2>2. SystemLogOwner(v, w) = c
    BY <1>2, <2>1 DEF SystemLogOwner
  <2>3. v # "EVT" /\ w \notin Numbers
    BY <2>1 DEF Numbers
  <2> QED
    BY <2>1, <2>2, <2>3, Pairs
<1>3. CASE c = "network_client"
  <2>1. PICK v \in {"CLIENT"},
             w \in {"CONNECTED", "DISCONNECTED", "ROAMED"} :
               k = <<v, w>>
    BY <1>3 DEF SystemLogKey
  <2>2. SystemLogOwner(v, w) = c
    BY <1>3, <2>1 DEF SystemLogOwner
  <2>3. v # "EVT" /\ w \notin Numbers
    BY <2>1 DEF Numbers
  <2> QED
    BY <2>1, <2>2, <2>3, Pairs
<1>4. CASE c = "security_threat"
  <2>1. \/ \E d \in {"DESTINATION_CLIENT", "SOURCE_IP", "DESTINATION_IP"} :
             k = <<"THREAT", "BLOCKED", "KNOWN", d>>
        \/ \E v \in {"THREAT", "IDS", "IPS"}, w \in {"BLOCKED", "DETECTED", "ALERT"} :
             k = <<v, w>>
    BY <1>4 DEF SystemLogKey
  <2>2. ASSUME NEW d \in {"DESTINATION_CLIENT", "SOURCE_IP", "DESTINATION_IP"},
               k = <<"THREAT", "BLOCKED", "KNOWN", d>>
        PROVE  SystemLogEntry(k, c)
    <3>1. Len(k) = 4 /\ k[1] = "THREAT" /\ k[4] = d
      BY <2>2
    <3>2. d \notin Numbers /\ SystemLogOwner("THREAT", k[2]) = c
      BY <1>4 DEF Numbers, SystemLogOwner
    <3> QED
      BY <3>1, <3>2 DEF SystemLogEntry
  <2>3. ASSUME NEW v \in {"THREAT", "IDS", "IPS"}, NEW w \in {"BLOCKED", "DETECTED", "ALERT"},
               k = <<v, w>>
        PROVE  SystemLogEntry(k, c)
    <3>1. v # "EVT" /\ w \notin Numbers
      BY DEF Numbers
    <3>2. SystemLogOwner(v, w) = c
      BY <1>4 DEF SystemLogOwner
    <3> QED
      BY <2>3, <3>1, <3>2, Pairs
  <2> QED
    BY <2>1, <2>2, <2>3
<1>5. CASE c = "security_honeypot"
  <2>1. k = <<"HONEYPOT", "DETECTED">> \/ k = <<"HONEYPOT">>
    BY <1>5 DEF SystemLogKey
  <2>2. CASE k = <<"HONEYPOT", "DETECTED">>
    <3>1. SystemLogOwner("HONEYPOT", "DETECTED") = c
      BY <1>5 DEF SystemLogOwner
    <3>2. "DETECTED" \notin Numbers
      BY DEF Numbers
    <3> QED
      BY <2>2, <3>1, <3>2, Pairs
  <2>3. CASE k = <<"HONEYPOT">>
    <3>1. Len(k) = 1 /\ k[1] = "HONEYPOT"
      BY <2>3
    <3>2. "HONEYPOT" \notin Numbers /\ SystemLogOwner("HONEYPOT", k[2]) = c
      BY <1>5 DEF Numbers, SystemLogOwner
    <3> QED
      BY <3>1, <3>2 DEF SystemLogEntry
  <2> QED
    BY <2>1, <2>2, <2>3
<1>6. CASE c = "security_firewall"
  <2>1. PICK v \in {"GEO_IP", "FIREWALL", "CLIENT"}, w \in {"FILTERED", "BLOCK", "BLOCKED"} :
               k = <<v, w>> /\ (v = "CLIENT" => w = "BLOCKED")
    BY <1>6 DEF SystemLogKey
  <2>2. SystemLogOwner(v, w) = c
    BY <1>6, <2>1 DEF SystemLogOwner
  <2>3. v # "EVT" /\ w \notin Numbers
    BY <2>1 DEF Numbers
  <2> QED
    BY <2>1, <2>2, <2>3, Pairs
<1>7. CASE c = "power"
  <2>1. PICK v \in {"POE", "POWER", "UPS", "DEVICE"},
             w \in {"OVERLOAD", "DISCONNECT", "LOSS", "LOW_BATTERY", "OVERHEAT"} :
               k = <<v, w>> /\ (v = "DEVICE" => w = "OVERHEAT")
    BY <1>7 DEF SystemLogKey
  <2>2. SystemLogOwner(v, w) = c
    BY <1>7, <2>1 DEF SystemLogOwner
  <2>3. v # "EVT" /\ w \notin Numbers
    BY <2>1 DEF Numbers
  <2> QED
    BY <2>1, <2>2, <2>3, Pairs
<1> QED
  BY <1>1, <1>2, <1>3, <1>4, <1>5, <1>6, <1>7 DEF Categories

\* What a tuple as a prefix says of the words of a key.
LEMMA PrefixOfTwo ==
    ASSUME NEW key \in Seq(STRING), NEW u, NEW v, IsPrefix(<<u, v>>, key)
    PROVE  Len(key) >= 2 /\ key[1] = u /\ key[2] = v
  BY DEF IsPrefix

LEMMA PrefixOfThree ==
    ASSUME NEW key \in Seq(STRING), NEW u, NEW v, NEW w, IsPrefix(<<u, v, w>>, key)
    PROVE  Len(key) >= 2 /\ key[1] = u /\ key[2] = v /\ key[3] = w
  BY DEF IsPrefix

LEMMA PrefixOfFour ==
    ASSUME NEW key \in Seq(STRING), NEW u, NEW v, NEW w, NEW x, IsPrefix(<<u, v, w, x>>, key)
    PROVE  Len(key) >= 2 /\ key[1] = u /\ key[2] = v /\ key[3] = w /\ key[4] = x
  BY DEF IsPrefix

\* UNIFI_KEY_TO_CATEGORY, category by category.
LEMMA LegacyTable ==
    ASSUME NEW c \in Categories, NEW p \in LegacyPrefix[c],
           NEW key \in Seq(STRING), IsPrefix(p, key)
    PROVE  LegacyMatch(key, c)
<1>1. CASE c = "network_device"
  <2>1. \/ \E kind \in {"AP", "SW", "GW", "DM", "XG"},
               event \in {"Disconnected", "Connected", "Lost_Contact", "Adopted",
                          "AutoReadopted", "Restarted", "Upgraded", "Deleted", "UpgradeFailed",
                          "UpgradeScheduled", "Isolated", "StpPortBlocking"} :
             p = <<"EVT", kind, event>>
        \/ p = <<"EVT", "IPS", "IDS", "Disconnected">>
    BY <1>1 DEF LegacyPrefix, Keys
  <2>2. ASSUME NEW kind \in {"AP", "SW", "GW", "DM", "XG"},
               NEW event \in {"Disconnected", "Connected", "Lost_Contact", "Adopted",
                              "AutoReadopted", "Restarted", "Upgraded", "Deleted",
                              "UpgradeFailed", "UpgradeScheduled", "Isolated", "StpPortBlocking"},
               p = <<"EVT", kind, event>>
        PROVE  LegacyMatch(key, c)
    <3>1. LegacyOwner(kind, event) = c
      BY <1>1 DEF LegacyOwner
    <3> QED
      BY <2>2, <3>1, PrefixOfThree DEF LegacyMatch
  <2>3. CASE p = <<"EVT", "IPS", "IDS", "Disconnected">>
    <3>1. LegacyOwner("IPS", "IDS") = c
      BY <1>1 DEF LegacyOwner
    <3> QED
      BY <2>3, <3>1, PrefixOfFour DEF LegacyMatch
  <2> QED
    BY <2>1, <2>2, <2>3
<1>2. CASE c = "network_wan"
  <2>1. PICK kind \in {"GW"},
             event \in {"WANTransition", "Failover", "WAN_Transition", "Internet_Access"} :
               p = <<"EVT", kind, event>>
    BY <1>2 DEF LegacyPrefix, Keys
  <2>2. LegacyOwner(kind, event) = c
    BY <1>2, <2>1 DEF LegacyOwner
  <2> QED
    BY <2>1, <2>2, PrefixOfThree DEF LegacyMatch
<1>3. CASE c = "network_client"
  <2>1. PICK kind \in {"WU", "WG", "LU", "LG"},
             event \in {"Connected", "Disconnected", "Roam", "AuthorizationEnded"} :
               p = <<"EVT", kind, event>>
    BY <1>3 DEF LegacyPrefix, Keys
  <2>2. LegacyOwner(kind, event) = c
    BY <1>3, <2>1 DEF LegacyOwner
  <2> QED
    BY <2>1, <2>2, PrefixOfThree DEF LegacyMatch
<1>4. CASE c = "security_threat"
  <2>1. PICK kind \in {"IPS", "GW", "IDS", "AP", "SW"},
             event \in {"ThreatDetected", "IpsAlert", "Alert", "DetectRogueAP", "RadarDetected",
                        "DetectRogueDHCP"} :
               p = <<"EVT", kind, event>>
    BY <1>4 DEF LegacyPrefix, Keys
  <2>2. LegacyOwner(kind, event) = c
    BY <1>4, <2>1 DEF LegacyOwner
  <2> QED
    BY <2>1, <2>2, PrefixOfThree DEF LegacyMatch
<1>5. CASE c = "security_honeypot"
  <2>1. \/ p = <<"EVT", "GW", "Honeypot">>
        \/ p = <<"EVT", "GW", "Honeypot", "Detected">>
    BY <1>5 DEF LegacyPrefix, Keys
  <2>2. CASE p = <<"EVT", "GW", "Honeypot">>
    <3>1. LegacyOwner("GW", "Honeypot") = c
      BY <1>5 DEF LegacyOwner
    <3> QED
      BY <2>2, <3>1, PrefixOfThree DEF LegacyMatch
  <2>3. CASE p = <<"EVT", "GW", "Honeypot", "Detected">>
    <3>1. LegacyOwner("GW", "Honeypot") = c
      BY <1>5 DEF LegacyOwner
    <3> QED
      BY <2>3, <3>1, PrefixOfFour DEF LegacyMatch
  <2> QED
    BY <2>1, <2>2, <2>3
<1>6. CASE c = "security_firewall"
  <2>1. PICK kind \in {"GW", "LC", "WC"},
             event \in {"GeoIPFilteredTraffic", "TrafficRoute", "BlockedTraffic", "Blocked"} :
               p = <<"EVT", kind, event>>
    BY <1>6 DEF LegacyPrefix, Keys
  <2>2. LegacyOwner(kind, event) = c
    BY <1>6, <2>1 DEF LegacyOwner
  <2> QED
    BY <2>1, <2>2, PrefixOfThree DEF LegacyMatch
<1>7. CASE c = "power"
  <2>1. \/ \E kind \in {"SW", "AP", "GW", "XG", "USP"},
               event \in {"PoEDisconnect", "PoeDisconnect", "PoeOverload", "Overheat",
                          "PowerCycled", "PowerLoss", "OutletPowerCycle",
                          "RpsPowerDeniedByPsuOverload"} :
             p = <<"EVT", kind, event>>
        \/ p = <<"EVT", "UPS">>
    BY <1>7 DEF LegacyPrefix, Keys
  <2>2. ASSUME NEW kind \in {"SW", "AP", "GW", "XG", "USP"},
               NEW event \in {"PoEDisconnect", "PoeDisconnect", "PoeOverload", "Overheat",
                              "PowerCycled", "PowerLoss", "OutletPowerCycle",
                              "RpsPowerDeniedByPsuOverload"},
               p = <<"EVT", kind, event>>
        PROVE  LegacyMatch(key, c)
    <3>1. LegacyOwner(kind, event) = c
      BY <1>7 DEF LegacyOwner
    <3> QED
      BY <2>2, <3>1, PrefixOfThree DEF LegacyMatch
  <2>3. CASE p = <<"EVT", "UPS">>
    <3>1. LegacyOwner("UPS", key[3]) = c
      BY <1>7 DEF LegacyOwner
    <3> QED
      BY <2>3, <3>1, PrefixOfTwo DEF LegacyMatch
  <2> QED
    BY <2>1, <2>2, <2>3
<1> QED
  BY <1>1, <1>2, <1>3, <1>4, <1>5, <1>6, <1>7 DEF Categories

-----------------------------------------------------------------------------
(* A key without its number *)

LEMMA StrippedKey ==
    ASSUME NEW key \in Seq(STRING)
    PROVE  /\ Stripped(key) \in Seq(STRING)
           /\ key # <<>> => Stripped(key)[1] = key[1]
<1>1. CASE Len(key) > 1 /\ Last(key) \in Numbers
  <2>1. Stripped(key) = SubSeq(key, 1, Len(key) - 1)
    BY <1>1 DEF Stripped, Front
  <2>2. SubSeq(key, 1, Len(key) - 1) \in Seq(STRING)
    BY <1>1
  <2>3. Len(SubSeq(key, 1, Len(key) - 1)) = Len(key) - 1
    BY <1>1
  <2>4. SubSeq(key, 1, Len(key) - 1)[1] = key[1]
    BY <1>1
  <2> QED
    BY <1>1, <2>1, <2>2, <2>3, <2>4
<1>2. CASE ~(Len(key) > 1 /\ Last(key) \in Numbers)
  BY <1>2 DEF Stripped
<1> QED
  BY <1>1, <1>2

\* The table holds no numbered variants: taking the number off finds what the
\* key itself would.
LEMMA TableKeysAreStripped ==
    ASSUME NEW c \in Categories, NEW key \in Seq(STRING), key \in SystemLogKey[c]
    PROVE  Stripped(key) = key
<1>1. key[Len(key)] \notin Numbers
  BY SystemLogTable DEF SystemLogEntry
<1> QED
  BY <1>1 DEF Stripped, Last

\* No key is claimed by two categories, nor by both generations of keys.
LEMMA ClaimsAgree ==
    ASSUME NEW key \in Seq(STRING), NEW c \in Claims(key), NEW d \in Claims(key)
    PROVE  c = d
<1> DEFINE k == Stripped(key)
<1>1. k \in Seq(STRING) /\ (key # <<>> => k[1] = key[1])
  BY StrippedKey
<1>2. ASSUME NEW e \in Categories, key \in SystemLogKey[e] \/ k \in SystemLogKey[e]
      PROVE  k \in SystemLogKey[e] /\ key # <<>> /\ key[1] # "EVT" /\ SystemLogOwner(k[1], k[2]) = e
  <2>1. k \in SystemLogKey[e]
    BY <1>2, TableKeysAreStripped
  <2>2. SystemLogEntry(k, e)
    BY <2>1, SystemLogTable
  <2>3. key # <<>>
    BY <2>2 DEF SystemLogEntry, Stripped
  <2> QED
    BY <1>1, <2>1, <2>2, <2>3 DEF SystemLogEntry
<1>3. ASSUME NEW e \in PrefixCategories(key)
      PROVE  e \in Categories /\ key[1] = "EVT" /\ LegacyOwner(key[2], key[3]) = e
  <2>1. PICK p \in LegacyPrefix[e] : IsPrefix(p, key)
    BY DEF PrefixCategories, Matches
  <2> QED
    BY <2>1, LegacyTable DEF LegacyMatch, PrefixCategories
<1>4. ASSUME NEW e \in Claims(key)
      PROVE  \/ key[1] # "EVT" /\ SystemLogOwner(k[1], k[2]) = e
             \/ key[1] = "EVT" /\ LegacyOwner(key[2], key[3]) = e
  BY <1>2, <1>3 DEF Claims
<1> QED
  BY <1>4

\* No category is claimed for the key of a record without one.
LEMMA NoClaims == Claims(<<>>) = {}
<1>1. ASSUME NEW e \in Categories, <<>> \in SystemLogKey[e]
      PROVE  FALSE
  BY <1>1, SystemLogTable DEF SystemLogEntry
<1>2. Stripped(<<>>) = <<>>
  BY DEF Stripped
<1>3. ASSUME NEW e \in Categories, NEW p \in LegacyPrefix[e], IsPrefix(p, <<>>)
      PROVE  FALSE
  <2> DEFINE key == <<>>
  <2>1. key \in Seq(STRING) /\ Len(key) = 0
    OBVIOUS
  <2>2. IsPrefix(p, key)
    BY <1>3
  <2> HIDE DEF key
  <2>3. LegacyMatch(key, e)
    BY <2>1, <2>2, LegacyTable
  <2> QED
    BY <2>1, <2>3 DEF LegacyMatch
<1> QED
  BY <1>1, <1>2, <1>3 DEF Claims, PrefixCategories, Matches

-----------------------------------------------------------------------------
(* The category of a record *)

LEMMA NoCategoryIsNone == NoCategory \notin Categories
  BY DEF NoCategory, Categories

\* The category of a coarse category, if that has one.
ByEnum(enum) == IF enum \in DOMAIN EnumFallback THEN EnumFallback[enum] ELSE NoCategory

\* What classify_event_key returns: the one category that claims the key, and
\* the one of the enum for a key that none claims.
LEMMA Classified ==
    ASSUME NEW key \in Seq(STRING), NEW enum
    PROVE  \/ Claims(key) = {classify_event_key(key, enum)}
           \/ Claims(key) = {} /\ classify_event_key(key, enum) = ByEnum(enum)
<1> DEFINE c == classify_event_key(key, enum)
<1>1. CASE InSystemLog(key)
  <2>1. SystemLogCategory(key) \in Claims(key)
    BY <1>1 DEF InSystemLog, SystemLogCategory, Claims
  <2>2. c = SystemLogCategory(key)
    BY <1>1 DEF classify_event_key
  <2> QED
    BY <2>1, <2>2, ClaimsAgree
<1>2. CASE ~InSystemLog(key) /\ InSystemLog(Stripped(key))
  <2>1. SystemLogCategory(Stripped(key)) \in Claims(key)
    BY <1>2 DEF InSystemLog, SystemLogCategory, Claims
  <2>2. c = SystemLogCategory(Stripped(key))
    BY <1>2 DEF classify_event_key
  <2> QED
    BY <2>1, <2>2, ClaimsAgree
<1>3. CASE ~InSystemLog(key) /\ ~InSystemLog(Stripped(key)) /\ PrefixCategories(key) # {}
  <2> DEFINE first == CHOOSE d \in PrefixCategories(key) : TRUE
  <2>1. first \in Claims(key)
    BY <1>3 DEF Claims
  <2>2. c = first
    BY <1>3 DEF classify_event_key
  <2> HIDE DEF first
  <2> QED
    BY <2>1, <2>2, ClaimsAgree
<1>4. CASE ~InSystemLog(key) /\ ~InSystemLog(Stripped(key)) /\ PrefixCategories(key) = {}
  <2>1. Claims(key) = {}
    BY <1>4 DEF Claims, InSystemLog
  <2>2. c = ByEnum(enum)
    BY <1>4 DEF classify_event_key, ByEnum
  <2> QED
    BY <2>1, <2>2
<1> QED
  BY <1>1, <1>2, <1>3, <1>4

LEMMA ClaimsAreCategories ==
    ASSUME NEW key, NEW c \in Claims(key)
    PROVE  c # NoCategory
  BY NoCategoryIsNone DEF Claims, PrefixCategories

\* NoCategory stands for the enum that a record of the legacy API has not.
LEMMA NoEnum == ByEnum(NoCategory) = NoCategory
  BY DEF ByEnum, NoCategory, EnumFallback

\* What TablesAgree says of one record and its category.
Agree(r, c) ==
    \/ Claims(r.key) = {c}
    \/ /\ Claims(r.key) = {}
       /\ r.enum \in DOMAIN EnumFallback
       /\ c = EnumFallback[r.enum]

LEMMA LegacyAgrees ==
    ASSUME NEW r \in Raw, from_api_alarm(r).category # NoCategory
    PROVE  Agree(r, from_api_alarm(r).category)
<1>1. r.key \in Seq(STRING)
  BY IntakeAssumption
<1>2. from_api_alarm(r).category = classify_event_key(r.key, NoCategory)
  BY DEF from_api_alarm, classify
<1> QED
  BY <1>1, <1>2, Classified, NoEnum DEF Agree

LEMMA SystemLogAgrees ==
    ASSUME NEW r \in Raw, from_system_log_event(r).category # NoCategory
    PROVE  Agree(r, from_system_log_event(r).category)
<1> DEFINE by_key == classify_event_key(r.key, NoCategory)
           by_enum == classify_event_key(<<>>, r.enum)
<1>1. r.key \in Seq(STRING) /\ <<>> \in Seq(STRING)
  BY IntakeAssumption
<1>2. from_system_log_event(r).category = IF by_key # NoCategory THEN by_key ELSE by_enum
  BY DEF from_system_log_event
<1>3. by_key # NoCategory => Claims(r.key) = {by_key}
  BY <1>1, Classified, NoEnum
<1>4. by_key = NoCategory => Claims(r.key) = {}
  BY <1>1, Classified, ClaimsAreCategories
<1>5. by_enum = ByEnum(r.enum)
  BY <1>1, Classified, NoClaims
<1> QED
  BY <1>2, <1>3, <1>4, <1>5 DEF Agree, ByEnum

-----------------------------------------------------------------------------
(* The polls.  Each property is inductive by itself: what a poll needs to  *)
(* know is what it is about to parse.                                      *)

\* Both parsers keep the record.
LEMMA ParsedRecord ==
    ASSUME NEW r
    PROVE  from_api_alarm(r).raw = r /\ from_system_log_event(r).raw = r
  BY DEF from_api_alarm, from_system_log_event

\* What a poll has to show of the batch it is given.
PollEffect(batch) ==
    \/ /\ categorised' = Alerts({from_api_alarm(r) : r \in batch})
       /\ seen' = seen /\ warned' = warned
       /\ unrecognised' =
              Plus(unrecognised, Tally(Uncategorised({from_api_alarm(r) : r \in batch})))
       /\ Drop(batch, categorised')
    \/ /\ categorised' = Alerts({from_system_log_event(r) : r \in batch})
       /\ seen' = seen \union Undocumented(batch)
       /\ warned' = [k \in Key |-> IF k \in seen' \ seen THEN warned[k] + 1 ELSE warned[k]]
       /\ unrecognised' =
              Plus(unrecognised, Tally(Uncategorised({from_system_log_event(r) : r \in batch})))
       /\ Drop(batch, categorised')

\* Every step is a poll of some records, or starts afresh, or leaves all this alone.
LEMMA Steps ==
    ASSUME [Next]_vars
    PROVE  \/ \E batch \in SUBSET Raw : PollEffect(batch)
           \/ /\ seen' = {} /\ categorised' = {}
              /\ unrecognised' = NoKeys /\ warned' = NoKeys /\ dropped' = NoKeys
           \/ UNCHANGED <<seen, categorised, unrecognised, warned, dropped>>
<1>1. ASSUME NEW batch \in Batches, Poll(batch)
      PROVE  \E b \in SUBSET Raw : PollEffect(b)
  <2>1. batch \in SUBSET Raw
    BY DEF Batches, kSubset
  <2>2. CASE Legacy(batch)
    BY <2>1, <2>2 DEF Legacy, PollEffect
  <2>3. CASE SystemLog(batch)
    BY <2>1, <2>3 DEF SystemLog, PollEffect
  <2> QED
    BY <1>1, <2>2, <2>3 DEF Poll
<1>2. CASE Reload
  BY <1>2 DEF Reload
<1>3. CASE UNCHANGED vars
  BY <1>3 DEF vars
<1> QED
  BY <1>1, <1>2, <1>3 DEF Next

-----------------------------------------------------------------------------
\* Whatever records there are, and whichever API brings them, an alert has the
\* one category that the tables give its key, and the category of its coarse
\* category only when they give none (classify_event_key, from_api_alarm and
\* from_system_log_event).
THEOREM OneCategoryPerKey == Spec => []TablesAgree
<1>1. Init => TablesAgree
  BY DEF Init, TablesAgree
<1>2. TablesAgree /\ [Next]_vars => TablesAgree'
  <2> SUFFICES ASSUME TablesAgree, [Next]_vars, NEW a \in categorised'
               PROVE  Agree(a.raw, a.category)
    BY DEF TablesAgree, Agree
  <2>1. ASSUME NEW batch \in SUBSET Raw, PollEffect(batch)
        PROVE  Agree(a.raw, a.category)
    <3>1. CASE categorised' = Alerts({from_api_alarm(r) : r \in batch})
      <4>1. PICK r \in batch : a = from_api_alarm(r) /\ a.category # NoCategory
        BY <3>1 DEF Alerts
      <4> QED
        BY <4>1, LegacyAgrees, ParsedRecord
    <3>2. CASE categorised' = Alerts({from_system_log_event(r) : r \in batch})
      <4>1. PICK r \in batch : a = from_system_log_event(r) /\ a.category # NoCategory
        BY <3>2 DEF Alerts
      <4> QED
        BY <4>1, SystemLogAgrees, ParsedRecord
    <3> QED
      BY <2>1, <3>1, <3>2 DEF PollEffect
  <2>2. ASSUME UNCHANGED categorised
        PROVE  Agree(a.raw, a.category)
    BY <2>2 DEF TablesAgree, Agree
  <2> QED
    BY <2>1, <2>2, Steps
<1> QED
  BY <1>1, <1>2, PTL DEF Spec

\* The records that stay without a category are those that no alert came of.
LEMMA UncategorisedLegacy ==
    ASSUME NEW batch
    PROVE  Uncategorised({from_api_alarm(r) : r \in batch}) =
               {r \in batch : \A a \in Alerts({from_api_alarm(q) : q \in batch}) : a.raw # r}
  BY ParsedRecord DEF Uncategorised, Alerts

LEMMA UncategorisedSystemLog ==
    ASSUME NEW batch
    PROVE  Uncategorised({from_system_log_event(r) : r \in batch}) =
               {r \in batch : \A a \in Alerts({from_system_log_event(q) : q \in batch}) : a.raw # r}
  BY ParsedRecord DEF Uncategorised, Alerts

\* Over polls of both APIs in any order, every record with a key becomes an
\* alert or is counted in unrecognised_keys, once per poll (categorise_alarms,
\* _fetch_categorised).
THEOREM EveryRecordCounted == Spec => []NothingUncounted
<1>1. Init => NothingUncounted
  BY DEF Init, NothingUncounted
<1>2. NothingUncounted /\ [Next]_vars => NothingUncounted'
  <2> SUFFICES ASSUME NothingUncounted, [Next]_vars
               PROVE  unrecognised' = dropped'
    BY DEF NothingUncounted
  <2>1. ASSUME NEW batch \in SUBSET Raw, PollEffect(batch)
        PROVE  unrecognised' = dropped'
    <3>1. ASSUME NEW parsed,
                 unrecognised' = Plus(unrecognised, Tally(Uncategorised(parsed))),
                 Uncategorised(parsed) = {r \in batch : \A a \in Alerts(parsed) : a.raw # r},
                 categorised' = Alerts(parsed),
                 Drop(batch, categorised')
          PROVE  unrecognised' = dropped'
      BY <3>1 DEF Drop, NothingUncounted
    <3> QED
      BY <2>1, <3>1, UncategorisedLegacy, UncategorisedSystemLog DEF PollEffect
  <2> QED
    BY <2>1, Steps DEF NothingUncounted
<1> QED
  BY <1>1, <1>2, PTL DEF Spec

\* An undocumented key is warned about once between two reloads, by the first
\* poll that meets it (_seen_unknown_keys).
THEOREM OneWarningPerKey == Spec => []WarnedOnce
<1>1. Init => WarnedOnce
  BY DEF Init, WarnedOnce, NoKeys
<1>2. WarnedOnce /\ [Next]_vars => WarnedOnce'
  <2> SUFFICES ASSUME WarnedOnce, [Next]_vars, NEW k \in Key
               PROVE  warned'[k] = IF k \in seen' THEN 1 ELSE 0
    BY DEF WarnedOnce, Key
  <2>1. ASSUME NEW batch \in SUBSET Raw, PollEffect(batch)
        PROVE  warned'[k] = IF k \in seen' THEN 1 ELSE 0
    BY <2>1 DEF PollEffect, WarnedOnce
  <2> QED
    BY <2>1, Steps DEF WarnedOnce, NoKeys
<1> QED
  BY <1>1, <1>2, PTL DEF Spec
=============================================================================
