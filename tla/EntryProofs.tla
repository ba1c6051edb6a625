----------------------------- MODULE EntryProofs -----------------------------
(***************************************************************************)
(* For every bound: the states of an entry are well typed, the webhook of  *)
(* a loaded entry reaches the coordinator its entities watch, each push it *)
(* applies there fires one event, and the services are there.  Migration   *)
(* adds conditions to these steps, and steps that leave all of this alone, *)
(* so that it holds of migrated entries too, whose identity is whole and,  *)
(* once saved, stays.                                                      *)
(***************************************************************************)
EXTENDS EntryUpgrade, FiniteSetTheorems, SequenceTheorems, TLAPS

Coordinator == [alert_count : Nat, timer : BOOLEAN]

Phases == Startable \union
    {"authenticating", "version", "restored", "registered", "loaded", "unloading",
     "failed_unload", "removed"}

\* The coordinators, what is pending for them, and the store file.  No count
\* exceeds the webhooks received, of which there will be MaxPushes.
Data ==
    /\ coordinators \in Seq(Coordinator)
    /\ Latest <= MaxSetups
    /\ late \subseteq DOMAIN coordinators
    /\ inflight \subseteq DOMAIN coordinators
    /\ file \in {NoFile} \union Nat
    /\ received \in Nat
    /\ \A g \in DOMAIN coordinators : coordinators[g].alert_count <= received
    /\ file # NoFile => file <= received
    /\ IsFiniteSet(inflight)
    /\ received + Cardinality(inflight) <= MaxPushes

Control ==
    /\ phase \in Phases
    /\ entity \in {NoEntity} \union Nat
    /\ services \in BOOLEAN /\ other \in {"absent", "not_loaded", "loaded"}
    /\ call \in {NoCall} \union 0 .. Latest
    /\ fired \in Nat /\ due \in Nat
    /\ restarts \in 0 .. MaxRestarts

\* The webhook is registered from register_all to unregister_all, to the latest
\* coordinator: every setup finds the id free.
Routed ==
    /\ phase \in {"registered", "loaded", "unloading", "failed_unload"} => registered = Latest
    /\ phase \in {"restored", "registered", "loaded", "unloading"} => Latest > 0
    /\ phase \in {"authenticating", "version"} => Latest < MaxSetups
    /\ registered # Nobody =>
           /\ registered = Latest
           /\ phase \in {"registered", "loaded", "unloading", "failed_unload", "removed"}

Count == coordinators[Latest].alert_count

\* The entity is there while the entry is loaded, and has seen every alert of
\* the entry's coordinator.
Seen ==
    /\ entity # NoEntity <=> phase = "loaded"
    /\ entity # NoEntity => entity = Count
    /\ fired = due

Around == Control /\ Routed /\ Seen /\ ServicesWhileLoaded

EntryInv == Data /\ Around

-----------------------------------------------------------------------------
LEMMA LatestType == Data => Latest \in Nat /\ DOMAIN coordinators = 1 .. Latest
BY LenProperties DEF Data, Latest

LEMMA CoordinatorType ==
    Data => \A g \in DOMAIN coordinators :
                /\ coordinators[g] \in Coordinator
                /\ coordinators[g].alert_count \in Nat
<1> SUFFICES ASSUME Data, NEW g \in DOMAIN coordinators
             PROVE  coordinators[g] \in Coordinator /\ coordinators[g].alert_count \in Nat
  OBVIOUS
<1>1. coordinators[g] \in Coordinator
  BY LatestType, LenProperties DEF Data, Latest
<1> QED
  BY <1>1 DEF Coordinator

\* One coordinator is replaced.
LEMMA SetOne ==
    ASSUME Data, NEW g \in DOMAIN coordinators, NEW c \in Coordinator,
           coordinators' = [coordinators EXCEPT ![g] = c]
    PROVE  /\ coordinators' \in Seq(Coordinator)
           /\ Latest' = Latest
           /\ DOMAIN coordinators' = DOMAIN coordinators
           /\ coordinators'[g] = c
           /\ \A h \in DOMAIN coordinators : h # g => coordinators'[h] = coordinators[h]
<1>1. g \in 1 .. Len(coordinators)
  BY LatestType DEF Latest
<1>2. coordinators \in Seq(Coordinator)
  BY DEF Data
<1> QED
  BY <1>1, <1>2, ExceptSeq, LenProperties DEF Latest

\* What leaves the coordinators and the store alone.
LEMMA SameData ==
    ASSUME Data, UNCHANGED <<coordinators, late, file, inflight, received>>
    PROVE  Data' /\ Latest' = Latest /\ Count' = Count
BY DEF Data, Latest, Count

\* A timer is set or cancelled, perhaps with a write: the counts stay.
LEMMA TimerData ==
    ASSUME Data, NEW g \in DOMAIN coordinators, NEW on \in BOOLEAN,
           coordinators' = [coordinators EXCEPT ![g].timer = on],
           file' = file \/ file' = coordinators[g].alert_count,
           late' \subseteq late, UNCHANGED <<inflight, received>>
    PROVE  /\ Data' /\ Latest' = Latest
           /\ \A h \in DOMAIN coordinators :
                  coordinators'[h].alert_count = coordinators[h].alert_count
<1> DEFINE c == [coordinators[g] EXCEPT !.timer = on]
<1>1. c \in Coordinator /\ c.alert_count = coordinators[g].alert_count
  BY CoordinatorType DEF Coordinator
<1>2. coordinators' = [coordinators EXCEPT ![g] = c]
  OBVIOUS
<1> HIDE DEF c
<1>3. /\ coordinators' \in Seq(Coordinator) /\ Latest' = Latest
      /\ DOMAIN coordinators' = DOMAIN coordinators
      /\ \A h \in DOMAIN coordinators :
             coordinators'[h].alert_count = coordinators[h].alert_count
  BY <1>1, <1>2, SetOne
<1>4. file' \in {NoFile} \union Nat /\ (file' # NoFile => file' <= received')
  BY CoordinatorType DEF Data
<1> QED
  BY <1>3, <1>4 DEF Data

\* The same of the entry's own coordinator.
LEMMA LatestTimer ==
    ASSUME Data, Latest > 0, NEW on \in BOOLEAN,
           coordinators' = [coordinators EXCEPT ![Latest].timer = on],
           file' = file \/ file' = coordinators[Latest].alert_count,
           late' \subseteq late, UNCHANGED <<inflight, received>>
    PROVE  Data' /\ Latest' = Latest /\ Count' = Count
<1>1. Latest \in DOMAIN coordinators
  BY LatestType
<1> QED
  BY <1>1, TimerData DEF Count

-----------------------------------------------------------------------------
LEMMA EntryInit == Init => EntryInv
<1> SUFFICES ASSUME Init PROVE EntryInv
  OBVIOUS
<1>1. coordinators = <<>> /\ Latest = 0 /\ DOMAIN coordinators = {}
  BY DEF Init, Latest
<1>2. coordinators \in Seq(Coordinator)
  BY <1>1
<1>3. IsFiniteSet(inflight) /\ Cardinality(inflight) = 0
  BY FS_EmptySet DEF Init
<1>4. Data
  BY <1>1, <1>2, <1>3, LifeAssumption DEF Init, Data, NoFile
<1>5. call \in {NoCall} \union 0 .. Latest /\ restarts \in 0 .. MaxRestarts
  BY <1>1, LifeAssumption DEF Init, NoCall
<1>6. Control
  BY <1>5 DEF Init, Control, Phases, Startable, NoEntity
<1> QED
  BY <1>1, <1>4, <1>6
  DEF Init, EntryInv, Around, Routed, Seen, ServicesWhileLoaded, Nobody, NoEntity

-----------------------------------------------------------------------------
\* What a step of setup does to the data.
LEMMA RestoreData ==
    ASSUME Data, Latest < MaxSetups,
           coordinators' = Append(coordinators, Made(IF file = NoFile THEN 0 ELSE file)),
           UNCHANGED <<late, file, inflight, received>>
    PROVE  Data' /\ Latest' = Latest + 1
<1> DEFINE count == IF file = NoFile THEN 0 ELSE file
<1>1. count \in Nat /\ count <= received
  BY DEF Data
<1>2. Made(count) \in Coordinator /\ Made(count).alert_count = count
  BY <1>1 DEF Made, Coordinator
<1>3. coordinators \in Seq(Coordinator) /\ coordinators' = Append(coordinators, Made(count))
  BY DEF Data
<1> HIDE DEF count
<1>4. /\ coordinators' \in Seq(Coordinator)
      /\ Len(coordinators') = Len(coordinators) + 1
      /\ \A i \in 1 .. Len(coordinators) : coordinators'[i] = coordinators[i]
      /\ coordinators'[Len(coordinators) + 1] = Made(count)
  BY <1>2, <1>3, AppendProperties
<1>5. DOMAIN coordinators = 1 .. Latest /\ DOMAIN coordinators' = 1 .. Latest' /\ Latest' = Latest + 1
  BY <1>3, <1>4, LenProperties DEF Latest
<1>6. Latest \in Nat /\ MaxSetups \in Nat
  BY LatestType, LifeAssumption
<1>7. \A g \in DOMAIN coordinators' : coordinators'[g].alert_count <= received'
  <2> SUFFICES ASSUME NEW g \in DOMAIN coordinators'
               PROVE  coordinators'[g].alert_count <= received
    OBVIOUS
  <2>1. CASE g = Latest + 1
    BY <2>1, <1>1, <1>2, <1>4 DEF Latest
  <2>2. CASE g # Latest + 1
    <3>1. g \in 1 .. Latest
      BY <2>2, <1>5, <1>6
    <3> QED
      BY <3>1, <1>4, <1>5 DEF Latest, Data
  <2> QED
    BY <2>1, <2>2
<1>8. late' \subseteq DOMAIN coordinators' /\ inflight' \subseteq DOMAIN coordinators'
  BY <1>5, <1>6 DEF Data
<1> QED
  BY <1>4, <1>5, <1>6, <1>7, <1>8 DEF Data

LEMMA PushData ==
    ASSUME Data, NEW g \in inflight,
           inflight' = inflight \ {g},
           coordinators' = [coordinators EXCEPT ![g] =
               [alert_count |-> @.alert_count + 1, timer |-> TRUE]],
           late' = late \union {g}, received' = received + 1, UNCHANGED file
    PROVE  /\ Data' /\ Latest' = Latest
           /\ coordinators'[g].alert_count = coordinators[g].alert_count + 1
           /\ g # Latest => Count' = Count
<1> DEFINE c == [alert_count |-> coordinators[g].alert_count + 1, timer |-> TRUE]
<1>1. g \in DOMAIN coordinators /\ coordinators[g].alert_count \in Nat
  BY CoordinatorType DEF Data
<1>2. c \in Coordinator /\ c.alert_count = coordinators[g].alert_count + 1
  BY <1>1 DEF Coordinator
<1>3. coordinators' = [coordinators EXCEPT ![g] = c]
  OBVIOUS
<1> HIDE DEF c
<1>4. /\ coordinators' \in Seq(Coordinator) /\ Latest' = Latest
      /\ DOMAIN coordinators' = DOMAIN coordinators
      /\ coordinators'[g] = c
      /\ \A h \in DOMAIN coordinators : h # g => coordinators'[h] = coordinators[h]
  BY <1>1, <1>2, <1>3, SetOne
<1>5. \A h \in DOMAIN coordinators' : coordinators'[h].alert_count <= received'
  <2> SUFFICES ASSUME NEW h \in DOMAIN coordinators
               PROVE  coordinators'[h].alert_count <= received + 1
    BY <1>4
  <2>1. coordinators[h].alert_count \in Nat /\ coordinators[h].alert_count <= received
    BY CoordinatorType DEF Data
  <2>2. CASE h = g
    BY <2>1, <2>2, <1>2, <1>4 DEF Data
  <2>3. CASE h # g
    BY <2>1, <2>3, <1>4 DEF Data
  <2> QED
    BY <2>2, <2>3
<1>6. IsFiniteSet(inflight') /\ Cardinality(inflight') = Cardinality(inflight) - 1
  BY FS_RemoveElement DEF Data
<1>7. received' + Cardinality(inflight') <= MaxPushes
  BY <1>6, FS_CardinalityType DEF Data
<1>8. late' \subseteq DOMAIN coordinators' /\ inflight' \subseteq DOMAIN coordinators'
  BY <1>1, <1>4 DEF Data
<1>9. file' # NoFile => file' <= received'
  BY DEF Data, NoFile
<1>10. Data'
  BY <1>4, <1>5, <1>6, <1>7, <1>8, <1>9 DEF Data
<1>11. g # Latest => Count' = Count
  <2>1. CASE Latest \in DOMAIN coordinators
    BY <2>1, <1>4 DEF Count
  <2>2. CASE Latest \notin DOMAIN coordinators
    BY <2>2, <1>1, LatestType
  <2> QED
    BY <2>1, <2>2
<1> QED
  BY <1>2, <1>4, <1>10, <1>11

\* A request is accepted, or dropped.
LEMMA RequestData ==
    ASSUME Data, Request, registered \in DOMAIN coordinators
    PROVE  Data' /\ Latest' = Latest /\ Count' = Count
<1>1. IsFiniteSet(inflight') /\ Cardinality(inflight') = Cardinality(inflight) + 1
  BY FS_AddElement DEF Request, Data
<1>2. UNCHANGED <<coordinators, late, file, received>> /\ MaxPushes \in Nat
  BY LifeAssumption DEF Request, life, history
<1>3. received' + Cardinality(inflight') <= MaxPushes
  BY <1>1, <1>2, FS_CardinalityType DEF Request, Data
<1>4. inflight' \subseteq DOMAIN coordinators
  BY DEF Request, Data
<1> QED
  BY <1>1, <1>2, <1>3, <1>4 DEF Data, Latest, Count

LEMMA RejectData ==
    ASSUME Data, NEW g \in inflight, Reject(g)
    PROVE  Data' /\ Latest' = Latest /\ Count' = Count
<1>1. IsFiniteSet(inflight') /\ Cardinality(inflight') = Cardinality(inflight) - 1
  BY FS_RemoveElement DEF Reject, Data
<1>2. UNCHANGED <<coordinators, late, file, received>> /\ MaxPushes \in Nat
  BY LifeAssumption DEF Reject, life, history
<1>3. received' + Cardinality(inflight') <= MaxPushes
  BY <1>1, <1>2, FS_CardinalityType DEF Data
<1>4. inflight' \subseteq DOMAIN coordinators
  BY DEF Reject, Data
<1> QED
  BY <1>1, <1>2, <1>3, <1>4 DEF Data, Latest, Count

LEMMA RestartData ==
    ASSUME Data, Restart
    PROVE  Data' /\ Latest' = Latest
<1> DEFINE stopped == [g \in 1 .. Latest |-> [coordinators[g] EXCEPT !.timer = FALSE]]
<1>1. Latest \in Nat /\ DOMAIN coordinators = 1 .. Latest
  BY LatestType
<1>2. \A g \in 1 .. Latest : /\ [coordinators[g] EXCEPT !.timer = FALSE] \in Coordinator
                             /\ [coordinators[g] EXCEPT !.timer = FALSE].alert_count
                                    = coordinators[g].alert_count
  BY <1>1, CoordinatorType DEF Coordinator
<1>3. coordinators' = stopped
  BY <1>1 DEF Restart
<1>4. stopped \in [1 .. Latest -> Coordinator]
  BY <1>2
<1>5. stopped \in Seq(Coordinator) /\ Len(stopped) = Latest
  BY <1>1, <1>4, LenProperties
<1>6. Latest' = Latest /\ DOMAIN coordinators' = 1 .. Latest
  BY <1>3, <1>5 DEF Latest
<1>7. \A g \in DOMAIN coordinators' : coordinators'[g].alert_count <= received
  BY <1>1, <1>2, <1>3, <1>6 DEF Data
<1>8. file' \in {NoFile} \union Nat /\ (file' # NoFile => file' <= received)
  BY <1>1, CoordinatorType DEF Restart, Data
<1>9. IsFiniteSet(inflight') /\ Cardinality(inflight') = 0
  BY FS_EmptySet DEF Restart
<1>10. received \in Nat /\ received <= MaxPushes
  BY FS_CardinalityType, LifeAssumption DEF Data
<1>11. late' = {} /\ inflight' = {} /\ received' = received /\ Latest <= MaxSetups
  BY DEF Restart, Data
<1>12. coordinators' \in Seq(Coordinator)
  BY <1>3, <1>5
<1>13. received' + Cardinality(inflight') <= MaxPushes
  BY <1>9, <1>10, <1>11
<1> HIDE DEF stopped
<1> QED
  BY <1>6, <1>7, <1>8, <1>9, <1>10, <1>11, <1>12, <1>13 DEF Data

-----------------------------------------------------------------------------
LEMMA SetupStep == EntryInv /\ Setup => EntryInv'
<1> SUFFICES ASSUME EntryInv, Setup PROVE EntryInv'
  OBVIOUS
<1>1. CASE SetupStart
  <2>1. UNCHANGED <<coordinators, late, file, inflight, received>>
    BY <1>1 DEF SetupStart, domain, history
  <2>2. Data' /\ Latest' = Latest /\ Count' = Count
    BY <2>1, SameData DEF EntryInv
  <2>3. Around'
    BY <1>1, <2>2, LatestType
    DEF SetupStart, EntryInv, Around, Control, Routed, Seen, ServicesWhileLoaded, Phases, Startable,
        Nobody, NoEntity, NoCall, domain, history
  <2> QED
    BY <2>2, <2>3 DEF EntryInv
<1>2. CASE Authenticated
  <2>1. UNCHANGED <<coordinators, late, file, inflight, received>>
    BY <1>2 DEF Authenticated, domain, history
  <2>2. Data' /\ Latest' = Latest /\ Count' = Count
    BY <2>1, SameData DEF EntryInv
  <2>3. Around'
    BY <1>2, <2>2, LatestType
    DEF Authenticated, EntryInv, Around, Control, Routed, Seen, ServicesWhileLoaded, Phases, Startable,
        Nobody, NoEntity, NoCall, domain, history
  <2> QED
    BY <2>2, <2>3 DEF EntryInv
<1>3. CASE AuthenticationFails
  <2>1. UNCHANGED <<coordinators, late, file, inflight, received>>
    BY <1>3 DEF AuthenticationFails, domain, history
  <2>2. Data' /\ Latest' = Latest /\ Count' = Count
    BY <2>1, SameData DEF EntryInv
  <2>3. Around'
    BY <1>3, <2>2, LatestType
    DEF AuthenticationFails, EntryInv, Around, Control, Routed, Seen, ServicesWhileLoaded, Phases, Startable,
        Nobody, NoEntity, NoCall, domain, history
  <2> QED
    BY <2>2, <2>3 DEF EntryInv
<1>4. CASE VersionTimesOut
  <2>1. UNCHANGED <<coordinators, late, file, inflight, received>>
    BY <1>4 DEF VersionTimesOut, domain, history
  <2>2. Data' /\ Latest' = Latest /\ Count' = Count
    BY <2>1, SameData DEF EntryInv
  <2>3. Around'
    BY <1>4, <2>2, LatestType
    DEF VersionTimesOut, EntryInv, Around, Control, Routed, Seen, ServicesWhileLoaded, Phases, Startable,
        Nobody, NoEntity, NoCall, domain, history
  <2> QED
    BY <2>2, <2>3 DEF EntryInv
<1>5. CASE RefreshFails
  <2>1. UNCHANGED <<coordinators, late, file, inflight, received>>
    BY <1>5 DEF RefreshFails, domain, history
  <2>2. Data' /\ Latest' = Latest /\ Count' = Count
    BY <2>1, SameData DEF EntryInv
  <2>3. Around'
    BY <1>5, <2>2, LatestType
    DEF RefreshFails, EntryInv, Around, Control, Routed, Seen, ServicesWhileLoaded, Phases, Startable,
        Nobody, NoEntity, NoCall, domain, history
  <2> QED
    BY <2>2, <2>3 DEF EntryInv
<1>6. CASE PlatformsReady
  <2>1. UNCHANGED <<coordinators, late, file, inflight, received>>
    BY <1>6 DEF PlatformsReady, domain, history
  <2>2. Data' /\ Latest' = Latest /\ Count' = Count
    BY <2>1, SameData DEF EntryInv
  <2>3. Latest \in DOMAIN coordinators /\ Count \in Nat /\ entity' = Count
    BY <1>6, LatestType, CoordinatorType DEF PlatformsReady, EntryInv, Around, Routed, Count
  <2>4. Around'
    BY <1>6, <2>2, <2>3, LatestType
    DEF PlatformsReady, EntryInv, Around, Control, Routed, Seen, ServicesWhileLoaded, Phases,
        Startable, Nobody, NoEntity, NoCall, history
  <2> QED
    BY <2>2, <2>4 DEF EntryInv
<1>7. CASE Restore
  <2>1. Latest < MaxSetups
    BY <1>7 DEF Restore, EntryInv, Around, Routed
  <2>2. Data' /\ Latest' = Latest + 1
    BY <1>7, <2>1, RestoreData DEF EntryInv, Restore, domain, history
  <2>3. Around'
    BY <1>7, <2>2, LatestType
    DEF Restore, EntryInv, Around, Control, Routed, Seen, ServicesWhileLoaded, Phases, Startable,
        Nobody, NoEntity, NoCall, domain, history
  <2> QED
    BY <2>2, <2>3 DEF EntryInv
<1>8. CASE Register
  <2>1. Latest > 0
    BY <1>8 DEF Register, EntryInv, Around, Routed
  <2>2. Data' /\ Latest' = Latest /\ Count' = Count
    BY <1>8, <2>1, LatestTimer DEF EntryInv, Register, domain, history
  <2>3. Around'
    BY <1>8, <2>2, LatestType
    DEF Register, EntryInv, Around, Control, Routed, Seen, ServicesWhileLoaded, Phases, Startable,
        Nobody, NoEntity, NoCall, domain, history
  <2> QED
    BY <2>2, <2>3 DEF EntryInv
<1>9. CASE PlatformsFail
  <2>1. Latest > 0
    BY <1>9 DEF PlatformsFail, EntryInv, Around, Routed
  <2>2. Data' /\ Latest' = Latest /\ Count' = Count
    BY <1>9, <2>1, LatestTimer DEF EntryInv, PlatformsFail, ShutDown, domain, history
  <2>3. Around'
    BY <1>9, <2>2, LatestType
    DEF PlatformsFail, Unregistered, EntryInv, Around, Control, Routed, Seen,
        ServicesWhileLoaded, Phases, Startable, Nobody, NoEntity, NoCall, domain, history
  <2> QED
    BY <2>2, <2>3 DEF EntryInv
<1> QED
  BY <1>1, <1>2, <1>3, <1>4, <1>5, <1>6, <1>7, <1>8, <1>9 DEF Setup

LEMMA UnloadStep == EntryInv /\ Unload => EntryInv'
<1> SUFFICES ASSUME EntryInv, Unload PROVE EntryInv'
  OBVIOUS
<1>1. CASE UnloadPlatforms
  <2>1. UNCHANGED <<coordinators, late, file, inflight, received>>
    BY <1>1 DEF UnloadPlatforms, domain, history
  <2>2. Data' /\ Latest' = Latest /\ Count' = Count
    BY <2>1, SameData DEF EntryInv
  <2>3. Around'
    BY <1>1, <2>2, LatestType
    DEF UnloadPlatforms, EntryInv, Around, Control, Routed, Seen, ServicesWhileLoaded, Phases, Startable,
        Nobody, NoEntity, NoCall, domain, history
  <2> QED
    BY <2>2, <2>3 DEF EntryInv
<1>2. CASE UnloadFails
  <2>1. UNCHANGED <<coordinators, late, file, inflight, received>>
    BY <1>2 DEF UnloadFails, domain, history
  <2>2. Data' /\ Latest' = Latest /\ Count' = Count
    BY <2>1, SameData DEF EntryInv
  <2>3. Around'
    BY <1>2, <2>2, LatestType
    DEF UnloadFails, EntryInv, Around, Control, Routed, Seen, ServicesWhileLoaded, Phases, Startable,
        Nobody, NoEntity, NoCall, domain, history
  <2> QED
    BY <2>2, <2>3 DEF EntryInv
<1>3. CASE UnloadDone
  <2>1. Latest > 0
    BY <1>3 DEF UnloadDone, EntryInv, Around, Routed
  <2>2. Data' /\ Latest' = Latest /\ Count' = Count
    BY <1>3, <2>1, LatestTimer DEF EntryInv, UnloadDone, ShutDown, history
  <2>3. Around'
    BY <1>3, <2>2, LatestType
    DEF UnloadDone, Unregistered, EntryInv, Around, Control, Routed, Seen,
        ServicesWhileLoaded, Phases, Startable, Nobody, NoEntity, NoCall, history
  <2> QED
    BY <2>2, <2>3 DEF EntryInv
<1>4. CASE Remove
  <2>1. UNCHANGED <<coordinators, late, inflight, received>> /\ file' = NoFile
    BY <1>4 DEF Remove, history
  <2>2. Data' /\ Latest' = Latest /\ Count' = Count
    BY <2>1 DEF EntryInv, Data, Latest, Count
  <2>3. Around'
    BY <1>4, <2>2, LatestType
    DEF Remove, EntryInv, Around, Control, Routed, Seen, ServicesWhileLoaded, Phases, Startable,
        Nobody, NoEntity, NoCall, domain, history
  <2> QED
    BY <2>2, <2>3 DEF EntryInv
<1> QED
  BY <1>1, <1>2, <1>3, <1>4 DEF Unload

\* An update that brings no alert fires nothing: the entity has seen them all.
LEMMA HearNothing ==
    ASSUME EntryInv, NEW g, Hear(g, coordinators[g].alert_count)
    PROVE  UNCHANGED <<entity, fired>>
<1>1. CASE entity # NoEntity /\ g = Latest
  <2>1. entity = coordinators[g].alert_count /\ entity \in Nat
    BY <1>1 DEF EntryInv, Around, Seen, Control, Count
  <2> QED
    BY <1>1, <2>1 DEF Hear
<1>2. CASE ~(entity # NoEntity /\ g = Latest)
  BY <1>2 DEF Hear
<1> QED
  BY <1>1, <1>2

\* What touches data only.
LEMMA SameAround ==
    ASSUME EntryInv, Latest' = Latest, Count' = Count,
           UNCHANGED <<phase, registered, entity, services, other, call, fired, due, restarts>>
    PROVE  Around'
BY DEF EntryInv, Around, Control, Routed, Seen, ServicesWhileLoaded

LEMMA WebhookStep == EntryInv /\ Webhook => EntryInv'
<1> SUFFICES ASSUME EntryInv, Webhook PROVE EntryInv'
  OBVIOUS
<1>1. CASE Request
  <2>1. registered \in DOMAIN coordinators
    BY <1>1, LatestType DEF Request, EntryInv, Around, Routed, Nobody
  <2>2. Data' /\ Latest' = Latest /\ Count' = Count
    BY <1>1, <2>1, RequestData DEF EntryInv
  <2>3. Around'
    BY <1>1, <2>2, SameAround DEF Request, life, domain, history
  <2> QED
    BY <2>2, <2>3 DEF EntryInv
<1>2. ASSUME NEW g \in inflight, Reject(g) PROVE EntryInv'
  <2>1. Data' /\ Latest' = Latest /\ Count' = Count
    BY <1>2, RejectData DEF EntryInv
  <2>2. Around'
    BY <1>2, <2>1, SameAround DEF Reject, life, domain, history
  <2> QED
    BY <2>1, <2>2 DEF EntryInv
<1>3. ASSUME NEW g \in inflight, Push(g) PROVE EntryInv'
  <2>1. /\ Data' /\ Latest' = Latest
        /\ coordinators'[g].alert_count = coordinators[g].alert_count + 1
        /\ g # Latest => Count' = Count
    BY <1>3, PushData DEF EntryInv, Push
  <2>2. UNCHANGED <<phase, registered, services, other, call, restarts>>
    BY <1>3 DEF Push, domain
  <2>3. CASE entity # NoEntity /\ g = Latest
    <3>1. entity = Count /\ entity \in Nat /\ Count' = entity + 1
      BY <2>1, <2>3 DEF EntryInv, Around, Control, Seen, Count
    <3>2. entity' = Count' /\ fired' = fired + 1 /\ due' = due + 1
      BY <1>3, <2>1, <2>3, <3>1 DEF Push, Hear, Count
    <3>3. Around'
      BY <2>1, <2>2, <2>3, <3>1, <3>2
      DEF EntryInv, Around, Control, Routed, Seen, ServicesWhileLoaded, NoEntity
    <3> QED
      BY <2>1, <3>3 DEF EntryInv
  <2>4. CASE ~(entity # NoEntity /\ g = Latest)
    <3>1. UNCHANGED <<entity, fired, due>>
      BY <1>3, <2>4 DEF Push, Hear
    <3>2. Around'
      BY <2>1, <2>2, <2>4, <3>1
      DEF EntryInv, Around, Control, Routed, Seen, ServicesWhileLoaded, NoEntity
    <3> QED
      BY <2>1, <3>2 DEF EntryInv
  <2> QED
    BY <2>3, <2>4
<1> QED
  BY <1>1, <1>2, <1>3 DEF Webhook

LEMMA PollStep == EntryInv /\ Poll => EntryInv'
<1> SUFFICES ASSUME EntryInv, Poll PROVE EntryInv'
  OBVIOUS
<1>1. Latest > 0 /\ Latest \in DOMAIN coordinators
  BY LatestType DEF Poll, EntryInv, Around, Seen, Routed
<1>2. UNCHANGED <<late, file, inflight, received>>
  BY DEF Poll
<1>3. PICK raised \in BOOLEAN :
          coordinators' = [coordinators EXCEPT ![Latest].timer = @ \/ raised]
  BY DEF Poll
<1>4. coordinators[Latest].timer \in BOOLEAN
  BY <1>1, CoordinatorType DEF EntryInv, Coordinator
<1> DEFINE on == coordinators[Latest].timer \/ raised
<1>5. on \in BOOLEAN /\ coordinators' = [coordinators EXCEPT ![Latest].timer = on]
  BY <1>3, <1>4
<1> HIDE DEF on
<1>6. Data' /\ Latest' = Latest /\ Count' = Count
  BY <1>1, <1>2, <1>5, LatestTimer DEF EntryInv
<1>7. Around'
  BY <1>6, HearNothing, SameAround DEF Poll, domain
<1> QED
  BY <1>6, <1>7 DEF EntryInv

\* A clear of coordinator g, with its write.
LEMMA ClearStep ==
    ASSUME EntryInv, NEW g \in DOMAIN coordinators,
           coordinators' = [coordinators EXCEPT ![g].timer = FALSE],
           Write(g), Hear(g, coordinators[g].alert_count),
           UNCHANGED <<phase, registered, inflight, received, due, restarts>>
    PROVE  /\ Data' /\ Latest' = Latest /\ Count' = Count
           /\ UNCHANGED <<entity, fired>>
<1>1. UNCHANGED <<entity, fired>>
  BY HearNothing
<1>2. /\ Data' /\ Latest' = Latest
      /\ \A h \in DOMAIN coordinators :
             coordinators'[h].alert_count = coordinators[h].alert_count
  BY TimerData DEF EntryInv, Write
<1>3. Count' = Count
  BY <1>2, LatestType DEF EntryInv, Count
<1> QED
  BY <1>1, <1>2, <1>3

LEMMA LatestCleared ==
    ASSUME EntryInv, ClearLatest
    PROVE  /\ Data' /\ Latest' = Latest /\ Count' = Count
           /\ UNCHANGED <<phase, registered, entity, fired, due, restarts>>
<1>1. Latest \in DOMAIN coordinators
  BY LatestType DEF ClearLatest, EntryInv, Around, Routed
<1> QED
  BY <1>1, ClearStep DEF ClearLatest, ShutDown

LEMMA DomainStep == EntryInv /\ Domain => EntryInv'
<1> SUFFICES ASSUME EntryInv, Domain PROVE EntryInv'
  OBVIOUS
<1>1. CASE OtherAdded
  <2>1. Data' /\ Latest' = Latest /\ Count' = Count
    BY <1>1, SameData DEF OtherAdded, EntryInv, MyOwn, life, history
  <2>2. Around'
    BY <1>1, <2>1, LatestType
    DEF OtherAdded, EntryInv, Around, Control, Routed, Seen, ServicesWhileLoaded, MyOwn, life, history
  <2> QED
    BY <2>1, <2>2 DEF EntryInv
<1>2. CASE OtherLoaded
  <2>1. Data' /\ Latest' = Latest /\ Count' = Count
    BY <1>2, SameData DEF OtherLoaded, EntryInv, MyOwn, life, history
  <2>2. Around'
    BY <1>2, <2>1, LatestType
    DEF OtherLoaded, EntryInv, Around, Control, Routed, Seen, ServicesWhileLoaded, MyOwn, life, history
  <2> QED
    BY <2>1, <2>2 DEF EntryInv
<1>3. CASE OtherUnloaded
  <2>1. Data' /\ Latest' = Latest /\ Count' = Count
    BY <1>3, SameData DEF OtherUnloaded, EntryInv, MyOwn, life, history
  <2>2. Around'
    BY <1>3, <2>1, LatestType
    DEF OtherUnloaded, EntryInv, Around, Control, Routed, Seen, ServicesWhileLoaded, MyOwn, life, history
  <2> QED
    BY <2>1, <2>2 DEF EntryInv
<1>4. CASE OtherRemoved
  <2>1. Data' /\ Latest' = Latest /\ Count' = Count
    BY <1>4, SameData DEF OtherRemoved, EntryInv, MyOwn, life, history
  <2>2. Around'
    BY <1>4, <2>1, LatestType
    DEF OtherRemoved, EntryInv, Around, Control, Routed, Seen, ServicesWhileLoaded, MyOwn, life, history
  <2> QED
    BY <2>1, <2>2 DEF EntryInv
<1>5. CASE CallStarts
  <2>1. Data' /\ Latest' = Latest /\ Count' = Count
    BY <1>5, SameData DEF CallStarts, EntryInv, MyOwn, life, history
  <2>2. Around'
    BY <1>5, <2>1, LatestType
    DEF CallStarts, EntryInv, Around, Control, Routed, Seen, ServicesWhileLoaded, MyOwn, life, history
  <2> QED
    BY <2>1, <2>2 DEF EntryInv
<1>6. CASE CallFails
  <2>1. Data' /\ Latest' = Latest /\ Count' = Count
    BY <1>6, SameData DEF CallFails, EntryInv, MyOwn, life, history
  <2>2. Around'
    BY <1>6, <2>1, LatestType
    DEF CallFails, EntryInv, Around, Control, Routed, Seen, ServicesWhileLoaded, MyOwn, life, history
  <2> QED
    BY <2>1, <2>2 DEF EntryInv
<1>7. CASE CallReaches
  <2>1. /\ Data' /\ Latest' = Latest /\ Count' = Count
        /\ UNCHANGED <<phase, registered, entity, fired, due, restarts>>
    <3>1. CASE ClearLatest
      BY <3>1, LatestCleared
    <3>2. CASE UNCHANGED MyOwn
      BY <3>2, SameData DEF EntryInv, MyOwn, life, history
    <3> QED
      BY <1>7, <3>1, <3>2 DEF CallReaches
  <2>2. Around'
    BY <1>7, <2>1
    DEF CallReaches, EntryInv, Around, Control, Routed, Seen, ServicesWhileLoaded
  <2> QED
    BY <2>1, <2>2 DEF EntryInv
<1> QED
  BY <1>1, <1>2, <1>3, <1>4, <1>5, <1>6, <1>7 DEF Domain

LEMMA EntryStep == EntryInv /\ [Next]_vars => EntryInv'
<1> SUFFICES ASSUME EntryInv, [Next]_vars PROVE EntryInv'
  OBVIOUS
<1>1. CASE Setup
  BY <1>1, SetupStep
<1>2. CASE Unload
  BY <1>2, UnloadStep
<1>3. CASE Webhook
  BY <1>3, WebhookStep
<1>4. CASE Poll
  BY <1>4, PollStep
<1>5. CASE Clear
  <2>1. /\ Data' /\ Latest' = Latest /\ Count' = Count
        /\ UNCHANGED <<phase, registered, entity, fired, due, restarts>>
    BY <1>5, LatestCleared DEF Clear
  <2>2. Around'
    BY <1>5, <2>1, SameAround DEF Clear, domain
  <2> QED
    BY <2>1, <2>2 DEF EntryInv
<1>6. ASSUME NEW g \in DOMAIN coordinators, AutoClear(g) PROVE EntryInv'
  <2>1. Data' /\ Latest' = Latest /\ Count' = Count /\ UNCHANGED <<entity, fired>>
    BY <1>6, ClearStep DEF AutoClear
  <2>2. Around'
    BY <1>6, <2>1, SameAround DEF AutoClear, domain
  <2> QED
    BY <2>1, <2>2 DEF EntryInv
<1>7. ASSUME NEW g \in late, DelayedWrite(g) PROVE EntryInv'
  <2>1. g \in DOMAIN coordinators
    BY DEF EntryInv, Data
  <2>2. /\ file' = coordinators[g].alert_count /\ late' = late \ {g}
        /\ UNCHANGED <<coordinators, inflight, received>>
    BY <1>7 DEF DelayedWrite, Write, life, history
  <2>3. coordinators[g].alert_count \in Nat /\ coordinators[g].alert_count <= received
    BY <2>1, CoordinatorType DEF EntryInv, Data
  <2>4. Data' /\ Latest' = Latest /\ Count' = Count
    BY <2>2, <2>3 DEF EntryInv, Data, Latest, Count
  <2>5. Around'
    BY <1>7, <2>4, SameAround DEF DelayedWrite, life, domain, history
  <2> QED
    BY <2>4, <2>5 DEF EntryInv
<1>8. CASE Domain
  BY <1>8, DomainStep
<1>9. CASE Restart
  <2>1. Data' /\ Latest' = Latest
    BY <1>9, RestartData DEF EntryInv
  <2>2. restarts' \in 0 .. MaxRestarts
    BY <1>9, LifeAssumption DEF Restart, EntryInv, Around, Control
  <2>3. Around'
    BY <1>9, <2>1, <2>2, LatestType
    DEF Restart, EntryInv, Around, Control, Routed, Seen, ServicesWhileLoaded, Phases, Startable,
        Nobody, NoEntity, NoCall
  <2> QED
    BY <2>1, <2>3 DEF EntryInv
<1>10. CASE UNCHANGED vars
  <2>1. Data' /\ Latest' = Latest /\ Count' = Count
    BY <1>10, SameData DEF EntryInv, vars
  <2>2. Around'
    BY <1>10, <2>1, SameAround DEF vars
  <2> QED
    BY <2>1, <2>2 DEF EntryInv
<1> QED
  BY <1>1, <1>2, <1>3, <1>4, <1>5, <1>6, <1>7, <1>8, <1>9, <1>10 DEF Next

\* Migration and reauth only add to the steps of the entry.
LEMMA UpgradeImplements == UpgradeNext => [Next]_vars
<1> SUFFICES ASSUME UpgradeNext PROVE [Next]_vars
  OBVIOUS
<1>1. CASE MigrateAndStart
  BY <1>1 DEF MigrateAndStart, Next, Setup
<1>2. CASE AuthenticatedWithKey
  BY <1>2 DEF AuthenticatedWithKey, Next, Setup
<1>3. CASE Reauth \/ SaveEntry \/ Paste
  BY <1>3 DEF Reauth, SaveEntry, Paste
<1>4. CASE RequestPasted
  BY <1>4 DEF RequestPasted, Next, Webhook
<1>5. CASE RestartUpgraded
  BY <1>5 DEF RestartUpgraded, Next
<1>6. CASE RemoveUpgraded
  BY <1>6 DEF RemoveUpgraded, Next, Unload
<1>7. CASE Unchanged
  BY <1>7 DEF Unchanged, Next, Setup, Unload, Webhook
<1> QED
  BY <1>1, <1>2, <1>3, <1>4, <1>5, <1>6, <1>7 DEF UpgradeNext

\* The entry with its migration is an entry: every property of the one is one of
\* the other.
THEOREM UpgradeImplementsEntry == UpgradeSpec => Spec
<1>1. UpgradeInit => Init
  BY DEF UpgradeInit
<1>2. [UpgradeNext]_upgradeVars => [Next]_vars
  BY UpgradeImplements DEF upgradeVars
<1> QED
  BY <1>1, <1>2, PTL DEF UpgradeSpec, Spec

-----------------------------------------------------------------------------
\* EntryInv is inductive.
THEOREM EntryInductive == Spec => []EntryInv
BY EntryInit, EntryStep, PTL DEF Spec

LEMMA TypesFollow == EntryInv => TypeOK
<1> SUFFICES ASSUME EntryInv PROVE TypeOK
  OBVIOUS
<1>1. received <= MaxPushes /\ MaxPushes \in Nat
  BY FS_CardinalityType, LifeAssumption DEF EntryInv, Data
<1>2. \A g \in DOMAIN coordinators : coordinators[g] \in [alert_count : 0 .. MaxPushes, timer : BOOLEAN]
  <2> SUFFICES ASSUME NEW g \in DOMAIN coordinators
               PROVE  coordinators[g] \in [alert_count : 0 .. MaxPushes, timer : BOOLEAN]
    OBVIOUS
  <2>1. coordinators[g] \in Coordinator /\ coordinators[g].alert_count \in 0 .. MaxPushes
    BY <1>1, CoordinatorType DEF EntryInv, Data
  <2> QED
    BY <2>1 DEF Coordinator
<1>3. coordinators \in Seq([alert_count : 0 .. MaxPushes, timer : BOOLEAN])
  <2>1. /\ coordinators \in Seq(Coordinator) /\ Latest \in Nat /\ Latest = Len(coordinators)
        /\ DOMAIN coordinators = 1 .. Latest
    BY LatestType DEF EntryInv, Data, Latest
  <2>2. coordinators = [g \in 1 .. Latest |-> coordinators[g]]
    BY <2>1, LenProperties
  <2> DEFINE Bounded == [alert_count : 0 .. MaxPushes, timer : BOOLEAN]
  <2>3. \A g \in 1 .. Latest : coordinators[g] \in Bounded
    BY <1>2, <2>1
  <2> HIDE DEF Bounded
  <2>4. coordinators \in [1 .. Latest -> Bounded]
    BY <2>2, <2>3
  <2>5. coordinators \in Seq(Bounded)
    BY <2>1, <2>4, SeqDef
  <2> QED
    BY <2>5 DEF Bounded
<1>4. file \in {NoFile} \union 0 .. MaxPushes /\ received \in 0 .. MaxPushes
  BY <1>1 DEF EntryInv, Data
<1>5. registered \in {Nobody} \union DOMAIN coordinators
  BY LatestType DEF EntryInv, Around, Routed, Nobody
<1>6. entity \in {NoEntity} \union 0 .. MaxPushes
  <2>1. CASE entity # NoEntity
    <3>1. Latest \in DOMAIN coordinators /\ entity = Count
      BY <2>1, LatestType DEF EntryInv, Around, Seen, Routed
    <3> QED
      BY <1>1, <3>1, CoordinatorType DEF EntryInv, Data, Count
  <2> QED
    BY <2>1
<1> QED
  BY <1>3, <1>4, <1>5, <1>6 DEF EntryInv, Data, Around, Control, TypeOK, Phases

\* For every bound: the type invariant, and the bounds are bounds.
THEOREM EntryTypes == Spec => []TypeOK
BY EntryInductive, TypesFollow, PTL

\* A webhook of a loaded entry reaches the coordinator its entities watch: no
\* setup finds the id taken, however many before it failed half-way.
THEOREM WebhooksReach == Spec => []WebhooksReachEntities
<1>1. EntryInv => WebhooksReachEntities
  BY DEF EntryInv, Around, Routed, WebhooksReachEntities
<1> QED
  BY <1>1, EntryInductive, PTL

\* One event for each push applied while the entity is there, none for a count
\* restored from the store or for a push that an earlier coordinator receives.
THEOREM EveryPushFires == Spec => []EventPerPush
<1>1. EntryInv => EventPerPush
  BY DEF EntryInv, Around, Seen, EventPerPush
<1> QED
  BY <1>1, EntryInductive, PTL

\* The services are there while either of two entries is loaded.
THEOREM ServicesStay == Spec => []ServicesWhileLoaded
<1>1. EntryInv => ServicesWhileLoaded
  BY DEF EntryInv, Around
<1> QED
  BY <1>1, EntryInductive, PTL

\* A clear_all that reaches this entry clears the coordinator it has by then.
THEOREM CallMeetsReload == Spec => CallSeesReload
<1> DEFINE Sees == call # NoCall /\ call' = NoCall /\ restarts' = restarts /\ file' # file =>
                       phase = "loaded" /\ file' = coordinators[Latest].alert_count
<1>1. EntryInv /\ [Next]_vars => Sees
  <2> SUFFICES ASSUME EntryInv, [Next]_vars, call # NoCall, call' = NoCall,
                      restarts' = restarts, file' # file
               PROVE  phase = "loaded" /\ file' = coordinators[Latest].alert_count
    OBVIOUS
  <2>1. ~UNCHANGED call /\ ~UNCHANGED file
    OBVIOUS
  <2>2. ~Setup
    BY <2>1 DEF Setup, SetupStart, Authenticated, AuthenticationFails, Restore, VersionTimesOut,
               RefreshFails, Register, PlatformsReady, PlatformsFail, domain
  <2>3. ~Unload /\ ~Webhook
    BY <2>1 DEF Unload, UnloadPlatforms, UnloadFails, UnloadDone, Remove, Webhook, Request,
               Reject, Push, domain
  <2>4. ~Poll /\ ~Clear /\ ~\E g \in DOMAIN coordinators : AutoClear(g)
    BY <2>1 DEF Poll, Clear, AutoClear, domain
  <2>5. ~\E g \in late : DelayedWrite(g)
    BY <2>1 DEF DelayedWrite, domain
  <2>6. ~Restart
    BY DEF Restart, EntryInv, Around, Control
  <2>7. Domain
    BY <2>1, <2>2, <2>3, <2>4, <2>5, <2>6 DEF Next, vars
  <2>8. ClearLatest
    BY <2>1, <2>7 DEF Domain, OtherAdded, OtherLoaded, OtherUnloaded, OtherRemoved, CallStarts,
                      CallReaches, CallFails, MyOwn
  <2> QED
    BY <2>8 DEF ClearLatest, Write
<1>2. EntryInv /\ [Next]_vars => [Sees]_vars
  BY <1>1
<1> QED
  BY <1>2, EntryInductive, PTL DEF Spec, CallSeesReload

-----------------------------------------------------------------------------
(* Migration *)

Entries == [version : 1 .. 4, suffix : Nat, secret : Nat, password : BOOLEAN, api_key : BOOLEAN]

\* Every version keeps what the migration to it brought.
Sound(e) ==
    /\ e \in Entries
    /\ e.version >= 3 => e.suffix # None /\ e.secret # None
    /\ e.version = 4 => ~e.password

\* What HA has saved is never drawn again.
Keeps(old, new) ==
    /\ old.suffix # None => new.suffix = old.suffix
    /\ old.secret # None => new.secret = old.secret

UpgradeInv ==
    /\ Sound(entry) /\ Sound(saved)
    /\ drawn \in Nat \ {0}
    /\ Keeps(saved, entry)
    /\ phase \notin {"not_loaded", "removed"} => entry.version = 4
    /\ phase \notin Startable \union {"removed", "authenticating"} => entry.api_key
    /\ phase # "removed" /\ entry.suffix # None /\ pasted[1] # entry.suffix => issue \/ lost

LEMMA UpgradeStart == UpgradeInit => UpgradeInv
BY DEF UpgradeInit, Init, UpgradeInv, Sound, Keeps, Entries, Installed, Identity, None, Startable

\* The migration keeps what there is and brings what there is not.
LEMMA MigratedSound ==
    ASSUME Sound(entry), drawn \in Nat \ {0}
    PROVE  Sound(Migrated) /\ Migrated.version = 4 /\ Keeps(entry, Migrated)
<1> DEFINE third == IF entry.version < 3 THEN Backfilled(entry) ELSE entry
           fourth == IF entry.version < 4 THEN WithoutPassword(third) ELSE third
<1>0. entry \in Entries
  BY DEF Sound
<1>1. /\ third \in Entries /\ third.suffix # None /\ third.secret # None
      /\ entry.version = 4 => ~third.password
      /\ Keeps(entry, third)
  <2>1. CASE entry.version < 3
    <3> DEFINE secret == IF entry.secret = None THEN drawn + 1 ELSE entry.secret
               suffix == IF entry.suffix = None THEN drawn + 1 ELSE entry.suffix
    <3>1. third = [entry EXCEPT !.secret = secret, !.suffix = suffix]
      BY <2>1 DEF Backfilled
    <3>2. /\ secret \in Nat \ {None} /\ suffix \in Nat \ {None}
          /\ entry.secret # None => secret = entry.secret
          /\ entry.suffix # None => suffix = entry.suffix
      BY <1>0 DEF Entries, None
    <3> HIDE DEF secret, suffix
    <3>3. third \in Entries /\ third.secret = secret /\ third.suffix = suffix
      BY <1>0, <3>1, <3>2 DEF Entries
    <3> QED
      BY <2>1, <3>2, <3>3 DEF Keeps
  <2>2. CASE ~(entry.version < 3)
    <3>1. third = entry /\ entry.version >= 3
      BY <1>0, <2>2 DEF Entries
    <3> QED
      BY <3>1 DEF Sound, Keeps
  <2> QED
    BY <2>1, <2>2
<1> HIDE DEF third
<1>2. /\ fourth \in Entries /\ ~fourth.password
      /\ fourth.suffix = third.suffix /\ fourth.secret = third.secret
  <2>1. CASE entry.version < 4
    <3>1. fourth = [third EXCEPT !.password = FALSE]
      BY <2>1 DEF WithoutPassword
    <3> QED
      BY <1>1, <3>1 DEF Entries
  <2>2. CASE ~(entry.version < 4)
    <3>1. entry.version = 4 /\ fourth = third
      BY <1>0, <2>2 DEF Entries
    <3> QED
      BY <1>1, <3>1
  <2> QED
    BY <2>1, <2>2
<1> HIDE DEF fourth
<1>3. Migrated = [fourth EXCEPT !.version = 4]
  BY DEF Migrated, third, fourth
<1> QED
  BY <1>1, <1>2, <1>3 DEF Sound, Entries, Keeps

\* Steps that leave the entry and its storage alone lead from one phase of the
\* setup to the next, or back to one from which it starts again.
LEMMA PhasesInOrder ==
    ASSUME UpgradeInv, Unchanged
    PROVE  UpgradeInv'
<1>1. UNCHANGED <<entry, saved, drawn, issue, pasted, lost>>
  BY DEF Unchanged, upgrade
<1>2. \/ phase' \in Startable /\ phase \notin Startable \union {"removed"}
      \/ /\ phase \notin Startable \union {"removed", "authenticating"}
         /\ phase' \notin Startable \union {"removed", "authenticating"}
      \/ phase' = phase
  <2>1. CASE AuthenticationFails \/ Restore \/ VersionTimesOut \/ RefreshFails \/ Register
             \/ PlatformsReady \/ PlatformsFail
    BY <2>1 DEF AuthenticationFails, Restore, VersionTimesOut, RefreshFails, Register,
                PlatformsReady, PlatformsFail, Startable
  <2>2. CASE UnloadPlatforms \/ UnloadFails \/ UnloadDone
    BY <2>2 DEF UnloadPlatforms, UnloadFails, UnloadDone, Startable
  <2>3. CASE (\E g \in inflight : Reject(g) \/ Push(g)) \/ Poll \/ Clear
    BY <2>3 DEF Reject, Push, Poll, Clear, ClearLatest, life
  <2>4. CASE (\E g \in DOMAIN coordinators : AutoClear(g)) \/ (\E g \in late : DelayedWrite(g))
    BY <2>4 DEF AutoClear, DelayedWrite, life
  <2>5. CASE Domain
    BY <2>5 DEF Domain, OtherAdded, OtherLoaded, OtherUnloaded, OtherRemoved, CallStarts,
                CallReaches, CallFails, ClearLatest, MyOwn, life
  <2> QED
    BY <2>1, <2>2, <2>3, <2>4, <2>5 DEF Unchanged
<1> QED
  BY <1>1, <1>2 DEF UpgradeInv, Startable

LEMMA UpgradeStep == UpgradeInv /\ [UpgradeNext]_upgradeVars => UpgradeInv'
<1> SUFFICES ASSUME UpgradeInv, [UpgradeNext]_upgradeVars PROVE UpgradeInv'
  OBVIOUS
<1>1. CASE MigrateAndStart
  <2>1. Sound(entry') /\ entry'.version = 4 /\ Keeps(entry, entry') /\ UNCHANGED saved
    BY <1>1, MigratedSound DEF MigrateAndStart, UpgradeInv
  <2>2. Keeps(saved', entry')
    BY <2>1 DEF UpgradeInv, Keeps
  <2>3. drawn' \in Nat \ {0}
    BY <1>1 DEF MigrateAndStart, UpgradeInv
  <2>4. phase' = "authenticating"
    BY <1>1 DEF MigrateAndStart, SetupStart
  <2>5. pasted'[1] # entry'.suffix => issue' \/ lost'
    <3>1. CASE entry'.suffix = entry.suffix
      <4>1. entry.suffix # None /\ phase # "removed"
        BY <1>1, <2>1, <3>1 DEF MigrateAndStart, SetupStart, Sound, Startable
      <4>2. UNCHANGED <<pasted, lost>> /\ (issue => issue')
        BY <1>1, <3>1 DEF MigrateAndStart
      <4> QED
        BY <3>1, <4>1, <4>2 DEF UpgradeInv
    <3>2. CASE entry'.suffix # entry.suffix
      BY <1>1, <3>2 DEF MigrateAndStart
    <3> QED
      BY <3>1, <3>2
  <2> QED
    BY <2>1, <2>2, <2>3, <2>4, <2>5 DEF UpgradeInv
<1>2. CASE AuthenticatedWithKey
  BY <1>2 DEF AuthenticatedWithKey, Authenticated, upgrade, UpgradeInv, Startable
<1>3. CASE Reauth
  <2>1. /\ phase' = phase /\ phase \in Startable
        /\ UNCHANGED <<saved, drawn, issue, pasted, lost>>
        /\ entry' = [entry EXCEPT !.api_key = TRUE]
    BY <1>3 DEF Reauth, vars, Startable
  <2>2. Sound(entry') /\ Keeps(saved, entry') /\ Keeps(entry, entry')
    BY <2>1 DEF UpgradeInv, Sound, Entries, Keeps
  <2>3. entry'.version = entry.version /\ entry'.api_key /\ entry'.suffix = entry.suffix
    BY <2>1 DEF UpgradeInv, Sound, Entries
  <2> QED
    BY <2>1, <2>2, <2>3 DEF UpgradeInv
<1>4. CASE SaveEntry
  <2>1. UNCHANGED <<phase, entry, drawn, issue, pasted, lost>> /\ saved' = entry
    BY <1>4 DEF SaveEntry, vars
  <2> QED
    BY <2>1 DEF UpgradeInv, Keeps
<1>5. CASE Paste
  BY <1>5 DEF Paste, vars, Identity, UpgradeInv
<1>6. CASE RequestPasted
  BY <1>6 DEF RequestPasted, Request, life, upgrade, UpgradeInv
<1>7. CASE RestartUpgraded
  <2>1. /\ phase # "removed" /\ phase' = "not_loaded" /\ UNCHANGED <<drawn, pasted>>
        /\ entry' = entry \/ entry' = saved
        /\ saved' = entry'
    BY <1>7 DEF RestartUpgraded, Restart
  <2>2. entry'.suffix # None => entry'.suffix = entry.suffix
    BY <2>1 DEF UpgradeInv, Keeps
  <2>3. entry'.suffix # None /\ pasted'[1] # entry'.suffix => lost'
    BY <1>7, <2>1, <2>2 DEF RestartUpgraded, UpgradeInv
  <2>4. Sound(entry') /\ Sound(saved') /\ Keeps(saved', entry')
    BY <2>1 DEF UpgradeInv, Keeps
  <2> QED
    BY <2>1, <2>3, <2>4 DEF UpgradeInv, Startable
<1>8. CASE RemoveUpgraded
  BY <1>8 DEF RemoveUpgraded, Remove, UpgradeInv
<1>9. CASE Unchanged
  BY <1>9, PhasesInOrder
<1>10. CASE UNCHANGED upgradeVars
  BY <1>10 DEF upgradeVars, upgrade, vars, UpgradeInv
<1> QED
  BY <1>1, <1>2, <1>3, <1>4, <1>5, <1>6, <1>7, <1>8, <1>9, <1>10 DEF UpgradeNext

\* UpgradeInv is inductive.
THEOREM UpgradeInductive == UpgradeSpec => []UpgradeInv
BY UpgradeStart, UpgradeStep, PTL DEF UpgradeSpec

\* Whatever version an entry comes from and however often a crash takes its
\* migration back, it is set up migrated.
THEOREM AlwaysMigrated == UpgradeSpec => []SetUpMigrated
<1>1. UpgradeInv => SetUpMigrated
  BY DEF UpgradeInv, SetUpMigrated, Sound, Startable
<1> QED
  BY <1>1, UpgradeInductive, PTL

\* An issue is open while UniFi sends to a suffix that is not the entry's.
THEOREM UrlChangesReported == UpgradeSpec => []ChangedUrlsReported
<1>1. UpgradeInv => ChangedUrlsReported
  BY DEF UpgradeInv, ChangedUrlsReported, Sound
<1> QED
  BY <1>1, UpgradeInductive, PTL

\* No migration, crash or reauth changes a suffix or a secret that HA has saved:
\* the URLs of the Alarm Manager survive.
THEOREM SavedIdentityStays == UpgradeSpec => IdentityStays
<1>1. UpgradeInv /\ [UpgradeNext]_upgradeVars => Keeps(saved, saved')
  <2> SUFFICES ASSUME UpgradeInv, [UpgradeNext]_upgradeVars PROVE Keeps(saved, saved')
    OBVIOUS
  <2>1. saved' = saved \/ saved' = entry
    BY DEF UpgradeNext, MigrateAndStart, AuthenticatedWithKey, Reauth, SaveEntry, Paste,
           RequestPasted, RestartUpgraded, RemoveUpgraded, Unchanged, upgrade, upgradeVars
  <2> QED
    BY <2>1 DEF UpgradeInv, Keeps
<1>2. Keeps(saved, saved') =>
          \A i \in 1 .. 2 : Identity(saved)[i] # None => Identity(saved')[i] = Identity(saved)[i]
  BY DEF Keeps, Identity
<1>3. UpgradeInv /\ [UpgradeNext]_upgradeVars =>
          [\A i \in 1 .. 2 : Identity(saved)[i] # None =>
               Identity(saved')[i] = Identity(saved)[i]]_upgradeVars
  BY <1>1, <1>2
<1> QED
  BY <1>3, UpgradeInductive, PTL DEF UpgradeSpec, IdentityStays

=============================================================================
