--------------------------- MODULE EntryLifecycle ---------------------------
(***************************************************************************)
(* __init__.py: the life of one config entry with one enabled category:    *)
(* set up, reloaded, unloaded, removed, and set up again after a failure   *)
(* or a restart.  Every setup that the controller lets pass makes a new    *)
(* coordinator, with a store object of its own over the same file, a new   *)
(* webhook manager (webhook_handler.py) and a new event entity (event.py); *)
(* a webhook whose body is still being read, or a delayed write, may reach *)
(* a coordinator that has been shut down.  The clear services              *)
(* (services.py) are shared with a second entry.                           *)
(*                                                                         *)
(* Of a coordinator only alert_count and its auto-clear task are kept: its *)
(* own steps are AlertCoordinator's.  A store write is one step here.      *)
(***************************************************************************)
EXTENDS Integers, Sequences, FiniteSets

CONSTANTS
    \* Bounds: coordinators made, webhooks received, restarts.
    MaxSetups, MaxPushes, MaxRestarts

ASSUME LifeAssumption == MaxSetups \in Nat /\ MaxPushes \in Nat /\ MaxRestarts \in Nat

VARIABLES
    phase,        \* how far the entry is set up
    coordinators, \* every coordinator made, in order; the last one is the entry's
    late,         \* those whose delayed write is pending
    file,         \* alert_count in the store file, or NoFile
    registered,   \* the coordinator whose handler HA routes the webhook to
    inflight,     \* those whose handler is reading a body
    entity,       \* _last_seen_count of the event entity, or NoEntity
    services,     \* whether clear_category and clear_all are registered
    other,        \* the state of a second entry of the integration
    call,         \* a clear_all that awaits the clear of the other entry: the
                  \* latest coordinator of this one when it was called, or NoCall
    \* History: webhooks received, events fired, pushes the entity was there for.
    received, fired, due,
    restarts

life == <<phase, coordinators, registered, entity>>
domain == <<services, other, call>>
history == <<received, fired, due, restarts>>
vars == <<phase, coordinators, late, file, registered, inflight, entity,
          services, other, call, received, fired, due, restarts>>

Nobody == 0
NoFile == -1
NoEntity == -1
NoCall == -1

\* NOT_LOADED, SETUP_RETRY (which HA retries by itself) and SETUP_ERROR (which
\* it does not).
Startable == {"not_loaded", "retry", "setup_error"}

Latest == Len(coordinators)

Made(count) == [alert_count |-> count, timer |-> FALSE]

Init ==
    /\ phase = "not_loaded"
    /\ coordinators = <<>>
    /\ late = {}
    /\ file = NoFile
    /\ registered = Nobody
    /\ inflight = {}
    /\ entity = NoEntity
    /\ services = FALSE /\ other \in {"absent", "not_loaded"} /\ call = NoCall
    /\ received = 0 /\ fired = 0 /\ due = 0
    /\ restarts = 0

-----------------------------------------------------------------------------
(* async_setup_entry *)

SetupStart ==
    /\ phase \in Startable
    /\ Latest < MaxSetups
    /\ phase' = "authenticating"
    /\ UNCHANGED <<coordinators, late, file, registered, inflight, entity, domain, history>>

Authenticated ==
    /\ phase = "authenticating"
    /\ phase' = "version"
    /\ UNCHANGED <<coordinators, late, file, registered, inflight, entity, domain, history>>

\* CannotConnectError is retried; a rejected key, for which HA starts a reauth
\* flow, and a TimeoutError are not.
AuthenticationFails ==
    /\ phase = "authenticating"
    /\ phase' \in {"retry", "setup_error"}
    /\ UNCHANGED <<coordinators, late, file, registered, inflight, entity, domain, history>>

\* The version is known or not; a coordinator is made and restored.
Restore ==
    /\ phase = "version"
    /\ phase' = "restored"
    /\ coordinators' = Append(coordinators, Made(IF file = NoFile THEN 0 ELSE file))
    /\ UNCHANGED <<late, file, registered, inflight, entity, domain, history>>

\* The total timeout of the request for the version: nobody catches it.
VersionTimesOut ==
    /\ phase = "version"
    /\ phase' = "setup_error"
    /\ UNCHANGED <<coordinators, late, file, registered, inflight, entity, domain, history>>

\* The first refresh fails: UpdateFailed is retried, a rejected key is not.
RefreshFails ==
    /\ phase = "restored"
    /\ phase' \in {"retry", "setup_error"}
    /\ UNCHANGED <<coordinators, late, file, registered, inflight, entity, domain, history>>

\* The first refresh, which may raise the alert, and register_all, which passes
\* over a webhook id that is taken.
Register ==
    /\ phase = "restored"
    /\ phase' = "registered"
    /\ \E raised \in BOOLEAN : coordinators' = [coordinators EXCEPT ![Latest].timer = raised]
    /\ registered' = IF registered = Nobody THEN Latest ELSE registered
    /\ UNCHANGED <<late, file, inflight, entity, domain, history>>

\* Mutant: the entity starts from zero.
MUT_PlatformsReady_unseeded ==
    /\ phase = "registered"
    /\ phase' = "loaded"
    /\ entity' = 0
    /\ services' = TRUE
    /\ UNCHANGED <<coordinators, late, file, registered, inflight, other, call, history>>

\* The event entity is added to HA, the services are registered unless they are,
\* and the entry is loaded.
PlatformsReady ==
    /\ phase = "registered"
    /\ phase' = "loaded"
    /\ entity' = coordinators[Latest].alert_count
    /\ services' = TRUE
    /\ UNCHANGED <<coordinators, late, file, registered, inflight, other, call, history>>

\* unregister_all takes back what this manager registered.
Unregistered == IF registered = Latest THEN Nobody ELSE registered

ShutDown == [coordinators EXCEPT ![Latest].timer = FALSE]

\* Mutant: the webhooks survive the failure (as before the cleanup was added).
MUT_PlatformsFail_leaks ==
    /\ phase = "registered"
    /\ phase' = "setup_error"
    /\ coordinators' = ShutDown
    /\ UNCHANGED <<late, file, registered, inflight, entity, domain, history>>

PlatformsFail ==
    /\ phase = "registered"
    /\ phase' \in {"retry", "setup_error"}
    /\ coordinators' = ShutDown
    /\ registered' = Unregistered
    /\ UNCHANGED <<late, file, inflight, entity, domain, history>>

-----------------------------------------------------------------------------
(* async_unload_entry, by an update of the entry, by hand or to remove it *)

UnloadPlatforms ==
    /\ phase = "loaded"
    /\ phase' = "unloading"
    /\ entity' = NoEntity
    /\ UNCHANGED <<coordinators, late, file, registered, inflight, domain, history>>

\* A platform does not unload: the coordinator and its webhooks live on.
UnloadFails ==
    /\ phase = "unloading"
    /\ phase' = "failed_unload"
    /\ UNCHANGED <<coordinators, late, file, registered, inflight, entity, domain, history>>

\* Mutant: the services go with any entry.
MUT_UnloadDone_unshared ==
    /\ phase = "unloading"
    /\ phase' = "not_loaded"
    /\ coordinators' = ShutDown
    /\ registered' = Unregistered
    /\ services' = FALSE
    /\ UNCHANGED <<late, file, inflight, entity, other, call, history>>

\* The services stay while there is another entry, loaded or not.
UnloadDone ==
    /\ phase = "unloading"
    /\ phase' = "not_loaded"
    /\ coordinators' = ShutDown
    /\ registered' = Unregistered
    /\ services' = (services /\ other # "absent")
    /\ UNCHANGED <<late, file, inflight, entity, other, call, history>>

\* async_remove_entry, with a store object of its own.  An entry that did not
\* unload is removed all the same.
Remove ==
    /\ phase \in Startable \union {"failed_unload"}
    /\ phase' = "removed"
    /\ file' = NoFile
    /\ UNCHANGED <<coordinators, late, registered, inflight, entity, domain, history>>

-----------------------------------------------------------------------------
(* What reaches a coordinator, shut down or not *)

\* _handle_coordinator_update of the entity, if it listens to coordinator g and
\* there is an alert: at most one event, for the last alert.
Hear(g, count) ==
    IF entity # NoEntity /\ g = Latest
    THEN /\ entity' = IF count > entity THEN count ELSE entity
         /\ fired' = IF count > entity THEN fired + 1 ELSE fired
    ELSE UNCHANGED <<entity, fired>>

\* The handler has checked the token and awaits the body.
Request ==
    /\ registered # Nobody
    /\ received + Cardinality(inflight) < MaxPushes
    /\ registered \notin inflight
    /\ inflight' = inflight \union {registered}
    /\ UNCHANGED <<life, late, file, domain, history>>

\* The body is too long or no JSON.
Reject(g) ==
    /\ g \in inflight
    /\ inflight' = inflight \ {g}
    /\ UNCHANGED <<life, late, file, domain, history>>

\* push_alert of the coordinator that the handler was made for.
Push(g) ==
    /\ g \in inflight
    /\ inflight' = inflight \ {g}
    /\ coordinators' = [coordinators EXCEPT ![g] =
           [alert_count |-> @.alert_count + 1, timer |-> TRUE]]
    /\ late' = late \union {g}
    /\ received' = received + 1
    /\ due' = IF entity # NoEntity /\ g = Latest THEN due + 1 ELSE due
    /\ Hear(g, coordinators'[g].alert_count)
    /\ UNCHANGED <<phase, file, registered, domain, restarts>>

\* Mutant: a poll that raises the alert counts it as well.
MUT_Poll_counts ==
    /\ entity # NoEntity
    /\ coordinators' = [coordinators EXCEPT ![Latest].timer = TRUE, ![Latest].alert_count = @ + 1]
    /\ Hear(Latest, coordinators'[Latest].alert_count)
    /\ UNCHANGED <<phase, late, file, registered, inflight, domain, received, due, restarts>>

\* A refresh of the entry's coordinator; the poll counts no alert.
Poll ==
    /\ entity # NoEntity
    /\ \E raised \in BOOLEAN :
           coordinators' = [coordinators EXCEPT ![Latest].timer = @ \/ raised]
    /\ Hear(Latest, coordinators[Latest].alert_count)
    /\ UNCHANGED <<phase, late, file, registered, inflight, domain, received, due, restarts>>

\* The immediate write of a clear supersedes this store's delayed one.
Write(g) ==
    /\ file' = coordinators[g].alert_count
    /\ late' = late \ {g}

\* async_clear_category or async_clear_all of a loaded entry's coordinator.
ClearLatest ==
    /\ phase = "loaded"
    /\ coordinators' = ShutDown
    /\ Write(Latest)
    /\ Hear(Latest, coordinators[Latest].alert_count)
    /\ UNCHANGED <<phase, registered, inflight, received, due, restarts>>

\* A button is pressed, or a service called that meets this entry first.
Clear == ClearLatest /\ UNCHANGED domain

AutoClear(g) ==
    /\ coordinators[g].timer
    /\ coordinators' = [coordinators EXCEPT ![g].timer = FALSE]
    /\ Write(g)
    /\ Hear(g, coordinators[g].alert_count)
    /\ UNCHANGED <<phase, registered, inflight, domain, received, due, restarts>>

\* In any order, although HA's delays are equal.
DelayedWrite(g) ==
    /\ g \in late
    /\ Write(g)
    /\ UNCHANGED <<life, inflight, domain, history>>

\* A process ends.  A crash loses the delayed writes; a stop flushes them.
Restart ==
    /\ restarts < MaxRestarts
    /\ phase # "removed"
    /\ phase' = "not_loaded"
    /\ coordinators' = [g \in DOMAIN coordinators |-> [coordinators[g] EXCEPT !.timer = FALSE]]
    /\ file' \in {file} \union {coordinators[g].alert_count : g \in late}
    /\ late' = {}
    /\ registered' = Nobody
    /\ inflight' = {}
    /\ entity' = NoEntity
    /\ services' = FALSE /\ call' = NoCall
    /\ other' = IF other = "loaded" THEN "not_loaded" ELSE other
    /\ restarts' = restarts + 1
    /\ UNCHANGED <<received, fired, due>>

-----------------------------------------------------------------------------
(* The second entry, and a clear_all that meets it first *)

MyOwn == <<life, late, file, inflight, history>>

OtherAdded == other = "absent" /\ other' = "not_loaded" /\ UNCHANGED <<services, call, MyOwn>>

OtherLoaded ==
    /\ other = "not_loaded"
    /\ other' = "loaded"
    /\ services' = TRUE
    /\ UNCHANGED <<call, MyOwn>>

OtherUnloaded ==
    /\ other = "loaded"
    /\ other' = "not_loaded"
    /\ services' = (services /\ phase # "removed")
    /\ UNCHANGED <<call, MyOwn>>

OtherRemoved == other = "not_loaded" /\ other' = "absent" /\ UNCHANGED <<services, call, MyOwn>>

CallStarts ==
    /\ services /\ other = "loaded"
    /\ call = NoCall
    /\ call' = Latest
    /\ UNCHANGED <<services, other, MyOwn>>

\* Mutant: the coordinators are collected before the first clear.
MUT_CallReaches_collected ==
    /\ call # NoCall
    /\ call' = NoCall
    /\ UNCHANGED <<services, other>>
    /\ IF call = Nobody THEN UNCHANGED MyOwn
       ELSE /\ coordinators' = [coordinators EXCEPT ![call].timer = FALSE]
            /\ Write(call)
            /\ Hear(call, coordinators[call].alert_count)
            /\ UNCHANGED <<phase, registered, inflight, received, due, restarts>>

\* _get_coordinators is a generator: it looks at this entry only now.
CallReaches ==
    /\ call # NoCall
    /\ call' = NoCall
    /\ UNCHANGED <<services, other>>
    /\ ClearLatest \/ (phase # "loaded" /\ UNCHANGED MyOwn)

\* The other entry's write raises, or the call is cancelled.
CallFails == call # NoCall /\ call' = NoCall /\ UNCHANGED <<services, other, MyOwn>>

-----------------------------------------------------------------------------
Setup ==
    \/ SetupStart
    \/ Authenticated
    \/ AuthenticationFails
    \/ Restore
    \/ VersionTimesOut
    \/ RefreshFails
    \/ Register
    \/ PlatformsReady
    \/ PlatformsFail

Unload == UnloadPlatforms \/ UnloadFails \/ UnloadDone \/ Remove

Webhook == Request \/ \E g \in inflight : Reject(g) \/ Push(g)

Domain ==
    \/ OtherAdded
    \/ OtherLoaded
    \/ OtherUnloaded
    \/ OtherRemoved
    \/ CallStarts
    \/ CallReaches
    \/ CallFails

Next ==
    \/ Setup
    \/ Unload
    \/ Webhook
    \/ Poll
    \/ Clear
    \/ \E g \in DOMAIN coordinators : AutoClear(g)
    \/ \E g \in late : DelayedWrite(g)
    \/ Domain
    \/ Restart

Spec == Init /\ [][Next]_vars

-----------------------------------------------------------------------------
TypeOK ==
    /\ phase \in Startable \union
           {"authenticating", "version", "restored", "registered", "loaded", "unloading",
            "failed_unload", "removed"}
    /\ coordinators \in Seq([alert_count : 0 .. MaxPushes, timer : BOOLEAN])
    /\ Latest <= MaxSetups
    /\ late \subseteq DOMAIN coordinators
    /\ file \in {NoFile} \union 0 .. MaxPushes
    /\ registered \in {Nobody} \union DOMAIN coordinators
    /\ inflight \subseteq DOMAIN coordinators
    /\ entity \in {NoEntity} \union 0 .. MaxPushes
    /\ services \in BOOLEAN /\ other \in {"absent", "not_loaded", "loaded"}
    /\ call \in {NoCall} \union 0 .. Latest
    /\ received \in 0 .. MaxPushes /\ fired \in Nat /\ due \in Nat
    /\ restarts \in 0 .. MaxRestarts

\* While the entry is loaded its webhook reaches the coordinator the entities
\* watch, and no setup passed over a webhook id that an earlier one left taken,
\* however often setups failed half-way or the entry was reloaded: "the
\* automatic retry, which then finds every deterministic webhook_id already
\* taken and silently skips" them (async_setup_entry).
WebhooksReachEntities ==
    phase \in {"loaded", "unloading"} => registered = Latest

\* "Event entities fire once per alert" (event.py): of what the entry's
\* coordinator applies while the entity is there, each push fires one event and
\* nothing else does, neither the alert restored by a reload nor one that an
\* earlier coordinator still receives.
EventPerPush == fired = due

\* push_alert, on its delayed write: "Persist alert_count and last_alert so they
\* survive a config-entry reload triggered by an options change".  (With every
\* webhook so far received by a loaded entry, and no restart.)
CountSurvivesReload ==
    [][Restore /\ Latest > 0 /\ restarts = 0 /\ due = received =>
          coordinators'[Latest'].alert_count = coordinators[Latest].alert_count]_vars

\* The clear services are there whenever an entry is loaded that they could act
\* on, whatever order two entries are set up, reloaded and removed in:
\* "Unregister domain-level services only when the last entry is gone".
ServicesWhileLoaded == phase \in {"loaded", "unloading"} \/ other = "loaded" => services

\* A clear_all that was awaiting the clear of one entry while the next one was
\* unloaded or reloaded clears the coordinator that entry now has, or none.
CallSeesReload ==
    [][call # NoCall /\ call' = NoCall /\ restarts' = restarts /\ file' # file =>
          phase = "loaded" /\ file' = coordinators[Latest].alert_count]_vars
=============================================================================
