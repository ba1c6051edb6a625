---------------------------- MODULE EntryUpgrade ----------------------------
(***************************************************************************)
(* async_migrate_entry, run by HA before each setup of an entry of an      *)
(* older version, over the life of the entry in EntryLifecycle: the        *)
(* identity of its webhooks is drawn at random and saved by HA a little    *)
(* later, or lost in a crash; the repair issue about changed URLs is not   *)
(* kept over a restart; and an entry that loses its password waits for a   *)
(* reauth.                                                                 *)
(*                                                                         *)
(* A secret and a suffix are numbered in the order they are drawn.         *)
(***************************************************************************)
EXTENDS EntryLifecycle

VARIABLES
    entry,  \* the config entry in memory
    saved,  \* the config entry in HA's storage
    issue,  \* whether the issue webhook_urls_changed is open
    pasted, \* the suffix and secret that UniFi's Alarm Manager sends
    drawn,  \* History: the secrets and suffixes drawn so far,
    lost    \* whether a restart dropped the issue of a saved migration

upgrade == <<entry, saved, issue, pasted, drawn, lost>>
upgradeVars == <<vars, upgrade>>

None == 0

Identity(e) == <<e.suffix, e.secret>>

\* Entries as the released versions left them.
Installed == [version : 1 .. 4, suffix : {None, 1}, secret : {None, 1},
              password : BOOLEAN, api_key : BOOLEAN]

UpgradeInit ==
    /\ Init
    /\ entry \in {e \in Installed :
           /\ e.version >= 3 => e.suffix # None /\ e.secret # None
           /\ e.version = 4 => ~e.password
           /\ e.password \/ e.api_key}
    /\ saved = entry
    /\ issue = FALSE
    /\ pasted = Identity(entry)
    /\ drawn = 1
    /\ lost = FALSE

-----------------------------------------------------------------------------
\* Mutant: version 3 draws new values whether or not there are any.
MUT_Backfilled(e) == [e EXCEPT !.secret = drawn + 1, !.suffix = drawn + 1]

\* Mutant: the version is raised without the backfill when there is a secret.
MUT_Backfilled_half(e) ==
    IF e.secret # None THEN e ELSE [e EXCEPT !.secret = drawn + 1, !.suffix = drawn + 1]

\* Version 3.
Backfilled(e) ==
    [e EXCEPT !.secret = IF @ = None THEN drawn + 1 ELSE @,
              !.suffix = IF @ = None THEN drawn + 1 ELSE @]

\* Version 4.
WithoutPassword(e) == [e EXCEPT !.password = FALSE]

\* Each step of the chain leads to the next; version 2 drops what is not kept here.
Migrated ==
    LET third == IF entry.version < 3 THEN Backfilled(entry) ELSE entry
        fourth == IF entry.version < 4 THEN WithoutPassword(third) ELSE third
    IN [fourth EXCEPT !.version = 4]

\* Mutant: the issue is not raised.
MUT_MigrateAndStart_silent ==
    /\ SetupStart
    /\ entry' = Migrated
    /\ drawn' = IF Identity(entry') # Identity(entry) THEN drawn + 1 ELSE drawn
    /\ UNCHANGED <<saved, issue, pasted, lost>>

MigrateAndStart ==
    /\ SetupStart
    /\ entry' = Migrated
    /\ drawn' = IF Identity(entry') # Identity(entry) THEN drawn + 1 ELSE drawn
    /\ issue' = (issue \/ entry'.suffix # entry.suffix)
    /\ UNCHANGED <<saved, pasted, lost>>

\* Without a key authenticate raises before it asks the controller.
AuthenticatedWithKey == Authenticated /\ entry.api_key /\ UNCHANGED upgrade

\* The reauth flow that ConfigEntryAuthFailed starts stores the key; the entry
\* is reloaded by a step of its own.
Reauth ==
    /\ phase = "setup_error"
    /\ ~entry.api_key
    /\ entry' = [entry EXCEPT !.api_key = TRUE]
    /\ UNCHANGED <<vars, saved, issue, pasted, drawn, lost>>

\* HA writes its config entries a second after a change.
SaveEntry ==
    /\ saved # entry
    /\ saved' = entry
    /\ UNCHANGED <<vars, entry, issue, pasted, drawn, lost>>

\* The user copies the URLs and the secret that the options flow shows.
Paste ==
    /\ phase = "loaded"
    /\ pasted' = Identity(entry)
    /\ UNCHANGED <<vars, entry, saved, issue, drawn, lost>>

\* The handler compares secrets; HA routes by the suffix.
RequestPasted == pasted = Identity(entry) /\ Request /\ UNCHANGED upgrade

\* A crash may come before the entry was saved; a stop saves it.
RestartUpgraded ==
    /\ Restart
    /\ entry' \in {entry, saved}
    /\ saved' = entry'
    /\ issue' = FALSE
    /\ lost' = (lost \/ (issue /\ entry'.suffix = entry.suffix))
    /\ UNCHANGED <<pasted, drawn>>

\* async_remove_entry deletes the issue.
RemoveUpgraded == Remove /\ issue' = FALSE /\ UNCHANGED <<entry, saved, pasted, drawn, lost>>

Unchanged ==
    /\ \/ AuthenticationFails
       \/ Restore
       \/ VersionTimesOut
       \/ RefreshFails
       \/ Register
       \/ PlatformsReady
       \/ PlatformsFail
       \/ UnloadPlatforms
       \/ UnloadFails
       \/ UnloadDone
       \/ \E g \in inflight : Reject(g) \/ Push(g)
       \/ Poll
       \/ Clear
       \/ \E g \in DOMAIN coordinators : AutoClear(g)
       \/ \E g \in late : DelayedWrite(g)
       \/ Domain
    /\ UNCHANGED upgrade

UpgradeNext ==
    \/ MigrateAndStart
    \/ AuthenticatedWithKey
    \/ Reauth
    \/ SaveEntry
    \/ Paste
    \/ RequestPasted
    \/ RestartUpgraded
    \/ RemoveUpgraded
    \/ Unchanged

UpgradeSpec == UpgradeInit /\ [][UpgradeNext]_upgradeVars

-----------------------------------------------------------------------------
\* Whatever version an entry comes from and however often a crash takes its
\* migration back, it is set up with a suffix, a secret, a key and no password:
\* its webhooks neither collide with another entry's nor reject every request
\* for want of a secret (_make_handler).
SetUpMigrated ==
    phase \in {"version", "restored", "registered", "loaded"} =>
        /\ entry.version = 4
        /\ entry.suffix # None /\ entry.secret # None
        /\ entry.api_key /\ ~entry.password

\* "The webhook id suffix, and the webhook secret are all untouched: [...]
\* Alarm Manager URLs survive the migration" (_migrate_v3_to_v4): once HA has
\* saved an identity, no migration, crash or reauth changes it.
IdentityStays ==
    [][\A i \in 1 .. 2 : Identity(saved)[i] # None => Identity(saved')[i] = Identity(saved)[i]]_upgradeVars

\* While the Alarm Manager sends to a suffix that is not the entry's, an issue
\* says so: also if a crash took the migration back and the next one drew
\* another suffix.  (A restart after the entry was saved drops the issue.)
ChangedUrlsReported ==
    phase \notin {"removed", "not_loaded"} /\ pasted[1] # entry.suffix => issue \/ lost
=============================================================================
