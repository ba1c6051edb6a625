---------------------------- MODULE ConfigFlows ----------------------------
(***************************************************************************)
(* config_flow.py: the dialogs that write config entries, several of them  *)
(* open at a time: setup by hand or from SSDP discovery, the options flow, *)
(* reconfigure and reauth.  A dialog reads the entry when a form is        *)
(* submitted, awaits the controller's verdict, reads it again, and the     *)
(* options flow holds what it staged until its last form is submitted.     *)
(*                                                                         *)
(* Of an entry its controller URL, unique_id, device serial and webhook    *)
(* secret are kept, with the secret its running webhook handler checks, the*)
(* one UniFi's Alarm Manager sends, a request whose body is being read, the*)
(* webhook_secret_rotated repair issue and the one that asks for reauth    *)
(* (auth_failed or apikey_migration_required).  API key, verify_ssl and    *)
(* the options bear on none of these: a key may be rejected at any time.   *)
(***************************************************************************)
EXTENDS Integers, FiniteSets, FiniteSetsExt

CONSTANTS
    Hosts,      \* addresses of controllers
    Serials,    \* UPnP serial numbers of consoles
    Flows,      \* dialogs open at a time
    \* Bounds: config entries and secrets ever made.
    MaxEntries, MaxSecrets

ASSUME FlowAssumption == MaxEntries \in Nat /\ MaxSecrets \in Nat

VARIABLES
    entries,    \* entry id -> the entry; ids count up
    flows,      \* the dialogs
    created,    \* entries made
    secrets     \* secrets made

vars == <<entries, flows, created, secrets>>

\* A URL is typed with or without a slash at its end.
Urls == [host : Hosts, slash : BOOLEAN]
Blank == [host |-> "none", slash |-> FALSE]
NoSerial == "none"
NoSecret == 0
Nothing == [url |-> Blank, secret |-> NoSecret, serial |-> NoSerial]

\* Mutant: URLs are compared as typed.
MUT_Strip(url) == url

\* rstrip("/")
Strip(url) == [url EXCEPT !.slash = FALSE]

\* No dialog.
Closed ==
    [kind |-> "none", step |-> "none", entry |-> 0, url |-> Blank, rotate |-> FALSE,
     unique_id |-> Blank, serial |-> NoSerial, staged |-> Nothing]

\* What entry.data holds.
Data(e) == [url |-> entries[e].url, secret |-> entries[e].secret, serial |-> entries[e].serial]

\* async_set_unique_id and _abort_if_unique_id_configured.
Taken(id, f) ==
    \/ \E g \in Flows \ {f} : flows[g].unique_id = id
    \/ \E e \in DOMAIN entries : entries[e].unique_id = id

Close(f) == flows' = [flows EXCEPT ![f] = Closed]

Init ==
    /\ entries = <<>>
    /\ flows = [f \in Flows |-> Closed]
    /\ created = 0
    /\ secrets = 0

-----------------------------------------------------------------------------
(* Setup *)

StartSetup(f) ==
    /\ flows[f] = Closed
    /\ flows' = [flows EXCEPT ![f] = [Closed EXCEPT !.kind = "setup", !.step = "form"]]
    /\ UNCHANGED <<entries, created, secrets>>

WithSerial(s) == {e \in DOMAIN entries : entries[e].serial = s}

\* async_step_ssdp for a console the unique_id does not tell: an entry with its
\* serial follows it to the new address, or a setup form opens.
Discover(f, host, s) ==
    LET url == [host |-> host, slash |-> FALSE]
        existing == Min(WithSerial(s))
    IN /\ flows[f] = Closed
       /\ ~Taken(url, f)
       /\ IF WithSerial(s) # {} /\ entries[existing].url # url
          THEN /\ entries' = [entries EXCEPT ![existing].url = url, ![existing].unique_id = url]
               /\ UNCHANGED flows
          ELSE /\ flows' = [flows EXCEPT ![f] = [Closed EXCEPT !.kind = "setup", !.step = "form",
                                                               !.unique_id = url, !.serial = s]]
               /\ UNCHANGED entries
       /\ UNCHANGED <<created, secrets>>

SubmitSetup(f, url) ==
    /\ flows[f].kind = "setup" /\ flows[f].step = "form"
    /\ IF Taken(Strip(url), f)
       THEN Close(f)
       ELSE flows' = [flows EXCEPT ![f].step = "validating",
                                   ![f].url = url, ![f].unique_id = Strip(url)]
    /\ UNCHANGED <<entries, created, secrets>>

\* The user's input is stored as it was typed.
SetupValidated(f) ==
    /\ flows[f].kind = "setup" /\ flows[f].step = "validating"
    /\ secrets < MaxSecrets
    /\ secrets' = secrets + 1
    /\ flows' = [flows EXCEPT ![f].step = "categories",
           ![f].staged = [url |-> flows[f].url, secret |-> secrets', serial |-> flows[f].serial]]
    /\ UNCHANGED <<entries, created>>

\* The second form of setup and options, once at least one category is chosen and
\* a site that is not the default was found.  That check reads and writes nothing
\* that others share, so it is no step of its own; if it fails, the form stays.
SubmitCategories(f) ==
    /\ flows[f].step = "categories"
    /\ flows' = [flows EXCEPT ![f].step = "finish"]
    /\ UNCHANGED <<entries, created, secrets>>

\* HA replaces an entry that came to bear the unique_id in the meantime, and
\* drops the dialogs open for it.  The user pastes the secret shown.
Create(f) ==
    LET same == {e \in DOMAIN entries : entries[e].unique_id = flows[f].unique_id}
        replaced == IF same = {} THEN 0 ELSE Min(same)
        new == [url |-> flows[f].staged.url, unique_id |-> flows[f].unique_id,
                secret |-> flows[f].staged.secret, serial |-> flows[f].staged.serial,
                handler |-> flows[f].staged.secret, pasted |-> flows[f].staged.secret,
                reading |-> FALSE, rotated |-> FALSE, reauth |-> FALSE]
    IN /\ flows[f].kind = "setup" /\ flows[f].step = "finish"
       /\ created < MaxEntries
       /\ created' = created + 1
       /\ entries' = [e \in (DOMAIN entries \ {replaced}) \union {created'} |->
                         IF e = created' THEN new ELSE entries[e]]
       /\ flows' = [g \in Flows |->
              IF g = f \/ (replaced # 0 /\ flows[g].entry = replaced) THEN Closed ELSE flows[g]]
       /\ UNCHANGED secrets

-----------------------------------------------------------------------------
(* Options and reconfigure *)

Start(f, kind, e) ==
    /\ flows[f] = Closed
    /\ flows' = [flows EXCEPT ![f] =
           [Closed EXCEPT !.kind = kind, !.step = "form", !.entry = e]]
    /\ UNCHANGED <<entries, created, secrets>>

\* Credentials: a URL, or a new API key for the URL the entry has now.  Only the
\* options form offers a new secret.
SubmitCredentials(f, typed, rotate) ==
    LET e == flows[f].entry
    IN /\ flows[f].kind \in {"options", "reconfigure"} /\ flows[f].step = "form"
       /\ rotate => flows[f].kind = "options"
       /\ flows' = [flows EXCEPT ![f].step = "validating", ![f].rotate = rotate,
              ![f].url = IF typed = Blank THEN entries[e].url ELSE Strip(typed)]
       /\ UNCHANGED <<entries, created, secrets>>

\* The options form without credentials: a snapshot with a new secret is staged,
\* or one with a new verify_ssl, or nothing.
SubmitNoCredentials(f) ==
    /\ flows[f].kind = "options" /\ flows[f].step = "form"
    /\ \/ /\ secrets < MaxSecrets
          /\ secrets' = secrets + 1
          /\ flows' = [flows EXCEPT ![f].step = "categories", ![f].rotate = TRUE,
                 ![f].staged = [Data(flows[f].entry) EXCEPT !.secret = secrets']]
       \/ /\ \E staged \in {Nothing, Data(flows[f].entry)} :
                 flows' = [flows EXCEPT ![f].step = "categories", ![f].staged = staged]
          /\ UNCHANGED secrets
    /\ UNCHANGED <<entries, created>>

\* _find_duplicate_entry
Duplicate(e, url) == \E other \in DOMAIN entries \ {e} : entries[other].url = url

Collides(f) ==
    /\ flows[f].url # entries[flows[f].entry].url
    /\ Duplicate(flows[f].entry, flows[f].url)

\* The new URL belongs to another entry: the dialog ends.
CollisionFound(f) ==
    /\ flows[f].kind \in {"options", "reconfigure"} /\ flows[f].step = "validating"
    /\ Collides(f)
    /\ Close(f)
    /\ UNCHANGED <<entries, created, secrets>>

\* _build_credentials_pending_data, from the entry as it is now.
OptionsValidated(f) ==
    /\ flows[f].kind = "options" /\ flows[f].step = "validating"
    /\ ~Collides(f)
    /\ flows[f].rotate => secrets < MaxSecrets
    /\ secrets' = IF flows[f].rotate THEN secrets + 1 ELSE secrets
    /\ flows' = [flows EXCEPT ![f].step = "categories", ![f].url = Blank,
           ![f].staged = [Data(flows[f].entry) EXCEPT
               !.url = flows[f].url,
               !.secret = IF flows[f].rotate THEN secrets' ELSE @]]
    /\ UNCHANGED <<entries, created>>

\* Mutants: the dialog asked for a new secret; the unique_id stays (issue #276).
MUT_SecretChanges(f) == flows[f].rotate
MUT_UrlChanges(f) == FALSE

SecretChanges(f) == flows[f].staged.secret # entries[flows[f].entry].secret

UrlChanges(f) == flows[f].staged.url # entries[flows[f].entry].url

\* The staged snapshot replaces entry.data.
FinishOptions(f) ==
    LET e == flows[f].entry
        staged == flows[f].staged
    IN /\ flows[f].kind = "options" /\ flows[f].step = "finish"
       /\ entries' = IF staged = Nothing THEN entries ELSE
              [entries EXCEPT ![e].url = staged.url,
                              ![e].secret = staged.secret,
                              ![e].serial = staged.serial,
                              ![e].rotated = @ \/ SecretChanges(f),
                              ![e].unique_id = IF UrlChanges(f) THEN staged.url ELSE @]
       /\ Close(f)
       /\ UNCHANGED <<created, secrets>>

ReconfigureValidated(f) ==
    LET e == flows[f].entry
    IN /\ flows[f].kind = "reconfigure" /\ flows[f].step = "validating"
       /\ ~Collides(f)
       /\ entries' = [entries EXCEPT ![e].url = flows[f].url,
              ![e].unique_id = IF flows[f].url # entries[e].url THEN flows[f].url ELSE @]
       /\ Close(f)
       /\ UNCHANGED <<created, secrets>>

-----------------------------------------------------------------------------
(* Reauth *)

\* A poll or a setup is turned down: HA starts a reauth dialog, unless one that
\* asks for credentials is open for the entry, and it raises the repair issue.
Reject(f, e) ==
    /\ flows[f] = Closed
    /\ \A g \in Flows : ~(flows[g].entry = e /\ flows[g].kind \in {"reauth", "reconfigure"})
    /\ flows' = [flows EXCEPT ![f] = [Closed EXCEPT !.kind = "reauth", !.step = "form", !.entry = e]]
    /\ entries' = [entries EXCEPT ![e].reauth = TRUE]
    /\ UNCHANGED <<created, secrets>>

\* Mutant: the issue is cleared before the controller has judged the key.
MUT_SubmitReauth(f) ==
    /\ flows[f].kind = "reauth" /\ flows[f].step = "form"
    /\ flows' = [flows EXCEPT ![f].step = "validating"]
    /\ entries' = [entries EXCEPT ![flows[f].entry].reauth = FALSE]
    /\ UNCHANGED <<created, secrets>>

\* The new key is tried on the entry's controller.
SubmitReauth(f) ==
    /\ flows[f].kind = "reauth" /\ flows[f].step = "form"
    /\ flows' = [flows EXCEPT ![f].step = "validating"]
    /\ UNCHANGED <<entries, created, secrets>>

\* The key is accepted: it is merged into entry.data as it is now, which leaves the
\* rest of it alone; the issue is deleted and the entry reloaded.
ReauthValidated(f) ==
    LET e == flows[f].entry
    IN /\ flows[f].kind = "reauth" /\ flows[f].step = "validating"
       /\ entries' = [entries EXCEPT ![e].handler = entries[e].secret, ![e].reauth = FALSE]
       /\ Close(f)
       /\ UNCHANGED <<created, secrets>>

-----------------------------------------------------------------------------
\* The controller turns the credentials down: the form is shown again.
ValidationFails(f) ==
    /\ flows[f].step = "validating"
    /\ flows' = [flows EXCEPT ![f].step = "form", ![f].url = Blank, ![f].rotate = FALSE]
    /\ UNCHANGED <<entries, created, secrets>>

Abandon(f) ==
    /\ flows[f] # Closed
    /\ Close(f)
    /\ UNCHANGED <<entries, created, secrets>>

-----------------------------------------------------------------------------
(* The entry's webhook *)

\* The update listener reloads the entry: its handler checks the stored secret.
Reload(e) ==
    /\ entries[e].handler # entries[e].secret
    /\ entries' = [entries EXCEPT ![e].handler = entries[e].secret]
    /\ UNCHANGED <<flows, created, secrets>>

\* The user copies the secret to UniFi's Alarm Manager.
Paste(e) ==
    /\ entries[e].pasted # entries[e].secret
    /\ entries' = [entries EXCEPT ![e].pasted = entries[e].secret]
    /\ UNCHANGED <<flows, created, secrets>>

\* A request with the right token; its body is still to be read.
Request(e) ==
    /\ entries[e].pasted = entries[e].handler
    /\ ~entries[e].reading
    /\ entries' = [entries EXCEPT ![e].reading = TRUE]
    /\ UNCHANGED <<flows, created, secrets>>

\* The body is read: a valid webhook clears the issue, a malformed one does not.
BodyRead(e) ==
    /\ entries[e].reading
    /\ \E valid \in BOOLEAN :
           entries' = [entries EXCEPT ![e].reading = FALSE, ![e].rotated = @ /\ ~valid]
    /\ UNCHANGED <<flows, created, secrets>>

-----------------------------------------------------------------------------
Setup(f) ==
    \/ StartSetup(f)
    \/ \E host \in Hosts, s \in Serials : Discover(f, host, s)
    \/ \E url \in Urls : SubmitSetup(f, url)
    \/ SetupValidated(f)
    \/ SubmitCategories(f)
    \/ Create(f)

Update(f) ==
    \/ \E kind \in {"options", "reconfigure"}, e \in DOMAIN entries : Start(f, kind, e)
    \/ \E typed \in Urls \union {Blank}, rotate \in BOOLEAN : SubmitCredentials(f, typed, rotate)
    \/ SubmitNoCredentials(f)
    \/ CollisionFound(f)
    \/ OptionsValidated(f)
    \/ FinishOptions(f)
    \/ ReconfigureValidated(f)

Reauth(f) ==
    \/ \E e \in DOMAIN entries : Reject(f, e)
    \/ SubmitReauth(f)
    \/ ReauthValidated(f)

Webhook(e) == Reload(e) \/ Paste(e) \/ Request(e) \/ BodyRead(e)

Next ==
    \/ \E f \in Flows : Setup(f) \/ Update(f) \/ Reauth(f) \/ ValidationFails(f) \/ Abandon(f)
    \/ \E e \in DOMAIN entries : Webhook(e)

Spec == Init /\ [][Next]_vars

-----------------------------------------------------------------------------
Made == 1 .. secrets

Datas == [url : Urls, secret : Made, serial : Serials \union {NoSerial}]

Stripped == [host : Hosts, slash : {FALSE}]

TypeOK ==
    /\ created \in 0 .. MaxEntries /\ secrets \in 0 .. MaxSecrets
    /\ DOMAIN entries \subseteq 1 .. created
    /\ \A e \in DOMAIN entries : entries[e] \in
           [url : Urls, unique_id : Urls, secret : Made, serial : Serials \union {NoSerial},
            handler : Made, pasted : Made, reading : BOOLEAN, rotated : BOOLEAN,
            reauth : BOOLEAN]
    /\ flows \in [Flows -> [kind : {"none", "setup", "options", "reconfigure", "reauth"},
                            step : {"none", "form", "validating", "categories", "finish"},
                            entry : DOMAIN entries \union {0}, url : Urls \union {Blank},
                            rotate : BOOLEAN, unique_id : Stripped \union {Blank},
                            serial : Serials \union {NoSerial},
                            staged : Datas \union {Nothing}]]

\* "If the URL changed here, the entry's unique_id must follow it" (finish step
\* of the options flow): whichever dialogs and discoveries wrote the entry, and in
\* whatever order they read it, its unique_id names the controller it talks to.
UniqueIdFollowsUrl ==
    \A e \in DOMAIN entries : Strip(entries[e].unique_id) = Strip(entries[e].url)

\* "Secret was rotated -- every URL pasted into Alarm Manager is now invalid.
\* Create a repair issue" (finish step of the options flow): no write changes an
\* entry's secret unreported, nor does a staged snapshot that takes back the
\* rotation of another dialog.
SecretChangeReported ==
    [][\A e \in DOMAIN entries \cap DOMAIN entries' :
          entries'[e].secret # entries[e].secret => entries'[e].rotated]_vars

\* async_step_reauth raises its issue "so users see a repair card even if the
\* standard reauth notification is missed": it stays as long as a reauth dialog of
\* the entry is unanswered, whatever other dialogs and reloads do meanwhile.
RepairCardWhileAsked ==
    \A f \in Flows : flows[f].kind = "reauth" => entries[flows[f].entry].reauth

\* docs/ALARM_MANAGER_SETUP.md on the rotation issue: "It clears itself
\* automatically once a valid webhook is received on the new secret", and so not
\* by one that still bears the old.
RotationIssueStays ==
    [][\A e \in DOMAIN entries \cap DOMAIN entries' :
          entries[e].rotated /\ entries[e].pasted # entries[e].secret
              => entries'[e].rotated]_vars
=============================================================================
