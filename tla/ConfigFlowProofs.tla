-------------------------- MODULE ConfigFlowProofs --------------------------
(***************************************************************************)
(* For any number of dialogs, entries, addresses and secrets: however the  *)
(* dialogs of config_flow.py interleave, an entry's unique_id names the    *)
(* controller it talks to, no secret changes unreported, and the card that *)
(* asks for a new key stays while it is asked for.                         *)
(***************************************************************************)
EXTENDS ConfigFlows, TLAPS

\* Of an entry, and of the dialogs, with n secrets made and D the ids in use.
EntryOf(n) ==
    [url : Urls, unique_id : Urls, secret : 1 .. n, serial : Serials \union {NoSerial},
     handler : 1 .. n, pasted : 1 .. n, reading : BOOLEAN, rotated : BOOLEAN, reauth : BOOLEAN]

DataOf(n) == [url : Urls, secret : 1 .. n, serial : Serials \union {NoSerial}]

DialogOf(n, D) ==
    [kind : {"none", "setup", "options", "reconfigure", "reauth"},
     step : {"none", "form", "validating", "categories", "finish"},
     entry : D \union {0}, url : Urls \union {Blank}, rotate : BOOLEAN,
     unique_id : Stripped \union {Blank}, serial : Serials \union {NoSerial},
     staged : DataOf(n) \union {Nothing}]

\* What a dialog d holds when it comes to write: an entry that is still there, and
\* a URL that its unique_id was made of.
Sound(d, D) ==
    /\ d.kind \in {"options", "reconfigure", "reauth"} => d.entry \in D
    /\ d.kind = "setup" /\ d.step = "validating" =>
           d.url \in Urls /\ d.unique_id = Strip(d.url)
    /\ d.kind = "setup" /\ d.step \in {"categories", "finish"} =>
           d.staged # Nothing /\ d.unique_id = Strip(d.staged.url)
    /\ d.kind \in {"options", "reconfigure"} /\ d.step = "validating" => d.url \in Urls

Counters == created \in 0 .. MaxEntries /\ secrets \in 0 .. MaxSecrets

EntriesSound ==
    /\ DOMAIN entries \subseteq 1 .. created
    /\ \A e \in DOMAIN entries :
           entries[e] \in EntryOf(secrets) /\ Strip(entries[e].unique_id) = Strip(entries[e].url)

FlowsSound ==
    /\ flows = [f \in Flows |-> flows[f]]
    /\ \A f \in Flows :
           flows[f] \in DialogOf(secrets, DOMAIN entries) /\ Sound(flows[f], DOMAIN entries)

\* A second reauth dialog would clear the card of the first.
OneReauth ==
    \A f, g \in Flows :
        flows[f].kind = "reauth" /\ flows[g].kind = "reauth" /\ flows[f].entry = flows[g].entry
            => f = g

FlowInv == Counters /\ EntriesSound /\ FlowsSound /\ OneReauth /\ RepairCardWhileAsked

-----------------------------------------------------------------------------
LEMMA InvGivesTypes == FlowInv => TypeOK
BY DEF FlowInv, Counters, EntriesSound, FlowsSound, TypeOK, EntryOf, DialogOf, DataOf, Datas, Made

LEMMA StripFacts ==
    /\ \A url \in Urls : Strip(url) \in Stripped /\ Strip(url) \in Urls /\ Strip(Strip(url)) = Strip(url)
    /\ Stripped \subseteq Urls
    /\ \A url \in Stripped : Strip(url) = url
BY DEF Strip, Urls, Stripped

\* More secrets and more entries leave what is there well typed.
LEMMA Grows ==
    ASSUME NEW n \in Nat, NEW m \in Nat, n <= m, NEW D, NEW E, D \subseteq E
    PROVE  /\ EntryOf(n) \subseteq EntryOf(m)
           /\ DataOf(n) \subseteq DataOf(m)
           /\ DialogOf(n, D) \subseteq DialogOf(m, E)
<1>1. 1 .. n \subseteq 1 .. m
  OBVIOUS
<1>2. EntryOf(n) \subseteq EntryOf(m)
  BY <1>1 DEF EntryOf
<1>3. DataOf(n) \subseteq DataOf(m)
  BY <1>1 DEF DataOf
<1>4. DialogOf(n, D) \subseteq DialogOf(m, E)
  <2> DEFINE A == DataOf(n) \union {Nothing}  B == DataOf(m) \union {Nothing}
  <2>1. A \subseteq B /\ D \union {0} \subseteq E \union {0}
    BY <1>3
  <2> HIDE DEF A, B
  <2> SUFFICES [kind : {"none", "setup", "options", "reconfigure", "reauth"},
     step : {"none", "form", "validating", "categories", "finish"},
     entry : D \union {0}, url : Urls \union {Blank}, rotate : BOOLEAN,
     unique_id : Stripped \union {Blank}, serial : Serials \union {NoSerial}, staged : A] \subseteq
     [kind : {"none", "setup", "options", "reconfigure", "reauth"},
     step : {"none", "form", "validating", "categories", "finish"},
     entry : E \union {0}, url : Urls \union {Blank}, rotate : BOOLEAN,
     unique_id : Stripped \union {Blank}, serial : Serials \union {NoSerial}, staged : B]
    BY DEF DialogOf, A, B
  <2> QED
    BY <2>1
<1> QED
  BY <1>2, <1>3, <1>4

LEMMA ClosedDialog ==
    ASSUME NEW n \in Nat, NEW D
    PROVE  Closed \in DialogOf(n, D) /\ Sound(Closed, D) /\ Closed.kind = "none"
BY DEF Closed, DialogOf, Sound

-----------------------------------------------------------------------------
\* A dialog moves on and writes no entry.
LEMMA DialogMoves ==
    ASSUME FlowInv, NEW f \in Flows, NEW d,
           flows' = [flows EXCEPT ![f] = d], UNCHANGED <<entries, created>>,
           secrets' \in 0 .. MaxSecrets, secrets' >= secrets,
           d \in DialogOf(secrets', DOMAIN entries), Sound(d, DOMAIN entries),
           d.kind = "reauth" => flows[f].kind = "reauth" /\ flows[f].entry = d.entry
    PROVE  FlowInv'
<1>1. secrets \in Nat /\ secrets' \in Nat
  BY FlowAssumption DEF FlowInv, Counters
<1>2. /\ EntryOf(secrets) \subseteq EntryOf(secrets')
      /\ DialogOf(secrets, DOMAIN entries) \subseteq DialogOf(secrets', DOMAIN entries)
  BY <1>1, Grows
<1>3. f \in DOMAIN flows /\ DOMAIN flows = Flows
  BY DEF FlowInv, FlowsSound
<1>4. flows'[f] = d /\ \A g \in Flows : g # f => flows'[g] = flows[g]
  BY <1>3
<1>5. flows' = [g \in Flows |-> flows'[g]]
  BY <1>3
<1>6. Counters' /\ EntriesSound'
  BY <1>2 DEF FlowInv, Counters, EntriesSound
<1>7. FlowsSound'
  <2>1. \A g \in Flows : flows[g] \in DialogOf(secrets', DOMAIN entries) /\ Sound(flows[g], DOMAIN entries)
    BY <1>2 DEF FlowInv, FlowsSound
  <2>2. \A g \in Flows : flows'[g] \in DialogOf(secrets', DOMAIN entries) /\ Sound(flows'[g], DOMAIN entries)
    BY <2>1, <1>4
  <2> QED
    BY <2>2, <1>5 DEF FlowsSound
<1>8. OneReauth'
  BY <1>4 DEF FlowInv, OneReauth
<1>9. RepairCardWhileAsked'
  BY <1>4 DEF FlowInv, RepairCardWhileAsked
<1> QED
  BY <1>6, <1>7, <1>8, <1>9 DEF FlowInv

\* The same, with no secret made.
LEMMA DialogTurns ==
    ASSUME FlowInv, NEW f \in Flows, NEW d,
           flows' = [flows EXCEPT ![f] = d], UNCHANGED <<entries, created, secrets>>,
           d \in DialogOf(secrets, DOMAIN entries), Sound(d, DOMAIN entries),
           d.kind = "reauth" => flows[f].kind = "reauth" /\ flows[f].entry = d.entry
    PROVE  FlowInv'
<1>1. secrets \in 0 .. MaxSecrets /\ secrets \in Nat
  BY FlowAssumption DEF FlowInv, Counters
<1>2. secrets' \in 0 .. MaxSecrets /\ secrets' >= secrets
  BY <1>1
<1>3. d \in DialogOf(secrets', DOMAIN entries)
  OBVIOUS
<1>4. UNCHANGED <<entries, created>>
  OBVIOUS
<1> QED
  BY <1>2, <1>3, <1>4, DialogMoves

\* Entries are written, none comes or goes, no card is cleared; dialogs may close.
LEMMA EntriesWritten ==
    ASSUME FlowInv, UNCHANGED <<created, secrets>>,
           DOMAIN entries' = DOMAIN entries,
           \A e \in DOMAIN entries :
               /\ entries'[e] \in EntryOf(secrets)
               /\ Strip(entries'[e].unique_id) = Strip(entries'[e].url)
               /\ entries[e].reauth => entries'[e].reauth,
           flows' = [g \in Flows |-> flows'[g]],
           \A g \in Flows : flows'[g] = flows[g] \/ flows'[g] = Closed
    PROVE  FlowInv'
<1>1. secrets \in Nat
  BY FlowAssumption DEF FlowInv, Counters
<1>2. Closed \in DialogOf(secrets, DOMAIN entries) /\ Sound(Closed, DOMAIN entries) /\ Closed.kind = "none"
  BY <1>1, ClosedDialog
<1>3. Counters' /\ EntriesSound'
  BY DEF FlowInv, Counters, EntriesSound
<1>4. FlowsSound'
  BY <1>2 DEF FlowInv, FlowsSound
<1>5. OneReauth'
  BY <1>2 DEF FlowInv, OneReauth
<1>6. RepairCardWhileAsked'
  <2> SUFFICES ASSUME NEW g \in Flows, flows'[g].kind = "reauth"
               PROVE  entries'[flows'[g].entry].reauth
    BY DEF RepairCardWhileAsked
  <2>1. flows'[g] = flows[g]
    BY <1>2
  <2>2. flows[g].entry \in DOMAIN entries /\ entries[flows[g].entry].reauth
    BY <2>1 DEF FlowInv, FlowsSound, Sound, RepairCardWhileAsked
  <2> QED
    BY <2>1, <2>2
<1> QED
  BY <1>3, <1>4, <1>5, <1>6 DEF FlowInv

\* One entry is written.
LEMMA EntryWritten ==
    ASSUME FlowInv, UNCHANGED <<created, secrets>>, NEW e \in DOMAIN entries, NEW v,
           entries' = [entries EXCEPT ![e] = v],
           v \in EntryOf(secrets), Strip(v.unique_id) = Strip(v.url),
           entries[e].reauth => v.reauth,
           flows' = flows \/ \E f \in Flows : Close(f)
    PROVE  FlowInv'
<1>1. /\ DOMAIN entries' = DOMAIN entries
      /\ entries'[e] = v
      /\ \A x \in DOMAIN entries : x # e => entries'[x] = entries[x]
  OBVIOUS
<1>2. /\ flows' = [g \in Flows |-> flows'[g]]
      /\ \A g \in Flows : flows'[g] = flows[g] \/ flows'[g] = Closed
  BY DEF FlowInv, FlowsSound, Close
<1>3. \A x \in DOMAIN entries :
          /\ entries'[x] \in EntryOf(secrets)
          /\ Strip(entries'[x].unique_id) = Strip(entries'[x].url)
          /\ entries[x].reauth => entries'[x].reauth
  BY <1>1 DEF FlowInv, EntriesSound
<1> QED
  BY <1>1, <1>2, <1>3, EntriesWritten

\* Dialogs close and nothing is written.
LEMMA DialogCloses ==
    ASSUME FlowInv, NEW f \in Flows, Close(f), UNCHANGED <<entries, created, secrets>>
    PROVE  FlowInv'
<1>1. secrets \in Nat
  BY FlowAssumption DEF FlowInv, Counters
<1>2. Closed \in DialogOf(secrets, DOMAIN entries) /\ Sound(Closed, DOMAIN entries) /\ Closed.kind = "none"
  BY <1>1, ClosedDialog
<1>3. flows' = [flows EXCEPT ![f] = Closed] /\ secrets' = secrets /\ secrets' >= secrets
  BY <1>1 DEF Close
<1>4. secrets' \in 0 .. MaxSecrets
  BY <1>3 DEF FlowInv, Counters
<1> QED
  BY <1>2, <1>3, <1>4, DialogMoves

LEMMA AtDialog ==
    ASSUME FlowInv, NEW f \in Flows
    PROVE  /\ flows[f] \in DialogOf(secrets, DOMAIN entries)
           /\ Sound(flows[f], DOMAIN entries)
           /\ DOMAIN flows = Flows
           /\ secrets \in Nat /\ secrets \in 0 .. MaxSecrets
           /\ DOMAIN entries \subseteq Nat \ {0}
<1>1. DOMAIN entries \subseteq 1 .. created /\ created \in Nat
  BY FlowAssumption DEF FlowInv, EntriesSound, Counters
<1> QED
  BY <1>1, FlowAssumption DEF FlowInv, FlowsSound, Counters

LEMMA AtEntry ==
    ASSUME FlowInv, NEW e \in DOMAIN entries
    PROVE  entries[e] \in EntryOf(secrets) /\ Strip(entries[e].unique_id) = Strip(entries[e].url)
BY DEF FlowInv, EntriesSound

-----------------------------------------------------------------------------
\* The dialogs' steps that write no entry.

LEMMA StartSetupStep ==
    ASSUME FlowInv, NEW f \in Flows, StartSetup(f) PROVE FlowInv'
<1> DEFINE d == [Closed EXCEPT !.kind = "setup", !.step = "form"]
<1>1. d \in DialogOf(secrets, DOMAIN entries) /\ Sound(d, DOMAIN entries) /\ d.kind # "reauth"
  BY DEF DialogOf, Sound, Closed
<1>2. flows' = [flows EXCEPT ![f] = d] /\ UNCHANGED <<entries, created, secrets>>
  BY DEF StartSetup
<1> HIDE DEF d
<1> QED
  BY <1>1, <1>2, DialogTurns

LEMMA SubmitSetupStep ==
    ASSUME FlowInv, NEW f \in Flows, NEW url \in Urls, SubmitSetup(f, url) PROVE FlowInv'
<1>1. CASE Close(f)
  BY <1>1, DialogCloses DEF SubmitSetup
<1>2. CASE ~Close(f)
  <2> DEFINE d == [flows[f] EXCEPT !.step = "validating", !.url = url, !.unique_id = Strip(url)]
  <2>1. flows' = [flows EXCEPT ![f] = d] /\ UNCHANGED <<entries, created, secrets>>
    BY <1>2, AtDialog DEF SubmitSetup
  <2>2. d \in DialogOf(secrets, DOMAIN entries) /\ d.kind = "setup" /\ d.step = "validating"
        /\ d.url = url /\ d.unique_id = Strip(url)
    BY AtDialog, StripFacts DEF DialogOf, SubmitSetup
  <2>3. Sound(d, DOMAIN entries)
    BY <2>2 DEF Sound
  <2> HIDE DEF d
  <2> QED
    BY <2>1, <2>2, <2>3, DialogTurns
<1> QED
  BY <1>1, <1>2

LEMMA SetupValidatedStep ==
    ASSUME FlowInv, NEW f \in Flows, SetupValidated(f) PROVE FlowInv'
<1> DEFINE data == [url |-> flows[f].url, secret |-> secrets', serial |-> flows[f].serial]
           d == [flows[f] EXCEPT !.step = "categories", !.staged = data]
<1>1. flows' = [flows EXCEPT ![f] = d] /\ UNCHANGED <<entries, created>>
  BY AtDialog DEF SetupValidated
<1>2. secrets' = secrets + 1 /\ secrets' \in 0 .. MaxSecrets /\ secrets' \in Nat /\ secrets' >= secrets
  BY AtDialog, FlowAssumption DEF SetupValidated
<1>3. flows[f] \in DialogOf(secrets', DOMAIN entries)
  BY <1>2, AtDialog, Grows
<1>4. flows[f].url \in Urls /\ flows[f].unique_id = Strip(flows[f].url) /\ flows[f].kind = "setup"
  BY AtDialog DEF Sound, SetupValidated
<1>5. data \in DataOf(secrets') /\ data.url = flows[f].url /\ data # Nothing
  <2>1. secrets' \in 1 .. secrets' /\ secrets' # 0
    BY <1>2, AtDialog
  <2>2. flows[f].serial \in Serials \union {NoSerial}
    BY <1>3 DEF DialogOf
  <2>3. data \in DataOf(secrets') /\ data.url = flows[f].url
    BY <2>1, <2>2, <1>4 DEF DataOf
  <2>4. data.secret # Nothing.secret
    BY <2>1 DEF Nothing, NoSecret
  <2> QED
    BY <2>3, <2>4
<1>6. /\ d.kind = "setup" /\ d.step = "categories" /\ d.staged = data
      /\ d.unique_id = flows[f].unique_id
  BY <1>3, <1>4 DEF DialogOf
<1>7. Sound(d, DOMAIN entries)
  BY <1>4, <1>5, <1>6 DEF Sound
<1>8. d \in DialogOf(secrets', DOMAIN entries)
  <2> HIDE DEF data
  <2> QED BY <1>3, <1>5 DEF DialogOf
<1> HIDE DEF data, d
<1>9. d.kind = "reauth" => flows[f].kind = "reauth" /\ flows[f].entry = d.entry
  BY <1>6
<1>10. UNCHANGED <<entries, created>>
  BY <1>1
<1>11. secrets' \in 0 .. MaxSecrets /\ secrets' >= secrets
  BY <1>2
<1> QED
  BY <1>1, <1>7, <1>8, <1>9, <1>10, <1>11, DialogMoves

LEMMA SubmitCategoriesStep ==
    ASSUME FlowInv, NEW f \in Flows, SubmitCategories(f) PROVE FlowInv'
<1> DEFINE d == [flows[f] EXCEPT !.step = "finish"]
<1>1. flows' = [flows EXCEPT ![f] = d] /\ UNCHANGED <<entries, created, secrets>>
  BY AtDialog DEF SubmitCategories
<1>2. d \in DialogOf(secrets, DOMAIN entries)
  BY AtDialog DEF DialogOf
<1>3. /\ d.kind = flows[f].kind /\ d.entry = flows[f].entry /\ d.staged = flows[f].staged
      /\ d.unique_id = flows[f].unique_id /\ d.step = "finish" /\ flows[f].step = "categories"
  BY AtDialog DEF DialogOf, SubmitCategories
<1>4. Sound(d, DOMAIN entries)
  BY <1>3, AtDialog DEF Sound
<1> HIDE DEF d
<1> QED
  BY <1>1, <1>2, <1>3, <1>4, DialogTurns

LEMMA StartStep ==
    ASSUME FlowInv, NEW f \in Flows, NEW kind \in {"options", "reconfigure"},
           NEW e \in DOMAIN entries, Start(f, kind, e)
    PROVE  FlowInv'
<1> DEFINE d == [Closed EXCEPT !.kind = kind, !.step = "form", !.entry = e]
<1>1. d \in DialogOf(secrets, DOMAIN entries) /\ Sound(d, DOMAIN entries) /\ d.kind # "reauth"
  BY DEF DialogOf, Sound, Closed
<1>2. flows' = [flows EXCEPT ![f] = d] /\ UNCHANGED <<entries, created, secrets>>
  BY DEF Start
<1> HIDE DEF d
<1> QED
  BY <1>1, <1>2, DialogTurns

LEMMA SubmitCredentialsStep ==
    ASSUME FlowInv, NEW f \in Flows, NEW typed \in Urls \union {Blank}, NEW rotate \in BOOLEAN,
           SubmitCredentials(f, typed, rotate)
    PROVE  FlowInv'
<1> DEFINE url == IF typed = Blank THEN entries[flows[f].entry].url ELSE Strip(typed)
           d == [flows[f] EXCEPT !.step = "validating", !.rotate = rotate, !.url = url]
<1>1. flows' = [flows EXCEPT ![f] = d] /\ UNCHANGED <<entries, created, secrets>>
  BY AtDialog DEF SubmitCredentials
<1>2. flows[f].kind \in {"options", "reconfigure"} /\ flows[f].entry \in DOMAIN entries
  BY AtDialog DEF SubmitCredentials, Sound
<1>3. url \in Urls
  BY <1>2, AtEntry, StripFacts DEF EntryOf
<1> HIDE DEF url
<1>4. d \in DialogOf(secrets, DOMAIN entries)
  BY <1>3, AtDialog DEF DialogOf
<1>5. /\ d.kind = flows[f].kind /\ d.entry = flows[f].entry /\ d.url = url
  BY AtDialog DEF DialogOf
<1>6. Sound(d, DOMAIN entries)
  BY <1>2, <1>3, <1>5 DEF Sound
<1> HIDE DEF d
<1> QED
  BY <1>1, <1>2, <1>4, <1>5, <1>6, DialogTurns

LEMMA DataType ==
    ASSUME FlowInv, NEW e \in DOMAIN entries
    PROVE  Data(e) \in DataOf(secrets)
BY AtEntry DEF Data, DataOf, EntryOf

LEMMA SubmitNoCredentialsStep ==
    ASSUME FlowInv, NEW f \in Flows, SubmitNoCredentials(f) PROVE FlowInv'
<1>1. /\ flows[f].kind = "options" /\ flows[f].entry \in DOMAIN entries
      /\ UNCHANGED <<entries, created>>
  BY AtDialog DEF SubmitNoCredentials, Sound
<1> DEFINE data == Data(flows[f].entry)
<1>2. data \in DataOf(secrets)
  BY <1>1, DataType
<1>3. ASSUME secrets < MaxSecrets, secrets' = secrets + 1,
             flows' = [flows EXCEPT ![f].step = "categories", ![f].rotate = TRUE,
                                    ![f].staged = [data EXCEPT !.secret = secrets']]
      PROVE  FlowInv'
  <2> DEFINE d == [flows[f] EXCEPT !.step = "categories", !.rotate = TRUE,
                                   !.staged = [data EXCEPT !.secret = secrets']]
  <2>1. secrets' \in 0 .. MaxSecrets /\ secrets' \in Nat /\ secrets' >= secrets
    BY <1>3, AtDialog, FlowAssumption
  <2>2. flows[f] \in DialogOf(secrets', DOMAIN entries) /\ data \in DataOf(secrets')
    BY <2>1, <1>2, AtDialog, Grows
  <2>3. flows' = [flows EXCEPT ![f] = d]
    BY <1>3, AtDialog
  <2> HIDE DEF data
  <2>4. [data EXCEPT !.secret = secrets'] \in DataOf(secrets')
    BY <2>1, <2>2, <1>3, AtDialog DEF DataOf
  <2>5. d \in DialogOf(secrets', DOMAIN entries)
    BY <2>2, <2>4 DEF DialogOf
  <2>6. d.kind = "options" /\ d.step = "categories" /\ d.entry = flows[f].entry
    BY <2>2, <1>1 DEF DialogOf
  <2>7. Sound(d, DOMAIN entries)
    BY <2>6, <1>1 DEF Sound
  <2>8. d.kind = "reauth" => flows[f].kind = "reauth" /\ flows[f].entry = d.entry
    BY <2>6
  <2> HIDE DEF d
  <2> QED
    BY <2>1, <2>3, <2>5, <2>7, <2>8, <1>1, DialogMoves
<1>4. ASSUME NEW staged \in {Nothing, data}, secrets' = secrets,
             flows' = [flows EXCEPT ![f].step = "categories", ![f].staged = staged]
      PROVE  FlowInv'
  <2> DEFINE d == [flows[f] EXCEPT !.step = "categories", !.staged = staged]
  <2>1. flows' = [flows EXCEPT ![f] = d] /\ UNCHANGED <<entries, created, secrets>>
    BY <1>1, <1>4, AtDialog
  <2>2. staged \in DataOf(secrets) \union {Nothing}
    BY <1>2
  <2>3. d \in DialogOf(secrets, DOMAIN entries)
    BY <2>2, AtDialog DEF DialogOf
  <2>4. d.kind = "options" /\ d.step = "categories" /\ d.entry = flows[f].entry
    BY <1>1, AtDialog DEF DialogOf
  <2>5. Sound(d, DOMAIN entries)
    BY <2>4, <1>1 DEF Sound
  <2> HIDE DEF d
  <2> QED
    BY <2>1, <2>3, <2>4, <2>5, DialogTurns
<1> QED
  BY <1>3, <1>4 DEF SubmitNoCredentials

LEMMA OptionsValidatedStep ==
    ASSUME FlowInv, NEW f \in Flows, OptionsValidated(f) PROVE FlowInv'
<1>1. /\ flows[f].kind = "options" /\ flows[f].entry \in DOMAIN entries
      /\ flows[f].url \in Urls /\ UNCHANGED <<entries, created>>
  BY AtDialog DEF OptionsValidated, Sound
<1>2. /\ secrets' \in 0 .. MaxSecrets /\ secrets' \in Nat /\ secrets' >= secrets
      /\ flows[f].rotate \in BOOLEAN
      /\ flows[f].rotate => secrets' = secrets + 1
  BY AtDialog, FlowAssumption DEF OptionsValidated, DialogOf
<1> DEFINE data == Data(flows[f].entry)
           secret == IF flows[f].rotate THEN secrets' ELSE data.secret
           new == [data EXCEPT !.url = flows[f].url, !.secret = secret]
           d == [flows[f] EXCEPT !.step = "categories", !.url = Blank, !.staged = new]
<1>3. flows' = [flows EXCEPT ![f] = d]
  BY AtDialog DEF OptionsValidated, Data
<1>4. flows[f] \in DialogOf(secrets', DOMAIN entries) /\ data \in DataOf(secrets')
  BY <1>1, <1>2, DataType, AtDialog, Grows
<1> HIDE DEF data
<1>5. secret \in 1 .. secrets'
  BY <1>2, <1>4, AtDialog DEF DataOf
<1> HIDE DEF secret
<1>6. new \in DataOf(secrets')
  BY <1>1, <1>4, <1>5 DEF DataOf
<1> HIDE DEF new
<1>7. d \in DialogOf(secrets', DOMAIN entries)
  BY <1>4, <1>6 DEF DialogOf
<1>8. d.kind = "options" /\ d.step = "categories" /\ d.entry = flows[f].entry
  BY <1>1, <1>4 DEF DialogOf
<1>9. Sound(d, DOMAIN entries)
  BY <1>1, <1>8 DEF Sound
<1> HIDE DEF d
<1> QED
  BY <1>1, <1>2, <1>3, <1>7, <1>8, <1>9, DialogMoves

LEMMA SubmitReauthStep ==
    ASSUME FlowInv, NEW f \in Flows, SubmitReauth(f) PROVE FlowInv'
<1> DEFINE d == [flows[f] EXCEPT !.step = "validating"]
<1>1. flows' = [flows EXCEPT ![f] = d] /\ UNCHANGED <<entries, created, secrets>>
  BY AtDialog DEF SubmitReauth
<1>2. d \in DialogOf(secrets, DOMAIN entries)
  BY AtDialog DEF DialogOf
<1>3. d.kind = "reauth" /\ flows[f].kind = "reauth" /\ d.entry = flows[f].entry
  BY AtDialog DEF DialogOf, SubmitReauth
<1>4. Sound(d, DOMAIN entries)
  BY <1>3, AtDialog DEF Sound
<1> HIDE DEF d
<1> QED
  BY <1>1, <1>2, <1>3, <1>4, DialogTurns

LEMMA ValidationFailsStep ==
    ASSUME FlowInv, NEW f \in Flows, ValidationFails(f) PROVE FlowInv'
<1> DEFINE d == [flows[f] EXCEPT !.step = "form", !.url = Blank, !.rotate = FALSE]
<1>1. flows' = [flows EXCEPT ![f] = d] /\ UNCHANGED <<entries, created, secrets>>
  BY AtDialog DEF ValidationFails
<1>2. d \in DialogOf(secrets, DOMAIN entries)
  BY AtDialog DEF DialogOf
<1>3. d.kind = flows[f].kind /\ d.entry = flows[f].entry /\ d.step = "form"
  BY AtDialog DEF DialogOf
<1>4. Sound(d, DOMAIN entries)
  BY <1>3, AtDialog DEF Sound
<1> HIDE DEF d
<1> QED
  BY <1>1, <1>2, <1>3, <1>4, DialogTurns

-----------------------------------------------------------------------------
\* The steps that write an entry.

LEMMA DiscoverStep ==
    ASSUME FlowInv, NEW f \in Flows, NEW host \in Hosts, NEW s \in Serials, Discover(f, host, s)
    PROVE  FlowInv'
<1> DEFINE url == [host |-> host, slash |-> FALSE]
           found == Min(WithSerial(s))
<1>1. url \in Urls /\ url \in Stripped
  BY DEF Urls, Stripped
<1>2. CASE WithSerial(s) # {} /\ entries[found].url # url
  <2>1. /\ entries' = [entries EXCEPT ![found].url = url, ![found].unique_id = url]
        /\ UNCHANGED <<flows, created, secrets>>
    BY <1>2 DEF Discover
  <2>2. CASE found \in DOMAIN entries
    <3> DEFINE v == [entries[found] EXCEPT !.url = url, !.unique_id = url]
    <3> HIDE DEF url, found
    <3>1. entries' = [entries EXCEPT ![found] = v]
      BY <2>1, <2>2
    <3>2. /\ v \in EntryOf(secrets) /\ v.unique_id = v.url
          /\ v.reauth = entries[found].reauth
      BY <1>1, <2>2, AtEntry DEF EntryOf
    <3> HIDE DEF v
    <3> QED
      BY <2>1, <2>2, <3>1, <3>2, EntryWritten
  <2>3. CASE found \notin DOMAIN entries
    <3> HIDE DEF url, found
    <3>1. DOMAIN entries' = DOMAIN entries /\ \A e \in DOMAIN entries : entries'[e] = entries[e]
      BY <2>1, <2>3
    <3>2. \A e \in DOMAIN entries :
              /\ entries'[e] \in EntryOf(secrets)
              /\ Strip(entries'[e].unique_id) = Strip(entries'[e].url)
              /\ entries[e].reauth => entries'[e].reauth
      BY <3>1, AtEntry
    <3>3. flows' = [g \in Flows |-> flows'[g]] /\ \A g \in Flows : flows'[g] = flows[g]
      BY <2>1 DEF FlowInv, FlowsSound
    <3> QED
      BY <2>1, <3>1, <3>2, <3>3, EntriesWritten
  <2> QED
    BY <2>2, <2>3
<1>3. CASE ~(WithSerial(s) # {} /\ entries[found].url # url)
  <2> DEFINE d == [Closed EXCEPT !.kind = "setup", !.step = "form", !.unique_id = url, !.serial = s]
  <2>1. flows' = [flows EXCEPT ![f] = d] /\ UNCHANGED <<entries, created, secrets>>
    BY <1>3 DEF Discover
  <2> HIDE DEF url
  <2>2. d \in DialogOf(secrets, DOMAIN entries) /\ Sound(d, DOMAIN entries) /\ d.kind # "reauth"
    BY <1>1 DEF DialogOf, Sound, Closed
  <2> HIDE DEF d
  <2> QED
    BY <2>1, <2>2, DialogTurns
<1> QED
  BY <1>2, <1>3

LEMMA ReconfigureValidatedStep ==
    ASSUME FlowInv, NEW f \in Flows, ReconfigureValidated(f) PROVE FlowInv'
<1> DEFINE e == flows[f].entry
           url == flows[f].url
           v == [entries[e] EXCEPT !.url = url,
                     !.unique_id = IF url # entries[e].url THEN url ELSE @]
<1>1. e \in DOMAIN entries /\ url \in Urls
  BY AtDialog DEF ReconfigureValidated, Sound
<1>2. /\ entries' = [entries EXCEPT ![e] = v]
      /\ Close(f) /\ UNCHANGED <<created, secrets>>
  BY <1>1 DEF ReconfigureValidated
<1> HIDE DEF e, url
<1>3. v \in EntryOf(secrets) /\ v.reauth = entries[e].reauth
  BY <1>1, AtEntry DEF EntryOf
<1>4. Strip(v.unique_id) = Strip(v.url)
  <2>1. v.url = url /\ v.unique_id = IF url # entries[e].url THEN url ELSE entries[e].unique_id
    BY <1>1, AtEntry DEF EntryOf
  <2> QED
    BY <2>1, <1>1, AtEntry
<1> HIDE DEF v
<1> QED
  BY <1>1, <1>2, <1>3, <1>4, EntryWritten

LEMMA FinishOptionsStep ==
    ASSUME FlowInv, NEW f \in Flows, FinishOptions(f) PROVE FlowInv'
<1>1. CASE flows[f].staged = Nothing
  BY <1>1, DialogCloses DEF FinishOptions
<1>2. CASE flows[f].staged # Nothing
  <2> DEFINE e == flows[f].entry
             new == flows[f].staged
             v == [entries[e] EXCEPT
                      !.url = new.url, !.secret = new.secret, !.serial = new.serial,
                      !.rotated = @ \/ SecretChanges(f),
                      !.unique_id = IF UrlChanges(f) THEN new.url ELSE @]
  <2>1. e \in DOMAIN entries
    BY AtDialog DEF FinishOptions, Sound
  <2>2. new \in DataOf(secrets)
    BY <1>2, AtDialog DEF DialogOf
  <2>3. /\ entries' = [entries EXCEPT ![e] = v]
        /\ Close(f) /\ UNCHANGED <<created, secrets>>
    BY <1>2, <2>1 DEF FinishOptions
  <2>4. UrlChanges(f) <=> new.url # entries[e].url
    BY DEF UrlChanges
  <2> HIDE DEF e, new
  <2>5. v \in EntryOf(secrets) /\ v.reauth = entries[e].reauth
    BY <2>1, <2>2, AtEntry DEF EntryOf, DataOf
  <2>6. v.url = new.url /\ v.unique_id = IF UrlChanges(f) THEN new.url ELSE entries[e].unique_id
    BY <2>1, AtEntry DEF EntryOf
  <2>7. Strip(v.unique_id) = Strip(v.url)
    BY <2>1, <2>4, <2>6, AtEntry
  <2> HIDE DEF v
  <2> QED
    BY <2>1, <2>3, <2>5, <2>7, EntryWritten
<1> QED
  BY <1>1, <1>2

LEMMA WebhookStep ==
    ASSUME FlowInv, NEW e \in DOMAIN entries, Webhook(e) PROVE FlowInv'
<1>1. \E v : /\ entries' = [entries EXCEPT ![e] = v]
             /\ v \in EntryOf(secrets)
             /\ v.url = entries[e].url /\ v.unique_id = entries[e].unique_id
             /\ v.reauth = entries[e].reauth
  <2>1. CASE Reload(e)
    <3> WITNESS [entries[e] EXCEPT !.handler = entries[e].secret]
    <3> QED
      BY <2>1, AtEntry DEF Reload, EntryOf
  <2>2. CASE Paste(e)
    <3> WITNESS [entries[e] EXCEPT !.pasted = entries[e].secret]
    <3> QED
      BY <2>2, AtEntry DEF Paste, EntryOf
  <2>3. CASE Request(e)
    <3> WITNESS [entries[e] EXCEPT !.reading = TRUE]
    <3> QED
      BY <2>3, AtEntry DEF Request, EntryOf
  <2>4. CASE BodyRead(e)
    <3>1. PICK valid \in BOOLEAN :
              entries' = [entries EXCEPT ![e].reading = FALSE, ![e].rotated = @ /\ ~valid]
      BY <2>4 DEF BodyRead
    <3> WITNESS [entries[e] EXCEPT !.reading = FALSE, !.rotated = @ /\ ~valid]
    <3> QED
      BY <3>1, AtEntry DEF EntryOf
  <2> QED
    BY <2>1, <2>2, <2>3, <2>4 DEF Webhook
<1>2. UNCHANGED <<flows, created, secrets>>
  BY DEF Webhook, Reload, Paste, Request, BodyRead
<1>3. PICK v : /\ entries' = [entries EXCEPT ![e] = v]
               /\ v \in EntryOf(secrets)
               /\ v.url = entries[e].url /\ v.unique_id = entries[e].unique_id
               /\ v.reauth = entries[e].reauth
  BY <1>1
<1> QED
  BY <1>2, <1>3, AtEntry, EntryWritten

\* HA takes the entry that bore the unique_id away, and its dialogs with it.
LEMMA CreateStep ==
    ASSUME FlowInv, NEW f \in Flows, Create(f) PROVE FlowInv'
<1> DEFINE same == {e \in DOMAIN entries : entries[e].unique_id = flows[f].unique_id}
           replaced == IF same = {} THEN 0 ELSE Min(same)
           data == flows[f].staged
           new == [url |-> data.url, unique_id |-> flows[f].unique_id,
                   secret |-> data.secret, serial |-> data.serial,
                   handler |-> data.secret, pasted |-> data.secret,
                   reading |-> FALSE, rotated |-> FALSE, reauth |-> FALSE]
<1>1. /\ created' = created + 1 /\ created < MaxEntries /\ secrets' = secrets
      /\ entries' = [e \in (DOMAIN entries \ {replaced}) \union {created'} |->
                         IF e = created' THEN new ELSE entries[e]]
      /\ flows' = [g \in Flows |->
             IF g = f \/ (replaced # 0 /\ flows[g].entry = replaced) THEN Closed ELSE flows[g]]
      /\ flows[f].kind = "setup" /\ flows[f].step = "finish"
  BY DEF Create
<1> HIDE DEF replaced
<1>2. /\ created \in Nat /\ created' \in 1 .. MaxEntries /\ 1 .. created \subseteq 1 .. created'
      /\ created' \notin 1 .. created /\ created' # 0
  BY <1>1, FlowAssumption DEF FlowInv, Counters
<1>3. DOMAIN entries \subseteq 1 .. created /\ created' \notin DOMAIN entries
  BY <1>2 DEF FlowInv, EntriesSound
<1>4. /\ data \in DataOf(secrets) /\ flows[f].unique_id = Strip(data.url)
      /\ data.url \in Urls
  BY <1>1, AtDialog DEF Sound, DialogOf, DataOf
<1> HIDE DEF data
<1>5. flows[f].unique_id \in Urls /\ Strip(flows[f].unique_id) = Strip(data.url)
  BY <1>4, StripFacts
<1>6. /\ new \in EntryOf(secrets) /\ Strip(new.unique_id) = Strip(new.url)
  BY <1>4, <1>5 DEF EntryOf, DataOf
<1> HIDE DEF new
<1>7. /\ DOMAIN entries' = (DOMAIN entries \ {replaced}) \union {created'}
      /\ entries'[created'] = new
      /\ \A e \in DOMAIN entries \ {replaced} : entries'[e] = entries[e]
  BY <1>1, <1>3
<1>8. EntriesSound'
  <2>1. DOMAIN entries' \subseteq 1 .. created'
    BY <1>2, <1>3, <1>7
  <2>2. \A e \in DOMAIN entries' :
            entries'[e] \in EntryOf(secrets) /\ Strip(entries'[e].unique_id) = Strip(entries'[e].url)
    <3> SUFFICES ASSUME NEW e \in DOMAIN entries'
                 PROVE  entries'[e] \in EntryOf(secrets)
                        /\ Strip(entries'[e].unique_id) = Strip(entries'[e].url)
      OBVIOUS
    <3>1. CASE e = created'
      BY <3>1, <1>6, <1>7
    <3>2. CASE e # created'
      <4>1. e \in DOMAIN entries /\ entries'[e] = entries[e]
        BY <3>2, <1>7
      <4> QED
        BY <4>1, AtEntry
    <3> QED
      BY <3>1, <3>2
  <2> QED
    BY <2>1, <2>2, <1>1 DEF EntriesSound
<1>9. Counters'
  BY <1>1, <1>2 DEF FlowInv, Counters
<1>10. \A g \in Flows :
           \/ flows'[g] = Closed
           \/ /\ flows'[g] = flows[g]
              /\ flows[g].entry # 0 => flows[g].entry \in DOMAIN entries \ {replaced}
  <2> SUFFICES ASSUME NEW g \in Flows, flows'[g] # Closed
               PROVE  /\ flows'[g] = flows[g]
                      /\ flows[g].entry # 0 => flows[g].entry \in DOMAIN entries \ {replaced}
    OBVIOUS
  <2>1. flows'[g] = flows[g] /\ ~(replaced # 0 /\ flows[g].entry = replaced)
    BY <1>1
  <2>2. flows[g].entry \in DOMAIN entries \union {0}
    BY AtDialog DEF DialogOf
  <2> QED
    BY <2>1, <2>2
<1>11. Closed \in DialogOf(secrets, DOMAIN entries') /\ Sound(Closed, DOMAIN entries') /\ Closed.kind = "none"
  BY AtDialog, ClosedDialog
<1>12. FlowsSound'
  <2> SUFFICES ASSUME NEW g \in Flows
               PROVE  flows'[g] \in DialogOf(secrets, DOMAIN entries') /\ Sound(flows'[g], DOMAIN entries')
    BY <1>1 DEF FlowsSound
  <2>1. CASE flows'[g] = Closed
    BY <2>1, <1>11
  <2>2. CASE flows'[g] # Closed
    <3>1. /\ flows'[g] = flows[g]
          /\ flows[g].entry # 0 => flows[g].entry \in DOMAIN entries'
      BY <2>2, <1>7, <1>10
    <3>2. flows[g] \in DialogOf(secrets, DOMAIN entries) /\ Sound(flows[g], DOMAIN entries)
      BY AtDialog
    <3>3. flows[g] \in DialogOf(secrets, DOMAIN entries')
      BY <3>1, <3>2 DEF DialogOf
    <3>4. 0 \notin DOMAIN entries
      BY AtDialog
    <3>5. Sound(flows[g], DOMAIN entries')
      BY <3>1, <3>2, <3>4 DEF Sound
    <3> QED
      BY <3>1, <3>3, <3>5
  <2> QED
    BY <2>1, <2>2
<1>13. OneReauth'
  BY <1>10, <1>11 DEF FlowInv, OneReauth
<1>14. RepairCardWhileAsked'
  <2> SUFFICES ASSUME NEW g \in Flows, flows'[g].kind = "reauth"
               PROVE  entries'[flows'[g].entry].reauth
    BY DEF RepairCardWhileAsked
  <2>1. /\ flows'[g] = flows[g]
        /\ flows[g].entry # 0 => flows[g].entry \in DOMAIN entries \ {replaced}
    BY <1>10, <1>11
  <2>2. flows[g].entry \in DOMAIN entries /\ 0 \notin DOMAIN entries
    BY <2>1, AtDialog DEF Sound
  <2>3. entries[flows[g].entry].reauth
    BY <2>1 DEF FlowInv, RepairCardWhileAsked
  <2> QED
    BY <2>1, <2>2, <2>3, <1>7
<1> QED
  BY <1>8, <1>9, <1>12, <1>13, <1>14 DEF FlowInv

LEMMA RejectStep ==
    ASSUME FlowInv, NEW f \in Flows, NEW e \in DOMAIN entries, Reject(f, e) PROVE FlowInv'
<1> DEFINE d == [Closed EXCEPT !.kind = "reauth", !.step = "form", !.entry = e]
           v == [entries[e] EXCEPT !.reauth = TRUE]
<1>1. /\ flows' = [flows EXCEPT ![f] = d] /\ entries' = [entries EXCEPT ![e] = v]
      /\ UNCHANGED <<created, secrets>>
      /\ \A g \in Flows : ~(flows[g].entry = e /\ flows[g].kind = "reauth")
  BY DEF Reject
<1>2. /\ d \in DialogOf(secrets, DOMAIN entries) /\ Sound(d, DOMAIN entries)
      /\ d.kind = "reauth" /\ d.entry = e
  BY DEF DialogOf, Sound, Closed
<1>3. /\ v \in EntryOf(secrets) /\ v.reauth
      /\ v.url = entries[e].url /\ v.unique_id = entries[e].unique_id
  BY AtEntry DEF EntryOf
<1> HIDE DEF d, v
<1>4. /\ DOMAIN entries' = DOMAIN entries /\ entries'[e] = v
      /\ \A x \in DOMAIN entries : x # e => entries'[x] = entries[x]
  BY <1>1
<1>5. flows'[f] = d /\ \A g \in Flows : g # f => flows'[g] = flows[g]
  BY <1>1, AtDialog
<1>6. EntriesSound'
  BY <1>1, <1>3, <1>4 DEF FlowInv, EntriesSound
<1>7. flows' = [g \in Flows |-> flows'[g]]
  BY <1>1, AtDialog
<1>8. \A g \in Flows : flows'[g] \in DialogOf(secrets, DOMAIN entries) /\ Sound(flows'[g], DOMAIN entries)
  BY <1>2, <1>5, AtDialog
<1>9. FlowsSound'
  BY <1>1, <1>4, <1>7, <1>8 DEF FlowsSound
<1>10. OneReauth'
  BY <1>1, <1>2, <1>5 DEF FlowInv, OneReauth
<1>11. RepairCardWhileAsked'
  <2> SUFFICES ASSUME NEW g \in Flows, flows'[g].kind = "reauth"
               PROVE  entries'[flows'[g].entry].reauth
    BY DEF RepairCardWhileAsked
  <2>1. CASE flows'[g].entry = e
    BY <2>1, <1>3, <1>4
  <2>2. CASE flows'[g].entry # e
    <3>1. flows'[g] = flows[g]
      BY <2>2, <1>2, <1>5
    <3>2. flows[g].entry \in DOMAIN entries /\ entries[flows[g].entry].reauth
      BY <3>1, AtDialog DEF Sound, FlowInv, RepairCardWhileAsked
    <3> QED
      BY <2>2, <3>1, <3>2, <1>4
  <2> QED
    BY <2>1, <2>2
<1> QED
  BY <1>1, <1>6, <1>9, <1>10, <1>11 DEF FlowInv, Counters

LEMMA ReauthValidatedStep ==
    ASSUME FlowInv, NEW f \in Flows, ReauthValidated(f) PROVE FlowInv'
<1> DEFINE e == flows[f].entry
           v == [entries[e] EXCEPT !.handler = entries[e].secret, !.reauth = FALSE]
<1>1. e \in DOMAIN entries /\ flows[f].kind = "reauth"
  BY AtDialog DEF ReauthValidated, Sound
<1>2. /\ flows' = [flows EXCEPT ![f] = Closed] /\ entries' = [entries EXCEPT ![e] = v]
      /\ UNCHANGED <<created, secrets>>
  BY <1>1 DEF ReauthValidated, Close
<1>3. /\ v \in EntryOf(secrets)
      /\ v.url = entries[e].url /\ v.unique_id = entries[e].unique_id
  BY <1>1, AtEntry DEF EntryOf
<1> HIDE DEF v
<1>4. /\ DOMAIN entries' = DOMAIN entries /\ entries'[e] = v
      /\ \A x \in DOMAIN entries : x # e => entries'[x] = entries[x]
  BY <1>1, <1>2
<1>5. flows'[f] = Closed /\ \A g \in Flows : g # f => flows'[g] = flows[g]
  BY <1>2, AtDialog
<1>6. Closed \in DialogOf(secrets, DOMAIN entries) /\ Sound(Closed, DOMAIN entries) /\ Closed.kind = "none"
  BY AtDialog, ClosedDialog
<1>7. EntriesSound'
  BY <1>1, <1>2, <1>3, <1>4 DEF FlowInv, EntriesSound
<1>8. flows' = [g \in Flows |-> flows'[g]]
  BY <1>2, AtDialog
<1>9. \A g \in Flows : flows'[g] \in DialogOf(secrets, DOMAIN entries) /\ Sound(flows'[g], DOMAIN entries)
  BY <1>5, <1>6, AtDialog
<1>10. FlowsSound'
  BY <1>2, <1>4, <1>8, <1>9 DEF FlowsSound
<1>11. OneReauth'
  BY <1>5, <1>6 DEF FlowInv, OneReauth
<1>12. RepairCardWhileAsked'
  <2> SUFFICES ASSUME NEW g \in Flows, flows'[g].kind = "reauth"
               PROVE  entries'[flows'[g].entry].reauth
    BY DEF RepairCardWhileAsked
  <2>1. g # f /\ flows'[g] = flows[g]
    BY <1>5, <1>6
  <2>2. flows[g].entry # e
    BY <2>1, <1>1 DEF FlowInv, OneReauth
  <2>3. flows[g].entry \in DOMAIN entries /\ entries[flows[g].entry].reauth
    BY <2>1, AtDialog DEF Sound, FlowInv, RepairCardWhileAsked
  <2> QED
    BY <2>1, <2>2, <2>3, <1>4
<1> QED
  BY <1>2, <1>7, <1>10, <1>11, <1>12 DEF FlowInv, Counters

-----------------------------------------------------------------------------
LEMMA InitSound == Init => FlowInv
<1> SUFFICES ASSUME Init PROVE FlowInv
  OBVIOUS
<1>1. Counters /\ secrets \in Nat /\ DOMAIN entries = {}
  BY FlowAssumption DEF Init, Counters
<1>2. EntriesSound
  BY <1>1 DEF EntriesSound
<1>3. Closed \in DialogOf(secrets, DOMAIN entries) /\ Sound(Closed, DOMAIN entries) /\ Closed.kind = "none"
  BY <1>1, ClosedDialog
<1>4. flows = [f \in Flows |-> flows[f]] /\ \A f \in Flows : flows[f] = Closed
  BY DEF Init
<1>5. FlowsSound /\ OneReauth /\ RepairCardWhileAsked
  BY <1>3, <1>4 DEF FlowsSound, OneReauth, RepairCardWhileAsked
<1> QED
  BY <1>1, <1>2, <1>5 DEF FlowInv

LEMMA NextSound == FlowInv /\ [Next]_vars => FlowInv'
<1> SUFFICES ASSUME FlowInv, [Next]_vars PROVE FlowInv'
  OBVIOUS
<1>1. ASSUME NEW f \in Flows, Setup(f) PROVE FlowInv'
  BY <1>1, StartSetupStep, DiscoverStep, SubmitSetupStep, SetupValidatedStep,
     SubmitCategoriesStep, CreateStep DEF Setup
<1>2. ASSUME NEW f \in Flows, Update(f) PROVE FlowInv'
  <2>1. CASE CollisionFound(f)
    BY <2>1, DialogCloses DEF CollisionFound
  <2> QED
    BY <1>2, <2>1, StartStep, SubmitCredentialsStep, SubmitNoCredentialsStep,
       OptionsValidatedStep, FinishOptionsStep, ReconfigureValidatedStep DEF Update
<1>3. ASSUME NEW f \in Flows, Reauth(f) PROVE FlowInv'
  BY <1>3, RejectStep, SubmitReauthStep, ReauthValidatedStep DEF Reauth
<1>4. ASSUME NEW f \in Flows, ValidationFails(f) PROVE FlowInv'
  BY <1>4, ValidationFailsStep
<1>5. ASSUME NEW f \in Flows, Abandon(f) PROVE FlowInv'
  BY <1>5, DialogCloses DEF Abandon
<1>6. ASSUME NEW e \in DOMAIN entries, Webhook(e) PROVE FlowInv'
  BY <1>6, WebhookStep
<1>7. CASE UNCHANGED vars
  BY <1>7 DEF vars, FlowInv, Counters, EntriesSound, FlowsSound, OneReauth, RepairCardWhileAsked
<1> QED
  BY <1>1, <1>2, <1>3, <1>4, <1>5, <1>6, <1>7 DEF Next

\* The invariant of the dialogs and the entries they write, for any number of them.
THEOREM FlowsInductive == Spec => []FlowInv
<1> QED
  BY InitSound, NextSound, PTL DEF Spec

\* The types of the entries and of the dialogs of config_flow.py.
THEOREM FlowTypes == Spec => []TypeOK
<1> QED
  BY FlowsInductive, InvGivesTypes, PTL

\* async_step_finish of the options flow, reconfigure, setup and SSDP discovery, in
\* any order: the unique_id an entry ends up with is that of its URL.
THEOREM UniqueIdsFollow == Spec => []UniqueIdFollowsUrl
<1>1. FlowInv => UniqueIdFollowsUrl
  BY DEF FlowInv, EntriesSound, UniqueIdFollowsUrl
<1> QED
  BY <1>1, FlowsInductive, PTL

\* async_step_reauth: another dialog or a reload never takes the repair card away
\* while the new key is asked for, since an entry has one reauth dialog at a time.
THEOREM CardsStay == Spec => []RepairCardWhileAsked
<1>1. FlowInv => RepairCardWhileAsked
  BY DEF FlowInv
<1> QED
  BY <1>1, FlowsInductive, PTL

-----------------------------------------------------------------------------
Reported ==
    \A e \in DOMAIN entries \cap DOMAIN entries' :
        entries'[e].secret # entries[e].secret => entries'[e].rotated

\* Only the options flow writes secrets, and it tells a change by comparing what it
\* staged with what the entry holds when it writes.
LEMMA FinishReports ==
    ASSUME FlowInv, NEW f \in Flows, FinishOptions(f) PROVE Reported
<1> DEFINE e == flows[f].entry
           staged == flows[f].staged
<1>1. e \in DOMAIN entries
  BY AtDialog DEF FinishOptions, Sound
<1>2. CASE staged = Nothing
  BY <1>2 DEF FinishOptions, Reported
<1>3. CASE staged # Nothing
  <2> DEFINE written == [entries[e] EXCEPT
                 !.url = staged.url, !.secret = staged.secret, !.serial = staged.serial,
                 !.rotated = @ \/ SecretChanges(f),
                 !.unique_id = IF UrlChanges(f) THEN staged.url ELSE @]
  <2>1. entries' = [entries EXCEPT ![e] = written]
    BY <1>1, <1>3 DEF FinishOptions
  <2>2. SecretChanges(f) <=> staged.secret # entries[e].secret
    BY DEF SecretChanges
  <2> HIDE DEF e, staged
  <2>3. written.secret = staged.secret /\ (written.rotated <=> entries[e].rotated \/ SecretChanges(f))
    BY <1>1, AtEntry DEF EntryOf
  <2> HIDE DEF written
  <2>4. entries'[e] = written /\ \A x \in DOMAIN entries : x # e => entries'[x] = entries[x]
    BY <1>1, <2>1
  <2> QED
    BY <2>2, <2>3, <2>4 DEF Reported
<1> QED
  BY <1>2, <1>3

\* The other steps leave every secret as it is.
LEMMA OthersKeepSecrets ==
    ASSUME FlowInv, NEW f \in Flows,
           \/ Setup(f) \/ Reauth(f) \/ ValidationFails(f) \/ Abandon(f)
           \/ Update(f) /\ ~FinishOptions(f)
    PROVE  Reported
<1>1. CASE UNCHANGED entries
  BY <1>1 DEF Reported
<1>2. ASSUME NEW host \in Hosts, NEW s \in Serials, Discover(f, host, s) PROVE Reported
  <2>1. \A e \in DOMAIN entries : entries'[e].secret = entries[e].secret
    <3> DEFINE url == [host |-> host, slash |-> FALSE]
               found == Min(WithSerial(s))
    <3>1. \/ UNCHANGED entries
          \/ entries' = [entries EXCEPT ![found].url = url, ![found].unique_id = url]
      BY <1>2 DEF Discover
    <3> HIDE DEF url, found
    <3> QED
      BY <3>1, AtEntry DEF EntryOf
  <2> QED
    BY <2>1 DEF Reported
<1>3. CASE Create(f)
  <2>1. created' \notin DOMAIN entries
    BY <1>3, FlowAssumption DEF Create, FlowInv, EntriesSound, Counters
  <2>2. \A e \in DOMAIN entries \cap DOMAIN entries' : entries'[e] = entries[e]
    BY <1>3, <2>1 DEF Create
  <2> QED
    BY <2>2 DEF Reported
<1>4. CASE ReconfigureValidated(f)
  <2>1. \A e \in DOMAIN entries : entries'[e].secret = entries[e].secret
    BY <1>4, AtEntry DEF ReconfigureValidated, EntryOf
  <2> QED
    BY <2>1 DEF Reported
<1>5. ASSUME NEW e \in DOMAIN entries, Reject(f, e) PROVE Reported
  <2>1. \A x \in DOMAIN entries : entries'[x].secret = entries[x].secret
    BY <1>5, AtEntry DEF Reject, EntryOf
  <2> QED
    BY <2>1 DEF Reported
<1>6. CASE ReauthValidated(f)
  <2>1. \A x \in DOMAIN entries : entries'[x].secret = entries[x].secret
    BY <1>6, AtEntry DEF ReauthValidated, EntryOf
  <2> QED
    BY <2>1 DEF Reported
<1>7. CASE Setup(f)
  BY <1>1, <1>2, <1>3, <1>7 DEF Setup, StartSetup, SubmitSetup, SetupValidated, SubmitCategories
<1>8. CASE Update(f) /\ ~FinishOptions(f)
  BY <1>1, <1>4, <1>8 DEF Update, Start, SubmitCredentials, SubmitNoCredentials, CollisionFound,
     OptionsValidated
<1>9. CASE Reauth(f)
  BY <1>1, <1>5, <1>6, <1>9 DEF Reauth, SubmitReauth
<1> QED
  BY <1>1, <1>7, <1>8, <1>9 DEF ValidationFails, Abandon

\* "Secret was rotated -- every URL pasted into Alarm Manager is now invalid": no
\* dialog changes an entry's secret without raising the issue that says so, whatever
\* other dialogs wrote between its reading of the entry and its write.
THEOREM SecretChangesReported == Spec => SecretChangeReported
<1>1. FlowInv /\ [Next]_vars => [Reported]_vars
  <2> SUFFICES ASSUME FlowInv, Next PROVE Reported
    OBVIOUS
  <2>1. ASSUME NEW e \in DOMAIN entries, Webhook(e) PROVE Reported
    <3>1. \A x \in DOMAIN entries : entries'[x].secret = entries[x].secret
      <4>1. CASE Reload(e)
        BY <4>1, AtEntry DEF Reload, EntryOf
      <4>2. CASE Paste(e)
        BY <4>2, AtEntry DEF Paste, EntryOf
      <4>3. CASE Request(e)
        BY <4>3, AtEntry DEF Request, EntryOf
      <4>4. CASE BodyRead(e)
        <5>1. PICK valid \in BOOLEAN :
                  entries' = [entries EXCEPT ![e].reading = FALSE, ![e].rotated = @ /\ ~valid]
          BY <4>4 DEF BodyRead
        <5> QED
          BY <5>1, AtEntry DEF EntryOf
      <4> QED
        BY <2>1, <4>1, <4>2, <4>3, <4>4 DEF Webhook
    <3> QED
      BY <3>1 DEF Reported
  <2> QED
    BY <2>1, FinishReports, OthersKeepSecrets DEF Next
<1> QED
  BY <1>1, FlowsInductive, PTL DEF SecretChangeReported, Reported, Spec
=============================================================================
