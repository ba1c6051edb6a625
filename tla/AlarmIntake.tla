----------------------------- MODULE AlarmIntake -----------------------------
(***************************************************************************)
(* What becomes of the records a poll brings back, over either API: their  *)
(* category (from_api_alarm, from_system_log_event), the warning about a   *)
(* key no table knows, and the tally of keys that stay without a category  *)
(* (categorise_alarms of the client, _fetch_categorised of the             *)
(* coordinator), over the polls of one coordinator after another.  Times   *)
(* and severities, which decide nothing here, are left out.                *)
(*                                                                         *)
(* AlarmTransport is which API answers and SystemLogPaging how its answer  *)
(* is collected; AlertCoordinator is what the alerts are then used for.    *)
(***************************************************************************)
EXTENDS EventKeys, FiniteSetsExt

CONSTANTS
    Raw,          \* the records there may be: [id, key, enum]
    \* Bounds: records of a poll, polls of a coordinator.
    MaxBatch, MaxPolls

ASSUME IntakeAssumption ==
    /\ \A r \in Raw : r.key \in Seq(STRING)
    /\ MaxBatch \in Nat /\ MaxPolls \in Nat

Key == {r.key : r \in Raw}
NoKeys == [k \in Key |-> 0]

VARIABLES
    seen,          \* _seen_unknown_keys
    client_keys,   \* _unrecognised_keys of the client
    unrecognised,  \* _unrecognised_keys of the coordinator
    categorised,   \* the alerts of the last poll
    polls,
    \* History: warnings per key, and records per key that no alert came of.
    warned, dropped

vars == <<seen, client_keys, unrecognised, categorised, polls, warned, dropped>>

Init ==
    /\ seen = {}
    /\ client_keys = NoKeys
    /\ unrecognised = NoKeys
    /\ categorised = {}
    /\ polls = 0
    /\ warned = NoKeys
    /\ dropped = NoKeys

-----------------------------------------------------------------------------
(* Parsing *)

\* _classify: a record of the legacy API has no enum.
classify(r) == classify_event_key(r.key, NoCategory)

from_api_alarm(r) == [raw |-> r, category |-> classify(r)]

\* The key decides, and without it the enum; the code asks for one at a time,
\* to know which of the two it was.
from_system_log_event(r) ==
    LET by_key == classify_event_key(r.key, NoCategory)
    IN [raw |-> r,
        category |-> IF by_key # NoCategory THEN by_key ELSE classify_event_key(<<>>, r.enum)]

\* The keys that from_system_log_event warns about, unless it has before.
Undocumented(batch) ==
    {r.key : r \in {q \in batch : q.key # <<>> /\ classify_event_key(q.key, NoCategory) = NoCategory}}

Tally(records) == [k \in Key |-> Cardinality({r \in records : r.key = k /\ k # <<>>})]

Plus(f, g) == [k \in Key |-> f[k] + g[k]]

Alerts(parsed) == {a \in parsed : a.category # NoCategory}
Uncategorised(parsed) == {a.raw : a \in {b \in parsed : b.category = NoCategory}}

-----------------------------------------------------------------------------
(* Polls *)

\* History: the records of the batch that are in no category.
Drop(batch, alerts) == dropped' = Plus(dropped, Tally({r \in batch : \A a \in alerts : a.raw # r}))

\* Mutant: the client's tally runs on, and is added to the coordinator's again.
MUT_Legacy(batch) ==
    LET parsed == {from_api_alarm(r) : r \in batch}
    IN /\ client_keys' = Plus(client_keys, Tally(Uncategorised(parsed)))
       /\ unrecognised' = Plus(unrecognised, client_keys')
       /\ categorised' = Alerts(parsed)
       /\ Drop(batch, categorised')
       /\ UNCHANGED <<seen, warned>>

\* The legacy API answers: categorise_alarms, whose tally is that of one call.
Legacy(batch) ==
    LET parsed == {from_api_alarm(r) : r \in batch}
    IN /\ client_keys' = Tally(Uncategorised(parsed))
       /\ unrecognised' = Plus(unrecognised, client_keys')
       /\ categorised' = Alerts(parsed)
       /\ Drop(batch, categorised')
       /\ UNCHANGED <<seen, warned>>

\* Mutant: the keys warned about are not kept.
MUT_SystemLog(batch) ==
    LET parsed == {from_system_log_event(r) : r \in batch}
    IN /\ seen' = seen
       /\ warned' = [k \in Key |-> IF k \in Undocumented(batch) \ seen THEN warned[k] + 1 ELSE warned[k]]
       /\ unrecognised' = Plus(unrecognised, Tally(Uncategorised(parsed)))
       /\ categorised' = Alerts(parsed)
       /\ Drop(batch, categorised')
       /\ UNCHANGED client_keys

\* The system log answers, whether it was asked first or after the legacy API
\* turned out to be gone: the client's tally is then that of an older poll.
SystemLog(batch) ==
    LET parsed == {from_system_log_event(r) : r \in batch}
    IN /\ seen' = seen \union Undocumented(batch)
       /\ warned' = [k \in Key |-> IF k \in seen' \ seen THEN warned[k] + 1 ELSE warned[k]]
       /\ unrecognised' = Plus(unrecognised, Tally(Uncategorised(parsed)))
       /\ categorised' = Alerts(parsed)
       /\ Drop(batch, categorised')
       /\ UNCHANGED client_keys

Batches == UNION {kSubset(n, Raw) : n \in 0 .. MaxBatch}

\* A poll that fails before this leaves everything as it was.
Poll(batch) ==
    /\ polls < MaxPolls
    /\ polls' = polls + 1
    /\ Legacy(batch) \/ SystemLog(batch)

\* A reload makes a new client and a new coordinator.
Reload ==
    /\ polls > 0
    /\ seen' = {}
    /\ client_keys' = NoKeys
    /\ unrecognised' = NoKeys
    /\ categorised' = {}
    /\ polls' = 0
    /\ warned' = NoKeys
    /\ dropped' = NoKeys

Next ==
    \/ \E batch \in Batches : Poll(batch)
    \/ Reload

Spec == Init /\ [][Next]_vars

-----------------------------------------------------------------------------
\* The categories that some table of keys claims for a key.
Claims(key) ==
    {c \in Categories : key \in SystemLogKey[c] \/ Stripped(key) \in SystemLogKey[c]}
        \union PrefixCategories(key)

\* The tables never disagree on a key, so that neither the order of the dict
\* nor that of the lookups decides a category, and the coarse category of an
\* event counts only for a key that no table knows (classify_event_key, and
\* its two calls in from_system_log_event).
TablesAgree ==
    \A a \in categorised :
        \/ Claims(a.raw.key) = {a.category}
        \/ /\ Claims(a.raw.key) = {}
           /\ a.raw.enum \in DOMAIN EnumFallback
           /\ a.category = EnumFallback[a.raw.enum]

\* "Keys accumulate across all polls since the config entry was loaded"
\* (unrecognised_keys): every record with a key becomes an alert or is counted
\* once per poll, over polls of both APIs in any order.
NothingUncounted == unrecognised = dropped

\* An undocumented key is warned about by the first poll of the system log that
\* meets it and by no later one, although its alarm stays open for many polls.
WarnedOnce == \A k \in Key : warned[k] = IF k \in seen THEN 1 ELSE 0
=============================================================================
