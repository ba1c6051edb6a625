--------------------------- MODULE AlarmTransport ---------------------------
(***************************************************************************)
(* Which of the controller's two alarm APIs a poll reads: the cache and    *)
(* backoff of the v2 probe in the coordinator (_fetch_categorised,         *)
(* _probe_has_system_log) over the discovery of a legacy URL in the client *)
(* (fetch_alarms, _discover_alarm_url), against a controller that is       *)
(* upgraded and that at times fails to answer.                             *)
(*                                                                         *)
(* An action starts a poll or takes the answer to its outstanding request. *)
(* AlertCoordinator leaves the transport of each poll open; this module is *)
(* how it is chosen, over the life of one coordinator and its client.      *)
(***************************************************************************)
EXTENDS Integers, Sequences

CONSTANTS
    Paths,        \* how many legacy paths _discover_alarm_url tries
    FailLimit,    \* _PROBE_FAIL_LIMIT
    RetryAfter,   \* _PROBE_RETRY_AFTER, in ticks
    Firmware,     \* the controllers there may be: [v2, served]
    Timeouts,     \* whether a request may exceed its ClientTimeout
    \* Bounds of the environment: failed requests, firmware upgrades.
    MaxFaults, MaxUpgrades

Path == 1 .. Paths
NoPath == 0
NoBackoff == -1

ASSUME TransportAssumption ==
    /\ Paths \in Nat \ {0} /\ FailLimit \in Nat \ {0} /\ RetryAfter \in Nat
    /\ Firmware \subseteq [v2 : BOOLEAN, served : SUBSET Path]
    /\ Timeouts \in BOOLEAN
    /\ MaxFaults \in Nat /\ MaxUpgrades \in Nat

VARIABLES
    firmware,        \* whether v2 is served, and the legacy paths that are
    has_system_log,  \* _has_system_log: None, True or False
    fail_count,      \* _probe_fail_count
    backoff,         \* time left until _probe_backoff_until
    alarm_url,       \* _alarm_url_cache of the site
    legacy_gone,     \* _legacy_confirmed_unavailable of the site
    at,              \* the outstanding request of the poll, if any
    path,            \* the legacy path it is for
    \* History: the requests of this poll so far, whether one of them failed,
    \* the ages of the latest FailLimit counted failures of the probe, the end of
    \* the last poll.
    requests, disturbed, ages, outcome,
    faults, upgrades

probe == <<has_system_log, fail_count, backoff>>
legacy == <<alarm_url, legacy_gone>>
controller == <<firmware, upgrades>>
vars == <<firmware, has_system_log, fail_count, backoff, alarm_url, legacy_gone,
          at, path, requests, disturbed, ages, outcome, faults, upgrades>>

Init ==
    /\ firmware \in Firmware
    /\ has_system_log = "unknown"
    /\ fail_count = 0
    /\ backoff = NoBackoff
    /\ alarm_url = NoPath
    /\ legacy_gone = FALSE
    /\ at = "idle"
    /\ path = NoPath
    /\ requests = 0
    /\ disturbed = FALSE
    /\ ages = <<>>
    /\ outcome = "none"
    /\ faults = 0
    /\ upgrades = 0

-----------------------------------------------------------------------------
(* The environment *)

Tick ==
    /\ backoff' = IF backoff > 0 THEN backoff - 1 ELSE backoff
    /\ ages' = [i \in DOMAIN ages |-> IF ages[i] < RetryAfter THEN ages[i] + 1 ELSE RetryAfter]
    /\ UNCHANGED <<controller, has_system_log, fail_count, legacy, at, path,
                   requests, disturbed, outcome, faults>>

\* v2 does not go away, and no legacy API comes back.  An upgrade outlasts a
\* poll: one that it interrupts has met a fault.
Upgrade(f) ==
    /\ at = "idle"
    /\ upgrades < MaxUpgrades
    /\ firmware.v2 => f.v2
    /\ firmware.served = {} => f.served = {}
    /\ firmware' = f
    /\ upgrades' = upgrades + 1
    /\ UNCHANGED <<probe, legacy, at, path, requests, disturbed, ages, outcome, faults>>

Fault == faults < MaxFaults /\ faults' = faults + 1 /\ disturbed' = TRUE

-----------------------------------------------------------------------------
(* The steps of a poll *)

Send(to, url) == at' = to /\ path' = url /\ requests' = requests + 1

\* The second half of _fetch_categorised: the request that follows the verdict
\* on v2.
Fetch(v2, gone) ==
    IF v2 \/ gone THEN Send("system_log", NoPath)
    ELSE IF alarm_url # NoPath THEN Send("cached", alarm_url)
    ELSE Send("discover", 1)

Return(result) ==
    at' = "idle" /\ path' = NoPath /\ requests' = 0 /\ outcome' = result

\* Mutant: the end of the backoff is not noticed.
MUT_RetryDue == FALSE

RetryDue == has_system_log = "no" /\ backoff # NoBackoff /\ backoff = 0

\* Mutant: the count of failures survives the backoff.
MUT_PollStart_keeps_count ==
    /\ at = "idle"
    /\ disturbed' = FALSE
    /\ IF has_system_log = "unknown" \/ RetryDue
       THEN /\ Send("probe", NoPath)
            /\ has_system_log' = "unknown"
            /\ fail_count' = fail_count
            /\ backoff' = IF RetryDue THEN NoBackoff ELSE backoff
       ELSE /\ Fetch(has_system_log = "yes", legacy_gone)
            /\ UNCHANGED probe
    /\ UNCHANGED <<controller, legacy, ages, outcome, faults>>

\* A poll starts, with the probe if its answer is not cached.
PollStart ==
    /\ at = "idle"
    /\ disturbed' = FALSE
    /\ IF has_system_log = "unknown" \/ RetryDue
       THEN /\ Send("probe", NoPath)
            /\ has_system_log' = "unknown"
            /\ fail_count' = IF RetryDue THEN 0 ELSE fail_count
            /\ backoff' = IF RetryDue THEN NoBackoff ELSE backoff
       ELSE /\ Fetch(has_system_log = "yes", legacy_gone)
            /\ UNCHANGED probe
    /\ UNCHANGED <<controller, legacy, ages, outcome, faults>>

\* HTTP 200.
ProbeYes ==
    /\ at = "probe"
    /\ firmware.v2
    /\ has_system_log' = "yes"
    /\ fail_count' = 0
    /\ backoff' = NoBackoff
    /\ Fetch(TRUE, legacy_gone)
    /\ UNCHANGED <<controller, legacy, disturbed, ages, outcome, faults>>

\* HTTP 404.
ProbeNo ==
    /\ at = "probe"
    /\ ~firmware.v2
    /\ has_system_log' = "no"
    /\ fail_count' = 0
    /\ Fetch(FALSE, legacy_gone)
    /\ UNCHANGED <<controller, backoff, legacy, disturbed, ages, outcome, faults>>

\* Mutant: the count of failures is never acted upon.
MUT_ProbeTransient_unlimited ==
    /\ at = "probe"
    /\ Fault
    /\ fail_count' = IF fail_count < FailLimit THEN fail_count + 1 ELSE fail_count
    /\ ages' = Append(IF Len(ages) = FailLimit THEN Tail(ages) ELSE ages, 0)
    /\ Fetch(FALSE, legacy_gone)
    /\ UNCHANGED <<controller, has_system_log, backoff, legacy, outcome>>

\* Any other status, or an aiohttp.ClientError.
ProbeTransient ==
    /\ at = "probe"
    /\ Fault
    /\ fail_count' = fail_count + 1
    /\ IF fail_count' >= FailLimit
       THEN has_system_log' = "no" /\ backoff' = RetryAfter
       ELSE UNCHANGED <<has_system_log, backoff>>
    /\ ages' = Append(IF Len(ages) = FailLimit THEN Tail(ages) ELSE ages, 0)
    /\ Fetch(FALSE, legacy_gone)
    /\ UNCHANGED <<controller, legacy, outcome>>

\* The total timeout of a ClientTimeout raises TimeoutError, which is not an
\* aiohttp.ClientError: it leaves the probe, and the poll.
ProbeTimeout ==
    /\ Timeouts
    /\ at = "probe"
    /\ Fault
    /\ Return("failed")
    /\ UNCHANGED <<controller, probe, legacy, ages>>

\* Mutant: the path that answered is not cached.
MUT_LegacyOk_uncached ==
    /\ at \in {"cached", "discover"}
    /\ path \in firmware.served
    /\ Return("legacy")
    /\ UNCHANGED <<controller, probe, legacy, disturbed, ages, faults>>

\* The legacy path of the request is served.
LegacyOk ==
    /\ at \in {"cached", "discover"}
    /\ path \in firmware.served
    /\ alarm_url' = path
    /\ Return("legacy")
    /\ UNCHANGED <<controller, probe, legacy_gone, disturbed, ages, faults>>

\* The cached URL is missing: discovery starts over.
CachedMissing ==
    /\ at = "cached"
    /\ path \notin firmware.served
    /\ alarm_url' = NoPath
    /\ Send("discover", 1)
    /\ UNCHANGED <<controller, probe, legacy_gone, disturbed, ages, outcome, faults>>

\* Mutant: a poll that finds legacy gone fails.
MUT_DiscoverMissing_gives_up ==
    /\ at = "discover"
    /\ path \notin firmware.served
    /\ IF path < Paths
       THEN Send("discover", path + 1) /\ UNCHANGED <<legacy_gone, outcome>>
       ELSE legacy_gone' = TRUE /\ Return("failed")
    /\ UNCHANGED <<controller, probe, alarm_url, disturbed, ages, faults>>

\* A candidate is missing; when the last one is, the poll turns to v2.
DiscoverMissing ==
    /\ at = "discover"
    /\ path \notin firmware.served
    /\ IF path < Paths
       THEN Send("discover", path + 1) /\ UNCHANGED legacy_gone
       ELSE legacy_gone' = TRUE /\ Fetch(FALSE, TRUE)
    /\ UNCHANGED <<controller, probe, alarm_url, disturbed, ages, outcome, faults>>

SystemLogOk ==
    /\ at = "system_log"
    /\ firmware.v2
    /\ Return("v2")
    /\ UNCHANGED <<controller, probe, legacy, disturbed, ages, faults>>

\* A 404 of system-log/all is an error like any other.
SystemLogMissing ==
    /\ at = "system_log"
    /\ ~firmware.v2
    /\ Return("failed")
    /\ UNCHANGED <<controller, probe, legacy, disturbed, ages, faults>>

\* A fetch fails with any error that does not say that the path is missing.
FetchFault ==
    /\ at \in {"cached", "discover", "system_log"}
    /\ Fault
    /\ Return("failed")
    /\ UNCHANGED <<controller, probe, legacy, ages>>

Answer ==
    \/ ProbeYes
    \/ ProbeNo
    \/ LegacyOk
    \/ CachedMissing
    \/ DiscoverMissing
    \/ SystemLogOk
    \/ SystemLogMissing

Failure == ProbeTransient \/ ProbeTimeout \/ FetchFault

Next ==
    \/ Tick
    \/ \E f \in Firmware : Upgrade(f)
    \/ PollStart
    \/ Answer
    \/ Failure

Spec == Init /\ [][Next]_vars

\* HA reschedules the poll, every request ends, time passes.  Faults and
\* upgrades are few, so in the end every request is answered.
FairSpec ==
    /\ Spec
    /\ WF_vars(PollStart)
    /\ WF_vars(Answer \/ Failure)
    /\ WF_vars(Tick /\ backoff > 0)

-----------------------------------------------------------------------------
TypeOK ==
    /\ firmware \in [v2 : BOOLEAN, served : SUBSET Path]
    /\ has_system_log \in {"unknown", "yes", "no"}
    /\ fail_count \in 0 .. FailLimit
    /\ backoff \in {NoBackoff} \union 0 .. RetryAfter
    /\ alarm_url \in {NoPath} \union Path
    /\ legacy_gone \in BOOLEAN
    /\ at \in {"idle", "probe", "cached", "discover", "system_log"}
    /\ path \in {NoPath} \union Path
    /\ path # NoPath <=> at \in {"cached", "discover"}
    /\ requests \in 0 .. Paths + 3
    /\ disturbed \in BOOLEAN
    /\ outcome \in {"none", "v2", "legacy", "failed"}
    /\ faults \in 0 .. MaxFaults /\ upgrades \in 0 .. MaxUpgrades

\* A poll none of whose requests failed brings alarms back, whatever earlier
\* faults and firmware left in the caches, unless the controller serves neither
\* API.  "Never falls back to the legacy path once the client has confirmed it
\* does not exist", which "would fail every poll" (_fetch_categorised).
FailsOnlyWithCause ==
    [][at # "idle" /\ outcome' = "failed" /\ at' = "idle" =>
          disturbed' \/ (~firmware.v2 /\ firmware.served = {})]_vars

\* The failures that probe_system_log_endpoint reports as None, and the
\* coordinator counts, do not slow down poll after poll: whenever a probe goes
\* out, whatever becomes of it, the FailLimit-th counted failure before it lies at
\* least the retry window back.  A probe that times out is not counted and does
\* not back off: nothing keeps the next one from following it at once.
CountedFailuresBackOff ==
    at = "probe" /\ Len(ages) = FailLimit => ages[1] >= RetryAfter

\* "A single network blip should not pin the coordinator to legacy mode"
\* (_PROBE_FAIL_LIMIT), nor does a run of failures: a controller that served v2
\* all along ends up polled by v2 alone.
V2Adopted == firmware.v2 => <>[](at \in {"idle", "system_log"})

\* "Steady-state polling is a single request" (fetch_alarms), and so it is
\* again after faults, upgrades and a backoff.
SteadyStateSingleRequest == <>[](requests <= 1)

-----------------------------------------------------------------------------
(* What the repository says and the code does not do *)

\* probe_system_log_endpoint returns "None for any other outcome (unexpected
\* status or network error) -- the caller should treat None as transient and
\* retry on the next poll", and _fetch_categorised "falls back to legacy" if
\* "the probe itself raises a network error": no answer to the probe, nor the
\* lack of one, ends the poll.
ProbeNeverFailsPoll == [][at = "probe" => at' # "idle"]_vars
=============================================================================
