-------------------------- MODULE ConnectivityCheck --------------------------
(***************************************************************************)
(* How a dialog decides that a controller can be polled, before there is   *)
(* an entry that polls it: authenticate (unifi_auth.py) and                *)
(* validate_connectivity (unifi_client.py), with a client of the dialog's  *)
(* own, and the polls of AlarmTransport once the entry exists.  A client   *)
(* keeps nothing between dialogs, so a check while an entry is polled adds *)
(* nothing to one before.                                                  *)
(***************************************************************************)
EXTENDS AlarmTransport

VARIABLES
    dialog,    \* the request the dialog awaits, or "form", or "accepted"
    input,     \* the key and the site that were submitted, as they really are
    candidate, \* the legacy path being tried
    verdict,   \* how the last check ended
    \* History of the check: whether a request failed, and whether the site
    \* list was answered by an error envelope with HTTP 200.
    trouble, refused

check == <<dialog, input, candidate, verdict, trouble, refused>>
polling == <<firmware, has_system_log, fail_count, backoff, alarm_url, legacy_gone,
             at, path, requests, disturbed, ages, outcome, upgrades>>
checkedVars == <<vars, check>>

Inputs == [key : {"missing", "rejected", "accepted"}, site : BOOLEAN]
Usable == [key |-> "accepted", site |-> TRUE]

\* A dialog is open, or the entry was there before.
CheckedInit ==
    /\ Init
    /\ dialog \in {"form", "accepted"}
    /\ input = Usable
    /\ candidate = NoPath
    /\ verdict = "none"
    /\ trouble = FALSE /\ refused = FALSE

-----------------------------------------------------------------------------
Ask(request) == dialog' = request /\ candidate' = NoPath /\ UNCHANGED verdict

Try(p) == dialog' = "discover" /\ candidate' = p /\ UNCHANGED verdict

End(next, result) == dialog' = next /\ candidate' = NoPath /\ verdict' = result

Accept(transport) == End("accepted", transport)

\* The exception that reaches the dialog; TimeoutError is "unknown" to it.
Reject(error) == End("form", error)

Submit ==
    /\ dialog = "form"
    /\ input' \in Inputs
    /\ trouble' = FALSE /\ refused' = FALSE
    /\ IF input'.key = "missing" THEN Reject("invalid_auth") ELSE End("authenticate", "none")
    /\ UNCHANGED vars

\* Of a request that is answered as the controller means to.
Sound == UNCHANGED <<vars, input, trouble, refused>>

Blip ==
    /\ faults < MaxFaults
    /\ faults' = faults + 1
    /\ trouble' = TRUE
    /\ UNCHANGED <<polling, input>>

TimedOut == Timeouts /\ Blip /\ UNCHANGED refused /\ Reject("unknown")

KeyVerified ==
    /\ dialog = "authenticate"
    /\ IF input.key = "accepted" THEN Ask("probe") ELSE Reject("invalid_auth")
    /\ Sound

\* A redirect, another status or a broken connection; HTTP 403, or a body that
\* is no JSON, counts as a rejected key.
KeyUnverified ==
    /\ dialog = "authenticate"
    /\ Blip /\ UNCHANGED refused
    /\ \E error \in {"cannot_connect", "invalid_auth"} : Reject(error)

\* Mutant: only the legacy paths count (UniFi Network 10.6+ has none).
MUT_Probed_legacy_only ==
    /\ dialog = "probe"
    /\ Try(1)
    /\ Sound

\* A site that does not exist is served by neither API.
Probed ==
    /\ dialog = "probe"
    /\ IF firmware.v2 /\ input.site THEN Accept("v2") ELSE Try(1)
    /\ Sound

ProbeBlip == dialog = "probe" /\ Blip /\ UNCHANGED refused /\ Try(1)

PathServed ==
    /\ dialog = "discover"
    /\ candidate \in firmware.served /\ input.site
    /\ Accept("legacy")
    /\ Sound

\* HTTP 404, or HTTP 400 with api.err.InvalidObject.
PathMissing ==
    /\ dialog = "discover"
    /\ ~(candidate \in firmware.served /\ input.site)
    /\ IF candidate < Paths THEN Try(candidate + 1) ELSE Ask("sites")
    /\ Sound

\* HTTP 401 with api.err.NoSiteContext.
NoSiteContext ==
    /\ dialog = "discover"
    /\ ~input.site
    /\ Reject("invalid_site")
    /\ Sound

PathBlip ==
    /\ dialog = "discover"
    /\ Blip /\ UNCHANGED refused
    /\ \E error \in {"cannot_connect", "invalid_auth"} : Reject(error)

SitesListed ==
    /\ dialog = "sites"
    /\ Reject(IF input.site THEN "alarm_endpoint_unavailable" ELSE "invalid_site")
    /\ Sound

\* Mutant: a failure to list the sites counts as a list without the site.
MUT_SitesBlip ==
    /\ dialog = "sites"
    /\ Blip /\ UNCHANGED refused
    /\ Reject("invalid_site")

SitesBlip ==
    /\ dialog = "sites"
    /\ Blip /\ UNCHANGED refused
    /\ Reject("alarm_endpoint_unavailable")

\* The envelope of an HTTP 200 is not looked at: it has no sites.
SitesRefused ==
    /\ dialog = "sites"
    /\ Blip /\ refused' = TRUE
    /\ Reject("invalid_site")

Check ==
    \/ Submit
    \/ KeyVerified
    \/ KeyUnverified
    \/ Probed
    \/ ProbeBlip
    \/ PathServed
    \/ PathMissing
    \/ NoSiteContext
    \/ PathBlip
    \/ SitesListed
    \/ SitesBlip
    \/ SitesRefused
    \/ dialog \notin {"form", "accepted"} /\ TimedOut

\* The entry polls; an upgrade outlasts a check as it does a poll.
Polls(A) == dialog = "accepted" /\ A /\ UNCHANGED check

Meanwhile ==
    /\ dialog \in {"form", "accepted"}
    /\ Tick \/ \E f \in Firmware : Upgrade(f)
    /\ UNCHANGED check

CheckedNext ==
    \/ Check
    \/ Polls(PollStart)
    \/ Polls(Answer)
    \/ Polls(Failure)
    \/ Meanwhile

CheckedSpec == CheckedInit /\ [][CheckedNext]_checkedVars

\* The fairness of FairSpec.  Nobody has to submit a dialog.
CheckedFairSpec ==
    /\ CheckedSpec
    /\ WF_checkedVars(Polls(PollStart))
    /\ WF_checkedVars(Polls(Answer \/ Failure))
    /\ WF_checkedVars(Polls(Tick) /\ backoff > 0)

-----------------------------------------------------------------------------
\* "A transient network blip is never misreported as InvalidSiteError"
\* (_site_exists): whatever fails on the way, a site that exists is called
\* missing only when its list is answered by an error envelope.
SiteNeverMisreported == verdict = "invalid_site" => ~input.site \/ refused

\* A check none of whose requests failed turns a usable key and site away only
\* if the controller serves neither API: validate_connectivity "succeeds
\* without ever touching the dead legacy chain" on 10.6+, and falls back to
\* whichever legacy path older firmware has.
RejectsOnlyWithCause ==
    [][dialog # "form" /\ dialog' = "form" =>
          trouble' \/ input # Usable \/ (~firmware.v2 /\ firmware.served = {})]_checkedVars

\* validate_connectivity and the coordinator choose the transport apart, each
\* with its caches: on a controller left alone, what the dialog found is what
\* every poll of the entry then reads.
VerdictIsTransport ==
    dialog = "accepted" /\ verdict # "none" /\ outcome # "none" /\ faults = 0 /\ upgrades = 0
        => outcome = verdict
=============================================================================
