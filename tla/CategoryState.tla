--------------------------- MODULE CategoryState ----------------------------
(***************************************************************************)
(* models.py: the mutable state the coordinator keeps for one alert        *)
(* category, as a record, and its methods, as operators from a state to    *)
(* the next one.                                                           *)
(*                                                                         *)
(* A timestamp is a positive number; Never stands for None, and being      *)
(* smaller than every timestamp it makes "x is None or t > x" read t > x.  *)
(* Of a UniFiAlert only received_at and the severity level are kept: the   *)
(* message, the device and the site decide nothing.  last_webhook_at and   *)
(* last_filtered_at are left out: the webhook health attribute and the     *)
(* diagnostics show them, and nothing here reads them.                     *)
(***************************************************************************)
EXTENDS Severity, FiniteSets

Never == 0

Alert == [received_at : Nat, severity : AlertSeverity]
NoAlert == [received_at |-> Never, severity |-> SEVERITY_UNKNOWN]

CategoryStates ==
    [enabled : BOOLEAN, is_alerting : BOOLEAN, last_alert : Alert,
     alert_count : Nat, open_count : Nat, filtered_count : Nat,
     last_cleared_at : Nat, last_alarm_received_at : Nat]

NewCategoryState(enabled) ==
    [enabled |-> enabled, is_alerting |-> FALSE, last_alert |-> NoAlert,
     alert_count |-> 0, open_count |-> 0, filtered_count |-> 0,
     last_cleared_at |-> Never, last_alarm_received_at |-> Never]

Later(s, t) == IF t > s THEN t ELSE s

apply_alert(s, alert) ==
    [s EXCEPT !.is_alerting = TRUE,
              !.last_alert = alert,
              !.alert_count = @ + 1,
              !.last_alarm_received_at = Later(@, alert.received_at)]

record_filtered(s) == [s EXCEPT !.filtered_count = @ + 1]

\* Mutants of clear: it takes one off the open count; it anchors to the alert on
\* show, which a newer open alarm does not replace; it steps just past the newest
\* alarm.
MUT_clear_decrements(s, now) ==
    [s EXCEPT !.is_alerting = FALSE, !.open_count = @ - 1,
              !.last_cleared_at = Later(now, s.last_alarm_received_at)]
MUT_clear_at_last_alert(s, now) ==
    [s EXCEPT !.is_alerting = FALSE,
              !.last_cleared_at = IF s.last_alert # NoAlert
                                  THEN s.last_alert.received_at
                                  ELSE now]
MUT_clear_steps_past(s, now) ==
    [s EXCEPT !.is_alerting = FALSE, !.last_cleared_at = s.last_alarm_received_at + 1]

\* The watermark is anchored to the newest alarm seen by push or poll, and to
\* HA's own clock only if none has been.  The counters are left alone.
clear(s, now) ==
    [s EXCEPT !.is_alerting = FALSE,
              !.last_cleared_at = IF s.last_alarm_received_at # Never
                                  THEN s.last_alarm_received_at
                                  ELSE now]

\* What _build_persist_data keeps of a state, and async_restore_watermarks
\* puts back into the fresh state of a new coordinator.
PersistedStates == [last_cleared_at : Nat, alert_count : Nat, last_alert : Alert]

Persisted(s) ==
    [last_cleared_at |-> s.last_cleared_at, alert_count |-> s.alert_count,
     last_alert |-> s.last_alert]

Restored(s, entry) ==
    [s EXCEPT !.last_cleared_at = entry.last_cleared_at,
              !.alert_count = entry.alert_count,
              !.last_alert = entry.last_alert]

\* max(alerts, key=received_at) of a non-empty set.
Newest(alerts) ==
    CHOOSE a \in alerts : \A b \in alerts : b.received_at <= a.received_at
=============================================================================
