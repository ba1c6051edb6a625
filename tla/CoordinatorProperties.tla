------------------------ MODULE CoordinatorProperties ------------------------
(***************************************************************************)
(* What the coordinator owes its entities and its user, over               *)
(* AlertCoordinator.                                                       *)
(***************************************************************************)
EXTENDS AlertCoordinator

SaveCalls ==
    [by : {"user", "auto", "cancelled"}, cat : Category \union {NoKey},
     data : [Category -> PersistedStates]]

Polls ==
    [phase : {"idle", "asked", "answered"}, transport : {"v2", "legacy", "none"},
     since : Nat, until : Nat, answer : [Category -> SUBSET Alert]]

\* Types of the coordinator's state, the store and the controller.
TypeOK ==
    /\ now \in Nat /\ now >= Epoch
    /\ alarms \in [Category -> SUBSET Alert]
    /\ cs \in [Category -> CategoryStates]
    /\ task \in [Category -> {"none", "sleeping", "saving"}]
    /\ poll \in Polls
    /\ \A c \in Category : IsFiniteSet(alarms[c]) /\ IsFiniteSet(poll.answer[c])
    /\ saves \in Seq(SaveCalls)
    /\ delayed \in BOOLEAN
    /\ disk \in [Category -> PersistedStates]
    /\ issue \in BOOLEAN /\ online \in BOOLEAN /\ ready \in BOOLEAN
    /\ crashes \in Nat

-----------------------------------------------------------------------------
(* Safety *)

\* A category shows Problem exactly while an auto-clear task sleeps for it, so
\* no alert stays raised for ever and no timer clears one it does not belong
\* to.  At risk from _schedule_clear and cancel_clear running in a push or a
\* poll while _auto_clear awaits its write, and from restarts.
TimerIffAlerting ==
    \A c \in Category : cs[c].is_alerting <=> task[c] = "sleeping"

\* Only an alert that meets the category's minimum severity is ever shown as a
\* Problem, whichever of push_alert and _async_update_data raised it.
AlertingMeetsMinimum ==
    \A c \in Category : cs[c].is_alerting =>
        /\ c \in EnabledCategories
        /\ cs[c].last_alert # NoAlert
        /\ meets_minimum(cs[c].last_alert.severity, Minimum(c))

\* A watermark reaches into the controller's future by no more than the clocks
\* differ: alarms raised within the skew after a Clear may be born acknowledged
\* (see NotBornAcknowledged below), later ones never are.  At risk from clear(),
\* which mixes polled stamps on the controller's clock with webhook stamps and
\* its fallback on HA's, and from restarts that restore the watermark but not
\* the stamps it came from.
WatermarkWithinSkew ==
    \A c \in Category : cs[c].last_cleared_at <= Later(now, ControllerNow)

\* A watermark that has not reached the file is carried by a write that will,
\* or its loss was reported, or the category is alerting again, so that another
\* clear is due.  Covers what a failed write, a cancelled auto-clear, a second
\* clear and a coalesced delayed write can do to one another.
WatermarkCovered ==
    \A c \in Category :
        \/ cs[c].last_cleared_at = disk[c].last_cleared_at
        \/ issue
        \/ cs[c].is_alerting
        \/ \E i \in DOMAIN saves :
               /\ saves[i].by # "cancelled"
               /\ saves[i].data[c].last_cleared_at = cs[c].last_cleared_at

\* After a poll no enabled category has open alarms without showing Problem,
\* and one the poll raised has an open alarm newer than its watermark: no
\* "Problem + Open Count=0" (the comment in _async_update_data), although
\* Clears and pushes ran while the answer was on its way.
PollReconciles ==
    [][PollApply => \A c \in EnabledCategories :
          /\ cs'[c].open_count > 0 => cs'[c].is_alerting
          /\ cs'[c].is_alerting /\ ~cs[c].is_alerting =>
                /\ cs'[c].open_count > 0
                /\ cs'[c].last_alert.received_at > cs'[c].last_cleared_at
                /\ cs'[c].alert_count = cs[c].alert_count]_vars

-----------------------------------------------------------------------------
(* Liveness *)

\* Once the controller and the webhooks go quiet every alert is cleared and
\* stays cleared, although the alarms stay open on the controller and polls
\* keep finding them: the watermark of the auto-clear keeps ahead of them.
Settles == \A c \in Category : <>[](~cs[c].is_alerting)

\* What the entities show ends up being the coordinator's state, although a
\* clear whose write fails ends without notifying them.
EntitiesCatchUp == <>[](view = Visible(cs))

\* v2 is asked for nothing older than the lookback.
InReach(a) == Transports = {"v2"} => a.received_at >= LookbackFloor

TrueCount(c) ==
    Cardinality({a \in Eligible(c, alarms[c]) : InReach(a) /\ a.received_at > cs[c].last_cleared_at})

\* Optimistic increments, answers that were stale when applied and zeroed
\* counts are all corrected: open_count ends up at the number of open alarms
\* in reach that meet the minimum and are newer than the watermark, once the
\* controller raises and archives no more.
OpenCountConverges ==
    <>[][alarms' = alarms]_vars =>
        \A c \in EnabledCategories : <>[](cs[c].open_count = TrueCount(c))

-----------------------------------------------------------------------------
(* What the repository says and the code does not do *)

\* coordinator.py, _async_update_data: the oldest watermark as the start of the
\* v2 window "guarantees that recent alarms in every enabled category are
\* always reachable".
RecentAlarmsReachable ==
    [][poll.phase = "idle" /\ poll'.phase = "asked" =>
          \A c \in EnabledCategories : \A a \in alarms[c] :
              /\ a.received_at > cs[c].last_cleared_at
              /\ a.received_at >= LookbackFloor
              => a.received_at >= poll'.since]_vars

\* models.py, last_alarm_received_at: using it as the watermark "keeps the
\* open_count comparison controller-clock vs controller-clock, immune to
\* HA/controller skew"; docs/UNIFI.md, "Clock assumption": the watermark "is
\* anchored to the controller's own clock, not the HA host clock".  So it
\* never lies in the controller's future, where the alarms raised until then
\* would be born acknowledged and every poll would pass them over.  The run has
\* no webhooks, the one exception that UNIFI.md makes.
NotBornAcknowledged ==
    \A c \in Category : cs[c].last_cleared_at <= ControllerNow
=============================================================================
