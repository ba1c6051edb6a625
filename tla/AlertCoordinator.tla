-------------------------- MODULE AlertCoordinator --------------------------
(***************************************************************************)
(* coordinator.py: one UniFiAlertsCoordinator, the only owner of the       *)
(* category states, with everything that reaches it concurrently on the    *)
(* event loop: webhook pushes, the poll with its await of the controller,  *)
(* the auto-clear task of each category with its await of the store, the   *)
(* Clear buttons and services with theirs, the delayed store write, and a  *)
(* crash of Home Assistant followed by a new setup.                        *)
(*                                                                         *)
(* An action runs from one await to the next, as asyncio does.             *)
(***************************************************************************)
EXTENDS CategoryState, DedupTable, Sequences

CONSTANTS
    Category,            \* ALL_CATEGORIES
    EnabledCategories,   \* CONF_ENABLED_CATEGORIES of the entry
    MinSeverity,         \* CONF_MIN_SEVERITY of the entry: a map from some categories
    AlertKey, NoKey,     \* identities of webhook payloads; NoKey for those without one
    Transports,          \* the transports a poll may find: "v2", "legacy"
    Lookback,            \* DEFAULT_SYSTEM_LOG_LOOKBACK_HOURS, in ticks
    DedupWindow,         \* WEBHOOK_DEDUP_WINDOW_SECONDS, in ticks
    Skew,                \* controller clock minus HA clock
    AlarmSeverity,       \* severities the environment gives to alarms and pushes
    StoreFaults,         \* whether a store write may fail
    \* Bounds of the environment: clock, open alarms and webhooks per category,
    \* store writes awaited at once, crashes.
    MaxTime, MaxAlarms, MaxPushes, MaxSaves, MaxCrashes

ASSUME ConfigAssumption ==
    /\ EnabledCategories \subseteq Category
    /\ Transports \subseteq {"v2", "legacy"}
    /\ AlarmSeverity \subseteq AlertSeverity
    /\ StoreFaults \in BOOLEAN

ASSUME TimeAssumption ==
    Lookback \in Nat /\ DedupWindow \in Nat /\ Skew \in Int

ASSUME BoundAssumption ==
    /\ MaxTime \in Nat /\ MaxAlarms \in Nat /\ MaxPushes \in Nat
    /\ MaxSaves \in Nat /\ MaxCrashes \in Nat

VARIABLES
    now,       \* datetime.now(UTC) and time.monotonic() of the HA host
    alarms,    \* the controller: the open alarms of each category
    cs,        \* _category_states
    pushed,    \* _last_push_at
    task,      \* _clear_tasks: each category's auto-clear task
    poll,      \* the refresh in progress, if any
    saves,     \* the awaited Store.async_save calls, in the order they will be written
    delayed,   \* whether a Store.async_delay_save is pending
    disk,      \* the contents of the watermark file
    issue,     \* whether the watermark_persist_failed repair issue is raised
    view,      \* what the entities last read, at the last listener notification
    online,    \* last_update_success
    ready,     \* whether async_setup_entry got past the first refresh
    crashes    \* crashes so far (only to bound them)

env == <<now, alarms>>
store == <<saves, delayed, disk>>
life == <<ready, crashes>>
vars == <<now, alarms, cs, pushed, task, poll, saves, delayed, disk, issue,
          view, online, ready, crashes>>

-----------------------------------------------------------------------------
(* Helpers *)

\* The first instant: late enough that the controller's clock is positive too.
Epoch == IF Skew < 0 THEN 1 - Skew ELSE 1

ControllerNow == now + Skew

Minimum(c) == get_effective_min_severity(MinSeverity, c)

\* Mutant: polled alarms are not gated.
MUT_Eligible_ungated(c, set) == set

Eligible(c, set) == {a \in set : meets_minimum(a.severity, Minimum(c))}

\* What an entity shows of a category.
Visible(states) ==
    [c \in EnabledCategories |->
        [is_alerting |-> states[c].is_alerting,
         alert_count |-> states[c].alert_count,
         open_count |-> states[c].open_count]]

Notify(states) == view' = Visible(states) /\ online' = TRUE

Snapshot(states) == [c \in Category |-> Persisted(states[c])]

\* An awaited async_save: the snapshot is taken now, it queues behind the
\* writes already started and supersedes a delayed one.
Save(by, cat, states, queue) ==
    /\ saves' = Append(queue, [by |-> by, cat |-> cat, data |-> Snapshot(states)])
    /\ delayed' = FALSE

\* Cancelling a task that awaits its store write interrupts the coroutine: the
\* write may or may not happen, and nothing that follows the await does.
Abandon(cancelled) ==
    [i \in DOMAIN saves |->
        IF saves[i].by = "auto" /\ saves[i].cat \in cancelled
        THEN [saves[i] EXCEPT !.by = "cancelled"]
        ELSE saves[i]]

NoAnswer == [c \in Category |-> {}]
Idle == [phase |-> "idle", transport |-> "none", since |-> Never,
         until |-> Never, answer |-> NoAnswer]

FreshStates == [c \in Category |-> NewCategoryState(c \in EnabledCategories)]
RestoredStates(file) == [c \in Category |-> Restored(FreshStates[c], file[c])]

-----------------------------------------------------------------------------
Init ==
    /\ now = Epoch
    /\ alarms = NoAnswer
    /\ cs = FreshStates
    /\ pushed = EmptyTable
    /\ task = [c \in Category |-> "none"]
    /\ poll = Idle
    /\ saves = <<>>
    /\ delayed = FALSE
    /\ disk = Snapshot(FreshStates)
    /\ issue = FALSE
    /\ view = Visible(FreshStates)
    /\ online = TRUE
    /\ ready = FALSE
    /\ crashes = 0

-----------------------------------------------------------------------------
(* The environment: time, and the controller's own list of open alarms *)

Tick ==
    /\ now < MaxTime
    /\ now' = now + 1
    /\ UNCHANGED <<alarms, cs, pushed, task, poll, store, issue, view, online, life>>

RaiseAlarm(c, severity) ==
    /\ Cardinality(alarms[c]) < MaxAlarms
    /\ alarms' = [alarms EXCEPT ![c] = @ \union
                     {[received_at |-> ControllerNow, severity |-> severity]}]
    /\ UNCHANGED <<now, cs, pushed, task, poll, store, issue, view, online, life>>

ArchiveAlarm(c) ==
    /\ \E a \in alarms[c] : alarms' = [alarms EXCEPT ![c] = @ \ {a}]
    /\ UNCHANGED <<now, cs, pushed, task, poll, store, issue, view, online, life>>

-----------------------------------------------------------------------------
(* push_alert: a webhook.  The handler stamps received_at with HA's clock. *)

\* Below the category's minimum: counted apart, no broadcast, no dedup.
PushFiltered(c, severity) ==
    /\ ready
    /\ cs[c].enabled
    /\ cs[c].alert_count + cs[c].filtered_count < MaxPushes
    /\ ~meets_minimum(severity, Minimum(c))
    /\ cs' = [cs EXCEPT ![c] = record_filtered(@)]
    /\ delayed' = TRUE
    /\ UNCHANGED <<env, pushed, task, poll, saves, disk, issue, view, online, life>>

\* A duplicate within the window changes nothing, so it is no action here.
PushApplied(c, key, severity) ==
    LET alert == [received_at |-> now, severity |-> severity]
        applied == apply_alert(cs[c], alert)
        optimistic == IF now > cs[c].last_cleared_at THEN 1 ELSE 0
    IN  /\ ready
        /\ cs[c].enabled
        /\ cs[c].alert_count + cs[c].filtered_count < MaxPushes
        /\ meets_minimum(severity, Minimum(c))
        /\ IF key = NoKey
           THEN pushed' = pushed
           ELSE /\ ~IsDuplicate(pushed, <<c, key>>, now, DedupWindow)
                /\ pushed' = Record(pushed, <<c, key>>, now, DedupWindow)
        /\ cs' = [cs EXCEPT ![c] = [applied EXCEPT !.open_count = @ + optimistic]]
        /\ delayed' = TRUE
        /\ saves' = Abandon({c})
        /\ task' = [task EXCEPT ![c] = "sleeping"]
        /\ Notify(cs')
        /\ UNCHANGED <<env, poll, disk, issue, life>>

-----------------------------------------------------------------------------
(* _async_update_data: the request, the controller's answer, its use *)

Watermarks == {cs[c].last_cleared_at : c \in {d \in Category : cs[d].enabled}} \ {Never}

Oldest(times) == CHOOSE t \in times : \A u \in times : t <= u

LookbackFloor == IF now > Lookback THEN now - Lookback ELSE Never

\* The v2 window opens at the oldest watermark, but no earlier than the
\* lookback; the client opens it at the lookback when there is no watermark.
Since == IF Watermarks = {} THEN LookbackFloor ELSE Later(Oldest(Watermarks), LookbackFloor)

PollRequest(transport) ==
    /\ poll.phase = "idle"
    /\ poll' = IF transport = "v2"
               THEN [Idle EXCEPT !.phase = "asked", !.transport = "v2",
                                 !.since = Since, !.until = now]
               ELSE [Idle EXCEPT !.phase = "asked", !.transport = "legacy"]
    /\ UNCHANGED <<env, cs, pushed, task, store, issue, view, online, life>>

InWindow(a) == poll.transport = "v2" => poll.since <= a.received_at /\ a.received_at <= poll.until

PollAnswer ==
    /\ poll.phase = "asked"
    /\ poll' = [poll EXCEPT !.phase = "answered",
                            !.answer = [c \in Category |-> {a \in alarms[c] : InWindow(a)}]]
    /\ UNCHANGED <<env, cs, pushed, task, store, issue, view, online, life>>

\* CannotConnectError or InvalidAuthError: the states are left alone, and the
\* listeners hear of it only if the refresh before had succeeded.
PollFail ==
    /\ poll.phase = "asked"
    /\ poll' = Idle
    /\ online' = FALSE
    /\ view' = IF online THEN Visible(cs) ELSE view
    /\ UNCHANGED <<env, cs, pushed, task, store, issue, life>>

\* Mutant: counted as before there was a watermark.
MUT_Counted_lifetime(c) == Eligible(c, poll.answer[c])

Counted(c) ==
    {a \in Eligible(c, poll.answer[c]) : a.received_at > cs[c].last_cleared_at}

\* Mutant: only the first alarm seen is tracked.
MUT_NewestSeen_first(c) ==
    IF cs[c].last_alarm_received_at # Never \/ Eligible(c, poll.answer[c]) = {}
    THEN cs[c].last_alarm_received_at
    ELSE Newest(Eligible(c, poll.answer[c])).received_at

\* _track_newest_seen
NewestSeen(c) ==
    LET eligible == Eligible(c, poll.answer[c])
    IN  IF eligible = {} THEN cs[c].last_alarm_received_at
        ELSE Later(cs[c].last_alarm_received_at, Newest(eligible).received_at)

RaisedByPoll == {c \in Category : cs[c].enabled /\ Counted(c) # {} /\ ~cs[c].is_alerting}

\* Mutant: the count of a category missing from the answer is not zeroised.
MUT_Polled_keeps_count(c) ==
    [cs[c] EXCEPT !.last_alarm_received_at = NewestSeen(c),
                  !.open_count = IF poll.answer[c] = {} THEN @ ELSE Cardinality(Counted(c)),
                  !.is_alerting = @ \/ c \in RaisedByPoll,
                  !.last_alert = IF c \in RaisedByPoll THEN Newest(Counted(c)) ELSE @]

Polled(c) ==
    [cs[c] EXCEPT !.last_alarm_received_at = NewestSeen(c),
                  !.open_count = Cardinality(Counted(c)),
                  !.is_alerting = @ \/ c \in RaisedByPoll,
                  !.last_alert = IF c \in RaisedByPoll THEN Newest(Counted(c)) ELSE @]

\* Mutant: the listeners are not told.
MUT_PollApply_silent ==
    /\ poll.phase = "answered"
    /\ poll' = Idle
    /\ cs' = [c \in Category |-> IF cs[c].enabled THEN Polled(c) ELSE cs[c]]
    /\ task' = [c \in Category |-> IF c \in RaisedByPoll THEN "sleeping" ELSE task[c]]
    /\ saves' = Abandon(RaisedByPoll)
    /\ ready' = TRUE
    /\ UNCHANGED <<env, pushed, delayed, disk, issue, view, online, crashes>>

\* A disabled category is skipped; raising an alert starts its auto-clear, but
\* neither counts it nor schedules a write.
PollApply ==
    /\ poll.phase = "answered"
    /\ poll' = Idle
    /\ cs' = [c \in Category |-> IF cs[c].enabled THEN Polled(c) ELSE cs[c]]
    /\ task' = [c \in Category |-> IF c \in RaisedByPoll THEN "sleeping" ELSE task[c]]
    /\ saves' = Abandon(RaisedByPoll)
    /\ ready' = TRUE
    /\ Notify(cs')
    /\ UNCHANGED <<env, pushed, delayed, disk, issue, crashes>>

-----------------------------------------------------------------------------
(* Clearing.  Each coroutine runs up to the await of its store write. *)

\* Mutant: the auto-clear task is not cancelled.
MUT_Clear_keeps_timer(chosen) ==
    LET cleared == [c \in Category |-> IF c \in chosen THEN clear(cs[c], now) ELSE cs[c]]
    IN  /\ ready
        /\ Len(saves) < MaxSaves
        /\ cs' = cleared
        /\ Save("user", NoKey, cleared, saves)
        /\ UNCHANGED <<env, pushed, task, poll, disk, issue, view, online, life>>

\* cancel_clear and clear() of every category of `chosen`, then the write.
Clear(chosen) ==
    LET cleared == [c \in Category |-> IF c \in chosen THEN clear(cs[c], now) ELSE cs[c]]
    IN  /\ ready
        /\ Len(saves) < MaxSaves
        /\ cs' = cleared
        /\ task' = [c \in Category |-> IF c \in chosen THEN "none" ELSE task[c]]
        /\ Save("user", NoKey, cleared, Abandon(chosen))
        /\ UNCHANGED <<env, pushed, poll, disk, issue, view, online, life>>

\* async_clear_category takes any known category, enabled or not.
ClearCategory(c) == Clear({c})

ClearAll == Clear({c \in Category : cs[c].enabled})

\* _auto_clear after its sleep.
AutoClear(c) ==
    /\ task[c] = "sleeping"
    /\ IF cs[c].is_alerting
       THEN LET cleared == [cs EXCEPT ![c] = clear(@, now)]
            IN  /\ cs' = cleared
                /\ task' = [task EXCEPT ![c] = "saving"]
                /\ Save("auto", c, cleared, saves)
       ELSE /\ task' = [task EXCEPT ![c] = "none"]
            /\ UNCHANGED <<cs, saves, delayed>>
    /\ UNCHANGED <<env, pushed, poll, disk, issue, view, online, life>>

-----------------------------------------------------------------------------
(* The store, and what _async_persist_watermarks and its callers do when   *)
(* their write ends.  Writes happen one at a time, in the order of the     *)
(* calls.                                                                  *)

\* The auto-clear task that made the write, if any, is done.
Finish(save) ==
    task' = [c \in Category |-> IF save.by = "auto" /\ save.cat = c THEN "none" ELSE task[c]]

\* The issue is deleted and the entities hear of the clear.
SaveOk ==
    /\ saves # <<>>
    /\ disk' = Head(saves).data
    /\ saves' = Tail(saves)
    /\ Finish(Head(saves))
    /\ IF Head(saves).by = "cancelled"
       THEN UNCHANGED <<issue, view, online>>
       ELSE issue' = FALSE /\ Notify(cs)
    /\ UNCHANGED <<env, cs, pushed, poll, delayed, life>>

\* Mutant: the failure is not reported.
MUT_SaveFail_silent ==
    /\ StoreFaults
    /\ saves # <<>>
    /\ Head(saves).by # "cancelled"
    /\ saves' = Tail(saves)
    /\ Finish(Head(saves))
    /\ UNCHANGED <<env, cs, pushed, poll, delayed, disk, issue, view, online, life>>

\* The issue is raised and the exception ends the caller before it notifies.
SaveFail ==
    /\ StoreFaults
    /\ saves # <<>>
    /\ Head(saves).by # "cancelled"
    /\ saves' = Tail(saves)
    /\ Finish(Head(saves))
    /\ issue' = TRUE
    /\ UNCHANGED <<env, cs, pushed, poll, delayed, disk, view, online, life>>

\* The write of a cancelled task never started, or failed unseen.
SaveDropped ==
    /\ saves # <<>>
    /\ Head(saves).by = "cancelled"
    /\ saves' = Tail(saves)
    /\ UNCHANGED <<env, cs, pushed, task, poll, delayed, disk, issue, view, online, life>>

\* The delayed write builds its data when it runs; nobody awaits it, and a
\* failure is only logged.
DelayedWrite ==
    /\ delayed
    /\ saves = <<>>
    /\ delayed' = FALSE
    /\ \/ disk' = Snapshot(cs)
       \/ StoreFaults /\ disk' = disk
    /\ UNCHANGED <<env, cs, pushed, task, poll, saves, issue, view, online, life>>

-----------------------------------------------------------------------------
(* Home Assistant dies, restarts and sets the entry up again: a new        *)
(* coordinator restores the watermark file, and repair issues are gone.    *)

Crash ==
    /\ crashes < MaxCrashes
    /\ crashes' = crashes + 1
    /\ cs' = RestoredStates(disk)
    /\ pushed' = EmptyTable
    /\ task' = [c \in Category |-> "none"]
    /\ poll' = Idle
    /\ saves' = <<>>
    /\ delayed' = FALSE
    /\ issue' = FALSE
    /\ view' = Visible(cs')
    /\ online' = TRUE
    /\ ready' = FALSE
    /\ UNCHANGED <<env, disk>>

-----------------------------------------------------------------------------
Environment ==
    \/ Tick
    \/ \E c \in Category, sev \in AlarmSeverity : RaiseAlarm(c, sev)
    \/ \E c \in Category : ArchiveAlarm(c)

Push ==
    \E c \in Category, sev \in AlarmSeverity :
        \/ PushFiltered(c, sev)
        \/ \E key \in AlertKey : PushApplied(c, key, sev)

PollFetch ==
    \/ \E transport \in Transports : PollRequest(transport)
    \/ PollAnswer
    \/ PollFail

Clearing ==
    \/ ClearAll
    \/ \E c \in Category : ClearCategory(c) \/ AutoClear(c)

StoreStep == SaveOk \/ SaveFail \/ SaveDropped \/ DelayedWrite

Next ==
    \/ Environment
    \/ Push
    \/ PollFetch
    \/ PollApply
    \/ Clearing
    \/ StoreStep
    \/ Crash

Spec == Init /\ [][Next]_vars

\* asyncio runs every ready coroutine, HA reschedules the poll, the sleep of an
\* auto-clear ends, and a store write ends one way or the other.  The controller
\* may be unreachable, but not at every poll for ever.
Fairness ==
    /\ WF_vars(\E transport \in Transports : PollRequest(transport))
    /\ WF_vars(PollAnswer \/ PollFail)
    /\ SF_vars(PollAnswer)
    /\ WF_vars(PollApply)
    /\ \A c \in Category : WF_vars(AutoClear(c))
    /\ WF_vars(SaveOk \/ SaveFail \/ SaveDropped)
    /\ WF_vars(DelayedWrite)

FairSpec == Spec /\ Fairness
=============================================================================
