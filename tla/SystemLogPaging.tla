-------------------------- MODULE SystemLogPaging --------------------------
(***************************************************************************)
(* One v2 fetch after another (fetch_system_log_alarms): the log is read   *)
(* page by page, with an await at each, while events are logged and        *)
(* archived between the pages.                                             *)
(*                                                                         *)
(* Events are numbered in the order of their timestamps. A listing is the  *)
(* run of events in the window since < e <= upto, in the controller's      *)
(* order, which the code does not ask for: oldest or newest first. The     *)
(* window's end is fixed when the fetch starts, so an event logged later   *)
(* lies within only if the controller's clock is behind HA's.              *)
(***************************************************************************)
EXTENDS Integers, FiniteSets

CONSTANTS
    PageSize,  \* SYSTEM_LOG_PAGE_SIZE
    MaxPages,  \* MAX_SYSTEM_LOG_PAGES
    Orders,    \* how the controller may list: subset of {"oldest", "newest"}
    MaxEvents  \* Bound of the environment: events ever logged.

ASSUME PagingAssumption ==
    /\ PageSize \in Nat \ {0} /\ MaxPages \in Nat \ {0}
    /\ Orders \subseteq {"oldest", "newest"}
    /\ MaxEvents \in Nat

VARIABLES
    order,    \* how this controller lists
    logged,   \* events 1 .. logged are in the log
    new,      \* those with status NEW
    since, upto,  \* the window of the fetch
    page,     \* the page asked for, or Idle
    results,  \* how many times each event was collected: a list whose order
              \* no caller looks at
    \* History of the fetch: how it ended; the events that were in its window at
    \* the start and stayed NEW; how many were logged into it since.
    outcome, kept, shifted

log == <<order, logged, new>>
fetch == <<since, page, results, outcome>>
vars == <<order, logged, new, since, upto, page, results, outcome, kept, shifted>>

Idle == -1
Event == 1 .. MaxEvents
Nothing == [e \in Event |-> 0]

\* How many events the window holds, and at which place each is listed.
Size == upto - since
Place(e) == IF order = "oldest" THEN e - since ELSE upto + 1 - e

\* The controller's answer for page p: its events, and total_page_count.
PageData(p) ==
    {e \in since + 1 .. upto :
        p * PageSize < Place(e) /\ Place(e) <= p * PageSize + PageSize}
TotalPages == (Size + PageSize - 1) \div PageSize

\* results.extend: the open events of the page join the list.
Extended(data) ==
    [e \in Event |-> IF e \in data \intersect new THEN results[e] + 1 ELSE results[e]]

\* Mutant: the last page is never asked for.
MUT_IsLast_early(p, data) == p + 2 >= TotalPages \/ data = {}

IsLast(p, data) == p + 1 >= TotalPages \/ data = {}

Init ==
    /\ order \in Orders
    /\ logged \in 0 .. MaxEvents
    /\ new \in SUBSET (1 .. logged)
    /\ since = 0 /\ upto = 0
    /\ page = Idle
    /\ results = Nothing
    /\ outcome = "none"
    /\ kept = {} /\ shifted = 0

\* Mutant: the collected events are not reset.
MUT_Start_keeps_results ==
    /\ page = Idle
    /\ since' \in 0 .. logged
    /\ upto' = logged
    /\ page' = 0
    /\ outcome' = "none"
    /\ kept' = {e \in new : e > since'}
    /\ shifted' = 0
    /\ UNCHANGED <<log, results>>

\* A poll starts a fetch: from the watermark, or from the lookback, to now.
Start ==
    /\ page = Idle
    /\ since' \in 0 .. logged
    /\ upto' = logged
    /\ page' = 0
    /\ results' = Nothing
    /\ outcome' = "none"
    /\ kept' = {e \in new : e > since'}
    /\ shifted' = 0
    /\ UNCHANGED log

\* Mutant: no page cap.
MUT_Answer_uncapped ==
    /\ page # Idle
    /\ LET data == PageData(page) IN
       /\ results' = Extended(data)
       /\ IF IsLast(page, data)
          THEN page' = Idle /\ outcome' = "complete"
          ELSE page' = page + 1 /\ outcome' = outcome
    /\ UNCHANGED <<log, since, upto, kept, shifted>>

\* A page arrives: its NEW events are collected, and the next page is asked for,
\* unless this was the last one or the cap is reached.
Answer ==
    /\ page # Idle
    /\ LET data == PageData(page) IN
       /\ results' = Extended(data)
       /\ IF IsLast(page, data) THEN page' = Idle /\ outcome' = "complete"
          ELSE IF page + 1 = MaxPages THEN page' = Idle /\ outcome' = "capped"
          ELSE page' = page + 1 /\ outcome' = outcome
    /\ UNCHANGED <<log, since, upto, kept, shifted>>

\* A redirect, a 401, an error status, a lost connection, a bad certificate or a
\* timeout: the exception discards what was collected.
Fail ==
    /\ page # Idle
    /\ page' = Idle
    /\ results' = Nothing
    /\ outcome' = "failed"
    /\ UNCHANGED <<log, since, upto, kept, shifted>>

\* The controller logs an event. During a fetch it falls into the window as long
\* as the controller's clock has not passed timestampTo.
LogEvent ==
    /\ logged < MaxEvents
    /\ logged' = logged + 1
    /\ new' = new \union {logged'}
    /\ \/ /\ page # Idle /\ upto = logged
          /\ upto' = logged'
          /\ shifted' = shifted + 1
       \/ UNCHANGED <<upto, shifted>>
    /\ UNCHANGED <<order, fetch, kept>>

\* An event is acknowledged at the controller: listed, but no longer NEW.
Archive ==
    /\ \E e \in new :
        /\ new' = new \ {e}
        /\ kept' = IF page # Idle THEN kept \ {e} ELSE kept
    /\ UNCHANGED <<order, logged, fetch, upto, shifted>>

Next == Start \/ Answer \/ Fail \/ LogEvent \/ Archive

Spec == Init /\ [][Next]_vars

-----------------------------------------------------------------------------
\* Every variable has its type; no page beyond the cap is asked for.
TypeOK ==
    /\ order \in Orders
    /\ logged \in 0 .. MaxEvents
    /\ new \subseteq 1 .. logged
    /\ since \in 0 .. logged /\ upto \in since .. logged
    /\ page \in {Idle} \union 0 .. MaxPages - 1
    /\ results \in [Event -> 0 .. MaxPages]
    /\ outcome \in {"none", "complete", "capped", "failed"}
    /\ kept \subseteq since + 1 .. upto
    /\ shifted \in 0 .. logged

\* fetch_system_log_alarms: a fetch that returns has every event that was in its
\* window from the start and stayed NEW, but for those that the controller lists
\* beyond the cap; events logged between two pages push none of them out.
NothingSkipped ==
    outcome \in {"complete", "capped"} /\ page = Idle =>
        \A e \in kept : Place(e) <= MaxPages * PageSize => results[e] > 0

\* The entries of the list that repeat an event: its second, third, ... one.
Repeats == {x \in Event \X (1 .. MaxPages) : x[2] < results[x[1]]}

\* fetch_system_log_alarms: the results are not de-duplicated, and open_count is
\* their number. An event is counted again only where the controller lists the
\* newest first, and there at most once for each event logged meanwhile.
OverCountBounded ==
    Cardinality(Repeats) <= IF order = "newest" THEN shifted ELSE 0
=============================================================================
