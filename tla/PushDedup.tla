------------------------------ MODULE PushDedup ------------------------------
(***************************************************************************)
(* coordinator.py, push_alert: the suppression of duplicate webhook        *)
(* deliveries with the _last_push_at table, which each keyed push prunes,  *)
(* and its refinement of PushWindow.                                       *)
(***************************************************************************)
EXTENDS DedupTable, FiniteSets

CONSTANTS
    Pair, Keyless, Window,
    MaxClock   \* bound of the monotonic clock

ASSUME WindowAssumption == Window \in Nat

ASSUME ClockAssumption == MaxClock \in Nat

VARIABLES
    clock,     \* time.monotonic()
    table,     \* _last_push_at
    verdict    \* the last push and whether push_alert applied it

vars == <<clock, table, verdict>>

NoVerdict == [push |-> Keyless, applied |-> FALSE]

Init ==
    /\ clock = 0
    /\ table = EmptyTable
    /\ verdict = NoVerdict

Elapse ==
    /\ clock < MaxClock
    /\ \E t \in clock + 1 .. MaxClock : clock' = t
    /\ UNCHANGED <<table, verdict>>

\* push_alert of an alert with a key.
PushKeyed(p) ==
    /\ IF IsDuplicate(table, p, clock, Window)
       THEN table' = table /\ verdict' = [push |-> p, applied |-> FALSE]
       ELSE /\ table' = Record(table, p, clock, Window)
            /\ verdict' = [push |-> p, applied |-> TRUE]
    /\ UNCHANGED clock

\* push_alert of an alert without one: applied, and the table is not touched.
PushKeyless ==
    /\ verdict' = [push |-> Keyless, applied |-> TRUE]
    /\ UNCHANGED <<clock, table>>

Next ==
    \/ Elapse
    \/ \E p \in Pair : PushKeyed(p)
    \/ PushKeyless

Spec == Init /\ [][Next]_vars

-----------------------------------------------------------------------------
\* How long the table will still suppress a pair.
Blocked ==
    [p \in Pair |-> IF IsDuplicate(table, p, clock, Window)
                    THEN Window - (clock - table[p])
                    ELSE 0]

PW == INSTANCE PushWindow WITH blocked <- Blocked, MaxStep <- MaxClock

\* The table holds times of the past, for pairs only.
TypeOK ==
    /\ clock \in Nat
    /\ DOMAIN table \subseteq Pair
    /\ table = [p \in DOMAIN table |-> table[p]]
    /\ \A p \in DOMAIN table : table[p] \in 0 .. clock
    /\ verdict \in [push : Pair \union {Keyless}, applied : BOOLEAN]

\* The comment in push_alert "Bounds the dict size": all that the table holds was
\* applied within one window of the newest entry, however many distinct keys a
\* controller has sent before.
TableBounded ==
    \A p, q \in DOMAIN table : table[p] - table[q] <= Window

\* push_alert implements the window: pruning the table when another pair is
\* recorded never forgets a push that would still have been suppressed, nor
\* leaves one suppressed for longer.
ImplementsWindow == PW!Spec
=============================================================================
