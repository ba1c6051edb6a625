----------------------------- MODULE PushWindow -----------------------------
(***************************************************************************)
(* What push_alert promises about duplicates: an applied push blocks its   *)
(* own (category, key) pair for exactly Window, and nothing else ever      *)
(* blocks a push.  No table, no pruning: each pair has a time still to     *)
(* wait.                                                                   *)
(***************************************************************************)
EXTENDS Integers

CONSTANTS
    Pair,      \* the (category, alert key) pairs
    Keyless,   \* an alert without a key
    Window,    \* WEBHOOK_DEDUP_WINDOW_SECONDS
    MaxStep    \* bound of the time that passes at once

VARIABLES
    blocked,   \* how long each pair will still be suppressed
    verdict    \* the last push and whether it was applied

wvars == <<blocked, verdict>>

NoVerdict == [push |-> Keyless, applied |-> FALSE]

Init ==
    /\ blocked = [p \in Pair |-> 0]
    /\ verdict = NoVerdict

Elapse(d) ==
    /\ blocked' = [p \in Pair |-> IF blocked[p] > d THEN blocked[p] - d ELSE 0]
    /\ UNCHANGED verdict

Apply(p) ==
    /\ blocked[p] = 0
    /\ blocked' = [blocked EXCEPT ![p] = Window]
    /\ verdict' = [push |-> p, applied |-> TRUE]

Suppress(p) ==
    /\ blocked[p] > 0
    /\ verdict' = [push |-> p, applied |-> FALSE]
    /\ UNCHANGED blocked

ApplyKeyless ==
    /\ verdict' = [push |-> Keyless, applied |-> TRUE]
    /\ UNCHANGED blocked

Next ==
    \/ \E d \in 1 .. MaxStep : Elapse(d)
    \/ \E p \in Pair : Apply(p) \/ Suppress(p)
    \/ ApplyKeyless

Spec == Init /\ [][Next]_wvars
=============================================================================
