----------------------------- MODULE DedupTable -----------------------------
(***************************************************************************)
(* coordinator.py, the _last_push_at table of push_alert: when a push of   *)
(* each (category, alert key) pair was last applied, on the monotonic      *)
(* clock.  A table is a function whose domain is the pairs it holds.       *)
(***************************************************************************)
EXTENDS Integers

EmptyTable == [p \in {} |-> 0]

\* Mutant: the window includes its end.
MUT_IsDuplicate_inclusive(table, pair, time, window) ==
    pair \in DOMAIN table /\ time - table[pair] <= window

\* A pair is suppressed while its last applied push is less than `window` old.
IsDuplicate(table, pair, time, window) ==
    pair \in DOMAIN table /\ time - table[pair] < window

\* Mutants: no pruning; the deadline is recorded in place of the time.
MUT_Record_unpruned(table, pair, time, window) ==
    [p \in DOMAIN table \union {pair} |-> IF p = pair THEN time ELSE table[p]]
MUT_Record_deadline(table, pair, time, window) ==
    LET kept == {p \in DOMAIN table : table[p] >= time - window}
    IN  [p \in kept \union {pair} |-> IF p = pair THEN time + window ELSE table[p]]

\* Expired entries are dropped before the new one is recorded.
Record(table, pair, time, window) ==
    LET kept == {p \in DOMAIN table : table[p] >= time - window}
    IN  [p \in kept \union {pair} |-> IF p = pair THEN time ELSE table[p]]
=============================================================================
