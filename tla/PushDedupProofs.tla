--------------------------- MODULE PushDedupProofs ---------------------------
(***************************************************************************)
(* PushDedup is correct for every set of pairs, every window and every     *)
(* bound of the clock.                                                     *)
(***************************************************************************)
EXTENDS PushDedup, TLAPS

\* What recording a pair does to the table: the pair is stamped now, and of the
\* others exactly those still within the window are kept, unchanged.
LEMMA RecordLemma ==
    ASSUME NEW t, NEW p, NEW time, NEW window
    PROVE  LET r == Record(t, p, time, window)
           IN  /\ \A q : q \in DOMAIN r <=> q = p \/ (q \in DOMAIN t /\ t[q] >= time - window)
               /\ r = [q \in DOMAIN r |-> r[q]]
               /\ r[p] = time
               /\ \A q \in DOMAIN r : q # p => q \in DOMAIN t /\ r[q] = t[q]
BY DEF Record

\* The types of the table and the clock hold in every reachable state.
THEOREM TypeCorrect == Spec => []TypeOK
<1>1. Init => TypeOK
  BY DEF Init, TypeOK, EmptyTable, NoVerdict
<1>2. TypeOK /\ [Next]_vars => TypeOK'
  <2> SUFFICES ASSUME TypeOK, [Next]_vars
               PROVE  TypeOK'
    OBVIOUS
  <2>1. CASE Elapse
    BY <2>1, ClockAssumption DEF Elapse, TypeOK
  <2>2. ASSUME NEW p \in Pair, PushKeyed(p)
        PROVE  TypeOK'
    <3>1. CASE IsDuplicate(table, p, clock, Window)
      <4>1. table' = table /\ clock' = clock /\ verdict' = [push |-> p, applied |-> FALSE]
        BY <2>2, <3>1 DEF PushKeyed
      <4> QED
        BY <4>1 DEF TypeOK
    <3>2. CASE ~IsDuplicate(table, p, clock, Window)
      <4>1. table' = Record(table, p, clock, Window) /\ clock' = clock
        BY <2>2, <3>2 DEF PushKeyed
      <4>2. /\ \A q : q \in DOMAIN table' <=>
                     q = p \/ (q \in DOMAIN table /\ table[q] >= clock - Window)
            /\ table' = [q \in DOMAIN table' |-> table'[q]]
            /\ table'[p] = clock
            /\ \A q \in DOMAIN table' : q # p => q \in DOMAIN table /\ table'[q] = table[q]
        BY <4>1, RecordLemma
      <4>3. verdict' \in [push : Pair \union {Keyless}, applied : BOOLEAN]
        <5>1. verdict' = [push |-> p, applied |-> TRUE]
          BY <2>2, <3>2 DEF PushKeyed
        <5> QED
          BY <5>1
      <4> QED
        BY <4>1, <4>2, <4>3 DEF TypeOK
    <3> QED
      BY <3>1, <3>2
  <2>3. CASE PushKeyless
    BY <2>3 DEF PushKeyless, TypeOK
  <2>4. CASE UNCHANGED vars
    BY <2>4 DEF vars, TypeOK
  <2> QED
    BY <2>1, <2>2, <2>3, <2>4 DEF Next
<1> QED
  BY <1>1, <1>2, PTL DEF Spec

\* The table never spans more than one window (the "Bounds the dict size"
\* comment of push_alert).
THEOREM TableStaysBounded == Spec => []TableBounded
<1>1. Init => TableBounded
  BY DEF Init, TableBounded, EmptyTable
<1>2. TypeOK /\ TableBounded /\ [Next]_vars => TableBounded'
  <2> SUFFICES ASSUME TypeOK, TableBounded, [Next]_vars
               PROVE  TableBounded'
    OBVIOUS
  <2>1. CASE table' = table
    BY <2>1 DEF TableBounded
  <2>2. ASSUME NEW p \in Pair, table' = Record(table, p, clock, Window)
        PROVE  TableBounded'
    <3>1. /\ \A q : q \in DOMAIN table' <=>
                   q = p \/ (q \in DOMAIN table /\ table[q] >= clock - Window)
          /\ table'[p] = clock
          /\ \A q \in DOMAIN table' : q # p => q \in DOMAIN table /\ table'[q] = table[q]
      BY <2>2, RecordLemma
    <3>2. \A q \in DOMAIN table' : table'[q] \in clock - Window .. clock
      BY <3>1, WindowAssumption DEF TypeOK
    <3> QED
      BY <3>2, WindowAssumption DEF TypeOK, TableBounded
  <2> QED
    BY <2>1, <2>2 DEF Next, Elapse, PushKeyed, PushKeyless, vars
<1> QED
  BY <1>1, <1>2, TypeCorrect, PTL DEF Spec

\* push_alert implements the abstract window: an applied push blocks its own pair
\* for exactly Window and nothing else blocks one, whatever the pruning removed.
THEOREM DedupImplementsWindow == Spec => ImplementsWindow
<1>1. Init => PW!Init
  <2> SUFFICES ASSUME Init
               PROVE  PW!Init
    OBVIOUS
  <2>1. Blocked = [p \in Pair |-> 0]
    BY DEF Init, Blocked, IsDuplicate, EmptyTable
  <2> QED
    BY <2>1 DEF Init, PW!Init, NoVerdict, PW!NoVerdict
<1>2. TypeOK /\ [Next]_vars => [PW!Next]_(PW!wvars)
  <2> SUFFICES ASSUME TypeOK, [Next]_vars
               PROVE  [PW!Next]_(PW!wvars)
    OBVIOUS
  <2>1. ASSUME NEW p \in Pair
        PROVE  /\ IsDuplicate(table, p, clock, Window) =>
                      Blocked[p] = Window - (clock - table[p]) /\ Blocked[p] > 0
               /\ ~IsDuplicate(table, p, clock, Window) => Blocked[p] = 0
    BY WindowAssumption DEF TypeOK, Blocked, IsDuplicate
  <2>2. CASE Elapse
    <3>1. PICK t \in clock + 1 .. MaxClock : clock' = t
      BY <2>2 DEF Elapse
    <3>2. table' = table /\ verdict' = verdict
      BY <2>2 DEF Elapse
    <3>3. t - clock \in 1 .. MaxClock
      BY <3>1, ClockAssumption DEF TypeOK
    <3>4. ASSUME NEW p \in Pair
          PROVE  Blocked'[p] = IF Blocked[p] > t - clock THEN Blocked[p] - (t - clock) ELSE 0
      BY <3>1, <3>2, WindowAssumption, ClockAssumption DEF TypeOK, Blocked, IsDuplicate
    <3>5. Blocked' = [p \in Pair |-> IF Blocked[p] > t - clock
                                     THEN Blocked[p] - (t - clock) ELSE 0]
      BY <3>4 DEF Blocked
    <3>6. PW!Elapse(t - clock)
      BY <3>2, <3>5 DEF PW!Elapse
    <3> QED
      BY <3>3, <3>6 DEF PW!Next
  <2>3. ASSUME NEW p \in Pair, PushKeyed(p)
        PROVE  [PW!Next]_(PW!wvars)
    <3>1. CASE IsDuplicate(table, p, clock, Window)
      <4>1. table' = table /\ clock' = clock /\ verdict' = [push |-> p, applied |-> FALSE]
        BY <2>3, <3>1 DEF PushKeyed
      <4>2. Blocked' = Blocked /\ Blocked[p] > 0
        BY <2>1, <3>1, <4>1 DEF Blocked
      <4>3. PW!Suppress(p)
        BY <4>1, <4>2 DEF PW!Suppress
      <4> QED
        BY <4>3 DEF PW!Next
    <3>2. CASE ~IsDuplicate(table, p, clock, Window)
      <4>1. /\ table' = Record(table, p, clock, Window)
            /\ clock' = clock
            /\ verdict' = [push |-> p, applied |-> TRUE]
        BY <2>3, <3>2 DEF PushKeyed
      <4>2. /\ \A q : q \in DOMAIN table' <=>
                     q = p \/ (q \in DOMAIN table /\ table[q] >= clock - Window)
            /\ table'[p] = clock
            /\ \A q \in DOMAIN table' : q # p => q \in DOMAIN table /\ table'[q] = table[q]
        BY <4>1, RecordLemma
      <4>3. Blocked'[p] = Window
        BY <4>1, <4>2, WindowAssumption DEF TypeOK, Blocked, IsDuplicate
      <4>4. ASSUME NEW q \in Pair, q # p
            PROVE  Blocked'[q] = Blocked[q]
        <5>1. CASE q \in DOMAIN table /\ clock - table[q] < Window
          <6>1. q \in DOMAIN table' /\ table'[q] = table[q]
            BY <4>2, <4>4, <5>1, WindowAssumption DEF TypeOK
          <6> QED
            BY <4>1, <5>1, <6>1 DEF Blocked, IsDuplicate
        <5>2. CASE ~(q \in DOMAIN table /\ clock - table[q] < Window)
          <6>1. ~(q \in DOMAIN table' /\ clock' - table'[q] < Window)
            BY <4>1, <4>2, <4>4, <5>2
          <6> QED
            BY <5>2, <6>1 DEF Blocked, IsDuplicate
        <5> QED
          BY <5>1, <5>2
      <4>5. Blocked' = [Blocked EXCEPT ![p] = Window]
        BY <4>3, <4>4 DEF Blocked
      <4>6. PW!Apply(p)
        BY <2>1, <3>2, <4>1, <4>5 DEF PW!Apply
      <4> QED
        BY <4>6 DEF PW!Next
    <3> QED
      BY <3>1, <3>2
  <2>4. CASE PushKeyless
    <3>1. Blocked' = Blocked
      BY <2>4 DEF PushKeyless, Blocked
    <3>2. PW!ApplyKeyless
      BY <2>4, <3>1 DEF PushKeyless, PW!ApplyKeyless
    <3> QED
      BY <3>2 DEF PW!Next
  <2>5. CASE UNCHANGED vars
    BY <2>5 DEF vars, PW!wvars, Blocked
  <2> QED
    BY <2>2, <2>3, <2>4, <2>5 DEF Next
<1> QED
  BY <1>1, <1>2, TypeCorrect, PTL DEF Spec, PW!Spec, ImplementsWindow
=============================================================================
