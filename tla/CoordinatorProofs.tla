-------------------------- MODULE CoordinatorProofs --------------------------
(***************************************************************************)
(* The coordinator, for every set of categories, configuration, transport  *)
(* and bound: what each operator returns and each action does, the types   *)
(* of its state, and the tie between alerts and auto-clear tasks.          *)
(***************************************************************************)
EXTENDS CoordinatorProperties, FiniteSetTheorems, WellFoundedInduction, TLAPS

-----------------------------------------------------------------------------
(* Operators: what each method of a category state returns and preserves,  *)
(* the oldest watermark, the newest alarm, a poll's effect on one category.*)

LEMMA LeastOfNaturals ==
    ASSUME NEW T \in SUBSET Nat, T # {}
    PROVE  \E x \in T : \A y \in T : x <= y
<1> DEFINE R == {ss \in Nat \X Nat : ss[1] < ss[2]}
<1>1. IsWellFoundedOn(R, Nat)
  BY NatLessThanWellFounded DEF OpToRel
<1>2. \E x \in T : \A y \in T : ~(<<y, x>> \in R)
  <2> HIDE DEF R
  <2> QED
    BY <1>1, WFMin
<1>3. \A x, y \in Nat : ~(<<y, x>> \in R) => x <= y
  OBVIOUS
<1> QED
  BY <1>2, <1>3

\* The oldest watermark is one of them.
LEMMA OldestLemma ==
    ASSUME NEW T \in SUBSET Nat, T # {}
    PROVE  Oldest(T) \in T
BY LeastOfNaturals DEF Oldest

\* A bounded non-empty set of alarms has a newest one: its time is the least
\* bound of the times in the set.
LEMMA NewestLemma ==
    ASSUME NEW S \in SUBSET Alert, S # {}, NEW b \in Nat,
           \A a \in S : a.received_at <= b
    PROVE  Newest(S) \in S /\ \A a \in S : a.received_at <= Newest(S).received_at
<1> DEFINE T == {n \in Nat : \A a \in S : a.received_at <= n}
<1>1. PICK n \in T : \A m \in T : n <= m
  <2> b \in T
    OBVIOUS
  <2> T \in SUBSET Nat
    OBVIOUS
  <2> QED
    BY LeastOfNaturals
<1>2. \E a \in S : a.received_at = n
  <2> SUFFICES ASSUME \A a \in S : a.received_at # n
               PROVE  FALSE
    OBVIOUS
  <2>1. \A a \in S : a.received_at \in Nat
    BY DEF Alert
  <2>2. n # 0
    BY <2>1
  <2>3. n - 1 \in T
    BY <2>1, <2>2
  <2> QED
    BY <1>1, <2>3
<1> QED
  BY <1>1, <1>2 DEF Newest

LEMMA apply_alertLemma ==
    ASSUME NEW s \in CategoryStates, NEW a \in Alert
    PROVE  LET t == apply_alert(s, a)
           IN  /\ t \in CategoryStates
               /\ t.is_alerting = TRUE
               /\ t.enabled = s.enabled
               /\ t.open_count = s.open_count
               /\ t.last_cleared_at = s.last_cleared_at
               /\ t.last_alarm_received_at = Later(s.last_alarm_received_at, a.received_at)
<1>1. a.received_at \in Nat
  BY DEF Alert
<1>2. s.last_alarm_received_at \in Nat
  BY DEF CategoryStates
<1>3. Later(s.last_alarm_received_at, a.received_at) \in Nat
  BY <1>1, <1>2 DEF Later
<1> DEFINE u == [s EXCEPT !.is_alerting = TRUE, !.last_alert = a]
           t == [u EXCEPT !.alert_count = u.alert_count + 1,
                          !.last_alarm_received_at = Later(s.last_alarm_received_at, a.received_at)]
<1>4. u \in CategoryStates
  BY DEF CategoryStates
<1>5. t \in CategoryStates
  <2>1. ASSUME NEW w \in CategoryStates, NEW m \in Nat, NEW n \in Nat
        PROVE  [w EXCEPT !.alert_count = m, !.last_alarm_received_at = n] \in CategoryStates
    BY DEF CategoryStates
  <2>2. u.alert_count + 1 \in Nat
    BY <1>4 DEF CategoryStates
  <2> HIDE DEF u
  <2> QED
    BY <1>3, <1>4, <2>1, <2>2
<1>6. /\ t.is_alerting = TRUE
      /\ t.enabled = s.enabled
      /\ t.open_count = s.open_count
      /\ t.last_cleared_at = s.last_cleared_at
      /\ t.last_alarm_received_at = Later(s.last_alarm_received_at, a.received_at)
  BY DEF CategoryStates
<1>7. apply_alert(s, a) = t
  BY DEF apply_alert, CategoryStates
<1> QED
  BY <1>5, <1>6, <1>7

LEMMA record_filteredLemma ==
    ASSUME NEW s \in CategoryStates
    PROVE  LET t == record_filtered(s)
           IN  /\ t \in CategoryStates
               /\ t.is_alerting = s.is_alerting
               /\ t.last_cleared_at = s.last_cleared_at
               /\ t.last_alarm_received_at = s.last_alarm_received_at
BY DEF record_filtered, CategoryStates

LEMMA clearLemma ==
    ASSUME NEW s \in CategoryStates, NEW t \in Nat
    PROVE  LET u == clear(s, t)
           IN  /\ u \in CategoryStates
               /\ ~u.is_alerting
               /\ u.last_cleared_at \in {s.last_alarm_received_at, t}
               /\ u.last_cleared_at = IF s.last_alarm_received_at # Never
                                      THEN s.last_alarm_received_at ELSE t
               /\ u.last_alarm_received_at = s.last_alarm_received_at
BY DEF clear, CategoryStates

LEMMA PersistedLemma ==
    ASSUME NEW s \in CategoryStates
    PROVE  /\ Persisted(s) \in PersistedStates
           /\ Persisted(s).last_cleared_at = s.last_cleared_at
BY DEF Persisted, PersistedStates, CategoryStates

LEMMA RestoredLemma ==
    ASSUME NEW s \in CategoryStates, NEW e \in PersistedStates
    PROVE  LET t == Restored(s, e)
           IN  /\ t \in CategoryStates
               /\ t.is_alerting = s.is_alerting
               /\ t.last_cleared_at = e.last_cleared_at
               /\ t.last_alarm_received_at = s.last_alarm_received_at
BY DEF Restored, PersistedStates, CategoryStates

LEMMA FreshLemma ==
    /\ FreshStates \in [Category -> CategoryStates]
    /\ \A c \in Category : /\ ~FreshStates[c].is_alerting
                           /\ FreshStates[c].last_cleared_at = 0
                           /\ FreshStates[c].last_alarm_received_at = 0
<1>1. ASSUME NEW e \in BOOLEAN
      PROVE  LET s == NewCategoryState(e)
             IN  /\ s \in CategoryStates
                 /\ ~s.is_alerting
                 /\ s.last_cleared_at = 0
                 /\ s.last_alarm_received_at = 0
  BY DEF NewCategoryState, CategoryStates, NoAlert, Alert, Never, AlertSeverity, SEVERITY_UNKNOWN
<1>2. ASSUME NEW c \in Category
      PROVE  /\ FreshStates[c] \in CategoryStates
             /\ ~FreshStates[c].is_alerting
             /\ FreshStates[c].last_cleared_at = 0
             /\ FreshStates[c].last_alarm_received_at = 0
  <2>1. CASE c \in EnabledCategories
    <3>1. FreshStates[c] = NewCategoryState(c \in EnabledCategories)
      BY DEF FreshStates
    <3>2. (c \in EnabledCategories) = TRUE
      BY <2>1
    <3>3. FreshStates[c] = NewCategoryState(TRUE)
      BY <3>1, <3>2
    <3> QED
      BY <1>1, <3>3
  <2>2. CASE c \notin EnabledCategories
    <3>1. FreshStates[c] = NewCategoryState(c \in EnabledCategories)
      BY DEF FreshStates
    <3>2. (c \in EnabledCategories) = FALSE
      BY <2>2
    <3>3. FreshStates[c] = NewCategoryState(FALSE)
      BY <3>1, <3>2
    <3> QED
      BY <1>1, <3>3
  <2> QED
    BY <2>1, <2>2
<1>3. FreshStates = [c \in Category |-> FreshStates[c]]
  BY DEF FreshStates
<1> QED
  BY <1>2, <1>3

LEMMA RestoredStatesLemma ==
    ASSUME NEW file \in [Category -> PersistedStates]
    PROVE  /\ RestoredStates(file) \in [Category -> CategoryStates]
           /\ \A c \in Category :
                 /\ ~RestoredStates(file)[c].is_alerting
                 /\ RestoredStates(file)[c].last_cleared_at = file[c].last_cleared_at
                 /\ RestoredStates(file)[c].last_alarm_received_at = 0
<1>1. ASSUME NEW c \in Category
      PROVE  /\ RestoredStates(file)[c] \in CategoryStates
             /\ ~RestoredStates(file)[c].is_alerting
             /\ RestoredStates(file)[c].last_cleared_at = file[c].last_cleared_at
             /\ RestoredStates(file)[c].last_alarm_received_at = 0
  <2>1. RestoredStates(file)[c] = Restored(FreshStates[c], file[c])
    BY DEF RestoredStates
  <2> QED
    BY <2>1, FreshLemma, RestoredLemma
<1>2. RestoredStates(file) = [c \in Category |-> RestoredStates(file)[c]]
  BY DEF RestoredStates
<1> QED
  BY <1>1, <1>2

\* Cancelling writes changes who waits for them and nothing else.
LEMMA AbandonLemma ==
    ASSUME saves \in Seq(SaveCalls), NEW chosen
    PROVE  /\ Abandon(chosen) \in Seq(SaveCalls)
           /\ Len(Abandon(chosen)) = Len(saves)
           /\ \A i \in 1 .. Len(saves) :
                 /\ Abandon(chosen)[i].data = saves[i].data
                 /\ Abandon(chosen)[i].cat = saves[i].cat
                 /\ Abandon(chosen)[i].by = IF saves[i].by = "auto" /\ saves[i].cat \in chosen
                                            THEN "cancelled" ELSE saves[i].by
<1>1. \A i \in 1 .. Len(saves) : saves[i] \in SaveCalls
  OBVIOUS
<1>2. DOMAIN saves = 1 .. Len(saves) /\ Len(saves) \in Nat
  OBVIOUS
<1>3. ASSUME NEW i \in 1 .. Len(saves)
      PROVE  /\ Abandon(chosen)[i] \in SaveCalls
             /\ Abandon(chosen)[i].data = saves[i].data
             /\ Abandon(chosen)[i].cat = saves[i].cat
             /\ Abandon(chosen)[i].by = IF saves[i].by = "auto" /\ saves[i].cat \in chosen
                                        THEN "cancelled" ELSE saves[i].by
  BY <1>1, <1>2 DEF Abandon, SaveCalls
<1>4. Abandon(chosen) = [i \in 1 .. Len(saves) |-> Abandon(chosen)[i]]
  BY <1>2 DEF Abandon
<1>5. Abandon(chosen) \in Seq(SaveCalls) /\ Len(Abandon(chosen)) = Len(saves)
  BY <1>2, <1>3, <1>4
<1> QED
  BY <1>3, <1>5

LEMMA SnapshotLemma ==
    ASSUME NEW states \in [Category -> CategoryStates]
    PROVE  /\ Snapshot(states) \in [Category -> PersistedStates]
           /\ \A c \in Category : Snapshot(states)[c].last_cleared_at = states[c].last_cleared_at
BY PersistedLemma DEF Snapshot

LEMMA TimesLemma ==
    ASSUME now \in Nat, now >= Epoch
    PROVE  /\ ControllerNow \in Nat
           /\ LookbackFloor \in Nat
           /\ LookbackFloor <= now
BY TimeAssumption DEF Epoch, ControllerNow, LookbackFloor, Never

LEMMA SinceLemma ==
    ASSUME now \in Nat, now >= Epoch, cs \in [Category -> CategoryStates]
    PROVE  Since \in Nat
<1>1. LookbackFloor \in Nat
  BY TimesLemma
<1>2. Watermarks \in SUBSET Nat
  BY DEF Watermarks, CategoryStates
<1>3. CASE Watermarks = {}
  BY <1>1, <1>3 DEF Since
<1>4. CASE Watermarks # {}
  <2>1. Oldest(Watermarks) \in Nat
    BY <1>2, <1>4, OldestLemma
  <2> QED
    BY <1>1, <1>4, <2>1 DEF Since, Later
<1> QED
  BY <1>3, <1>4

\* What applying an answer does to one enabled category, when the answer holds
\* finitely many alarms and none is later than b.
LEMMA PolledLemma ==
    ASSUME NEW c \in Category, cs[c] \in CategoryStates,
           poll.answer[c] \in SUBSET Alert, IsFiniteSet(poll.answer[c]),
           NEW b \in Nat, \A a \in poll.answer[c] : a.received_at <= b
    PROVE  LET t == Polled(c)
           IN  /\ t \in CategoryStates
               /\ t.is_alerting = (cs[c].is_alerting \/ c \in RaisedByPoll)
               /\ t.last_cleared_at = cs[c].last_cleared_at
               /\ t.last_alarm_received_at \in Nat
               /\ \/ t.last_alarm_received_at = cs[c].last_alarm_received_at
                  \/ t.last_alarm_received_at <= b
<1> DEFINE eligible == Eligible(c, poll.answer[c])
<1>1. eligible \in SUBSET poll.answer[c] /\ Counted(c) \in SUBSET eligible
  BY DEF Eligible, Counted
<1>2. Cardinality(Counted(c)) \in Nat
  <2>1. IsFiniteSet(Counted(c))
    BY <1>1, FS_Subset
  <2> QED
    BY <2>1, FS_CardinalityType
<1>3. /\ NewestSeen(c) \in Nat
      /\ NewestSeen(c) = cs[c].last_alarm_received_at \/ NewestSeen(c) <= b
  <2>1. cs[c].last_alarm_received_at \in Nat
    BY DEF CategoryStates
  <2>2. CASE eligible = {}
    BY <2>1, <2>2 DEF NewestSeen
  <2>3. CASE eligible # {}
    <3>1. eligible \in SUBSET Alert /\ \A a \in eligible : a.received_at <= b
      BY <1>1
    <3>2. Newest(eligible) \in eligible
      <4> HIDE DEF eligible
      <4> QED
        BY <2>3, <3>1, NewestLemma
    <3>3. Newest(eligible).received_at \in Nat /\ Newest(eligible).received_at <= b
      BY <3>1, <3>2 DEF Alert
    <3> QED
      BY <2>1, <2>3, <3>3 DEF NewestSeen, Later
  <2> QED
    BY <2>2, <2>3
<1>4. (IF c \in RaisedByPoll THEN Newest(Counted(c)) ELSE cs[c].last_alert) \in Alert
  <2>1. CASE c \in RaisedByPoll
    <3>1. Counted(c) # {}
      BY <2>1 DEF RaisedByPoll
    <3>2. Counted(c) \in SUBSET Alert /\ \A a \in Counted(c) : a.received_at <= b
      BY <1>1
    <3>3. Newest(Counted(c)) \in Counted(c)
      BY <3>1, <3>2, NewestLemma
    <3> QED
      BY <2>1, <3>2, <3>3
  <2>2. CASE c \notin RaisedByPoll
    BY <2>2 DEF CategoryStates
  <2> QED
    BY <2>1, <2>2
<1>5. (cs[c].is_alerting \/ c \in RaisedByPoll) \in BOOLEAN
  OBVIOUS
<1> DEFINE raised == cs[c].is_alerting \/ c \in RaisedByPoll
           alert == IF c \in RaisedByPoll THEN Newest(Counted(c)) ELSE cs[c].last_alert
           u == [cs[c] EXCEPT !.last_alarm_received_at = NewestSeen(c),
                              !.open_count = Cardinality(Counted(c))]
           t == [u EXCEPT !.is_alerting = raised, !.last_alert = alert]
<1>6. /\ u \in CategoryStates
      /\ u.last_cleared_at = cs[c].last_cleared_at
      /\ u.last_alarm_received_at = NewestSeen(c)
  <2>1. ASSUME NEW m \in Nat, NEW n \in Nat, NEW w \in CategoryStates
        PROVE  LET x == [w EXCEPT !.last_alarm_received_at = m, !.open_count = n]
               IN  /\ x \in CategoryStates
                   /\ x.last_cleared_at = w.last_cleared_at
                   /\ x.last_alarm_received_at = m
    BY DEF CategoryStates
  <2> QED
    BY <1>2, <1>3, <2>1
<1>7. /\ t \in CategoryStates
      /\ t.is_alerting = raised
      /\ t.last_cleared_at = u.last_cleared_at
      /\ t.last_alarm_received_at = u.last_alarm_received_at
  <2> HIDE DEF u, raised, alert
  <2>1. raised \in BOOLEAN /\ alert \in Alert
    BY <1>4, <1>5 DEF raised, alert
  <2>2. u \in CategoryStates
    BY <1>6
  <2> QED
    BY <2>1, <2>2 DEF CategoryStates
<1>8. Polled(c) = t
  BY DEF Polled, CategoryStates
<1> HIDE DEF t, u, raised
<1> QED
  BY <1>3, <1>6, <1>7, <1>8 DEF raised

-----------------------------------------------------------------------------
(* Types.  The newest alarm of an answer exists because the alarms of an   *)
(* answer have a bound: none is later than the controller's clock.         *)

AlarmsPast ==
    \A c \in Category : \A a \in alarms[c] \union poll.answer[c] :
        a.received_at <= ControllerNow

TypeInv == TypeOK /\ AlarmsPast

LEMMA TypeInit == Init => TypeInv
<1> SUFFICES ASSUME Init PROVE TypeInv
  OBVIOUS
<1>1. now \in Nat /\ now >= Epoch
  BY TimeAssumption DEF Init, Epoch
<1>2. NoAnswer \in [Category -> SUBSET Alert] /\ \A c \in Category : NoAnswer[c] = {}
  BY DEF NoAnswer
<1>3. Idle \in Polls /\ Idle.answer = NoAnswer
  BY <1>2 DEF Idle, Polls, Never
<1>4. FreshStates \in [Category -> CategoryStates]
  BY FreshLemma
<1>5. Snapshot(FreshStates) \in [Category -> PersistedStates]
  BY <1>4, SnapshotLemma
<1>6. TypeOK
  <2>1. /\ now \in Nat /\ now >= Epoch
        /\ alarms \in [Category -> SUBSET Alert]
        /\ cs \in [Category -> CategoryStates]
        /\ poll \in Polls
        /\ disk \in [Category -> PersistedStates]
    BY <1>1, <1>2, <1>3, <1>4, <1>5 DEF Init
  <2>2. \A c \in Category : IsFiniteSet(alarms[c]) /\ IsFiniteSet(poll.answer[c])
    BY <1>2, <1>3, FS_EmptySet DEF Init
  <2>3. /\ task \in [Category -> {"none", "sleeping", "saving"}]
        /\ saves \in Seq(SaveCalls)
        /\ delayed \in BOOLEAN /\ issue \in BOOLEAN /\ online \in BOOLEAN /\ ready \in BOOLEAN
        /\ crashes \in Nat
    <3>1. <<>> \in Seq(SaveCalls)
      OBVIOUS
    <3> QED
      BY <3>1 DEF Init
  <2> QED
    BY <2>1, <2>2, <2>3 DEF TypeOK
<1>7. AlarmsPast
  BY <1>2, <1>3 DEF Init, AlarmsPast
<1> QED
  BY <1>6, <1>7 DEF TypeInv

\* Saving keeps the queue well typed.
LEMMA SaveLemma ==
    ASSUME NEW queue \in Seq(SaveCalls), NEW by \in {"user", "auto"},
           NEW cat \in Category \union {NoKey},
           NEW states \in [Category -> CategoryStates],
           Save(by, cat, states, queue)
    PROVE  /\ saves' \in Seq(SaveCalls)
           /\ delayed' \in BOOLEAN
           /\ saves' = Append(queue, [by |-> by, cat |-> cat, data |-> Snapshot(states)])
<1> DEFINE save == [by |-> by, cat |-> cat, data |-> Snapshot(states)]
<1>1. save \in SaveCalls
  BY SnapshotLemma DEF SaveCalls
<1>2. saves' = Append(queue, save) /\ delayed' = FALSE
  BY DEF Save
<1>3. Append(queue, save) \in Seq(SaveCalls)
  <2> HIDE DEF save
  <2> QED
    BY <1>1
<1> QED
  BY <1>2, <1>3

\* Every step of the environment or of the coordinator keeps the types.
LEMMA TypeStep == TypeInv /\ [Next]_vars => TypeInv'
<1> SUFFICES ASSUME TypeInv, [Next]_vars PROVE TypeInv'
  OBVIOUS
<1> USE DEF TypeInv
<1>t. /\ ControllerNow \in Nat
      /\ now' >= now /\ now' \in Nat => ControllerNow' \in Nat /\ ControllerNow' >= ControllerNow
  BY TimesLemma, TimeAssumption DEF TypeOK, ControllerNow, Epoch
<1>e. NoAnswer \in [Category -> SUBSET Alert] /\ \A c \in Category : NoAnswer[c] = {}
  BY DEF NoAnswer
<1>i. Idle \in Polls /\ Idle.answer = NoAnswer
  BY <1>e DEF Idle, Polls, Never
<1>1. CASE Tick
  <2>1. now' \in Nat /\ now' >= Epoch /\ now' >= now
    BY <1>1, TimeAssumption DEF Tick, TypeOK, Epoch
  <2>2. TypeOK'
    BY <1>1, <2>1 DEF Tick, TypeOK, store, life, Epoch
  <2>3. AlarmsPast'
    <3>1. \A c \in Category : \A a \in alarms[c] \union poll.answer[c] : a.received_at \in Nat
      BY DEF TypeOK, Polls, Alert
    <3> QED
      BY <1>1, <1>t, <2>1, <3>1 DEF Tick, AlarmsPast, TypeOK
  <2> QED
    BY <2>2, <2>3
<1>2. ASSUME NEW c \in Category, NEW sev \in AlarmSeverity, RaiseAlarm(c, sev)
      PROVE  TypeInv'
  <2> DEFINE a == [received_at |-> ControllerNow, severity |-> sev]
  <2>1. a \in Alert /\ a.received_at = ControllerNow
    BY <1>t, ConfigAssumption DEF Alert
  <2>2. /\ alarms' \in [Category -> SUBSET Alert]
        /\ alarms'[c] = alarms[c] \union {a}
        /\ \A d \in Category \ {c} : alarms'[d] = alarms[d]
    BY <1>2, <2>1 DEF RaiseAlarm, TypeOK
  <2>3. \A d \in Category : IsFiniteSet(alarms'[d])
    <3>1. IsFiniteSet(alarms[c] \union {a})
      BY FS_AddElement DEF TypeOK
    <3> QED
      BY <2>2, <3>1 DEF TypeOK
  <2>4. TypeOK'
    BY <1>2, <2>2, <2>3 DEF RaiseAlarm, TypeOK, store, life
  <2>5. AlarmsPast'
    <3>1. ControllerNow' = ControllerNow /\ poll' = poll
      BY <1>2 DEF RaiseAlarm, ControllerNow
    <3> HIDE DEF a
    <3> QED
      BY <1>t, <2>1, <2>2, <3>1 DEF AlarmsPast
  <2> QED
    BY <2>4, <2>5
<1>3. ASSUME NEW c \in Category, ArchiveAlarm(c)
      PROVE  TypeInv'
  <2>1. PICK a \in alarms[c] : alarms' = [alarms EXCEPT ![c] = @ \ {a}]
    BY <1>3 DEF ArchiveAlarm
  <2>2. /\ alarms' \in [Category -> SUBSET Alert]
        /\ \A d \in Category : alarms'[d] \in SUBSET alarms[d]
    BY <2>1 DEF TypeOK
  <2>3. \A d \in Category : IsFiniteSet(alarms'[d])
    BY <2>2, FS_Subset DEF TypeOK
  <2>4. TypeOK'
    BY <1>3, <2>2, <2>3 DEF ArchiveAlarm, TypeOK, store, life
  <2>5. AlarmsPast'
    BY <1>3, <2>2 DEF ArchiveAlarm, AlarmsPast, ControllerNow
  <2> QED
    BY <2>4, <2>5
<1>4. ASSUME NEW c \in Category, NEW sev \in AlarmSeverity, PushFiltered(c, sev)
      PROVE  TypeInv'
  <2>1. cs' \in [Category -> CategoryStates]
    <3>1. record_filtered(cs[c]) \in CategoryStates
      BY record_filteredLemma DEF TypeOK
    <3> QED
      BY <1>4, <3>1 DEF PushFiltered, TypeOK
  <2>2. TypeOK'
    BY <1>4, <2>1 DEF PushFiltered, TypeOK, env, life
  <2>3. AlarmsPast'
    BY <1>4 DEF PushFiltered, AlarmsPast, ControllerNow, env
  <2> QED
    BY <2>2, <2>3
<1>5. ASSUME NEW c \in Category, NEW key \in AlertKey, NEW sev \in AlarmSeverity,
             PushApplied(c, key, sev)
      PROVE  TypeInv'
  <2> DEFINE alert == [received_at |-> now, severity |-> sev]
             optimistic == IF now > cs[c].last_cleared_at THEN 1 ELSE 0
             w == apply_alert(cs[c], alert)
  <2>1. w \in CategoryStates
    <3>1. alert \in Alert
      BY ConfigAssumption DEF Alert, TypeOK
    <3> QED
      BY <3>1, apply_alertLemma DEF TypeOK
  <2>2. [w EXCEPT !.open_count = @ + optimistic] \in CategoryStates
    <3>1. ASSUME NEW x \in CategoryStates, NEW n \in Nat
          PROVE  [x EXCEPT !.open_count = @ + n] \in CategoryStates
      BY DEF CategoryStates
    <3>2. optimistic \in Nat
      OBVIOUS
    <3> HIDE DEF w, optimistic
    <3> QED
      BY <2>1, <3>1, <3>2
  <2>3. cs' \in [Category -> CategoryStates]
    <3>1. cs' = [cs EXCEPT ![c] = [w EXCEPT !.open_count = @ + optimistic]]
      BY <1>5 DEF PushApplied
    <3> QED
      BY <2>2, <3>1 DEF TypeOK
  <2>4. saves' \in Seq(SaveCalls)
    BY <1>5, AbandonLemma DEF PushApplied, TypeOK
  <2>5. TypeOK'
    BY <1>5, <2>3, <2>4 DEF PushApplied, TypeOK, Notify, env, life
  <2>6. AlarmsPast'
    BY <1>5 DEF PushApplied, AlarmsPast, ControllerNow, env
  <2> QED
    BY <2>5, <2>6
<1>6. ASSUME NEW transport \in Transports, PollRequest(transport)
      PROVE  TypeInv'
  <2>1. Since \in Nat
    BY SinceLemma DEF TypeOK
  <2>2. poll' \in Polls /\ poll'.answer = NoAnswer
    <3>1. CASE transport = "v2"
      <4>1. poll' = [phase |-> "asked", transport |-> "v2", since |-> Since,
                     until |-> now, answer |-> NoAnswer]
        BY <1>6, <3>1 DEF PollRequest, Idle
      <4> QED
        BY <1>e, <2>1, <4>1 DEF Polls, TypeOK
    <3>2. CASE transport # "v2"
      <4>1. poll' = [phase |-> "asked", transport |-> "legacy", since |-> Never,
                     until |-> Never, answer |-> NoAnswer]
        BY <1>6, <3>2 DEF PollRequest, Idle
      <4> QED
        BY <1>e, <4>1 DEF Polls, Never
    <3> QED
      BY <3>1, <3>2
  <2>3. \A c \in Category : poll'.answer[c] = {}
    BY <1>e, <2>2
  <2>4. TypeOK'
    BY <1>6, <2>2, <2>3, FS_EmptySet DEF PollRequest, TypeOK, env, store, life
  <2>5. AlarmsPast'
    BY <1>6, <2>3 DEF PollRequest, AlarmsPast, ControllerNow, env
  <2> QED
    BY <2>4, <2>5
<1>7. CASE PollAnswer
  <2> DEFINE answer == [c \in Category |-> {a \in alarms[c] : InWindow(a)}]
  <2>1. \A c \in Category : answer[c] \in SUBSET alarms[c]
    OBVIOUS
  <2>2. answer \in [Category -> SUBSET Alert]
    BY DEF TypeOK
  <2>3. poll' \in Polls /\ poll'.answer = answer
    <3>1. poll' = [poll EXCEPT !.phase = "answered", !.answer = answer]
      BY <1>7 DEF PollAnswer
    <3> HIDE DEF answer
    <3> QED
      BY <2>2, <3>1 DEF Polls, TypeOK
  <2>4. \A c \in Category : IsFiniteSet(answer[c])
    <3> HIDE DEF answer
    <3> QED
      BY <2>1, FS_Subset DEF TypeOK
  <2>5. TypeOK'
    BY <1>7, <2>3, <2>4 DEF PollAnswer, TypeOK, env, store, life
  <2>6. AlarmsPast'
    <3> HIDE DEF answer
    <3> QED
      BY <1>7, <2>1, <2>3 DEF PollAnswer, AlarmsPast, ControllerNow, env
  <2> QED
    BY <2>5, <2>6
<1>8. CASE PollFail
  <2>1. poll' \in Polls /\ \A c \in Category : poll'.answer[c] = {}
    BY <1>8, <1>e, <1>i DEF PollFail
  <2>2. TypeOK'
    BY <1>8, <2>1, FS_EmptySet DEF PollFail, TypeOK, env, store, life
  <2>3. AlarmsPast'
    BY <1>8, <2>1 DEF PollFail, AlarmsPast, ControllerNow, env
  <2> QED
    BY <2>2, <2>3
<1>9. CASE PollApply
  <2>1. poll' \in Polls /\ \A c \in Category : poll'.answer[c] = {}
    BY <1>9, <1>e, <1>i DEF PollApply
  <2>2. cs' \in [Category -> CategoryStates]
    <3>1. \A c \in Category : Polled(c) \in CategoryStates
      BY <1>t, PolledLemma DEF TypeOK, Polls, AlarmsPast
    <3> QED
      BY <1>9, <3>1 DEF PollApply, TypeOK
  <2>3. saves' \in Seq(SaveCalls)
    BY <1>9, AbandonLemma DEF PollApply, TypeOK
  <2>4. task' \in [Category -> {"none", "sleeping", "saving"}]
    BY <1>9 DEF PollApply, TypeOK
  <2>5. TypeOK'
    BY <1>9, <2>1, <2>2, <2>3, <2>4, FS_EmptySet DEF PollApply, TypeOK, Notify, env
  <2>6. AlarmsPast'
    BY <1>9, <2>1 DEF PollApply, AlarmsPast, ControllerNow, env
  <2> QED
    BY <2>5, <2>6
<1>10. ASSUME NEW chosen \in SUBSET Category, Clear(chosen)
       PROVE  TypeInv'
  <2> DEFINE cleared == [c \in Category |-> IF c \in chosen THEN clear(cs[c], now) ELSE cs[c]]
  <2>1. cleared \in [Category -> CategoryStates]
    BY clearLemma DEF TypeOK
  <2>2. cs' = cleared /\ Save("user", NoKey, cleared, Abandon(chosen))
    BY <1>10 DEF Clear
  <2>3. saves' \in Seq(SaveCalls) /\ delayed' \in BOOLEAN
    <3>1. Abandon(chosen) \in Seq(SaveCalls)
      BY AbandonLemma DEF TypeOK
    <3> HIDE DEF cleared
    <3> QED
      BY <2>1, <2>2, <3>1, SaveLemma
  <2>4. task' \in [Category -> {"none", "sleeping", "saving"}]
    BY <1>10 DEF Clear, TypeOK
  <2>5. TypeOK'
    <3> HIDE DEF cleared
    <3> QED
      BY <1>10, <2>1, <2>2, <2>3, <2>4 DEF Clear, TypeOK, env, life
  <2>6. AlarmsPast'
    BY <1>10 DEF Clear, AlarmsPast, ControllerNow, env
  <2> QED
    BY <2>5, <2>6
<1>11. ASSUME NEW c \in Category, AutoClear(c)
       PROVE  TypeInv'
  <2> DEFINE cleared == [cs EXCEPT ![c] = clear(@, now)]
  <2>1. cleared \in [Category -> CategoryStates]
    BY clearLemma DEF TypeOK
  <2>2. cs' \in [Category -> CategoryStates] /\ saves' \in Seq(SaveCalls) /\ delayed' \in BOOLEAN
    <3>1. CASE cs[c].is_alerting
      <4>1. cs' = cleared /\ Save("auto", c, cleared, saves)
        BY <1>11, <3>1 DEF AutoClear
      <4> HIDE DEF cleared
      <4> QED
        BY <2>1, <4>1, SaveLemma DEF TypeOK
    <3>2. CASE ~cs[c].is_alerting
      BY <1>11, <3>2 DEF AutoClear, TypeOK
    <3> QED
      BY <3>1, <3>2
  <2>3. task' \in [Category -> {"none", "sleeping", "saving"}]
    BY <1>11 DEF AutoClear, TypeOK
  <2>4. TypeOK'
    BY <1>11, <2>2, <2>3 DEF AutoClear, TypeOK, env, life
  <2>5. AlarmsPast'
    BY <1>11 DEF AutoClear, AlarmsPast, ControllerNow, env
  <2> QED
    BY <2>4, <2>5
<1>12. ASSUME saves # <<>>
       PROVE  /\ Head(saves) \in SaveCalls
              /\ Tail(saves) \in Seq(SaveCalls)
              /\ Head(saves).data \in [Category -> PersistedStates]
  <2>1. saves \in Seq(SaveCalls)
    BY DEF TypeOK
  <2>2. Head(saves) \in SaveCalls /\ Tail(saves) \in Seq(SaveCalls)
    BY <1>12, <2>1
  <2> QED
    BY <2>2 DEF SaveCalls
<1>13. ASSUME NEW save, Finish(save)
       PROVE  task' \in [Category -> {"none", "sleeping", "saving"}]
  BY <1>13 DEF Finish, TypeOK
<1>14. CASE SaveOk
  <2>1. task' \in [Category -> {"none", "sleeping", "saving"}]
    BY <1>13, <1>14 DEF SaveOk
  <2>2. (issue' \in BOOLEAN /\ online' \in BOOLEAN)
    BY <1>14 DEF SaveOk, TypeOK, Notify
  <2>3. TypeOK'
    BY <1>12, <1>14, <2>1, <2>2 DEF SaveOk, TypeOK, env, life
  <2>4. AlarmsPast'
    BY <1>14 DEF SaveOk, AlarmsPast, ControllerNow, env
  <2> QED
    BY <2>3, <2>4
<1>15. CASE SaveFail
  <2>1. task' \in [Category -> {"none", "sleeping", "saving"}]
    BY <1>13, <1>15 DEF SaveFail
  <2>2. TypeOK'
    BY <1>12, <1>15, <2>1 DEF SaveFail, TypeOK, env, life
  <2>3. AlarmsPast'
    BY <1>15 DEF SaveFail, AlarmsPast, ControllerNow, env
  <2> QED
    BY <2>2, <2>3
<1>16. CASE SaveDropped
  <2>1. TypeOK'
    BY <1>12, <1>16 DEF SaveDropped, TypeOK, env, life
  <2>2. AlarmsPast'
    BY <1>16 DEF SaveDropped, AlarmsPast, ControllerNow, env
  <2> QED
    BY <2>1, <2>2
<1>17. CASE DelayedWrite
  <2>1. disk' \in [Category -> PersistedStates]
    BY <1>17, SnapshotLemma DEF DelayedWrite, TypeOK
  <2>2. TypeOK'
    BY <1>17, <2>1 DEF DelayedWrite, TypeOK, env, life
  <2>3. AlarmsPast'
    BY <1>17 DEF DelayedWrite, AlarmsPast, ControllerNow, env
  <2> QED
    BY <2>2, <2>3
<1>18. CASE Crash
  <2>1. poll' \in Polls /\ \A c \in Category : poll'.answer[c] = {}
    BY <1>18, <1>e, <1>i DEF Crash
  <2>2. cs' \in [Category -> CategoryStates]
    <3>1. RestoredStates(disk) \in [Category -> CategoryStates]
      BY RestoredStatesLemma DEF TypeOK
    <3> QED
      BY <1>18, <3>1 DEF Crash
  <2>3. TypeOK'
    <3>1. \A c \in Category : IsFiniteSet(alarms'[c]) /\ IsFiniteSet(poll'.answer[c])
      BY <1>18, <2>1, FS_EmptySet DEF Crash, TypeOK, env
    <3>2. /\ task' \in [Category -> {"none", "sleeping", "saving"}]
          /\ saves' \in Seq(SaveCalls)
          /\ crashes' \in Nat
      BY <1>18 DEF Crash, TypeOK
    <3> QED
      BY <1>18, <2>1, <2>2, <3>1, <3>2 DEF Crash, TypeOK, env
  <2>4. AlarmsPast'
    BY <1>18, <2>1 DEF Crash, AlarmsPast, ControllerNow, env
  <2> QED
    BY <2>3, <2>4
<1>19. CASE UNCHANGED vars
  <2>1. TypeOK'
    BY <1>19 DEF vars, TypeOK
  <2>2. AlarmsPast'
    BY <1>19 DEF vars, AlarmsPast, ControllerNow
  <2> QED
    BY <2>1, <2>2
<1> QED
  BY <1>1, <1>2, <1>3, <1>4, <1>5, <1>6, <1>7, <1>8, <1>9, <1>10, <1>11, <1>14, <1>15,
     <1>16, <1>17, <1>18, <1>19
  DEF Next, Environment, Push, PollFetch, Clearing, ClearCategory, ClearAll, StoreStep

\* Types of the coordinator's state, the store and the controller, and the
\* controller's alarms never later than its own clock.
LEMMA TypeInvariant == Spec => []TypeInv
BY TypeInit, TypeStep, PTL DEF Spec

\* The coordinator's state keeps its types, whatever pushes, polls, clears,
\* store writes and restarts do to one another.
THEOREM CoordinatorTypes == Spec => []TypeOK
<1>1. TypeInv => TypeOK
  BY DEF TypeInv
<1> QED
  BY <1>1, TypeInvariant, PTL

-----------------------------------------------------------------------------
(* What the actions that matter here do, category by category *)

LEMMA PushEffect ==
    ASSUME TypeInv, NEW c \in Category, NEW key, NEW sev \in AlarmSeverity,
           PushApplied(c, key, sev)
    PROVE  /\ cs'[c].is_alerting
           /\ cs'[c].last_cleared_at = cs[c].last_cleared_at
           /\ cs'[c].last_alarm_received_at = Later(cs[c].last_alarm_received_at, now)
           /\ \A d \in Category \ {c} : cs'[d] = cs[d] /\ task'[d] = task[d]
           /\ task'[c] = "sleeping"
           /\ saves' = Abandon({c})
<1> DEFINE alert == [received_at |-> now, severity |-> sev]
           applied == apply_alert(cs[c], alert)
           optimistic == IF now > cs[c].last_cleared_at THEN 1 ELSE 0
<1>1. alert \in Alert /\ alert.received_at = now
  BY ConfigAssumption DEF Alert, TypeInv, TypeOK
<1>2. /\ applied \in CategoryStates
      /\ applied.is_alerting = TRUE
      /\ applied.last_cleared_at = cs[c].last_cleared_at
      /\ applied.last_alarm_received_at = Later(cs[c].last_alarm_received_at, now)
  <2> HIDE DEF alert
  <2> QED
    BY <1>1, apply_alertLemma DEF TypeInv, TypeOK
<1>3. cs' = [cs EXCEPT ![c] = [applied EXCEPT !.open_count = @ + optimistic]]
  BY DEF PushApplied
<1>4. cs'[c] = [applied EXCEPT !.open_count = @ + optimistic]
  <2> HIDE DEF applied, optimistic
  <2> QED
    BY <1>3 DEF TypeInv, TypeOK
<1>5. /\ cs'[c].is_alerting = TRUE
      /\ cs'[c].last_cleared_at = cs[c].last_cleared_at
      /\ cs'[c].last_alarm_received_at = Later(cs[c].last_alarm_received_at, now)
  <2> HIDE DEF applied, optimistic
  <2> QED
    BY <1>2, <1>4 DEF CategoryStates
<1>6. \A d \in Category \ {c} : cs'[d] = cs[d]
  <2> HIDE DEF applied, optimistic
  <2> QED
    BY <1>3 DEF TypeInv, TypeOK
<1>7. /\ task'[c] = "sleeping"
      /\ \A d \in Category \ {c} : task'[d] = task[d]
      /\ saves' = Abandon({c})
  BY DEF PushApplied, TypeInv, TypeOK
<1> QED
  BY <1>5, <1>6, <1>7

LEMMA FilteredEffect ==
    ASSUME TypeInv, NEW c \in Category, NEW sev, PushFiltered(c, sev)
    PROVE  \A d \in Category : /\ cs'[d].is_alerting = cs[d].is_alerting
                               /\ cs'[d].last_cleared_at = cs[d].last_cleared_at
                               /\ cs'[d].last_alarm_received_at = cs[d].last_alarm_received_at
<1>1. cs' = [cs EXCEPT ![c] = record_filtered(cs[c])]
  BY DEF PushFiltered
<1>2. cs'[c] = record_filtered(cs[c]) /\ \A d \in Category \ {c} : cs'[d] = cs[d]
  BY <1>1 DEF TypeInv, TypeOK
<1> QED
  BY <1>2, record_filteredLemma DEF TypeInv, TypeOK

LEMMA PollEffect ==
    ASSUME TypeInv, PollApply
    PROVE  /\ \A c \in Category :
                 /\ cs'[c].is_alerting <=> cs[c].is_alerting \/ c \in RaisedByPoll
                 /\ cs'[c].last_cleared_at = cs[c].last_cleared_at
                 /\ \/ cs'[c].last_alarm_received_at = cs[c].last_alarm_received_at
                    \/ cs'[c].last_alarm_received_at <= ControllerNow
                 /\ task'[c] = IF c \in RaisedByPoll THEN "sleeping" ELSE task[c]
           /\ saves' = Abandon(RaisedByPoll)
<1>1. ASSUME NEW c \in Category
      PROVE  /\ cs'[c].is_alerting <=> cs[c].is_alerting \/ c \in RaisedByPoll
             /\ cs'[c].last_cleared_at = cs[c].last_cleared_at
             /\ \/ cs'[c].last_alarm_received_at = cs[c].last_alarm_received_at
                \/ cs'[c].last_alarm_received_at <= ControllerNow
  <2>1. CASE cs[c].enabled
    <3>1. cs'[c] = Polled(c)
      BY <2>1 DEF PollApply
    <3>2. ControllerNow \in Nat
      BY TimesLemma DEF TypeInv, TypeOK
    <3>3. /\ Polled(c).is_alerting = (cs[c].is_alerting \/ c \in RaisedByPoll)
          /\ Polled(c).last_cleared_at = cs[c].last_cleared_at
          /\ \/ Polled(c).last_alarm_received_at = cs[c].last_alarm_received_at
             \/ Polled(c).last_alarm_received_at <= ControllerNow
      BY <3>2, PolledLemma DEF TypeInv, TypeOK, Polls, AlarmsPast
    <3> QED
      BY <3>1, <3>3
  <2>2. CASE ~cs[c].enabled
    <3>1. cs'[c] = cs[c] /\ c \notin RaisedByPoll
      BY <2>2 DEF PollApply, RaisedByPoll
    <3> QED
      BY <3>1
  <2> QED
    BY <2>1, <2>2
<1>2. /\ \A c \in Category : task'[c] = IF c \in RaisedByPoll THEN "sleeping" ELSE task[c]
      /\ saves' = Abandon(RaisedByPoll)
  BY DEF PollApply
<1> QED
  BY <1>1, <1>2

LEMMA ClearEffect ==
    ASSUME TypeInv, NEW chosen \in SUBSET Category, Clear(chosen)
    PROVE  /\ \A c \in chosen :
                 /\ ~cs'[c].is_alerting
                 /\ cs'[c].last_cleared_at \in {cs[c].last_alarm_received_at, now}
                 /\ cs'[c].last_cleared_at = IF cs[c].last_alarm_received_at # Never
                                              THEN cs[c].last_alarm_received_at ELSE now
                 /\ cs'[c].last_alarm_received_at = cs[c].last_alarm_received_at
                 /\ task'[c] = "none"
           /\ \A c \in Category \ chosen : cs'[c] = cs[c] /\ task'[c] = task[c]
           /\ saves' = Append(Abandon(chosen),
                              [by |-> "user", cat |-> NoKey, data |-> Snapshot(cs')])
<1> DEFINE cleared == [c \in Category |-> IF c \in chosen THEN clear(cs[c], now) ELSE cs[c]]
<1>1. /\ cs' = cleared
      /\ task' = [c \in Category |-> IF c \in chosen THEN "none" ELSE task[c]]
      /\ Save("user", NoKey, cleared, Abandon(chosen))
  BY DEF Clear
<1>2. saves' = Append(Abandon(chosen), [by |-> "user", cat |-> NoKey, data |-> Snapshot(cs')])
  <2> HIDE DEF cleared
  <2> QED
    BY <1>1 DEF Save
<1>3. \A c \in chosen : cs'[c] = clear(cs[c], now) /\ task'[c] = "none"
  BY <1>1
<1>4. \A c \in Category \ chosen : cs'[c] = cs[c] /\ task'[c] = task[c]
  BY <1>1
<1>5. \A c \in chosen :
         /\ ~cs'[c].is_alerting
         /\ cs'[c].last_cleared_at \in {cs[c].last_alarm_received_at, now}
         /\ cs'[c].last_cleared_at = IF cs[c].last_alarm_received_at # Never
                                      THEN cs[c].last_alarm_received_at ELSE now
         /\ cs'[c].last_alarm_received_at = cs[c].last_alarm_received_at
  <2> HIDE DEF cleared
  <2> QED
    BY <1>3, clearLemma DEF TypeInv, TypeOK
<1> QED
  BY <1>2, <1>3, <1>4, <1>5

LEMMA AutoClearEffect ==
    ASSUME TypeInv, NEW c \in Category, AutoClear(c), cs[c].is_alerting
    PROVE  /\ task[c] = "sleeping"
           /\ ~cs'[c].is_alerting
           /\ cs'[c].last_cleared_at \in {cs[c].last_alarm_received_at, now}
           /\ cs'[c].last_cleared_at = IF cs[c].last_alarm_received_at # Never
                                        THEN cs[c].last_alarm_received_at ELSE now
           /\ cs'[c].last_alarm_received_at = cs[c].last_alarm_received_at
           /\ task'[c] = "saving"
           /\ \A d \in Category \ {c} : cs'[d] = cs[d] /\ task'[d] = task[d]
           /\ saves' = Append(saves, [by |-> "auto", cat |-> c, data |-> Snapshot(cs')])
<1>1. /\ task[c] = "sleeping"
      /\ cs' = [cs EXCEPT ![c] = clear(cs[c], now)]
      /\ task' = [task EXCEPT ![c] = "saving"]
      /\ saves' = Append(saves, [by |-> "auto", cat |-> c, data |-> Snapshot(cs')])
  BY DEF AutoClear, Save
<1>2. cs'[c] = clear(cs[c], now) /\ \A d \in Category \ {c} : cs'[d] = cs[d]
  BY <1>1 DEF TypeInv, TypeOK
<1>3. /\ ~cs'[c].is_alerting
      /\ cs'[c].last_cleared_at \in {cs[c].last_alarm_received_at, now}
      /\ cs'[c].last_cleared_at = IF cs[c].last_alarm_received_at # Never
                                   THEN cs[c].last_alarm_received_at ELSE now
      /\ cs'[c].last_alarm_received_at = cs[c].last_alarm_received_at
  BY <1>2, clearLemma DEF TypeInv, TypeOK
<1>4. task'[c] = "saving" /\ \A d \in Category \ {c} : task'[d] = task[d]
  BY <1>1 DEF TypeInv, TypeOK
<1> QED
  BY <1>1, <1>2, <1>3, <1>4

\* A queue that gains one save, or loses its head.
LEMMA QueueLemma ==
    /\ \A q \in Seq(SaveCalls) : \A x :
          /\ Len(Append(q, x)) = Len(q) + 1
          /\ Append(q, x)[Len(q) + 1] = x
          /\ \A i \in 1 .. Len(q) : Append(q, x)[i] = q[i]
    /\ \A q \in Seq(SaveCalls) : q # <<>> =>
          /\ Len(Tail(q)) = Len(q) - 1
          /\ Len(q) >= 1
          /\ Head(q) = q[1]
          /\ \A i \in 1 .. Len(q) - 1 : Tail(q)[i] = q[i + 1]
OBVIOUS

-----------------------------------------------------------------------------
(* An alert has its auto-clear task.  A write of an auto-clear belongs to  *)
(* the one task that awaits it, so the end of the write cannot end the     *)
(* task of a later alert.                                                  *)

AutoSavesOwned ==
    /\ \A i \in 1 .. Len(saves) : saves[i].by = "auto" =>
          saves[i].cat \in Category /\ task[saves[i].cat] = "saving"
    /\ \A i, j \in 1 .. Len(saves) :
          saves[i].by = "auto" /\ saves[j].by = "auto" /\ saves[i].cat = saves[j].cat => i = j

TimerInv == TimerIffAlerting /\ AutoSavesOwned

\* The task of c, if it is the one that made the write at the head, is done.
LEMMA FinishLemma ==
    ASSUME TypeInv, TimerInv, saves # <<>>, saves' = Tail(saves),
           cs' = cs, Finish(Head(saves))
    PROVE  TimerInv'
<1>1. /\ saves \in Seq(SaveCalls) /\ Len(saves) \in Nat
      /\ Len(Tail(saves)) = Len(saves) - 1
      /\ Len(saves) >= 1
      /\ Head(saves) = saves[1]
      /\ \A i \in 1 .. Len(saves) - 1 : Tail(saves)[i] = saves[i + 1]
  BY QueueLemma DEF TypeInv, TypeOK
<1>2. \A c \in Category :
         task'[c] = IF saves[1].by = "auto" /\ saves[1].cat = c THEN "none" ELSE task[c]
  BY <1>1 DEF Finish
<1>3. saves[1].by = "auto" => task[saves[1].cat] = "saving"
  BY <1>1 DEF TimerInv, AutoSavesOwned
<1>4. TimerIffAlerting'
  BY <1>2, <1>3 DEF TimerInv, TimerIffAlerting
<1>5. ASSUME NEW i \in 1 .. Len(saves'), saves'[i].by = "auto"
      PROVE  saves'[i].cat \in Category /\ task'[saves'[i].cat] = "saving"
  <2>1. /\ saves'[i] = saves[i + 1] /\ i + 1 \in 1 .. Len(saves) /\ 1 \in 1 .. Len(saves)
        /\ i + 1 # 1
    BY <1>1
  <2>2. saves[i + 1].cat \in Category /\ task[saves[i + 1].cat] = "saving"
    BY <1>5, <2>1 DEF TimerInv, AutoSavesOwned
  <2>3. ~(saves[1].by = "auto" /\ saves[1].cat = saves[i + 1].cat)
    BY <1>5, <2>1 DEF TimerInv, AutoSavesOwned
  <2> QED
    BY <1>2, <2>1, <2>2, <2>3
<1>6. ASSUME NEW i \in 1 .. Len(saves'), NEW j \in 1 .. Len(saves'),
             saves'[i].by = "auto", saves'[j].by = "auto", saves'[i].cat = saves'[j].cat
      PROVE  i = j
  <2>1. /\ saves'[i] = saves[i + 1] /\ i + 1 \in 1 .. Len(saves)
        /\ saves'[j] = saves[j + 1] /\ j + 1 \in 1 .. Len(saves)
    BY <1>1
  <2>2. i + 1 = j + 1
    BY <1>6, <2>1 DEF TimerInv, AutoSavesOwned
  <2> QED
    BY <2>2
<1> QED
  BY <1>4, <1>5, <1>6 DEF TimerInv, AutoSavesOwned

LEMMA TimerInit == Init => TimerInv
BY FreshLemma DEF Init, TimerInv, TimerIffAlerting, AutoSavesOwned

LEMMA TimerStep == TypeInv /\ TimerInv /\ [Next]_vars => TimerInv'
<1> SUFFICES ASSUME TypeInv, TimerInv, [Next]_vars PROVE TimerInv'
  OBVIOUS
<1>f. ASSUME \A c \in Category : cs'[c].is_alerting <=> cs[c].is_alerting,
             UNCHANGED <<task, saves>>
      PROVE  TimerInv'
  BY <1>f DEF TimerInv, TimerIffAlerting, AutoSavesOwned
<1>q. saves \in Seq(SaveCalls) /\ Len(saves) \in Nat
  BY DEF TypeInv, TypeOK
<1>1. CASE Environment
  BY <1>1, <1>f DEF Environment, Tick, RaiseAlarm, ArchiveAlarm, store
<1>2. ASSUME NEW c \in Category, NEW sev \in AlarmSeverity, PushFiltered(c, sev)
      PROVE  TimerInv'
  <2>1. UNCHANGED <<task, saves>>
    BY <1>2 DEF PushFiltered
  <2> QED
    BY <1>2, <1>f, <2>1, FilteredEffect
\* Raising an alert of some categories starts their tasks and disowns the
\* writes their earlier tasks had under way.
<1>r. ASSUME NEW raised \in SUBSET Category,
             \A c \in Category : cs'[c].is_alerting <=> cs[c].is_alerting \/ c \in raised,
             \A c \in Category : task'[c] = IF c \in raised THEN "sleeping" ELSE task[c],
             saves' = Abandon(raised)
      PROVE  TimerInv'
  <2>1. TimerIffAlerting'
    BY <1>r DEF TimerInv, TimerIffAlerting
  <2>2. /\ Len(saves') = Len(saves)
        /\ \A i \in 1 .. Len(saves) : saves'[i].by = "auto" =>
              saves[i].by = "auto" /\ saves'[i].cat = saves[i].cat /\ saves[i].cat \notin raised
    BY <1>q, <1>r, AbandonLemma
  <2>3. AutoSavesOwned'
    BY <1>q, <1>r, <2>2 DEF TimerInv, AutoSavesOwned
  <2> QED
    BY <2>1, <2>3 DEF TimerInv
<1>3. ASSUME NEW c \in Category, NEW key \in AlertKey, NEW sev \in AlarmSeverity,
             PushApplied(c, key, sev)
      PROVE  TimerInv'
  <2>1. /\ \A d \in Category : cs'[d].is_alerting <=> cs[d].is_alerting \/ d \in {c}
        /\ \A d \in Category : task'[d] = IF d \in {c} THEN "sleeping" ELSE task[d]
        /\ saves' = Abandon({c})
    BY <1>3, PushEffect
  <2> QED
    BY <1>r, <2>1
<1>4. CASE PollFetch
  BY <1>4, <1>f DEF PollFetch, PollRequest, PollAnswer, PollFail, store
<1>5. CASE PollApply
  <2>1. RaisedByPoll \in SUBSET Category
    BY DEF RaisedByPoll
  <2> QED
    BY <1>5, <1>r, <2>1, PollEffect
<1>6. ASSUME NEW chosen \in SUBSET Category, Clear(chosen)
      PROVE  TimerInv'
  <2> DEFINE x == [by |-> "user", cat |-> NoKey, data |-> Snapshot(cs')]
  <2>1. /\ \A c \in chosen : ~cs'[c].is_alerting /\ task'[c] = "none"
        /\ \A c \in Category \ chosen : cs'[c] = cs[c] /\ task'[c] = task[c]
        /\ saves' = Append(Abandon(chosen), x)
    BY <1>6, ClearEffect
  <2>2. TimerIffAlerting'
    BY <2>1 DEF TimerInv, TimerIffAlerting
  <2>3. /\ Len(saves') = Len(saves) + 1
        /\ saves'[Len(saves) + 1].by = "user"
        /\ \A i \in 1 .. Len(saves) : saves'[i].by = "auto" =>
              saves[i].by = "auto" /\ saves'[i].cat = saves[i].cat /\ saves[i].cat \notin chosen
    <3>1. x.by = "user"
      OBVIOUS
    <3>2. /\ Abandon(chosen) \in Seq(SaveCalls) /\ Len(Abandon(chosen)) = Len(saves)
          /\ \A i \in 1 .. Len(saves) : Abandon(chosen)[i].by = "auto" =>
                /\ saves[i].by = "auto"
                /\ Abandon(chosen)[i].cat = saves[i].cat
                /\ saves[i].cat \notin chosen
      BY <1>q, AbandonLemma
    <3> HIDE DEF x
    <3> QED
      BY <2>1, <3>1, <3>2, QueueLemma
  <2>4. AutoSavesOwned'
    BY <1>q, <2>1, <2>3 DEF TimerInv, AutoSavesOwned
  <2> QED
    BY <2>2, <2>4 DEF TimerInv
<1>7. ASSUME NEW c \in Category, AutoClear(c)
      PROVE  TimerInv'
  <2> DEFINE x == [by |-> "auto", cat |-> c, data |-> Snapshot(cs')]
  <2>1. cs[c].is_alerting /\ task[c] = "sleeping"
    BY <1>7 DEF AutoClear, TimerInv, TimerIffAlerting
  <2>2. /\ ~cs'[c].is_alerting
        /\ task'[c] = "saving"
        /\ \A d \in Category \ {c} : cs'[d] = cs[d] /\ task'[d] = task[d]
        /\ saves' = Append(saves, x)
    BY <1>7, <2>1, AutoClearEffect
  <2>3. TimerIffAlerting'
    BY <2>2 DEF TimerInv, TimerIffAlerting
  <2>4. /\ Len(saves') = Len(saves) + 1
        /\ saves'[Len(saves) + 1] = x
        /\ \A i \in 1 .. Len(saves) : saves'[i] = saves[i]
    <3> HIDE DEF x
    <3> QED
      BY <1>q, <2>2, QueueLemma
  <2>5. \A i \in 1 .. Len(saves) : saves[i].by = "auto" => saves[i].cat \in Category \ {c}
    BY <2>1 DEF TimerInv, AutoSavesOwned
  <2>6. x.by = "auto" /\ x.cat = c
    OBVIOUS
  <2>7. AutoSavesOwned'
    <3> HIDE DEF x
    <3>1. ASSUME NEW i \in 1 .. Len(saves'), saves'[i].by = "auto"
          PROVE  saves'[i].cat \in Category /\ task'[saves'[i].cat] = "saving"
      BY <1>q, <2>2, <2>4, <2>5, <2>6, <3>1 DEF TimerInv, AutoSavesOwned
    <3>2. ASSUME NEW i \in 1 .. Len(saves'), NEW j \in 1 .. Len(saves'),
                 saves'[i].by = "auto", saves'[j].by = "auto", saves'[i].cat = saves'[j].cat
          PROVE  i = j
      BY <1>q, <2>4, <2>5, <2>6, <3>2 DEF TimerInv, AutoSavesOwned
    <3> QED
      BY <3>1, <3>2 DEF AutoSavesOwned
  <2> QED
    BY <2>3, <2>7 DEF TimerInv
<1>8. CASE SaveOk
  BY <1>8, FinishLemma DEF SaveOk
<1>9. CASE SaveFail
  BY <1>9, FinishLemma DEF SaveFail
\* A dropped write is of no task: ending it as Finish would changes nothing.
<1>10. CASE SaveDropped
  <2>1. task' = task /\ Head(saves).by # "auto"
    BY <1>10 DEF SaveDropped
  <2>2. Finish(Head(saves))
    BY <2>1 DEF Finish, TypeInv, TypeOK
  <2> QED
    BY <1>10, <2>2, FinishLemma DEF SaveDropped
<1>11. CASE DelayedWrite
  BY <1>11, <1>f DEF DelayedWrite
<1>12. CASE Crash
  <2>1. \A c \in Category : ~cs'[c].is_alerting /\ task'[c] = "none"
    BY <1>12, RestoredStatesLemma DEF Crash, TypeInv, TypeOK
  <2>2. Len(saves') = 0
    BY <1>12 DEF Crash
  <2> QED
    BY <2>1, <2>2 DEF TimerInv, TimerIffAlerting, AutoSavesOwned
<1>13. CASE UNCHANGED vars
  BY <1>13, <1>f DEF vars
<1> QED
  BY <1>1, <1>2, <1>3, <1>4, <1>5, <1>6, <1>7, <1>8, <1>9, <1>10, <1>11, <1>12, <1>13
  DEF Next, Push, Clearing, ClearCategory, ClearAll, StoreStep

\* A category shows Problem exactly while an auto-clear task sleeps for it:
\* _schedule_clear, cancel_clear and the end of _auto_clear keep to their own
\* alert in every interleaving.
THEOREM AlertsHaveTimers == Spec => []TimerIffAlerting
<1>1. TimerInv => TimerIffAlerting
  BY DEF TimerInv
<1> QED
  BY <1>1, TimerInit, TimerStep, TypeInvariant, PTL DEF Spec
=============================================================================
