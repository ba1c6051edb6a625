-------------------------- MODULE CoordinatorSafety --------------------------
(***************************************************************************)
(* What the coordinator keeps true, for every set of categories,           *)
(* configuration, transport and bound: no watermark is lost unseen, where  *)
(* the controller's clock is not behind Home Assistant's no watermark lies *)
(* in the controller's future, what shows Problem meets the minimum, each  *)
(* poll reconciles its category, and over one API what was seen and        *)
(* cleared stays acknowledged.                                             *)
(***************************************************************************)
EXTENDS CoordinatorProofs, AckHistory

-----------------------------------------------------------------------------
(* No watermark is lost unseen.  Every write started after the one that    *)
(* carries a watermark carries it too, because only Clear and AutoClear    *)
(* move a watermark and both start a write; so once it has been written or *)
(* reported lost, the writes left in the queue do not undo that.           *)

\* From the i-th write on, all carry the watermark of c.
CarriedFrom(c, i) ==
    \A j \in i .. Len(saves) : saves[j].data[c].last_cleared_at = cs[c].last_cleared_at

\* A write that nothing but a new alert of c can cancel.
FirmFor(save, c) == save.by = "user" \/ (save.by = "auto" /\ save.cat = c)

CoverInv ==
    \A c \in Category :
        \/ cs[c].is_alerting
        \/ CarriedFrom(c, 1) /\ (issue \/ disk[c].last_cleared_at = cs[c].last_cleared_at)
        \/ \E i \in 1 .. Len(saves) : FirmFor(saves[i], c) /\ CarriedFrom(c, i)

LEMMA CoverImplies == TypeInv /\ CoverInv => WatermarkCovered
<1> SUFFICES ASSUME TypeInv, CoverInv, NEW c \in Category,
                    ~(cs[c].last_cleared_at = disk[c].last_cleared_at \/ issue),
                    ~cs[c].is_alerting
             PROVE  \E i \in DOMAIN saves :
                        /\ saves[i].by # "cancelled"
                        /\ saves[i].data[c].last_cleared_at = cs[c].last_cleared_at
  BY DEF WatermarkCovered
<1>1. PICK i \in 1 .. Len(saves) : FirmFor(saves[i], c) /\ CarriedFrom(c, i)
  BY DEF CoverInv
<1>2. DOMAIN saves = 1 .. Len(saves) /\ Len(saves) \in Nat
  BY DEF TypeInv, TypeOK
<1> QED
  BY <1>1, <1>2 DEF FirmFor, CarriedFrom

LEMMA CoverInit == Init => CoverInv
<1> SUFFICES ASSUME Init, NEW c \in Category
             PROVE  CarriedFrom(c, 1) /\ disk[c].last_cleared_at = cs[c].last_cleared_at
  BY DEF CoverInv
<1>1. saves = <<>> /\ Len(saves) = 0
  BY DEF Init
<1>2. disk[c].last_cleared_at = cs[c].last_cleared_at
  BY FreshLemma, SnapshotLemma DEF Init
<1> QED
  BY <1>1, <1>2 DEF CarriedFrom

\* The head of the queue is written, or its loss is reported, or it was
\* cancelled and changes nothing.
LEMMA CoverTail ==
    ASSUME TypeInv, CoverInv, saves # <<>>, saves' = Tail(saves), cs' = cs,
           \/ disk' = Head(saves).data /\ (Head(saves).by = "cancelled" => issue' = issue)
           \/ disk' = disk /\ issue' = TRUE
           \/ disk' = disk /\ issue' = issue /\ Head(saves).by = "cancelled"
    PROVE  CoverInv'
<1>1. /\ Len(saves) \in Nat
      /\ Len(saves') = Len(saves) - 1
      /\ Len(saves) >= 1
      /\ Head(saves) = saves[1]
      /\ \A i \in 1 .. Len(saves) - 1 : saves'[i] = saves[i + 1]
  BY QueueLemma DEF TypeInv, TypeOK
<1>2. ASSUME NEW c \in Category
      PROVE  \/ cs'[c].is_alerting
             \/ CarriedFrom(c, 1)' /\ (issue' \/ disk'[c].last_cleared_at = cs'[c].last_cleared_at)
             \/ \E i \in 1 .. Len(saves') : FirmFor(saves'[i], c) /\ CarriedFrom(c, i)'
  <2>1. ASSUME NEW i \in 1 .. Len(saves'), CarriedFrom(c, i + 1)
        PROVE  CarriedFrom(c, i)'
    BY <1>1, <2>1 DEF CarriedFrom
  <2>2. ASSUME CarriedFrom(c, 1)
        PROVE  /\ CarriedFrom(c, 1)'
               /\ saves[1].data[c].last_cleared_at = cs[c].last_cleared_at
    BY <1>1, <2>2 DEF CarriedFrom
  <2>3. CASE cs[c].is_alerting
    BY <2>3
  <2>4. CASE CarriedFrom(c, 1) /\ (issue \/ disk[c].last_cleared_at = cs[c].last_cleared_at)
    BY <1>1, <2>2, <2>4
  <2>5. ASSUME NEW i \in 1 .. Len(saves), FirmFor(saves[i], c), CarriedFrom(c, i)
        PROVE  \/ CarriedFrom(c, 1)' /\ (issue' \/ disk'[c].last_cleared_at = cs'[c].last_cleared_at)
               \/ \E k \in 1 .. Len(saves') : FirmFor(saves'[k], c) /\ CarriedFrom(c, k)'
    <3>1. CASE i = 1
      <4>1. CarriedFrom(c, 1)
        BY <2>5, <3>1
      <4>2. saves[1].by # "cancelled"
        BY <2>5, <3>1 DEF FirmFor
      <4> QED
        BY <1>1, <2>2, <4>1, <4>2
    <3>2. CASE i # 1
      <4>1. i - 1 \in 1 .. Len(saves') /\ saves'[i - 1] = saves[i] /\ (i - 1) + 1 = i
        BY <1>1, <3>2
      <4>2. FirmFor(saves'[i - 1], c)
        BY <2>5, <4>1
      <4>3. CarriedFrom(c, i - 1)'
        BY <2>1, <2>5, <4>1
      <4> QED
        BY <4>1, <4>2, <4>3
    <3> QED
      BY <3>1, <3>2
  <2> QED
    BY <2>3, <2>4, <2>5 DEF CoverInv
<1> QED
  BY <1>2 DEF CoverInv

\* A queue in which some writes were disowned, of categories that are alerting
\* now, still covers every other category.
LEMMA CoverAbandon ==
    ASSUME TypeInv, CoverInv, NEW raised \in SUBSET Category, saves' = Abandon(raised),
           \A c \in raised : cs'[c].is_alerting,
           \A c \in Category : /\ cs[c].is_alerting => cs'[c].is_alerting
                               /\ cs'[c].last_cleared_at = cs[c].last_cleared_at,
           UNCHANGED <<disk, issue>>
    PROVE  CoverInv'
<1>1. /\ Len(saves') = Len(saves)
      /\ \A i \in 1 .. Len(saves) :
            /\ saves'[i].data = saves[i].data
            /\ saves'[i].cat = saves[i].cat
            /\ saves'[i].by = IF saves[i].by = "auto" /\ saves[i].cat \in raised
                              THEN "cancelled" ELSE saves[i].by
      /\ Len(saves) \in Nat
  BY AbandonLemma DEF TypeInv, TypeOK
<1>2. ASSUME NEW c \in Category, NEW i \in 1 .. Len(saves) + 1, CarriedFrom(c, i)
      PROVE  CarriedFrom(c, i)'
  BY <1>1, <1>2 DEF CarriedFrom
<1>3. ASSUME NEW c \in Category \ raised, NEW i \in 1 .. Len(saves), FirmFor(saves[i], c)
      PROVE  FirmFor(saves'[i], c)
  BY <1>1, <1>3 DEF FirmFor
<1>4. 1 \in 1 .. Len(saves) + 1 /\ \A i \in 1 .. Len(saves) : i \in 1 .. Len(saves) + 1
  BY <1>1
<1> QED
  BY <1>1, <1>2, <1>3, <1>4 DEF CoverInv

\* A write that snapshots the new states covers the categories that moved, and
\* takes nothing from the others.
LEMMA CoverAppend ==
    ASSUME TypeInv, CoverInv, TypeInv', NEW chosen \in SUBSET Category,
           NEW queue \in Seq(SaveCalls), NEW x,
           Len(queue) = Len(saves),
           \A i \in 1 .. Len(saves) :
              /\ queue[i].data = saves[i].data
              /\ queue[i].cat = saves[i].cat
              /\ \/ queue[i].by = saves[i].by
                 \/ saves[i].by = "auto" /\ saves[i].cat \in chosen,
           x.data = Snapshot(cs'),
           \A c \in chosen : FirmFor(x, c),
           saves' = Append(queue, x),
           \A c \in Category \ chosen : cs'[c] = cs[c],
           UNCHANGED <<disk, issue>>
    PROVE  CoverInv'
<1>1. /\ Len(saves) \in Nat
      /\ Len(saves') = Len(saves) + 1
      /\ saves'[Len(saves) + 1] = x
      /\ \A i \in 1 .. Len(saves) : saves'[i] = queue[i]
  BY QueueLemma DEF TypeInv, TypeOK
<1>2. \A c \in Category : x.data[c].last_cleared_at = cs'[c].last_cleared_at
  BY SnapshotLemma DEF TypeInv, TypeOK
<1>3. ASSUME NEW c \in chosen
      PROVE  \E i \in 1 .. Len(saves') : FirmFor(saves'[i], c) /\ CarriedFrom(c, i)'
  <2>1. PICK i \in 1 .. Len(saves') : i = Len(saves) + 1
    BY <1>1
  <2>2. CarriedFrom(c, i)'
    BY <1>1, <1>2, <2>1 DEF CarriedFrom
  <2>3. FirmFor(saves'[i], c)
    BY <1>1, <2>1
  <2> QED
    BY <2>1, <2>2, <2>3
<1>4. ASSUME NEW c \in Category \ chosen
      PROVE  \/ cs'[c].is_alerting
             \/ CarriedFrom(c, 1)' /\ (issue' \/ disk'[c].last_cleared_at = cs'[c].last_cleared_at)
             \/ \E i \in 1 .. Len(saves') : FirmFor(saves'[i], c) /\ CarriedFrom(c, i)'
  <2>1. ASSUME NEW i \in 1 .. Len(saves) + 1, CarriedFrom(c, i)
        PROVE  CarriedFrom(c, i)'
    <3>1. SUFFICES ASSUME NEW j \in i .. Len(saves')
                   PROVE  saves'[j].data[c].last_cleared_at = cs'[c].last_cleared_at
      BY DEF CarriedFrom
    <3>2. CASE j = Len(saves) + 1
      BY <1>1, <1>2, <3>2
    <3>3. CASE j # Len(saves) + 1
      <4>1. j \in i .. Len(saves) /\ j \in 1 .. Len(saves)
        BY <1>1, <3>3
      <4>2. saves[j].data[c].last_cleared_at = cs[c].last_cleared_at
        BY <2>1, <4>1 DEF CarriedFrom
      <4> QED
        BY <1>1, <4>1, <4>2
    <3> QED
      BY <3>2, <3>3
  <2>2. ASSUME NEW i \in 1 .. Len(saves), FirmFor(saves[i], c)
        PROVE  i \in 1 .. Len(saves') /\ FirmFor(saves'[i], c)
    BY <1>1, <2>2 DEF FirmFor
  <2>3. cs'[c] = cs[c]
    OBVIOUS
  <2>4. 1 \in 1 .. Len(saves) + 1 /\ \A i \in 1 .. Len(saves) : i \in 1 .. Len(saves) + 1
    BY <1>1
  <2>5. CASE cs[c].is_alerting
    BY <2>3, <2>5
  <2>6. CASE CarriedFrom(c, 1) /\ (issue \/ disk[c].last_cleared_at = cs[c].last_cleared_at)
    BY <2>1, <2>3, <2>4, <2>6
  <2>7. CASE \E i \in 1 .. Len(saves) : FirmFor(saves[i], c) /\ CarriedFrom(c, i)
    BY <2>1, <2>2, <2>4, <2>7
  <2> QED
    BY <2>5, <2>6, <2>7 DEF CoverInv
<1> QED
  BY <1>3, <1>4 DEF CoverInv

LEMMA CoverStep == TypeInv /\ CoverInv /\ [Next]_vars => CoverInv'
<1> SUFFICES ASSUME TypeInv, CoverInv, [Next]_vars PROVE CoverInv'
  OBVIOUS
<1>t. TypeInv'
  BY TypeStep
<1>f. ASSUME \A c \in Category : /\ cs'[c].is_alerting <=> cs[c].is_alerting
                                 /\ cs'[c].last_cleared_at = cs[c].last_cleared_at,
             UNCHANGED <<saves, disk, issue>>
      PROVE  CoverInv'
  <2>1. ASSUME NEW c \in Category, NEW i
        PROVE  CarriedFrom(c, i) => CarriedFrom(c, i)'
    BY <1>f DEF CarriedFrom
  <2> QED
    BY <1>f, <2>1 DEF CoverInv
<1>q. saves \in Seq(SaveCalls)
  BY DEF TypeInv, TypeOK
<1>1. CASE Environment
  BY <1>1, <1>f DEF Environment, Tick, RaiseAlarm, ArchiveAlarm, store
<1>2. ASSUME NEW c \in Category, NEW sev \in AlarmSeverity, PushFiltered(c, sev)
      PROVE  CoverInv'
  <2>1. UNCHANGED <<saves, disk, issue>>
    BY <1>2 DEF PushFiltered
  <2> QED
    BY <1>2, <1>f, <2>1, FilteredEffect
<1>3. ASSUME NEW c \in Category, NEW key \in AlertKey, NEW sev \in AlarmSeverity,
             PushApplied(c, key, sev)
      PROVE  CoverInv'
  <2>1. /\ cs'[c].is_alerting
        /\ \A d \in Category : /\ cs[d].is_alerting => cs'[d].is_alerting
                               /\ cs'[d].last_cleared_at = cs[d].last_cleared_at
        /\ saves' = Abandon({c})
    BY <1>3, PushEffect
  <2>2. UNCHANGED <<disk, issue>>
    BY <1>3 DEF PushApplied
  <2> QED
    BY <2>1, <2>2, CoverAbandon
<1>4. CASE PollFetch
  BY <1>4, <1>f DEF PollFetch, PollRequest, PollAnswer, PollFail, store
<1>5. CASE PollApply
  <2>1. RaisedByPoll \in SUBSET Category /\ UNCHANGED <<disk, issue>>
    BY <1>5 DEF RaisedByPoll, PollApply
  <2> QED
    BY <1>5, <2>1, PollEffect, CoverAbandon
<1>6. ASSUME NEW chosen \in SUBSET Category, Clear(chosen)
      PROVE  CoverInv'
  <2> DEFINE x == [by |-> "user", cat |-> NoKey, data |-> Snapshot(cs')]
  <2>1. /\ saves' = Append(Abandon(chosen), x)
        /\ \A c \in Category \ chosen : cs'[c] = cs[c]
        /\ UNCHANGED <<disk, issue>>
    BY <1>6, ClearEffect DEF Clear
  <2>2. x.data = Snapshot(cs') /\ x.by = "user"
    OBVIOUS
  <2>3. Abandon(chosen) \in Seq(SaveCalls) /\ Len(Abandon(chosen)) = Len(saves)
    BY <1>q, AbandonLemma
  <2>5. ASSUME NEW i \in 1 .. Len(saves)
        PROVE  /\ Abandon(chosen)[i].data = saves[i].data
               /\ Abandon(chosen)[i].cat = saves[i].cat
               /\ \/ Abandon(chosen)[i].by = saves[i].by
                  \/ saves[i].by = "auto" /\ saves[i].cat \in chosen
    <3>1. /\ Abandon(chosen)[i].data = saves[i].data
          /\ Abandon(chosen)[i].cat = saves[i].cat
          /\ Abandon(chosen)[i].by = IF saves[i].by = "auto" /\ saves[i].cat \in chosen
                                     THEN "cancelled" ELSE saves[i].by
      BY <1>q, AbandonLemma
    <3>2. CASE saves[i].by = "auto" /\ saves[i].cat \in chosen
      BY <3>1, <3>2
    <3>3. CASE ~(saves[i].by = "auto" /\ saves[i].cat \in chosen)
      BY <3>1, <3>3
    <3> QED
      BY <3>2, <3>3
  <2> HIDE DEF x
  <2>4. \A c \in chosen : FirmFor(x, c)
    BY <2>2 DEF FirmFor
  <2> QED
    BY <1>t, <2>1, <2>2, <2>3, <2>4, <2>5, CoverAppend
<1>7. ASSUME NEW c \in Category, AutoClear(c)
      PROVE  CoverInv'
  <2> DEFINE x == [by |-> "auto", cat |-> c, data |-> Snapshot(cs')]
  <2>1. UNCHANGED <<disk, issue>>
    BY <1>7 DEF AutoClear
  <2>2. CASE cs[c].is_alerting
    <3>1. saves' = Append(saves, x) /\ \A d \in Category \ {c} : cs'[d] = cs[d]
      BY <1>7, <2>2, AutoClearEffect
    <3>2. x.data = Snapshot(cs') /\ x.by = "auto" /\ x.cat = c
      OBVIOUS
    <3>3. \A d \in {c} : FirmFor(x, d)
      BY <3>2 DEF FirmFor
    <3>4. {c} \in SUBSET Category
      OBVIOUS
    <3>5. /\ Len(saves) = Len(saves)
          /\ \A i \in 1 .. Len(saves) :
                /\ saves[i].data = saves[i].data
                /\ saves[i].cat = saves[i].cat
                /\ \/ saves[i].by = saves[i].by
                   \/ saves[i].by = "auto" /\ saves[i].cat \in {c}
      OBVIOUS
    <3> HIDE DEF x
    <3> QED
      BY <1>q, <1>t, <2>1, <3>1, <3>2, <3>3, <3>4, <3>5, CoverAppend
  <2>3. CASE ~cs[c].is_alerting
    BY <1>7, <1>f, <2>1, <2>3 DEF AutoClear
  <2> QED
    BY <2>2, <2>3
<1>8. CASE SaveOk
  BY <1>8, CoverTail DEF SaveOk
<1>9. CASE SaveFail
  BY <1>9, CoverTail DEF SaveFail
<1>10. CASE SaveDropped
  BY <1>10, CoverTail DEF SaveDropped
<1>11. CASE DelayedWrite
  <2>1. saves = <<>> /\ saves' = saves /\ cs' = cs /\ issue' = issue
    BY <1>11 DEF DelayedWrite
  <2>2. CASE disk' = disk
    BY <1>f, <2>1, <2>2
  <2>3. CASE disk' = Snapshot(cs)
    <3>1. \A c \in Category : disk'[c].last_cleared_at = cs'[c].last_cleared_at
      BY <2>1, <2>3, SnapshotLemma DEF TypeInv, TypeOK
    <3>2. \A c \in Category : CarriedFrom(c, 1)'
      BY <2>1 DEF CarriedFrom
    <3> QED
      BY <3>1, <3>2 DEF CoverInv
  <2> QED
    BY <1>11, <2>2, <2>3 DEF DelayedWrite
<1>12. CASE Crash
  <2>1. \A c \in Category : disk'[c].last_cleared_at = cs'[c].last_cleared_at
    BY <1>12, RestoredStatesLemma DEF Crash, TypeInv, TypeOK
  <2>2. \A c \in Category : CarriedFrom(c, 1)'
    BY <1>12 DEF Crash, CarriedFrom
  <2> QED
    BY <2>1, <2>2 DEF CoverInv
<1>13. CASE UNCHANGED vars
  BY <1>13, <1>f DEF vars
<1> QED
  BY <1>1, <1>2, <1>3, <1>4, <1>5, <1>6, <1>7, <1>8, <1>9, <1>10, <1>11, <1>12, <1>13
  DEF Next, Push, Clearing, ClearCategory, ClearAll, StoreStep

\* No failed write, cancelled auto-clear, later clear or delayed write loses a
\* watermark unseen: it is on disk, on its way there, reported lost, or its
\* category is alerting again.
THEOREM WatermarksCovered == Spec => []WatermarkCovered
<1> QED
  BY CoverImplies, CoverInit, CoverStep, TypeInvariant, PTL DEF Spec

-----------------------------------------------------------------------------
(* Watermarks and the controller's clock.  A webhook, and the fallback of  *)
(* clear(), is stamped with Home Assistant's clock: of the two clocks the  *)
(* one ahead bounds every stamp.                                           *)

Latest == Later(now, ControllerNow)

Behind(t) == t <= Latest

StampsInv ==
    /\ \A c \in Category : Behind(cs[c].last_cleared_at) /\ Behind(cs[c].last_alarm_received_at)
    /\ \A c \in Category : Behind(disk[c].last_cleared_at)
    /\ \A i \in 1 .. Len(saves) : \A c \in Category : Behind(saves[i].data[c].last_cleared_at)

LEMMA StampsInit == Init => StampsInv
<1> SUFFICES ASSUME Init PROVE StampsInv
  OBVIOUS
<1>1. Latest \in Nat /\ Len(saves) = 0
  BY TimeAssumption DEF Init, Epoch, ControllerNow, Latest, Later
<1>2. \A c \in Category : /\ cs[c].last_cleared_at = 0
                          /\ cs[c].last_alarm_received_at = 0
                          /\ disk[c].last_cleared_at = 0
  BY FreshLemma, SnapshotLemma DEF Init
<1> QED
  BY <1>1, <1>2 DEF StampsInv, Behind

LEMMA StampsStep == TypeInv /\ StampsInv /\ [Next]_vars => StampsInv'
<1> SUFFICES ASSUME TypeInv, StampsInv, [Next]_vars PROVE StampsInv'
  OBVIOUS
<1>n. /\ Latest \in Nat /\ ControllerNow \in Nat /\ now \in Nat
      /\ Behind(now) /\ Behind(ControllerNow)
  BY TimesLemma DEF Behind, Latest, Later, TypeInv, TypeOK
<1>q. saves \in Seq(SaveCalls) /\ Len(saves) \in Nat
  BY DEF TypeInv, TypeOK
\* A step that keeps the clock and the file is safe if its new states are.
<1>f. ASSUME now' = now,
             \A c \in Category : /\ Behind(cs'[c].last_cleared_at)
                                 /\ Behind(cs'[c].last_alarm_received_at),
             disk' = disk \/ \A c \in Category : Behind(disk'[c].last_cleared_at),
             \A i \in 1 .. Len(saves') : \A c \in Category :
                Behind(saves'[i].data[c].last_cleared_at)
      PROVE  StampsInv'
  BY <1>f DEF StampsInv, Behind, Latest, ControllerNow
<1>c. ASSUME cs' = cs
      PROVE  \A c \in Category : /\ Behind(cs'[c].last_cleared_at)
                                 /\ Behind(cs'[c].last_alarm_received_at)
  BY <1>c DEF StampsInv
<1>s. ASSUME saves' = saves \/ \E chosen : saves' = Abandon(chosen)
      PROVE  \A i \in 1 .. Len(saves') : \A c \in Category :
                Behind(saves'[i].data[c].last_cleared_at)
  BY <1>q, <1>s, AbandonLemma DEF StampsInv
\* A save appended to the queue, whose snapshot is of the new states.
<1>a. ASSUME NEW queue \in Seq(SaveCalls), NEW x,
             Len(queue) = Len(saves),
             \A i \in 1 .. Len(saves) : queue[i].data = saves[i].data,
             saves' = Append(queue, x), x.data = Snapshot(cs'),
             \A c \in Category : Behind(cs'[c].last_cleared_at)
      PROVE  \A i \in 1 .. Len(saves') : \A c \in Category :
                Behind(saves'[i].data[c].last_cleared_at)
  <2>1. /\ Len(saves') = Len(saves) + 1
        /\ saves'[Len(saves) + 1] = x
        /\ \A i \in 1 .. Len(saves) : saves'[i] = queue[i]
    BY <1>a, QueueLemma
  <2>2. \A c \in Category : x.data[c].last_cleared_at = cs'[c].last_cleared_at
    BY <1>a, TypeStep, SnapshotLemma DEF TypeInv, TypeOK
  <2>3. ASSUME NEW i \in 1 .. Len(saves'), NEW c \in Category
        PROVE  Behind(saves'[i].data[c].last_cleared_at)
    <3>1. CASE i = Len(saves) + 1
      BY <1>a, <2>1, <2>2, <3>1
    <3>2. CASE i # Len(saves) + 1
      <4>1. i \in 1 .. Len(saves)
        BY <1>q, <2>1, <3>2
      <4>2. saves'[i].data = saves[i].data
        BY <1>a, <2>1, <4>1
      <4> QED
        BY <4>1, <4>2 DEF StampsInv
    <3> QED
      BY <3>1, <3>2
  <2> QED
    BY <2>3
<1>1. CASE Tick
  <2>1. now' = now + 1 /\ UNCHANGED <<cs, disk, saves>>
    BY <1>1 DEF Tick, store
  <2>2. ControllerNow' = ControllerNow + 1
    BY <1>n, <2>1, TimeAssumption DEF ControllerNow
  <2>3. \A t \in Nat : Behind(t) => Behind(t)'
    BY <1>n, <2>1, <2>2 DEF Behind, Latest, Later
  <2>4. \A c \in Category : /\ cs[c].last_cleared_at \in Nat
                            /\ cs[c].last_alarm_received_at \in Nat
                            /\ disk[c].last_cleared_at \in Nat
    BY DEF TypeInv, TypeOK, CategoryStates, PersistedStates
  <2>5. \A i \in 1 .. Len(saves) : \A c \in Category : saves[i].data[c].last_cleared_at \in Nat
    <3>1. \A i \in 1 .. Len(saves) : saves[i] \in SaveCalls
      BY <1>q
    <3> QED
      BY <3>1 DEF SaveCalls, PersistedStates
  <2> QED
    BY <2>1, <2>3, <2>4, <2>5 DEF StampsInv
<1>2. ASSUME NEW c \in Category, NEW sev, RaiseAlarm(c, sev) \/ ArchiveAlarm(c)
      PROVE  StampsInv'
  BY <1>2, <1>c, <1>f, <1>s DEF RaiseAlarm, ArchiveAlarm, store
<1>3. ASSUME NEW c \in Category, NEW sev \in AlarmSeverity, PushFiltered(c, sev)
      PROVE  StampsInv'
  <2>1. now' = now /\ saves' = saves /\ disk' = disk
    BY <1>3 DEF PushFiltered, env
  <2>2. \A d \in Category : /\ Behind(cs'[d].last_cleared_at)
                            /\ Behind(cs'[d].last_alarm_received_at)
    BY <1>3, FilteredEffect DEF StampsInv
  <2> QED
    BY <1>f, <1>s, <2>1, <2>2
<1>4. ASSUME NEW c \in Category, NEW key \in AlertKey, NEW sev \in AlarmSeverity,
             PushApplied(c, key, sev)
      PROVE  StampsInv'
  <2>1. now' = now /\ saves' = Abandon({c}) /\ disk' = disk
    BY <1>4 DEF PushApplied, env
  <2>2. /\ cs'[c].last_cleared_at = cs[c].last_cleared_at
        /\ cs'[c].last_alarm_received_at = Later(cs[c].last_alarm_received_at, now)
        /\ \A d \in Category \ {c} : cs'[d] = cs[d]
    BY <1>4, PushEffect
  <2>3. \A d \in Category : /\ Behind(cs'[d].last_cleared_at)
                            /\ Behind(cs'[d].last_alarm_received_at)
    BY <1>n, <2>2 DEF StampsInv, Later
  <2> QED
    BY <1>f, <1>s, <2>1, <2>3
<1>5. CASE PollFetch
  BY <1>5, <1>c, <1>f, <1>s DEF PollFetch, PollRequest, PollAnswer, PollFail, env, store
<1>6. CASE PollApply
  <2>1. now' = now /\ disk' = disk
    BY <1>6 DEF PollApply, env
  <2>2. \A c \in Category : /\ Behind(cs'[c].last_cleared_at)
                            /\ Behind(cs'[c].last_alarm_received_at)
    <3>1. \A t \in Nat : t <= ControllerNow => Behind(t)
      BY <1>n DEF Behind
    <3>2. \A c \in Category : cs'[c].last_alarm_received_at \in Nat
      BY TypeStep DEF TypeInv, TypeOK, CategoryStates
    <3> QED
      BY <1>6, <3>1, <3>2, PollEffect DEF StampsInv
  <2> QED
    BY <1>6, <1>f, <1>s, <2>1, <2>2, PollEffect
<1>7. ASSUME NEW chosen \in SUBSET Category, Clear(chosen)
      PROVE  StampsInv'
  <2> DEFINE x == [by |-> "user", cat |-> NoKey, data |-> Snapshot(cs')]
  <2>1. now' = now /\ disk' = disk
    BY <1>7 DEF Clear, env
  <2>2. \A c \in Category : /\ Behind(cs'[c].last_cleared_at)
                            /\ Behind(cs'[c].last_alarm_received_at)
    BY <1>7, <1>n, ClearEffect DEF StampsInv
  <2>3. saves' = Append(Abandon(chosen), x) /\ x.data = Snapshot(cs')
    BY <1>7, ClearEffect
  <2>4. /\ Abandon(chosen) \in Seq(SaveCalls)
        /\ Len(Abandon(chosen)) = Len(saves)
        /\ \A i \in 1 .. Len(saves) : Abandon(chosen)[i].data = saves[i].data
    BY <1>q, AbandonLemma
  <2> HIDE DEF x
  <2>5. \A i \in 1 .. Len(saves') : \A c \in Category :
           Behind(saves'[i].data[c].last_cleared_at)
    BY <1>a, <2>2, <2>3, <2>4
  <2> QED
    BY <1>f, <2>1, <2>2, <2>5
<1>8. ASSUME NEW c \in Category, AutoClear(c)
      PROVE  StampsInv'
  <2> DEFINE x == [by |-> "auto", cat |-> c, data |-> Snapshot(cs')]
  <2>1. now' = now /\ disk' = disk
    BY <1>8 DEF AutoClear, env
  <2>2. CASE cs[c].is_alerting
    <3>1. \A d \in Category : /\ Behind(cs'[d].last_cleared_at)
                              /\ Behind(cs'[d].last_alarm_received_at)
      BY <1>8, <1>n, <2>2, AutoClearEffect DEF StampsInv
    <3>2. saves' = Append(saves, x) /\ x.data = Snapshot(cs')
      BY <1>8, <2>2, AutoClearEffect
    <3> HIDE DEF x
    <3>3. \A i \in 1 .. Len(saves') : \A d \in Category :
             Behind(saves'[i].data[d].last_cleared_at)
      BY <1>a, <1>q, <3>1, <3>2
    <3> QED
      BY <1>f, <2>1, <3>1, <3>3
  <2>3. CASE ~cs[c].is_alerting
    BY <1>8, <1>c, <1>f, <1>s, <2>1, <2>3 DEF AutoClear
  <2> QED
    BY <2>2, <2>3
<1>9. CASE SaveOk \/ SaveFail \/ SaveDropped
  <2>1. saves # <<>> /\ saves' = Tail(saves) /\ cs' = cs /\ now' = now
    BY <1>9 DEF SaveOk, SaveFail, SaveDropped, env
  <2>2. /\ Len(saves') = Len(saves) - 1
        /\ Len(saves) >= 1
        /\ Head(saves) = saves[1]
        /\ \A i \in 1 .. Len(saves) - 1 : saves'[i] = saves[i + 1]
    BY <1>q, <2>1, QueueLemma
  <2>3. \A i \in 1 .. Len(saves') : \A c \in Category :
           Behind(saves'[i].data[c].last_cleared_at)
    BY <1>q, <2>2 DEF StampsInv
  <2>4. disk' = disk \/ \A c \in Category : Behind(disk'[c].last_cleared_at)
    BY <1>9, <1>q, <2>2 DEF SaveOk, SaveFail, SaveDropped, StampsInv
  <2> QED
    BY <1>c, <1>f, <2>1, <2>3, <2>4
<1>10. CASE DelayedWrite
  <2>1. now' = now /\ cs' = cs /\ saves' = saves /\ (disk' = disk \/ disk' = Snapshot(cs))
    BY <1>10 DEF DelayedWrite, env
  <2>2. \A c \in Category : Behind(Snapshot(cs)[c].last_cleared_at)
    BY SnapshotLemma DEF TypeInv, TypeOK, StampsInv
  <2> QED
    BY <1>c, <1>f, <1>s, <2>1, <2>2
<1>11. CASE Crash
  <2>1. now' = now /\ disk' = disk /\ Len(saves') = 0
    BY <1>11 DEF Crash, env
  <2>2. \A c \in Category : /\ cs'[c].last_cleared_at = disk[c].last_cleared_at
                            /\ cs'[c].last_alarm_received_at = 0
    BY <1>11, RestoredStatesLemma DEF Crash, TypeInv, TypeOK
  <2>3. \A c \in Category : /\ Behind(cs'[c].last_cleared_at)
                            /\ Behind(cs'[c].last_alarm_received_at)
    BY <1>n, <2>2 DEF StampsInv, Behind
  <2> QED
    BY <1>f, <2>1, <2>3
<1>12. CASE UNCHANGED vars
  BY <1>12, <1>c, <1>f, <1>s DEF vars
<1> QED
  BY <1>1, <1>2, <1>3, <1>4, <1>5, <1>6, <1>7, <1>8, <1>9, <1>10, <1>11, <1>12
  DEF Next, Environment, Push, Clearing, ClearCategory, ClearAll, StoreStep

\* Wherever clear() took it from, and through whatever restarts, no watermark
\* is ahead of the controller's clock by more than the clocks differ, for any
\* skew: what is born acknowledged is at most the alarms of that time, and
\* nothing where the controller's clock is not behind.
THEOREM WatermarksWithinSkew == Spec => []WatermarkWithinSkew
<1>1. StampsInv => WatermarkWithinSkew
  BY DEF StampsInv, WatermarkWithinSkew, Behind, Latest
<1>2. Init => StampsInv
  BY StampsInit
<1>3. TypeInv /\ StampsInv /\ [Next]_vars => StampsInv'
  BY StampsStep
<1> QED
  BY <1>1, <1>2, <1>3, TypeInvariant, PTL DEF Spec

-----------------------------------------------------------------------------
(* What shows as Problem.  Only push_alert and _async_update_data raise an *)
(* alert, each behind the gate of the category's minimum severity, and     *)
(* only in a category that is enabled.                                     *)

FitsGate(c) ==
    /\ c \in EnabledCategories
    /\ cs[c].last_alert # NoAlert
    /\ meets_minimum(cs[c].last_alert.severity, Minimum(c))

ShownInv ==
    \A c \in Category :
        /\ cs[c].enabled <=> c \in EnabledCategories
        /\ cs[c].is_alerting => FitsGate(c)

LEMMA FreshEnabled ==
    \A c \in Category : FreshStates[c].enabled <=> c \in EnabledCategories
BY DEF FreshStates, NewCategoryState

LEMMA ShownInit == Init => ShownInv
BY FreshLemma, FreshEnabled DEF Init, ShownInv

\* The newest of the alarms a poll counted.
LEMMA NewestCounted ==
    ASSUME TypeInv, NEW c \in Category, Counted(c) # {}
    PROVE  /\ Newest(Counted(c)) \in Counted(c)
           /\ Newest(Counted(c)).received_at > cs[c].last_cleared_at
           /\ Newest(Counted(c)) # NoAlert
           /\ meets_minimum(Newest(Counted(c)).severity, Minimum(c))
<1>1. poll.answer[c] \in SUBSET Alert
  BY DEF TypeInv, TypeOK, Polls
<1>2. Counted(c) \in SUBSET Alert /\ Counted(c) \in SUBSET poll.answer[c]
  BY <1>1 DEF Counted, Eligible
<1>3. ControllerNow \in Nat /\ \A a \in Counted(c) : a.received_at <= ControllerNow
  BY <1>2, TimesLemma DEF TypeInv, TypeOK, AlarmsPast
<1>4. Newest(Counted(c)) \in Counted(c)
  BY <1>2, <1>3, NewestLemma
<1> DEFINE newest == Newest(Counted(c))
<1> HIDE DEF newest
<1>5. newest \in Counted(c) /\ newest \in Alert
  BY <1>2, <1>4 DEF newest
<1>6. newest.received_at > cs[c].last_cleared_at /\ meets_minimum(newest.severity, Minimum(c))
  BY <1>5 DEF Counted, Eligible
<1>7. newest # NoAlert
  BY <1>5, <1>6 DEF NoAlert, Never, Alert, TypeInv, TypeOK, CategoryStates
<1> QED
  BY <1>5, <1>6, <1>7 DEF newest

\* What a poll shows in an enabled category.
LEMMA PolledShows ==
    ASSUME TypeInv, NEW c \in Category
    PROVE  /\ Polled(c).enabled = cs[c].enabled
           /\ Polled(c).open_count = Cardinality(Counted(c))
           /\ Polled(c).is_alerting = (cs[c].is_alerting \/ c \in RaisedByPoll)
           /\ Polled(c).last_alert = IF c \in RaisedByPoll THEN Newest(Counted(c)) ELSE cs[c].last_alert
           /\ Polled(c).alert_count = cs[c].alert_count
           /\ Polled(c).last_cleared_at = cs[c].last_cleared_at
<1>1. cs[c] \in CategoryStates
  BY DEF TypeInv, TypeOK
<1> QED
  BY <1>1 DEF Polled, CategoryStates

LEMMA ShownStep == TypeInv /\ ShownInv /\ [Next]_vars => ShownInv'
<1> SUFFICES ASSUME TypeInv, ShownInv, [Next]_vars PROVE ShownInv'
  OBVIOUS
<1>t. cs \in [Category -> CategoryStates]
  BY DEF TypeInv, TypeOK
\* A category in which nothing is raised.
<1>q. ASSUME NEW c \in Category, cs'[c].enabled = cs[c].enabled,
             cs'[c].is_alerting => cs[c].is_alerting /\ cs'[c].last_alert = cs[c].last_alert
      PROVE  /\ cs'[c].enabled <=> c \in EnabledCategories
             /\ cs'[c].is_alerting => FitsGate(c)'
  BY <1>q DEF ShownInv, FitsGate
<1>1. CASE UNCHANGED cs
  BY <1>1 DEF ShownInv, FitsGate
<1>2. ASSUME NEW c \in Category, NEW sev \in AlarmSeverity, PushFiltered(c, sev)
      PROVE  ShownInv'
  <2>1. cs' = [cs EXCEPT ![c] = record_filtered(cs[c])]
    BY <1>2 DEF PushFiltered
  <2>2. /\ record_filtered(cs[c]).enabled = cs[c].enabled
        /\ record_filtered(cs[c]).is_alerting = cs[c].is_alerting
        /\ record_filtered(cs[c]).last_alert = cs[c].last_alert
    BY <1>t DEF record_filtered, CategoryStates
  <2>3. \A d \in Category : /\ cs'[d].enabled = cs[d].enabled
                            /\ cs'[d].is_alerting = cs[d].is_alerting
                            /\ cs'[d].last_alert = cs[d].last_alert
    <3> HIDE DEF record_filtered
    <3> QED
      BY <1>t, <2>1, <2>2
  <2> QED
    BY <1>q, <2>3 DEF ShownInv
<1>3. ASSUME NEW c \in Category, NEW key \in AlertKey, NEW sev \in AlarmSeverity,
             PushApplied(c, key, sev)
      PROVE  ShownInv'
  <2> DEFINE alert == [received_at |-> now, severity |-> sev]
             optimistic == IF now > cs[c].last_cleared_at THEN 1 ELSE 0
             applied == apply_alert(cs[c], alert)
  <2>1. now \in Nat /\ now # 0
    BY TimeAssumption DEF TypeInv, TypeOK, Epoch
  <2>2. alert # NoAlert /\ alert.severity = sev
    BY <2>1 DEF NoAlert, Never
  <2>3. /\ applied.enabled = cs[c].enabled /\ applied.last_alert = alert
        /\ DOMAIN applied = DOMAIN cs[c]
    <3> HIDE DEF alert
    <3> QED
      BY <1>t DEF apply_alert, CategoryStates
  <2>4. cs' = [cs EXCEPT ![c] = [applied EXCEPT !.open_count = @ + optimistic]]
    BY <1>3 DEF PushApplied
  <2>5. /\ cs'[c].enabled = applied.enabled /\ cs'[c].last_alert = applied.last_alert
        /\ \A d \in Category \ {c} : cs'[d] = cs[d]
    <3> HIDE DEF applied, optimistic
    <3>1. cs'[c] = [applied EXCEPT !.open_count = @ + optimistic]
      BY <1>t, <2>4
    <3> QED
      BY <1>t, <2>3, <2>4, <3>1 DEF CategoryStates
  <2>6. cs[c].enabled /\ meets_minimum(sev, Minimum(c))
    BY <1>3 DEF PushApplied
  <2>7. FitsGate(c)' /\ c \in EnabledCategories /\ cs'[c].enabled
    <3> HIDE DEF alert, applied
    <3>1. c \in EnabledCategories
      BY <2>6 DEF ShownInv
    <3>2. cs'[c].last_alert = alert
      BY <2>3, <2>5
    <3> QED
      BY <2>2, <2>3, <2>5, <2>6, <3>1, <3>2 DEF FitsGate, Minimum
  <2> QED
    BY <1>q, <2>5, <2>7 DEF ShownInv
<1>4. CASE PollApply
  <2> SUFFICES ASSUME NEW c \in Category
               PROVE  /\ cs'[c].enabled <=> c \in EnabledCategories
                      /\ cs'[c].is_alerting => FitsGate(c)'
    BY DEF ShownInv
  <2>1. CASE c \in RaisedByPoll
    <3>1. cs[c].enabled /\ Counted(c) # {} /\ cs'[c] = Polled(c)
      BY <1>4, <2>1 DEF PollApply, RaisedByPoll
    <3>2. cs'[c].enabled = cs[c].enabled /\ cs'[c].last_alert = Newest(Counted(c))
      BY <2>1, <3>1, PolledShows
    <3>3. c \in EnabledCategories
      BY <3>1 DEF ShownInv
    <3> QED
      BY <3>1, <3>2, <3>3, NewestCounted DEF FitsGate, Minimum
  <2>2. CASE c \notin RaisedByPoll
    <3>1. cs'[c] = cs[c] \/ cs'[c] = Polled(c)
      BY <1>4 DEF PollApply
    <3>2. /\ cs'[c].enabled = cs[c].enabled
          /\ cs'[c].is_alerting => cs[c].is_alerting /\ cs'[c].last_alert = cs[c].last_alert
      BY <2>2, <3>1, PolledShows
    <3> QED
      BY <1>q, <3>2
  <2> QED
    BY <2>1, <2>2
<1>k. ASSUME NEW s \in CategoryStates
      PROVE  clear(s, now).enabled = s.enabled /\ ~clear(s, now).is_alerting
  BY DEF clear, CategoryStates
<1>5. ASSUME NEW chosen \in SUBSET Category, Clear(chosen)
      PROVE  ShownInv'
  <2>1. cs' = [c \in Category |-> IF c \in chosen THEN clear(cs[c], now) ELSE cs[c]]
    BY <1>5 DEF Clear
  <2>2. \A c \in Category : cs'[c] = clear(cs[c], now) \/ cs'[c] = cs[c]
    BY <2>1
  <2> QED
    BY <1>k, <1>q, <1>t, <2>2 DEF ShownInv
<1>6. ASSUME NEW c \in Category, AutoClear(c)
      PROVE  ShownInv'
  <2>1. cs' = cs \/ cs' = [cs EXCEPT ![c] = clear(cs[c], now)]
    BY <1>6 DEF AutoClear
  <2>2. \A d \in Category : cs'[d] = clear(cs[d], now) \/ cs'[d] = cs[d]
    BY <1>t, <2>1
  <2> QED
    BY <1>k, <1>q, <1>t, <2>2 DEF ShownInv
<1>7. CASE Crash
  <2>1. \A c \in Category : cs'[c] = Restored(FreshStates[c], disk[c])
    BY <1>7 DEF Crash, RestoredStates
  <2>2. \A s \in CategoryStates : \A e : /\ Restored(s, e).enabled = s.enabled
                                         /\ Restored(s, e).is_alerting = s.is_alerting
    BY DEF Restored, CategoryStates
  <2> QED
    BY <2>1, <2>2, FreshLemma, FreshEnabled DEF ShownInv
<1>8. CASE Environment \/ PollFetch \/ StoreStep \/ UNCHANGED vars
  <2>1. UNCHANGED cs
    BY <1>8
    DEF Environment, Tick, RaiseAlarm, ArchiveAlarm, PollFetch, PollRequest, PollAnswer, PollFail,
        StoreStep, SaveOk, SaveFail, SaveDropped, DelayedWrite, vars
  <2> QED
    BY <1>1, <2>1
<1> QED
  BY <1>2, <1>3, <1>4, <1>5, <1>6, <1>7, <1>8 DEF Next, Push, Clearing, ClearCategory, ClearAll

LEMMA ShownInvariant == Spec => []ShownInv
BY ShownInit, ShownStep, TypeInvariant, PTL DEF Spec

\* Whatever raised it, push or poll, an alert shown as Problem meets the minimum
\* severity of its category.
THEOREM GateHolds == Spec => []AlertingMeetsMinimum
<1>1. ShownInv => AlertingMeetsMinimum
  BY DEF ShownInv, FitsGate, AlertingMeetsMinimum
<1> QED
  BY <1>1, ShownInvariant, PTL

\* After a poll no enabled category has open alarms without showing Problem, and
\* one the poll raised has an open alarm newer than its watermark, whatever
\* pushes and clears ran while the answer was on its way.
THEOREM PollsReconcile == Spec => PollReconciles
<1> DEFINE Reconciled ==
        PollApply => \A c \in EnabledCategories :
            /\ cs'[c].open_count > 0 => cs'[c].is_alerting
            /\ cs'[c].is_alerting /\ ~cs[c].is_alerting =>
                  /\ cs'[c].open_count > 0
                  /\ cs'[c].last_alert.received_at > cs'[c].last_cleared_at
                  /\ cs'[c].alert_count = cs[c].alert_count
<1>1. TypeInv /\ ShownInv => Reconciled
  <2> SUFFICES ASSUME TypeInv, ShownInv, PollApply, NEW c \in EnabledCategories
               PROVE  /\ cs'[c].open_count > 0 => cs'[c].is_alerting
                      /\ cs'[c].is_alerting /\ ~cs[c].is_alerting =>
                            /\ cs'[c].open_count > 0
                            /\ cs'[c].last_alert.received_at > cs'[c].last_cleared_at
                            /\ cs'[c].alert_count = cs[c].alert_count
    OBVIOUS
  <2>1. c \in Category /\ cs[c].enabled /\ cs'[c] = Polled(c)
    BY ConfigAssumption DEF ShownInv, PollApply
  <2>2. IsFiniteSet(Counted(c)) /\ Cardinality(Counted(c)) \in Nat
    <3>1. Counted(c) \subseteq poll.answer[c] /\ IsFiniteSet(poll.answer[c])
      BY <2>1 DEF Counted, Eligible, TypeInv, TypeOK
    <3>2. IsFiniteSet(Counted(c))
      BY <3>1, FS_Subset
    <3> QED
      BY <3>2, FS_CardinalityType
  <2>3. Cardinality(Counted(c)) > 0 <=> Counted(c) # {}
    BY <2>2, FS_EmptySet
  <2>4. c \in RaisedByPoll <=> Counted(c) # {} /\ ~cs[c].is_alerting
    BY <2>1 DEF RaisedByPoll
  <2>5. cs'[c].open_count > 0 => cs'[c].is_alerting
    BY <2>1, <2>3, <2>4, PolledShows
  <2>6. ASSUME cs'[c].is_alerting, ~cs[c].is_alerting
        PROVE  /\ cs'[c].open_count > 0
               /\ cs'[c].last_alert.received_at > cs'[c].last_cleared_at
               /\ cs'[c].alert_count = cs[c].alert_count
    <3>1. c \in RaisedByPoll /\ Counted(c) # {}
      BY <2>1, <2>4, <2>6, PolledShows
    <3> QED
      BY <2>1, <2>3, <3>1, PolledShows, NewestCounted
  <2> QED
    BY <2>5, <2>6
<1>2. TypeInv /\ ShownInv => [Reconciled]_vars
  BY <1>1
<1> QED
  BY <1>2, ShownInvariant, TypeInvariant, PTL DEF PollReconciles
-----------------------------------------------------------------------------
(* What was seen and cleared stays acknowledged.  A crash forgets what this *)
(* process has seen, so the argument is about the first poll after it: its  *)
(* answer holds every acknowledged alarm that is still open, or its window  *)
(* lies past them.  It fails if the polls of one installation change from   *)
(* one API to the other, whose windows differ.                              *)

OneApi == Transports # {"v2", "legacy"}

\* An alarm the user has seen counted, or has cleared, is of an enabled category
\* and meets its minimum; over v2, which is asked for nothing later than HA's
\* clock, it is no later than that.
KnownFit ==
    \A c \in Category : \A a \in acked[c] \union shown[c] :
        /\ c \in EnabledCategories
        /\ meets_minimum(a.severity, Minimum(c))
        /\ "v2" \in Transports => a.received_at <= now

\* Once a poll has been applied, a Clear puts the watermark at or past all of
\* them: at the newest alarm seen, or at HA's clock if the window was past them.
Tracked ==
    ready => \A c \in Category :
        /\ \A a \in shown[c] : a.received_at <= cs[c].last_alarm_received_at
        /\ \A a \in acked[c] : \/ a.received_at <= cs[c].last_alarm_received_at
                               \/ "v2" \in Transports /\ cs[c].last_alarm_received_at = Never

\* Before that nothing has been seen, and nothing clears.
Unseen ==
    ~ready => \A c \in Category :
        shown[c] = {} /\ cs[c].last_alarm_received_at = Never /\ task[c] = "none"

\* The poll in progress asks for nothing later than HA's clock, and its answer
\* lies in its window.
InTheWindow ==
    poll.phase # "idle" =>
        /\ poll.transport \in Transports
        /\ poll.transport = "v2" => poll.until <= now
        /\ poll.phase = "answered" /\ poll.transport = "v2" =>
              \A c \in Category : \A a \in poll.answer[c] :
                  poll.since <= a.received_at /\ a.received_at <= poll.until

\* What the poll in progress will make of an acknowledged alarm: it was tracked
\* before, is asked for, is in the answer, or lies before the window.
AnswerCovers ==
    poll.phase # "idle" =>
        \A c \in Category : \A a \in acked[c] :
            \/ a.received_at <= cs[c].last_alarm_received_at
            \/ poll.phase = "asked" /\ (poll.transport = "v2" => a.received_at <= poll.until)
            \/ poll.phase = "answered" /\ a \in poll.answer[c]
            \/ poll.phase = "answered" /\ poll.transport = "v2" /\ a.received_at < poll.since

AckInv ==
    /\ acked \in [Category -> SUBSET Alert]
    /\ shown \in [Category -> SUBSET Alert]
    /\ AcknowledgedStaysAcknowledged
    /\ KnownFit
    /\ Tracked
    /\ Unseen
    /\ InTheWindow
    /\ AnswerCovers

LEMMA AckInit == HInit => AckInv
<1> SUFFICES ASSUME HInit PROVE AckInv
  OBVIOUS
<1>1. Init /\ acked = NoAnswer /\ shown = NoAnswer
  BY DEF HInit
<1>2. NoAnswer \in [Category -> SUBSET Alert] /\ \A c \in Category : NoAnswer[c] = {}
  BY DEF NoAnswer
<1>3. cs = FreshStates /\ task = [c \in Category |-> "none"] /\ poll.phase = "idle"
  BY <1>1 DEF Init, Idle
<1>4. \A c \in Category : cs[c].last_alarm_received_at = Never /\ task[c] = "none"
  BY <1>3, FreshLemma DEF Never
<1> QED
  BY <1>1, <1>2, <1>3, <1>4
  DEF AckInv, AcknowledgedStaysAcknowledged, KnownFit, Tracked, Unseen, InTheWindow, AnswerCovers

\* The times that are compared.
LEMMA AckTimes ==
    ASSUME TypeInv
    PROVE  /\ now \in Nat /\ ControllerNow \in Nat
           /\ poll.since \in Nat /\ poll.until \in Nat
           /\ \A c \in Category : /\ cs[c].last_cleared_at \in Nat
                                  /\ cs[c].last_alarm_received_at \in Nat
                                  /\ poll.answer[c] \in SUBSET Alert
                                  /\ alarms[c] \in SUBSET Alert
           /\ \A a \in Alert : a.received_at \in Nat
BY TimesLemma DEF TypeInv, TypeOK, CategoryStates, Polls, Alert

\* A step that acknowledges nothing, takes no watermark back and leaves the poll
\* alone; what it tracks anew is of HA's clock.
LEMMA AckKept ==
    ASSUME TypeInv, TypeInv', AckInv,
           acked' \in [Category -> SUBSET Alert], shown' \in [Category -> SUBSET Alert],
           \A c \in Category :
               /\ acked'[c] \subseteq acked[c] /\ shown'[c] \subseteq shown[c]
               /\ cs'[c].last_cleared_at = cs[c].last_cleared_at
               /\ \/ cs'[c].last_alarm_received_at = cs[c].last_alarm_received_at
                  \/ ready /\ cs'[c].last_alarm_received_at = Later(cs[c].last_alarm_received_at, now)
               /\ ~ready /\ task[c] = "none" => task'[c] = "none",
           UNCHANGED <<poll, ready>>, now <= now'
    PROVE  AckInv'
<1> USE AckTimes
<1>0. /\ now' \in Nat
      /\ \A c \in Category : cs'[c].last_alarm_received_at \in Nat
      /\ \A c \in Category : cs'[c].last_alarm_received_at >= cs[c].last_alarm_received_at
  <2>1. now' \in Nat
    BY DEF TypeInv, TypeOK
  <2>2. ASSUME NEW c \in Category
        PROVE  /\ cs'[c].last_alarm_received_at \in Nat
               /\ cs'[c].last_alarm_received_at >= cs[c].last_alarm_received_at
    BY DEF Later
  <2> QED
    BY <2>1, <2>2
<1>1. \A c \in Category : acked[c] \subseteq Alert /\ shown[c] \subseteq Alert
  BY DEF AckInv
<1>2. AcknowledgedStaysAcknowledged'
  BY DEF AckInv, AcknowledgedStaysAcknowledged
<1>3. KnownFit'
  BY <1>0, <1>1 DEF AckInv, KnownFit
<1>4. Tracked'
  <2> SUFFICES ASSUME ready, NEW c \in Category
               PROVE  /\ \A a \in shown'[c] : a.received_at <= cs'[c].last_alarm_received_at
                      /\ \A a \in acked'[c] :
                            \/ a.received_at <= cs'[c].last_alarm_received_at
                            \/ "v2" \in Transports /\ cs'[c].last_alarm_received_at = Never
    BY DEF Tracked
  <2>1. \A a \in shown'[c] : a.received_at <= cs'[c].last_alarm_received_at
    BY <1>0, <1>1 DEF AckInv, Tracked
  <2>2. CASE cs'[c].last_alarm_received_at = cs[c].last_alarm_received_at
    BY <2>1, <2>2 DEF AckInv, Tracked
  <2>3. CASE cs'[c].last_alarm_received_at = Later(cs[c].last_alarm_received_at, now)
    <3>1. \A a \in acked'[c] : \/ a.received_at <= cs[c].last_alarm_received_at
                               \/ a.received_at <= now /\ cs[c].last_alarm_received_at = 0
      BY DEF AckInv, Tracked, KnownFit, Never
    <3>2. \A a \in acked'[c] : a.received_at \in Nat
      BY <1>1
    <3> QED
      BY <2>1, <2>3, <3>1, <3>2 DEF Later
  <2> QED
    BY <2>2, <2>3
<1>5. Unseen'
  BY DEF AckInv, Unseen
<1>6. InTheWindow'
  BY <1>0 DEF AckInv, InTheWindow
<1>7. AnswerCovers'
  <2> SUFFICES ASSUME poll.phase # "idle", NEW c \in Category, NEW a \in acked'[c]
               PROVE  \/ a.received_at <= cs'[c].last_alarm_received_at
                      \/ poll.phase = "asked" /\ (poll.transport = "v2" => a.received_at <= poll.until)
                      \/ poll.phase = "answered" /\ a \in poll.answer[c]
                      \/ poll.phase = "answered" /\ poll.transport = "v2" /\ a.received_at < poll.since
    BY DEF AnswerCovers
  <2>1. a \in acked[c] /\ a.received_at \in Nat
    BY <1>1
  <2> QED
    BY <1>0, <2>1 DEF AckInv, AnswerCovers
<1> QED
  BY <1>2, <1>3, <1>4, <1>5, <1>6, <1>7 DEF AckInv
\* The request, the answer and the failure of a poll.
LEMMA AckFetch ==
    ASSUME TypeInv, TypeInv', AckInv, PollFetch,
           acked' \in [Category -> SUBSET Alert], shown' \in [Category -> SUBSET Alert],
           \A c \in Category : acked'[c] = acked[c] \intersect alarms'[c],
           \A c \in Category : shown'[c] = shown[c] \intersect alarms'[c]
    PROVE  AckInv'
<1> USE AckTimes
<1>1. UNCHANGED <<now, alarms, cs, task, ready>>
  BY DEF PollFetch, PollRequest, PollAnswer, PollFail, env, life
<1>2. \A c \in Category : /\ acked'[c] \subseteq acked[c] /\ shown'[c] \subseteq shown[c]
                          /\ acked[c] \subseteq Alert
                          /\ acked'[c] \subseteq alarms[c]
  BY <1>1 DEF AckInv
<1>3. AcknowledgedStaysAcknowledged'
  BY <1>1, <1>2 DEF AckInv, AcknowledgedStaysAcknowledged
<1>4. KnownFit' /\ Tracked' /\ Unseen'
  <2>1. KnownFit'
    BY <1>1, <1>2 DEF AckInv, KnownFit
  <2>2. Tracked'
    BY <1>1, <1>2 DEF AckInv, Tracked
  <2>3. Unseen'
    BY <1>1, <1>2 DEF AckInv, Unseen
  <2> QED
    BY <2>1, <2>2, <2>3
<1>5. InTheWindow' /\ AnswerCovers'
  <2>1. ASSUME NEW transport \in Transports, PollRequest(transport)
        PROVE  InTheWindow' /\ AnswerCovers'
    <3>1. /\ poll'.phase = "asked" /\ poll'.transport = transport
          /\ transport = "v2" => poll'.until = now
      BY <2>1, ConfigAssumption DEF PollRequest, Idle
    <3>2. InTheWindow'
      BY <1>1, <3>1 DEF InTheWindow
    <3>3. AnswerCovers'
      <4>1. \A c \in Category : \A a \in acked'[c] :
               transport = "v2" => a.received_at <= now
        BY <1>2 DEF AckInv, KnownFit
      <4> QED
        BY <1>1, <3>1, <4>1 DEF AnswerCovers
    <3> QED
      BY <3>2, <3>3
  <2>2. CASE PollAnswer
    <3>1. /\ poll.phase = "asked" /\ poll'.phase = "answered"
          /\ poll'.transport = poll.transport
          /\ poll'.since = poll.since /\ poll'.until = poll.until
          /\ poll'.answer = [c \in Category |-> {a \in alarms[c] : InWindow(a)}]
      BY <2>2 DEF PollAnswer, TypeInv, TypeOK, Polls
    <3>2. \A c \in Category : \A a \in poll'.answer[c] : InWindow(a)
      BY <3>1
    <3>3. InTheWindow'
      BY <1>1, <3>1, <3>2 DEF AckInv, InTheWindow, InWindow
    <3>4. AnswerCovers'
      <4> SUFFICES ASSUME NEW c \in Category, NEW a \in acked'[c]
                   PROVE  \/ a.received_at <= cs[c].last_alarm_received_at
                          \/ a \in poll'.answer[c]
                          \/ poll.transport = "v2" /\ a.received_at < poll.since
        BY <1>1, <3>1 DEF AnswerCovers
      <4>1. a \in acked[c] /\ a \in alarms[c] /\ a.received_at \in Nat
        BY <1>2
      <4>2. \/ a.received_at <= cs[c].last_alarm_received_at
            \/ poll.transport = "v2" => a.received_at <= poll.until
        BY <3>1, <4>1 DEF AckInv, AnswerCovers
      <4>3. a \in poll'.answer[c] <=> InWindow(a)
        BY <3>1, <4>1
      <4> QED
        BY <4>1, <4>2, <4>3 DEF InWindow
    <3> QED
      BY <3>3, <3>4
  <2>3. CASE PollFail
    BY <2>3 DEF PollFail, Idle, InTheWindow, AnswerCovers
  <2> QED
    BY <2>1, <2>2, <2>3 DEF PollFetch
<1> QED
  BY <1>3, <1>4, <1>5 DEF AckInv

\* _track_newest_seen: the newest alarm seen only moves on, and is at or past
\* every alarm of the answer that meets the minimum.
LEMMA SeenEffect ==
    ASSUME TypeInv, PollApply, NEW c \in Category
    PROVE  LET eligible == Eligible(c, poll.answer[c])
               seen == cs[c].last_alarm_received_at
               next == cs'[c].last_alarm_received_at
           IN  /\ next \in Nat /\ next >= seen
               /\ cs'[c].last_cleared_at = cs[c].last_cleared_at
               /\ ~cs[c].enabled \/ eligible = {} => next = seen
               /\ cs[c].enabled => \A a \in eligible : a.received_at <= next
<1> DEFINE eligible == Eligible(c, poll.answer[c])
           next == cs'[c].last_alarm_received_at
<1> USE AckTimes
<1>1. eligible \in SUBSET Alert /\ \A a \in eligible : a.received_at <= ControllerNow
  BY DEF Eligible, TypeInv, AlarmsPast
<1>2. cs'[c].last_cleared_at = cs[c].last_cleared_at
  BY PollEffect
<1>3. CASE ~cs[c].enabled
  BY <1>2, <1>3 DEF PollApply
<1>4. CASE cs[c].enabled
  <2>1. next = NewestSeen(c)
    <3>1. cs'[c] = Polled(c)
      BY <1>4 DEF PollApply
    <3>2. cs[c] \in CategoryStates
      BY DEF TypeInv, TypeOK
    <3> QED
      BY <3>1, <3>2 DEF Polled, CategoryStates
  <2>2. CASE eligible = {}
    BY <1>2, <1>4, <2>1, <2>2 DEF NewestSeen
  <2>3. CASE eligible # {}
    <3> DEFINE newest == Newest(eligible)
    <3>1. next = Later(cs[c].last_alarm_received_at, newest.received_at)
      BY <2>1, <2>3 DEF NewestSeen
    <3> HIDE DEF eligible
    <3>2. newest \in eligible /\ \A a \in eligible : a.received_at <= newest.received_at
      BY <1>1, <2>3, NewestLemma
    <3>3. newest \in Alert /\ \A a \in eligible : a.received_at \in Nat
      BY <1>1, <3>2
    <3> HIDE DEF newest, next
    <3>4. next \in Nat /\ next >= cs[c].last_alarm_received_at /\ next >= newest.received_at
      BY <3>1, <3>3 DEF Later
    <3>5. \A a \in eligible : a.received_at <= next
      BY <3>2, <3>3, <3>4
    <3> QED
      BY <1>2, <1>4, <2>3, <3>4, <3>5 DEF eligible, next
  <2> QED
    BY <2>2, <2>3
<1> QED
  BY <1>3, <1>4

LEMMA AckShow ==
    ASSUME OneApi, TypeInv, TypeInv', ShownInv, AckInv, Show
    PROVE  AckInv'
<1> USE AckTimes
<1>1. /\ PollApply /\ acked' = acked
      /\ shown' = [c \in Category |-> IF cs[c].enabled THEN Counted(c) ELSE {}]
      /\ poll.phase = "answered" /\ poll'.phase = "idle" /\ ready' = TRUE
      /\ UNCHANGED now
  BY DEF Show, PollApply, Idle, env
<1>2. \A c \in Category : acked[c] \subseteq Alert
  BY DEF AckInv
<1>3. ASSUME NEW c \in Category, NEW a \in shown'[c]
      PROVE  /\ cs[c].enabled /\ a \in Eligible(c, poll.answer[c])
             /\ a \in poll.answer[c] /\ a \in Alert /\ meets_minimum(a.severity, Minimum(c))
  BY <1>1, <1>3 DEF Counted, Eligible
<1>4. shown' \in [Category -> SUBSET Alert]
  <2>1. \A c \in Category : (IF cs[c].enabled THEN Counted(c) ELSE {}) \in SUBSET Alert
    BY DEF Counted, Eligible
  <2> QED
    BY <1>1, <2>1
<1>5. \A c \in Category : /\ cs'[c].last_cleared_at = cs[c].last_cleared_at
                          /\ cs[c].enabled <=> c \in EnabledCategories
  BY <1>1, SeenEffect DEF ShownInv
<1>6. AcknowledgedStaysAcknowledged'
  BY <1>1, <1>5 DEF AckInv, AcknowledgedStaysAcknowledged
<1>7. "v2" \in Transports => poll.transport = "v2"
  BY <1>1, ConfigAssumption DEF OneApi, AckInv, InTheWindow
<1>8. KnownFit'
  <2>1. ASSUME NEW c \in Category, NEW a \in shown'[c]
        PROVE  /\ c \in EnabledCategories
               /\ meets_minimum(a.severity, Minimum(c))
               /\ "v2" \in Transports => a.received_at <= now
    <3>1. "v2" \in Transports => a.received_at <= poll.until /\ poll.until <= now
      BY <1>1, <1>3, <1>7, <2>1 DEF AckInv, InTheWindow
    <3>2. a.received_at \in Nat
      BY <1>3, <2>1
    <3> QED
      BY <1>3, <1>5, <2>1, <3>1, <3>2
  <2> QED
    BY <1>1, <2>1 DEF AckInv, KnownFit
<1>9. Tracked'
  <2> SUFFICES ASSUME NEW c \in Category
               PROVE  /\ \A a \in shown'[c] : a.received_at <= cs'[c].last_alarm_received_at
                      /\ \A a \in acked[c] :
                            \/ a.received_at <= cs'[c].last_alarm_received_at
                            \/ "v2" \in Transports /\ cs'[c].last_alarm_received_at = Never
    BY <1>1 DEF Tracked
  <2>1. \A a \in shown'[c] : a.received_at <= cs'[c].last_alarm_received_at
    BY <1>1, <1>3, SeenEffect
  <2>2. ASSUME NEW a \in acked[c]
        PROVE  \/ a.received_at <= cs'[c].last_alarm_received_at
               \/ "v2" \in Transports /\ cs'[c].last_alarm_received_at = Never
    <3> DEFINE eligible == Eligible(c, poll.answer[c])
               old == cs[c].last_alarm_received_at
               next == cs'[c].last_alarm_received_at
    <3>1. /\ cs[c].enabled /\ meets_minimum(a.severity, Minimum(c))
          /\ a.received_at \in Nat
      BY <1>2, <1>5 DEF AckInv, KnownFit
    <3>2. /\ next \in Nat /\ next >= old /\ (eligible = {} => next = old)
          /\ \A b \in eligible : b.received_at <= next
      BY <1>1, <3>1, SeenEffect
    <3>3. \/ a.received_at <= old
          \/ a \in poll.answer[c]
          \/ poll.transport = "v2" /\ a.received_at < poll.since
      BY <1>1 DEF AckInv, AnswerCovers
    <3>4. CASE a.received_at <= old
      <4> HIDE DEF eligible, next
      <4> QED
        BY <3>1, <3>2, <3>4 DEF next
    <3>5. CASE a \in poll.answer[c]
      <4>1. a \in eligible
        BY <3>1, <3>5 DEF Eligible
      <4> QED
        BY <3>2, <4>1
    <3>6. CASE poll.transport = "v2" /\ a.received_at < poll.since /\ ~(a.received_at <= old)
      <4>1. "v2" \in Transports
        BY <1>1, <3>6 DEF AckInv, InTheWindow
      <4>2. CASE eligible = {}
        <5>1. old = Never
          BY <3>6 DEF AckInv, Tracked, Unseen
        <5> QED
          BY <3>2, <4>1, <4>2, <5>1
      <4>3. ASSUME NEW b \in eligible
            PROVE  a.received_at <= next
        <5>1. b \in poll.answer[c] /\ b.received_at \in Nat
          BY DEF Eligible
        <5>2. poll.since <= b.received_at
          BY <1>1, <3>6, <5>1 DEF AckInv, InTheWindow
        <5>3. b.received_at <= next
          BY <3>2
        <5> HIDE DEF next
        <5> QED
          BY <3>1, <3>2, <3>6, <5>1, <5>2, <5>3
      <4> QED
        BY <4>2, <4>3
    <3> QED
      BY <3>3, <3>4, <3>5, <3>6
  <2> QED
    BY <2>1, <2>2
<1>10. Unseen' /\ InTheWindow' /\ AnswerCovers'
  BY <1>1 DEF Unseen, InTheWindow, AnswerCovers
<1> QED
  BY <1>1, <1>4, <1>6, <1>8, <1>9, <1>10 DEF AckInv
\* A category that is cleared, or left alone, by a step that acknowledges.
ClearedOrKept(c) ==
    \/ cs'[c] = cs[c] /\ task'[c] = task[c]
    \/ /\ ready
       /\ cs'[c].last_alarm_received_at = cs[c].last_alarm_received_at
       /\ cs'[c].last_cleared_at = IF cs[c].last_alarm_received_at # Never
                                   THEN cs[c].last_alarm_received_at ELSE now

LEMMA AckClearing ==
    ASSUME TypeInv, AckInv, Clearing
    PROVE  /\ UNCHANGED <<now, poll, ready>>
           /\ \A c \in Category : ClearedOrKept(c) \/ (cs'[c] = cs[c] /\ task'[c] = "none")
<1>1. UNCHANGED <<now, poll, ready>>
  BY DEF Clearing, ClearAll, ClearCategory, Clear, AutoClear, env, life
<1>2. ASSUME NEW chosen \in SUBSET Category, Clear(chosen)
      PROVE  \A c \in Category : ClearedOrKept(c)
  BY <1>2, ClearEffect DEF ClearedOrKept, Clear
<1>3. ASSUME NEW c \in Category, AutoClear(c)
      PROVE  \A d \in Category : ClearedOrKept(d) \/ (cs'[d] = cs[d] /\ task'[d] = "none")
  <2>1. ready
    BY <1>3 DEF AutoClear, AckInv, Unseen
  <2>2. CASE cs[c].is_alerting
    BY <1>3, <2>1, <2>2, AutoClearEffect DEF ClearedOrKept
  <2>3. CASE ~cs[c].is_alerting
    BY <1>3, <2>3 DEF AutoClear, ClearedOrKept, TypeInv, TypeOK
  <2> QED
    BY <2>2, <2>3
<1> QED
  BY <1>1, <1>2, <1>3 DEF Clearing, ClearAll, ClearCategory

LEMMA AckAcknowledge ==
    ASSUME TypeInv, AckInv, Acknowledge
    PROVE  AckInv'
<1> USE AckTimes
<1>1. /\ shown' = shown /\ UNCHANGED <<now, poll, ready>>
      /\ acked' = [c \in Category |->
                      IF cs'[c].last_cleared_at # cs[c].last_cleared_at
                      THEN acked[c] \union shown[c] ELSE acked[c]]
  BY AckClearing DEF Acknowledge
<1>2. \A c \in Category : acked[c] \subseteq Alert /\ shown[c] \subseteq Alert
  BY DEF AckInv
<1>3. acked' \in [Category -> SUBSET Alert]
  BY <1>1, <1>2
<1>4. \A c \in Category :
         /\ acked[c] \subseteq acked'[c] /\ acked'[c] \subseteq acked[c] \union shown[c]
         /\ cs'[c].last_cleared_at = cs[c].last_cleared_at => acked'[c] = acked[c]
  BY <1>1
<1>5. \A c \in Category : cs'[c].last_alarm_received_at = cs[c].last_alarm_received_at
  BY AckClearing DEF Acknowledge, ClearedOrKept
<1>6. \A c \in Category : \A a \in acked'[c] :
         a.received_at \in Nat /\ (a \in acked[c] \/ a \in shown[c])
  BY <1>2, <1>4
<1>7. \A c \in Category : \A a \in shown[c] :
         ready /\ a.received_at <= cs[c].last_alarm_received_at
  BY DEF AckInv, Tracked, Unseen
<1>8. AcknowledgedStaysAcknowledged'
  <2> SUFFICES ASSUME NEW c \in Category, NEW a \in acked'[c]
               PROVE  a.received_at <= cs'[c].last_cleared_at
    BY DEF AcknowledgedStaysAcknowledged
  <2>1. CASE cs'[c].last_cleared_at = cs[c].last_cleared_at
    BY <1>4, <2>1 DEF AckInv, AcknowledgedStaysAcknowledged
  <2>2. CASE cs'[c].last_cleared_at # cs[c].last_cleared_at
    <3>1. /\ ready
          /\ cs'[c].last_cleared_at = IF cs[c].last_alarm_received_at # Never
                                      THEN cs[c].last_alarm_received_at ELSE now
      BY <2>2, AckClearing DEF Acknowledge, ClearedOrKept
    <3>2. \/ a.received_at <= cs[c].last_alarm_received_at
          \/ cs[c].last_alarm_received_at = Never /\ a.received_at <= now
      BY <1>6, <1>7, <3>1 DEF AckInv, Tracked, KnownFit
    <3>3. a.received_at \in Nat
      BY <1>6
    <3> QED
      BY <3>1, <3>2, <3>3 DEF Never
  <2> QED
    BY <2>1, <2>2
<1>9. KnownFit'
  BY <1>1, <1>4 DEF AckInv, KnownFit
<1>10. Tracked'
  <2> SUFFICES ASSUME ready, NEW c \in Category
               PROVE  /\ \A a \in shown[c] : a.received_at <= cs[c].last_alarm_received_at
                      /\ \A a \in acked'[c] :
                            \/ a.received_at <= cs[c].last_alarm_received_at
                            \/ "v2" \in Transports /\ cs[c].last_alarm_received_at = Never
    BY <1>1, <1>5 DEF Tracked
  <2> QED
    BY <1>6, <1>7 DEF AckInv, Tracked
<1>11. Unseen'
  <2> SUFFICES ASSUME ~ready, NEW c \in Category
               PROVE  shown[c] = {} /\ cs[c].last_alarm_received_at = Never /\ task'[c] = "none"
    BY <1>1, <1>5 DEF Unseen
  <2> QED
    BY AckClearing DEF Acknowledge, ClearedOrKept, AckInv, Unseen
<1>12. InTheWindow'
  BY <1>1 DEF AckInv, InTheWindow
<1>13. AnswerCovers'
  <2> SUFFICES ASSUME poll.phase # "idle", NEW c \in Category, NEW a \in acked'[c]
               PROVE  \/ a.received_at <= cs[c].last_alarm_received_at
                      \/ poll.phase = "asked" /\ (poll.transport = "v2" => a.received_at <= poll.until)
                      \/ poll.phase = "answered" /\ a \in poll.answer[c]
                      \/ poll.phase = "answered" /\ poll.transport = "v2" /\ a.received_at < poll.since
    BY <1>1, <1>5 DEF AnswerCovers
  <2> QED
    BY <1>6, <1>7 DEF AckInv, AnswerCovers
<1> QED
  BY <1>1, <1>3, <1>8, <1>9, <1>10, <1>11, <1>12, <1>13 DEF AckInv

\* What a new process restores acknowledges all it has to.
LEMMA AckForget ==
    ASSUME TypeInv, AckInv, Forget
    PROVE  AckInv'
<1>1. /\ shown' = NoAnswer /\ ready' = FALSE /\ poll' = Idle /\ now' = now
      /\ acked' = [c \in Category |->
                      {a \in acked[c] : a.received_at <= disk[c].last_cleared_at}]
      /\ cs' = RestoredStates(disk)
      /\ task' = [c \in Category |-> "none"]
  BY DEF Forget, Crash, env
<1>2. \A c \in Category : shown'[c] = {} /\ acked'[c] \subseteq acked[c] /\ acked[c] \subseteq Alert
  BY <1>1 DEF AckInv, NoAnswer
<1>3. acked' \in [Category -> SUBSET Alert] /\ shown' \in [Category -> SUBSET Alert]
  BY <1>1, <1>2 DEF NoAnswer
<1>4. \A c \in Category : /\ cs'[c].last_cleared_at = disk[c].last_cleared_at
                          /\ cs'[c].last_alarm_received_at = Never
  BY <1>1, RestoredStatesLemma DEF TypeInv, TypeOK, Never
<1>5. AcknowledgedStaysAcknowledged'
  BY <1>1, <1>4 DEF AcknowledgedStaysAcknowledged
<1>6. KnownFit'
  BY <1>1, <1>2 DEF AckInv, KnownFit
<1>7. Tracked' /\ Unseen' /\ InTheWindow' /\ AnswerCovers'
  BY <1>1, <1>2, <1>4 DEF Tracked, Unseen, InTheWindow, AnswerCovers, Idle
<1> QED
  BY <1>3, <1>5, <1>6, <1>7 DEF AckInv

LEMMA AckRest ==
    ASSUME TypeInv, TypeInv', AckInv, Rest
    PROVE  AckInv'
<1> USE AckTimes
<1>1. /\ shown' = [c \in Category |-> shown[c] \intersect alarms'[c]]
      /\ acked' = [c \in Category |-> acked[c] \intersect alarms'[c]]
  BY DEF Rest
<1>2. acked' \in [Category -> SUBSET Alert] /\ shown' \in [Category -> SUBSET Alert]
  BY <1>1 DEF AckInv
<1>3. \A c \in Category : acked'[c] \subseteq acked[c] /\ shown'[c] \subseteq shown[c]
  BY <1>1
<1>4. CASE PollFetch
  BY <1>1, <1>2, <1>4, AckFetch
<1>5. CASE Environment
  <2>1. UNCHANGED <<cs, task, poll, ready>> /\ now <= now'
    BY <1>5 DEF Environment, Tick, RaiseAlarm, ArchiveAlarm, life
  <2> QED
    BY <1>2, <1>3, <2>1, AckKept
<1>6. CASE StoreStep
  <2>1. /\ UNCHANGED <<cs, poll, ready, now>>
        /\ \A c \in Category : task'[c] \in {task[c], "none"}
    BY <1>6 DEF StoreStep, SaveOk, SaveFail, SaveDropped, DelayedWrite, Finish, env, life
  <2>2. now <= now'
    BY <2>1
  <2> QED
    BY <1>2, <1>3, <2>1, <2>2, AckKept
<1>7. ASSUME NEW c \in Category, NEW sev \in AlarmSeverity, PushFiltered(c, sev)
      PROVE  AckInv'
  <2>1. UNCHANGED <<task, poll, ready, now>> /\ now <= now'
    BY <1>7 DEF PushFiltered, env, life
  <2> QED
    BY <1>2, <1>3, <1>7, <2>1, FilteredEffect, AckKept
<1>8. ASSUME NEW c \in Category, NEW key \in AlertKey, NEW sev \in AlarmSeverity,
             PushApplied(c, key, sev)
      PROVE  AckInv'
  <2>1. UNCHANGED <<poll, ready, now>> /\ now <= now' /\ ready
    BY <1>8 DEF PushApplied, env, life
  <2>2. \A d \in Category :
          /\ cs'[d].last_cleared_at = cs[d].last_cleared_at
          /\ \/ cs'[d].last_alarm_received_at = cs[d].last_alarm_received_at
             \/ cs'[d].last_alarm_received_at = Later(cs[d].last_alarm_received_at, now)
    BY <1>8, PushEffect
  <2> QED
    BY <1>2, <1>3, <2>1, <2>2, AckKept
<1> QED
  BY <1>4, <1>5, <1>6, <1>7, <1>8 DEF Rest, Push

LEMMA AckStep ==
    ASSUME OneApi
    PROVE  TypeInv /\ TypeInv' /\ ShownInv /\ AckInv /\ [HNext]_hvars => AckInv'
<1> SUFFICES ASSUME TypeInv, TypeInv', ShownInv, AckInv, [HNext]_hvars
             PROVE  AckInv'
  OBVIOUS
<1>1. CASE UNCHANGED hvars
  BY <1>1
  DEF hvars, vars, AckInv, AcknowledgedStaysAcknowledged, KnownFit, Tracked, Unseen,
      InTheWindow, AnswerCovers
<1> QED
  BY <1>1, AckShow, AckAcknowledge, AckForget, AckRest DEF HNext

\* The history variables only watch: without them it is the coordinator.
LEMMA HistoryImplements == HSpec => Spec
<1>1. HInit => Init
  BY DEF HInit
<1>2. [HNext]_hvars => [Next]_vars
  BY DEF HNext, hvars, Show, Acknowledge, Forget, Rest, Next
<1> QED
  BY <1>1, <1>2, PTL DEF HSpec, Spec

\* While an installation is polled over one API, an alarm that was counted when
\* the user, or the timeout, cleared its category is not counted again while it
\* stays open: whatever pushes, polls, restarts and failed writes came between,
\* and however far apart the two clocks are.
THEOREM AcknowledgedStays ==
    ASSUME OneApi
    PROVE  HSpec => []AcknowledgedStaysAcknowledged
<1>1. HSpec => [](TypeInv /\ ShownInv)
  BY HistoryImplements, TypeInvariant, ShownInvariant, PTL
<1>2. TypeInv /\ TypeInv' /\ ShownInv /\ AckInv /\ [HNext]_hvars => AckInv'
  BY AckStep
<1>3. AckInv => AcknowledgedStaysAcknowledged
  BY DEF AckInv
<1> QED
  BY <1>1, <1>2, <1>3, AckInit, PTL DEF HSpec
=============================================================================
