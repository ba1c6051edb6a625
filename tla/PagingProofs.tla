--------------------------- MODULE PagingProofs ---------------------------
(***************************************************************************)
(* A fetch of the system log skips no event and counts none twice without  *)
(* an arrival, for every page size, page cap and order of listing,         *)
(* whatever is logged or archived between the pages.                       *)
(***************************************************************************)
EXTENDS SystemLogPaging, FiniteSetTheorems, TLAPS

\* What makes the two invariants inductive: while a fetch runs, the pages read
\* so far have every kept event listed in them, and none more often than there
\* were pages.
PrefixRead ==
    page # Idle =>
        /\ kept \subseteq new
        /\ \A e \in Event : results[e] <= page
        /\ \A e \in kept : Place(e) <= page * PageSize => results[e] > 0

\* The repeated entries, and those that an arrival has moved to the pages still
\* to come, where they will be repeated: each takes an arrival of its own.
Owed ==
    {x \in Event \X (1 .. MaxPages) :
        \/ x[2] < results[x[1]]
        \/ page # Idle /\ x[2] = results[x[1]] /\ page * PageSize < Place(x[1])}

WithinArrivals ==
    Cardinality(Owed) <= IF order = "newest" THEN shifted ELSE 0

PagingInv == TypeOK /\ PrefixRead /\ NothingSkipped

-----------------------------------------------------------------------------
\* fetch_system_log_alarms, page + 1 >= total_pages: the pages 0 .. k-1 hold all
\* of s events when k is at least the page count.
LEMMA PagesCover ==
    ASSUME NEW s \in Nat, NEW n \in Nat \ {0}, NEW k \in Nat,
           k >= (s + n - 1) \div n
    PROVE  s <= k * n
<1> DEFINE q == (s + n - 1) \div n
           r == (s + n - 1) % n
<1>1. s + n - 1 \in Nat
  OBVIOUS
<1>2. s + n - 1 = n * q + r /\ r < n /\ q \in Int
  BY <1>1, SMT
<1>3. s <= n * q
  <2> HIDE DEF q, r
  <2>1. n * q \in Int
    BY <1>2
  <2>2. r \in Int
    BY SMT DEF r
  <2> DEFINE m == n * q
  <2>3. m \in Int /\ s + n - 1 = m + r /\ r < n
    BY <1>2, <2>1
  <2> HIDE DEF m
  <2>4. s <= m
    BY <2>2, <2>3, SMT
  <2> QED
    BY <2>4 DEF m
<1>4. n * q <= k * n
  <2> HIDE DEF q, r
  <2>1. q <= k
    BY DEF q
  <2> QED
    BY <1>2, <2>1, SMT
<1> QED
  <2> HIDE DEF q, r
  <2> QED
    BY <1>2, <1>3, <1>4, SMT

\* The page after p begins where p ends.
LEMMA NextPage ==
    ASSUME NEW p \in Int, NEW n \in Int
    PROVE  (p + 1) * n = p * n + n /\ p * n \in Int
OBVIOUS

\* Multiples of the page size are ordered as the pages are.
LEMMA PagesOrdered ==
    ASSUME NEW p \in Nat, NEW q \in Nat, NEW n \in Nat, p <= q
    PROVE  p * n <= q * n
OBVIOUS

\* Where an event of the window is listed, and what the answer for a page is.
LEMMA Listing ==
    ASSUME TypeOK
    PROVE  /\ order \in {"oldest", "newest"}
           /\ since \in Nat /\ upto \in Nat /\ logged \in Nat
           /\ since <= upto /\ upto <= logged /\ logged <= MaxEvents
           /\ Size \in Nat
           /\ \A e \in since + 1 .. upto :
                e \in Event /\ Place(e) \in Nat /\ Place(e) >= 1 /\ Place(e) <= Size
<1> USE PagingAssumption DEF TypeOK, Size, Place, Event
<1>1. /\ order \in {"oldest", "newest"}
      /\ since \in Nat /\ upto \in Nat /\ logged \in Nat
      /\ since <= upto /\ upto <= logged /\ logged <= MaxEvents
  OBVIOUS
<1> QED
  BY <1>1

LEMMA InitPaging ==
    ASSUME Init
    PROVE  PagingInv
<1> USE PagingAssumption DEF Init, Nothing, Event, Idle
<1>1. TypeOK
  BY DEF TypeOK
<1>2. PrefixRead /\ NothingSkipped
  BY DEF PrefixRead, NothingSkipped
<1> QED
  BY <1>1, <1>2 DEF PagingInv

LEMMA StartStep ==
    ASSUME PagingInv, Start
    PROVE  PagingInv'
<1> USE PagingAssumption
<1>1. PICK s \in 0 .. logged :
        /\ page' = 0 /\ results' = Nothing /\ outcome' = "none" /\ shifted' = 0
        /\ since' = s /\ upto' = logged
        /\ UNCHANGED <<order, logged, new>>
        /\ kept' = {e \in new : e > s}
  BY DEF Start, log
<1>2. TypeOK /\ s \in Nat /\ logged \in Nat /\ logged <= MaxEvents
  BY Listing DEF PagingInv
<1>3. kept' \subseteq s + 1 .. logged /\ kept' \subseteq new
  <2>1. \A e \in new : e \in 1 .. logged
    BY <1>2 DEF TypeOK
  <2> QED
    BY <1>1, <1>2, <2>1
<1>4. TypeOK'
  BY <1>1, <1>2, <1>3 DEF TypeOK, Nothing, Event
<1>5. PrefixRead'
  <2>1. \A e \in kept' : Place(e)' >= 1 /\ Place(e)' \in Nat
    BY <1>1, <1>2, <1>3 DEF Place
  <2> QED
    BY <1>1, <1>3, <2>1 DEF PrefixRead, Nothing, Event
<1>6. NothingSkipped'
  BY <1>1 DEF NothingSkipped
<1> QED
  BY <1>4, <1>5, <1>6 DEF PagingInv

\* After page p every kept event listed in the pages 0 .. p has been collected.
LEMMA AnswerStep ==
    ASSUME PagingInv, Answer
    PROVE  PagingInv'
<1> USE PagingAssumption
<1> DEFINE data == PageData(page)
<1>1. TypeOK /\ PrefixRead
  BY DEF PagingInv
<1>2. /\ page \in Nat /\ page < MaxPages
      /\ UNCHANGED <<order, logged, new, since, upto, kept, shifted>>
      /\ results' = Extended(data)
  BY <1>1 DEF Answer, TypeOK, Idle, log
<1>3. results' \in [Event -> Nat] /\ \A e \in Event : results'[e] <= page + 1
  BY <1>1, <1>2 DEF TypeOK, PrefixRead, Extended, Idle
<1>4. \A e \in kept : Place(e) <= (page + 1) * PageSize => results'[e] > 0
  <2> SUFFICES ASSUME NEW e \in kept, Place(e) <= (page + 1) * PageSize
               PROVE  results'[e] > 0
    OBVIOUS
  <2>1. e \in Event /\ e \in since + 1 .. upto /\ Place(e) \in Nat /\ e \in new
    BY <1>1, <1>2, Listing DEF TypeOK, PrefixRead, Idle
  <2>2. page * PageSize \in Int /\ Place(e) <= page * PageSize + PageSize
    BY <1>2, NextPage
  <2>3. results[e] \in Nat
    BY <1>1, <2>1 DEF TypeOK
  <2>4. CASE Place(e) <= page * PageSize
    BY <1>1, <1>2, <2>1, <2>3, <2>4 DEF PrefixRead, Extended, Idle
  <2>5. CASE page * PageSize < Place(e)
    <3>1. e \in data
      BY <2>1, <2>2, <2>5 DEF PageData
    <3> HIDE DEF data
    <3> QED
      BY <1>2, <2>1, <2>3, <3>1 DEF Extended
  <2> QED
    BY <2>1, <2>2, <2>4, <2>5
<1>5. /\ page' \in {Idle} \union 0 .. MaxPages - 1
      /\ outcome' \in {"none", "complete", "capped", "failed"}
      /\ page' # Idle => page' = page + 1
  BY <1>1, <1>2 DEF Answer, TypeOK, Idle
<1>6. TypeOK'
  BY <1>1, <1>2, <1>3, <1>5 DEF TypeOK
<1>7. PrefixRead'
  BY <1>1, <1>2, <1>3, <1>4, <1>5 DEF PrefixRead, Place, Idle
<1>8. NothingSkipped'
  <2> SUFFICES ASSUME page' = Idle, NEW e \in kept, Place(e) <= MaxPages * PageSize
               PROVE  results'[e] > 0
    BY <1>2 DEF NothingSkipped, Place
  <2>1. /\ e \in since + 1 .. upto /\ Place(e) \in Nat /\ Place(e) >= 1
        /\ Place(e) <= Size /\ Size \in Nat
    BY <1>1, Listing DEF TypeOK
  <2>2. CASE page + 1 >= TotalPages
    BY <1>2, <1>4, <2>1, <2>2, PagesCover, NextPage DEF TotalPages
  <2>3. CASE data = {}
    <3> DEFINE first == page * PageSize + 1
               f == IF order = "oldest" THEN since + first ELSE upto + 1 - first
    <3>1. first \in Int /\ first >= 1 /\ first <= page * PageSize + PageSize
      BY <1>2, NextPage
    <3>2. Place(e) < first
      <4> SUFFICES ASSUME Place(e) >= first PROVE FALSE
        BY <2>1, <3>1
      <4> HIDE DEF first
      <4>1. f \in since + 1 .. upto /\ Place(f) = first
        BY <1>1, <2>1, <3>1, Listing DEF Place, Size
      <4>2. f \in data
        BY <1>2, <3>1, <4>1, NextPage DEF PageData, first
      <4> QED
        BY <2>3, <4>2
    <3>3. Place(e) <= (page + 1) * PageSize
      BY <1>2, <2>1, <3>1, <3>2, NextPage
    <3> QED
      BY <1>4, <3>3
  <2>4. CASE page + 1 = MaxPages
    BY <1>4, <2>4
  <2> QED
    BY <1>2, <2>2, <2>3, <2>4 DEF Answer, IsLast, Idle
<1> QED
  BY <1>6, <1>7, <1>8 DEF PagingInv

LEMMA FailStep ==
    ASSUME PagingInv, Fail
    PROVE  PagingInv'
<1> USE PagingAssumption DEF Fail, log, Nothing, Event, Idle
<1>1. TypeOK'
  BY DEF PagingInv, TypeOK
<1>2. PrefixRead' /\ NothingSkipped'
  BY DEF PrefixRead, NothingSkipped
<1> QED
  BY <1>1, <1>2 DEF PagingInv

\* An event logged into the window moves the others to later places, or none.
LEMMA LogEventStep ==
    ASSUME PagingInv, LogEvent
    PROVE  PagingInv'
<1> USE PagingAssumption DEF LogEvent, fetch
<1>1. TypeOK /\ PrefixRead /\ NothingSkipped
  BY DEF PagingInv
<1>2. /\ logged' = logged + 1 /\ logged' \in 0 .. MaxEvents
      /\ new \subseteq new' /\ new' \subseteq 1 .. logged'
      /\ UNCHANGED <<order, since, page, results, outcome, kept>>
  BY <1>1, Listing DEF TypeOK
<1>3. \/ page # Idle /\ upto' = upto + 1 /\ upto' = logged' /\ shifted' = shifted + 1
      \/ upto' = upto /\ shifted' = shifted
  OBVIOUS
<1>4. TypeOK'
  BY <1>1, <1>2, <1>3, Listing DEF TypeOK
<1>5. \A e \in kept : Place(e) \in Nat /\ Place(e)' \in Nat /\ Place(e) <= Place(e)'
  <2> SUFFICES ASSUME NEW e \in kept
               PROVE  Place(e) \in Nat /\ Place(e)' \in Nat /\ Place(e) <= Place(e)'
    OBVIOUS
  <2>1. e \in since + 1 .. upto
    BY <1>1 DEF TypeOK
  <2> QED
    BY <1>1, <1>2, <1>3, <2>1, Listing DEF Place
<1>6. PrefixRead'
  <2> SUFFICES ASSUME page # Idle
               PROVE  /\ kept \subseteq new'
                      /\ \A e \in Event : results[e] <= page
                      /\ \A e \in kept : Place(e)' <= page * PageSize => results[e] > 0
    BY <1>2 DEF PrefixRead
  <2>1. page * PageSize \in Int
    BY <1>1, NextPage DEF TypeOK, Idle
  <2> QED
    BY <1>1, <1>2, <1>5, <2>1 DEF PrefixRead
<1>7. NothingSkipped'
  <2>1. CASE page = Idle
    BY <1>1, <1>2, <1>3, <2>1 DEF NothingSkipped, Place
  <2>2. CASE page # Idle
    BY <1>2, <2>2 DEF NothingSkipped
  <2> QED
    BY <2>1, <2>2
<1> QED
  BY <1>4, <1>6, <1>7 DEF PagingInv

\* Archiving takes an event out of both NEW and what has to be returned.
LEMMA ArchiveStep ==
    ASSUME PagingInv, Archive
    PROVE  PagingInv'
<1> USE PagingAssumption
<1>1. TypeOK /\ PrefixRead /\ NothingSkipped
  BY DEF PagingInv
<1>2. PICK a \in new :
        /\ new' = new \ {a}
        /\ kept' = IF page # Idle THEN kept \ {a} ELSE kept
        /\ UNCHANGED <<order, logged, since, upto, page, results, outcome, shifted>>
  BY DEF Archive, fetch
<1>3. TypeOK'
  BY <1>1, <1>2 DEF TypeOK
<1>4. PrefixRead'
  BY <1>1, <1>2 DEF PrefixRead, Place
<1>5. NothingSkipped'
  BY <1>1, <1>2 DEF NothingSkipped, Place
<1> QED
  BY <1>3, <1>4, <1>5 DEF PagingInv

-----------------------------------------------------------------------------
\* The inductive invariant of a fetch, from which both statements follow.
THEOREM PagingInvariant == Spec => []PagingInv
<1>1. Init => PagingInv
  BY InitPaging
<1>2. PagingInv /\ [Next]_vars => PagingInv'
  <2>1. ASSUME PagingInv, UNCHANGED vars PROVE PagingInv'
    BY <2>1 DEF PagingInv, TypeOK, PrefixRead, NothingSkipped, Place, vars
  <2> QED
    BY <2>1, StartStep, AnswerStep, FailStep, LogEventStep, ArchiveStep DEF Next
<1> QED
  BY <1>1, <1>2, PTL DEF Spec

\* Every variable of a fetch keeps its type: no page beyond the cap is asked for
\* and no event is collected more often than there are pages.
THEOREM PagingTypes == Spec => []TypeOK
<1>1. PagingInv => TypeOK
  BY DEF PagingInv
<1> QED
  BY <1>1, PagingInvariant, PTL

\* fetch_system_log_alarms skips no event that stayed NEW and is listed within
\* the cap.
THEOREM FetchSkipsNothing == Spec => []NothingSkipped
<1>1. PagingInv => NothingSkipped
  BY DEF PagingInv
<1> QED
  BY <1>1, PagingInvariant, PTL

-----------------------------------------------------------------------------
(* How often events are counted twice *)

LEMMA OwedFinite == IsFiniteSet(Owed) /\ Cardinality(Owed) \in Nat
<1>1. IsFiniteSet(Event) /\ IsFiniteSet(1 .. MaxPages)
  BY FS_Interval, PagingAssumption DEF Event
<1>2. IsFiniteSet(Event \X (1 .. MaxPages))
  BY <1>1, FS_Product
<1>3. IsFiniteSet(Owed)
  BY <1>2, FS_Subset DEF Owed
<1> QED
  BY <1>3, FS_CardinalityType

LEMMA OwedFiniteNext == IsFiniteSet(Owed') /\ Cardinality(Owed)' \in Nat
<1>1. IsFiniteSet(Event) /\ IsFiniteSet(1 .. MaxPages)
  BY FS_Interval, PagingAssumption DEF Event
<1>2. IsFiniteSet(Event \X (1 .. MaxPages))
  BY <1>1, FS_Product
<1>3. IsFiniteSet(Owed')
  BY <1>2, FS_Subset DEF Owed
<1> QED
  BY <1>3, FS_CardinalityType

\* A step that owes no more keeps within the arrivals.
LEMMA OwedShrinks ==
    ASSUME TypeOK, WithinArrivals, Owed' \subseteq Owed, UNCHANGED <<order, shifted>>
    PROVE  WithinArrivals'
<1>1. Cardinality(Owed') <= Cardinality(Owed)
  BY OwedFinite, FS_Subset
<1>2. Cardinality(Owed') \in Nat
  BY OwedFiniteNext
<1>3. shifted \in Nat
  BY DEF TypeOK
<1> QED
  BY <1>1, <1>2, <1>3, OwedFinite DEF WithinArrivals

LEMMA NothingOwed ==
    ASSUME TypeOK', Owed' = {}
    PROVE  WithinArrivals'
<1>1. Cardinality(Owed') = 0
  BY FS_EmptySet
<1>2. shifted' \in Nat
  BY DEF TypeOK
<1> QED
  BY <1>1, <1>2 DEF WithinArrivals

\* The entries that a page repeats were owed.
LEMMA AnswerOwes ==
    ASSUME TypeOK, Answer
    PROVE  Owed' \subseteq Owed
<1> USE PagingAssumption
<1> DEFINE data == PageData(page)
<1>1. /\ page \in Nat /\ page # Idle
      /\ UNCHANGED <<order, new, since, upto>>
      /\ results' = Extended(data)
      /\ page' # Idle => page' = page + 1
  BY DEF Answer, TypeOK, Idle, log
<1>2. SUFFICES ASSUME NEW e \in Event, NEW n \in 1 .. MaxPages,
                      \/ n < results'[e]
                      \/ page' # Idle /\ n = results'[e] /\ page' * PageSize < Place(e)'
               PROVE  \/ n < results[e]
                      \/ n = results[e] /\ page * PageSize < Place(e)
  BY <1>1 DEF Owed
<1>3. results[e] \in Nat /\ Place(e)' = Place(e) /\ Place(e) \in Int
  BY <1>1 DEF TypeOK, Place, Event
<1> DEFINE m == page * PageSize
<1>4. m \in Int /\ (page' # Idle => page' * PageSize = m + PageSize)
  BY <1>1, NextPage
<1>5. CASE e \in data \intersect new
  <2>1. results'[e] = results[e] + 1
    BY <1>1, <1>5 DEF Extended
  <2>2. m < Place(e) /\ Place(e) <= m + PageSize
    BY <1>5 DEF PageData
  <2> DEFINE r == results[e]
             q == Place(e)
             next == page' * PageSize
  <2>3. n < r + 1 \/ (page' # Idle /\ n = r + 1 /\ next < q)
    BY <1>2, <1>3, <2>1
  <2>4. /\ r \in Nat /\ q \in Int /\ (page' # Idle => next = m + PageSize)
        /\ m < q /\ q <= m + PageSize
    BY <1>3, <1>4, <2>2
  <2> HIDE DEF data, m, r, q, next
  <2>5. n < r \/ n = r
    BY <1>4, <2>3, <2>4
  <2> QED
    BY <2>4, <2>5 DEF r, q, m
<1>6. CASE e \notin data \intersect new
  <2>1. results'[e] = results[e]
    BY <1>1, <1>6 DEF Extended
  <2> DEFINE r == results[e]
             q == Place(e)
             next == page' * PageSize
  <2>3. n < r \/ (page' # Idle /\ n = r /\ next < q)
    BY <1>2, <1>3, <2>1
  <2>4. r \in Nat /\ q \in Int /\ (page' # Idle => next = m + PageSize)
    BY <1>3, <1>4
  <2> HIDE DEF data, m, r, q, next
  <2>5. n < r \/ (n = r /\ m < q)
    BY <1>4, <2>3, <2>4
  <2> QED
    BY <2>5 DEF r, q, m
<1> QED
  BY <1>5, <1>6

\* An arrival moves the newest first by one place: of the events already read
\* one at most, at the end of the pages read, to a page still to come.
LEMMA ArrivalOwes ==
    ASSUME TypeOK, LogEvent, page # Idle, upto' = upto + 1
    PROVE  Owed' \subseteq
             IF order = "newest"
             THEN Owed \union {<<upto + 1 - page * PageSize, results[upto + 1 - page * PageSize]>>}
             ELSE Owed
<1> USE PagingAssumption
<1>1. UNCHANGED <<order, since, page, results>>
  BY DEF LogEvent, fetch
<1>2. page \in Nat /\ since \in Nat /\ upto \in Nat /\ order \in {"oldest", "newest"}
  BY Listing DEF TypeOK, Idle
<1>3. page * PageSize \in Int
  BY <1>2, NextPage
<1>4. SUFFICES ASSUME NEW e \in Event, NEW n \in 1 .. MaxPages,
                      \/ n < results[e]
                      \/ n = results[e] /\ page * PageSize < Place(e)'
               PROVE  \/ n < results[e]
                      \/ n = results[e] /\ page * PageSize < Place(e)
                      \/ /\ order = "newest" /\ n = results[e]
                         /\ e = upto + 1 - page * PageSize
  BY <1>1 DEF Owed
<1>5. e \in Int
  BY DEF Event
<1> DEFINE m == page * PageSize
<1>6. m \in Int
  BY <1>3
<1> HIDE DEF m
<1>7. SUFFICES ASSUME m < Place(e)', ~(m < Place(e))
               PROVE  order = "newest" /\ e = upto + 1 - m
  BY <1>4 DEF m
<1> QED
  BY <1>1, <1>2, <1>5, <1>6, <1>7 DEF Place

LEMMA LogEventWithin ==
    ASSUME TypeOK, WithinArrivals, LogEvent
    PROVE  WithinArrivals'
<1>1. UNCHANGED <<order, since, page, results>>
  BY DEF LogEvent, fetch
<1>2. CASE UNCHANGED <<upto, shifted>>
  <2>1. Owed' = Owed
    BY <1>1, <1>2 DEF Owed, Place
  <2> QED
    BY <1>1, <1>2, <2>1, OwedShrinks
<1>3. CASE page # Idle /\ upto = logged /\ upto' = logged' /\ shifted' = shifted + 1
  <2> DEFINE f == upto + 1 - page * PageSize
             moved == <<f, results[f]>>
             more == Owed \union {moved}
  <2>1. upto' = upto + 1 /\ shifted \in Nat
    BY <1>3 DEF LogEvent, TypeOK
  <2>2. CASE order = "newest"
    <3>1. Owed' \subseteq more
      BY <1>3, <2>1, <2>2, ArrivalOwes
    <3> HIDE DEF f, moved
    <3>2. IsFiniteSet(more) /\ Cardinality(more) <= Cardinality(Owed) + 1
      BY OwedFinite, FS_AddElement
    <3> HIDE DEF more
    <3>3. Cardinality(Owed') <= Cardinality(more) /\ Cardinality(more) \in Nat
      BY <3>1, <3>2, FS_Subset, FS_CardinalityType
    <3> QED
      BY <1>1, <1>3, <2>1, <2>2, <3>2, <3>3, OwedFinite, OwedFiniteNext DEF WithinArrivals
  <2>3. CASE order # "newest"
    <3>1. Cardinality(Owed') <= Cardinality(Owed)
      BY <1>3, <2>1, <2>3, ArrivalOwes, OwedFinite, FS_Subset
    <3> QED
      BY <1>1, <2>3, <3>1, OwedFinite, OwedFiniteNext DEF WithinArrivals
  <2> QED
    BY <2>2, <2>3
<1> QED
  BY <1>2, <1>3 DEF LogEvent

LEMMA WithinInit == Init => WithinArrivals
<1> SUFFICES ASSUME Init PROVE WithinArrivals
  OBVIOUS
<1>1. Owed = {}
  BY DEF Init, Owed, Nothing, Idle
<1>2. Cardinality(Owed) = 0
  BY <1>1, FS_EmptySet
<1> QED
  BY <1>2 DEF WithinArrivals, Init

LEMMA WithinStep == PagingInv /\ WithinArrivals /\ [Next]_vars => WithinArrivals'
<1> SUFFICES ASSUME PagingInv, WithinArrivals, [Next]_vars
             PROVE  WithinArrivals'
  OBVIOUS
<1>1. TypeOK
  BY DEF PagingInv
<1>2. CASE Start
  <2>1. Owed' = {}
    BY <1>2 DEF Start, Owed, Nothing
  <2>2. TypeOK'
    BY <1>2, StartStep DEF PagingInv
  <2> QED
    BY <2>1, <2>2, NothingOwed
<1>3. CASE Answer
  BY <1>1, <1>3, AnswerOwes, OwedShrinks DEF Answer, log
<1>4. CASE Fail
  <2>1. Owed' = {}
    BY <1>4 DEF Fail, Owed, Nothing
  <2>2. TypeOK'
    BY <1>4, FailStep DEF PagingInv
  <2> QED
    BY <2>1, <2>2, NothingOwed
<1>5. CASE LogEvent
  BY <1>1, <1>5, LogEventWithin
<1>6. CASE Archive \/ UNCHANGED vars
  <2>1. UNCHANGED <<order, since, upto, page, results, shifted>>
    BY <1>6 DEF Archive, fetch, vars
  <2>2. Owed' = Owed
    BY <2>1 DEF Owed, Place
  <2> QED
    BY <1>1, <2>1, <2>2, OwedShrinks
<1> QED
  BY <1>2, <1>3, <1>4, <1>5, <1>6 DEF Next

\* The results of fetch_system_log_alarms repeat no event where the controller
\* lists the oldest first, and elsewhere at most as many as were logged while
\* the pages were read: open_count, which is their number, is off by no more.
THEOREM OverCountWithinArrivals == Spec => []OverCountBounded
<1>1. PagingInv /\ WithinArrivals => OverCountBounded
  <2> SUFFICES ASSUME PagingInv, WithinArrivals
               PROVE  OverCountBounded
    OBVIOUS
  <2>1. Repeats \subseteq Owed
    BY DEF Repeats, Owed
  <2>2. IsFiniteSet(Repeats) /\ Cardinality(Repeats) <= Cardinality(Owed)
    BY <2>1, OwedFinite, FS_Subset
  <2>3. Cardinality(Repeats) \in Nat /\ shifted \in Nat
    BY <2>2, FS_CardinalityType DEF PagingInv, TypeOK
  <2> QED
    BY <2>2, <2>3, OwedFinite DEF WithinArrivals, OverCountBounded
<1> QED
  BY <1>1, WithinInit, WithinStep, PagingInvariant, PTL DEF Spec
=============================================================================
