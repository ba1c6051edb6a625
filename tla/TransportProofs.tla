--------------------------- MODULE TransportProofs ---------------------------
(***************************************************************************)
(* For every number of legacy paths, every family of firmware and every    *)
(* bound: a poll that fails although none of its requests did is one of a  *)
(* controller that serves neither API, and so is a check that turns usable *)
(* input down; no site that exists is called missing for a blip; failing   *)
(* probes are spaced; and checks and polls choose the same transport.      *)
(***************************************************************************)
EXTENDS ConnectivityCheck, SequenceTheorems, TLAPS

-----------------------------------------------------------------------------
(* What the caches say is true of the firmware: a path discovery has       *)
(* passed over is not served, legacy is given up only when it is gone, and *)
(* the poll reads v2 only where it is served or nothing else is.           *)

Shape ==
    /\ firmware \in [v2 : BOOLEAN, served : SUBSET Path]
    /\ at \in {"idle", "probe", "cached", "discover", "system_log"}
    /\ alarm_url \in {NoPath} \union Path
    /\ at \in {"cached", "discover"} => path \in Path

CachesSound ==
    /\ has_system_log = "yes" => firmware.v2
    /\ legacy_gone => firmware.served = {}
    /\ at = "discover" => \A p \in Path : p < path => p \notin firmware.served
    /\ at = "system_log" => firmware.v2 \/ firmware.served = {}

TransportInv == Shape /\ CachesSound

LEMMA TransportInit == Init => TransportInv
BY TransportAssumption DEF Init, TransportInv, Shape, CachesSound, NoPath

\* The request that follows the verdict on v2 suits the firmware, if the
\* verdict and what is known of legacy do.
LEMMA FetchLemma ==
    ASSUME TransportInv, NEW usable \in BOOLEAN, NEW gone \in BOOLEAN,
           Fetch(usable, gone),
           usable => firmware.v2, gone => firmware.served = {},
           firmware' = firmware, alarm_url' = alarm_url
    PROVE  /\ Shape'
           /\ at' = "discover" => \A p \in Path : p < path' => p \notin firmware'.served
           /\ at' = "system_log" => firmware'.v2 \/ firmware'.served = {}
           /\ at' # "idle"
<1>1. 1 \in Path
  BY TransportAssumption DEF Path
<1>2. CASE usable \/ gone
  BY <1>2 DEF Fetch, Send, TransportInv, Shape
<1>3. CASE ~(usable \/ gone) /\ alarm_url # NoPath
  BY <1>3 DEF Fetch, Send, TransportInv, Shape
<1>4. CASE ~(usable \/ gone) /\ alarm_url = NoPath
  <2>1. at' = "discover" /\ path' = 1
    BY <1>4 DEF Fetch, Send
  <2>2. \A p \in Path : ~(p < 1)
    BY DEF Path
  <2> QED
    BY <1>1, <2>1, <2>2 DEF TransportInv, Shape
<1> QED
  BY <1>2, <1>3, <1>4

LEMMA TransportStep == TransportInv /\ [Next]_vars => TransportInv'
<1> SUFFICES ASSUME TransportInv, [Next]_vars PROVE TransportInv'
  OBVIOUS
<1>1. CASE Tick
  BY <1>1 DEF Tick, controller, legacy, TransportInv, Shape, CachesSound
<1>2. ASSUME NEW f \in Firmware, Upgrade(f)
      PROVE  TransportInv'
  <2>1. f \in [v2 : BOOLEAN, served : SUBSET Path]
    BY TransportAssumption
  <2> QED
    BY <1>2, <2>1 DEF Upgrade, probe, legacy, TransportInv, Shape, CachesSound
<1>3. CASE PollStart
  <2>1. CASE has_system_log = "unknown" \/ RetryDue
    BY <1>3, <2>1 DEF PollStart, Send, controller, legacy, TransportInv, Shape, CachesSound
  <2>2. CASE ~(has_system_log = "unknown" \/ RetryDue)
    <3>1. /\ Fetch(has_system_log = "yes", legacy_gone)
          /\ UNCHANGED <<firmware, alarm_url, legacy_gone, has_system_log>>
      BY <1>3, <2>2 DEF PollStart, controller, legacy, probe
    <3>2. CASE has_system_log = "yes" /\ legacy_gone
      <4>1. Fetch(TRUE, TRUE)
        BY <3>1, <3>2 DEF Fetch
      <4> QED
        BY <3>1, <3>2, <4>1, FetchLemma DEF TransportInv, CachesSound
    <3>3. CASE has_system_log = "yes" /\ ~legacy_gone
      <4>1. Fetch(TRUE, FALSE)
        BY <3>1, <3>3 DEF Fetch
      <4> QED
        BY <3>1, <3>3, <4>1, FetchLemma DEF TransportInv, CachesSound
    <3>4. CASE has_system_log # "yes" /\ legacy_gone
      <4>1. Fetch(FALSE, TRUE)
        BY <3>1, <3>4 DEF Fetch
      <4> QED
        BY <3>1, <3>4, <4>1, FetchLemma DEF TransportInv, CachesSound
    <3>5. CASE has_system_log # "yes" /\ ~legacy_gone
      <4>1. Fetch(FALSE, FALSE)
        BY <3>1, <3>5 DEF Fetch
      <4> QED
        BY <3>1, <3>5, <4>1, FetchLemma DEF TransportInv, CachesSound
    <3> QED
      BY <3>2, <3>3, <3>4, <3>5
  <2> QED
    BY <2>1, <2>2
\* The three answers to a probe after which the poll goes on.
<1>f. ASSUME NEW usable \in BOOLEAN, Fetch(usable, legacy_gone), usable => firmware.v2,
             UNCHANGED <<firmware, alarm_url, legacy_gone>>,
             has_system_log' = "yes" => firmware.v2
      PROVE  TransportInv'
  <2>1. CASE legacy_gone
    <3>1. Fetch(usable, TRUE)
      BY <1>f, <2>1 DEF Fetch
    <3> QED
      BY <1>f, <2>1, <3>1, FetchLemma DEF TransportInv, CachesSound
  <2>2. CASE ~legacy_gone
    <3>1. Fetch(usable, FALSE)
      BY <1>f, <2>2 DEF Fetch
    <3> QED
      BY <1>f, <2>2, <3>1, FetchLemma DEF TransportInv, CachesSound
  <2> QED
    BY <2>1, <2>2
<1>4. CASE ProbeYes
  BY <1>4, <1>f DEF ProbeYes, controller, legacy
<1>5. CASE ProbeNo
  BY <1>5, <1>f DEF ProbeNo, controller, legacy
<1>6. CASE ProbeTransient
  <2>1. has_system_log' = "yes" => firmware.v2
    BY <1>6 DEF ProbeTransient, TransportInv, CachesSound
  <2> QED
    BY <1>6, <1>f, <2>1 DEF ProbeTransient, controller, legacy
<1>7. CASE ProbeTimeout \/ FetchFault
  BY <1>7 DEF ProbeTimeout, FetchFault, Return, controller, probe, legacy,
     TransportInv, Shape, CachesSound
<1>8. CASE LegacyOk
  BY <1>8 DEF LegacyOk, Return, controller, probe, TransportInv, Shape, CachesSound
<1>9. CASE CachedMissing
  <2>1. 1 \in Path /\ \A p \in Path : ~(p < 1)
    BY TransportAssumption DEF Path
  <2> QED
    BY <1>9, <2>1 DEF CachedMissing, Send, controller, probe, TransportInv, Shape, CachesSound
<1>10. CASE DiscoverMissing
  <2>1. /\ path \in Path /\ path \notin firmware.served
        /\ \A p \in Path : p < path => p \notin firmware.served
    BY <1>10 DEF DiscoverMissing, TransportInv, Shape, CachesSound
  <2>2. CASE path < Paths
    <3>1. path + 1 \in Path /\ \A p \in Path : p < path + 1 => p \notin firmware.served
      BY <2>1, <2>2, TransportAssumption DEF Path
    <3> QED
      BY <1>10, <2>2, <3>1 DEF DiscoverMissing, Send, controller, probe,
         TransportInv, Shape, CachesSound
  <2>3. CASE ~(path < Paths)
    <3>1. firmware.served = {}
      <4>1. \A p \in Path : p < path \/ p = path
        BY <2>1, <2>3, TransportAssumption DEF Path
      <4> QED
        BY <2>1, <4>1 DEF TransportInv, Shape
    <3>2. /\ Fetch(FALSE, TRUE) /\ legacy_gone' = TRUE
          /\ UNCHANGED <<firmware, alarm_url, has_system_log>>
      BY <1>10, <2>3 DEF DiscoverMissing, controller, probe
    <3> QED
      BY <3>1, <3>2, FetchLemma DEF TransportInv, CachesSound
  <2> QED
    BY <2>2, <2>3
<1>11. CASE SystemLogOk \/ SystemLogMissing
  BY <1>11 DEF SystemLogOk, SystemLogMissing, Return, controller, probe, legacy,
     TransportInv, Shape, CachesSound
<1>12. CASE UNCHANGED vars
  BY <1>12 DEF vars, TransportInv, Shape, CachesSound
<1> QED
  BY <1>1, <1>2, <1>3, <1>4, <1>5, <1>6, <1>7, <1>8, <1>9, <1>10, <1>11, <1>12
  DEF Next, Answer, Failure

LEMMA FailureHasCause ==
    TransportInv /\ [Next]_vars =>
        [at # "idle" /\ outcome' = "failed" /\ at' = "idle" =>
            disturbed' \/ (~firmware.v2 /\ firmware.served = {})]_vars
<1> SUFFICES ASSUME TransportInv, Next, at # "idle", outcome' = "failed", at' = "idle",
                    ~disturbed'
             PROVE  ~firmware.v2 /\ firmware.served = {}
  OBVIOUS
<1>1. CASE SystemLogMissing
  BY <1>1 DEF SystemLogMissing, TransportInv, CachesSound
<1>2. CASE Failure
  BY <1>2 DEF Failure, ProbeTransient, ProbeTimeout, FetchFault, Fault
<1>3. CASE LegacyOk \/ SystemLogOk
  BY <1>3 DEF LegacyOk, SystemLogOk, Return
<1>4. CASE Tick \/ PollStart \/ \E f \in Firmware : Upgrade(f)
  BY <1>4 DEF Tick, PollStart, Upgrade
<1>5. CASE ProbeYes \/ ProbeNo \/ CachedMissing \/ DiscoverMissing
  BY <1>5 DEF ProbeYes, ProbeNo, CachedMissing, DiscoverMissing, Fetch, Send
<1> QED
  BY <1>1, <1>2, <1>3, <1>4, <1>5 DEF Next, Answer

\* A poll that fails although all its requests were answered is one of a
\* controller that serves neither API: no cache left by earlier faults or
\* firmware makes _fetch_categorised miss an API that is served.
THEOREM FailuresHaveCause == Spec => FailsOnlyWithCause
<1>1. TransportInv /\ [Next]_vars =>
        [at # "idle" /\ outcome' = "failed" /\ at' = "idle" =>
            disturbed' \/ (~firmware.v2 /\ firmware.served = {})]_vars
  BY FailureHasCause
<1> QED
  BY <1>1, TransportInit, TransportStep, PTL DEF Spec, FailsOnlyWithCause

-----------------------------------------------------------------------------
(* The types, and how the requests of a poll add up. *)

Requests ==
    /\ path \in {NoPath} \union Path
    /\ path # NoPath <=> at \in {"cached", "discover"}
    /\ requests \in Nat
    /\ at = "idle" => requests = 0
    /\ at = "probe" => requests <= 1
    /\ at = "cached" => requests <= 2
    /\ at = "discover" => requests <= path + 2
    /\ requests <= Paths + 3
    /\ legacy_gone \in BOOLEAN /\ disturbed \in BOOLEAN
    /\ outcome \in {"none", "v2", "legacy", "failed"}
    /\ faults \in 0 .. MaxFaults /\ upgrades \in 0 .. MaxUpgrades

LEMMA RequestsInit == Init => Requests
<1>1. 0 \in 0 .. MaxFaults /\ 0 \in 0 .. MaxUpgrades /\ 0 <= Paths + 3
  BY TransportAssumption
<1> SUFFICES ASSUME Init PROVE Requests
  OBVIOUS
<1>2. at = "idle" /\ path = NoPath /\ requests = 0
  BY DEF Init
<1>3. faults \in 0 .. MaxFaults /\ upgrades \in 0 .. MaxUpgrades
  BY <1>1 DEF Init
<1>4. path \in {NoPath} \union Path /\ (path # NoPath <=> at \in {"cached", "discover"})
  BY <1>2
<1>5. legacy_gone \in BOOLEAN /\ disturbed \in BOOLEAN /\ outcome \in {"none", "v2", "legacy", "failed"}
  BY DEF Init
<1>6. /\ requests \in Nat /\ requests <= Paths + 3
      /\ at # "discover" /\ at # "cached" /\ at # "probe"
  BY <1>1, <1>2
<1> QED
  BY <1>2, <1>3, <1>4, <1>5, <1>6 DEF Requests

LEMMA FetchRequests ==
    ASSUME Shape, Requests, NEW usable, NEW gone, Fetch(usable, gone),
           at \in {"idle", "probe", "discover"}, usable \/ gone \/ at # "discover"
    PROVE  /\ path' \in {NoPath} \union Path
           /\ path' # NoPath <=> at' \in {"cached", "discover"}
           /\ requests' \in Nat /\ requests' <= Paths + 3
           /\ at' \in {"cached", "discover", "system_log"}
           /\ at' = "cached" => requests' <= 2
           /\ at' = "discover" => requests' <= path' + 2
<1>1. 1 \in Path /\ NoPath \notin Path /\ Paths \in Nat \ {0}
  BY TransportAssumption DEF Path, NoPath
<1>2. requests' = requests + 1 /\ requests \in Nat /\ requests <= Paths + 2
  BY <1>1 DEF Fetch, Send, Shape, Requests, Path, NoPath
<1>3. CASE usable \/ gone
  BY <1>1, <1>2, <1>3 DEF Fetch, Send
<1>4. CASE ~(usable \/ gone) /\ alarm_url # NoPath
  BY <1>1, <1>2, <1>4 DEF Fetch, Send, Shape, Requests
<1>5. CASE ~(usable \/ gone) /\ alarm_url = NoPath
  BY <1>1, <1>2, <1>5 DEF Fetch, Send, Shape, Requests
<1> QED
  BY <1>3, <1>4, <1>5

LEMMA RequestsStep == Shape /\ Requests /\ [Next]_vars => Requests'
<1> SUFFICES ASSUME Shape, Requests, [Next]_vars PROVE Requests'
  OBVIOUS
<1>p. Paths \in Nat \ {0} /\ MaxFaults \in Nat /\ MaxUpgrades \in Nat /\ NoPath \notin Path /\ 1 \in Path
  BY TransportAssumption DEF Path, NoPath
<1>f. Fault => faults' \in 0 .. MaxFaults /\ disturbed' = TRUE
  BY <1>p DEF Fault, Requests
<1>1. CASE Tick
  BY <1>1 DEF Tick, controller, legacy, Requests
<1>2. ASSUME NEW f \in Firmware, Upgrade(f)
      PROVE  Requests'
  <2>1. upgrades' \in 0 .. MaxUpgrades
    BY <1>2, <1>p DEF Upgrade, Requests
  <2> QED
    BY <1>2, <2>1 DEF Upgrade, legacy, Requests
<1>3. CASE PollStart
  <2>1. CASE has_system_log = "unknown" \/ RetryDue
    <3>1. at' = "probe" /\ path' = NoPath /\ requests' = 1 /\ 1 <= Paths + 3
      BY <1>p, <1>3, <2>1 DEF PollStart, Send, Requests
    <3>2. path' \in {NoPath} \union Path /\ (path' # NoPath <=> at' \in {"cached", "discover"})
      BY <3>1
    <3>3. requests' \in Nat /\ at' # "idle" /\ at' # "cached" /\ at' # "discover"
      BY <3>1
    <3>4. disturbed' \in BOOLEAN /\ UNCHANGED <<legacy_gone, outcome, faults, upgrades>>
      BY <1>3 DEF PollStart, controller, legacy
    <3> QED
      BY <3>1, <3>2, <3>3, <3>4 DEF Requests
  <2>2. CASE ~(has_system_log = "unknown" \/ RetryDue)
    BY <1>3, <2>2, FetchRequests DEF PollStart, controller, legacy, Requests
  <2> QED
    BY <2>1, <2>2
<1>4. CASE ProbeYes
  BY <1>4, FetchRequests DEF ProbeYes, controller, legacy, Requests
<1>5. CASE ProbeNo
  BY <1>5, FetchRequests DEF ProbeNo, controller, legacy, Requests
<1>6. CASE ProbeTransient
  BY <1>6, <1>f, FetchRequests DEF ProbeTransient, controller, legacy, Requests
<1>7. CASE ProbeTimeout \/ FetchFault
  <2>1. at' = "idle" /\ path' = NoPath /\ requests' = 0 /\ outcome' = "failed" /\ 0 <= Paths + 3
    BY <1>7, <1>p DEF ProbeTimeout, FetchFault, Return
  <2>2. faults' \in 0 .. MaxFaults /\ disturbed' = TRUE
    BY <1>7, <1>f DEF ProbeTimeout, FetchFault
  <2>3. UNCHANGED <<legacy_gone, upgrades>>
    BY <1>7 DEF ProbeTimeout, FetchFault, controller, legacy
  <2> QED
    BY <2>1, <2>2, <2>3 DEF Requests
<1>8. CASE LegacyOk
  BY <1>8, <1>p DEF LegacyOk, Return, controller, Requests
<1>9. CASE CachedMissing
  <2>1. path' = 1 /\ requests' = requests + 1 /\ requests <= 2
    BY <1>9 DEF CachedMissing, Send, Requests
  <2> QED
    BY <1>9, <1>p, <2>1 DEF CachedMissing, Send, controller, Requests
<1>10. CASE DiscoverMissing
  <2>1. path \in Path /\ requests <= path + 2
    BY <1>10 DEF DiscoverMissing, Shape, Requests
  <2>2. CASE path < Paths
    <3>1. path + 1 \in Path /\ requests + 1 <= path + 1 + 2 /\ requests + 1 <= Paths + 3
      BY <1>p, <2>1, <2>2 DEF Path, Requests
    <3> QED
      BY <1>10, <1>p, <2>2, <3>1 DEF DiscoverMissing, Send, controller, Requests
  <2>3. CASE ~(path < Paths)
    BY <1>10, <2>3, FetchRequests DEF DiscoverMissing, controller, Requests
  <2> QED
    BY <2>2, <2>3
<1>11. CASE SystemLogOk \/ SystemLogMissing
  BY <1>11, <1>p DEF SystemLogOk, SystemLogMissing, Return, controller, legacy, Requests
<1>12. CASE UNCHANGED vars
  BY <1>12 DEF vars, Requests
<1> QED
  BY <1>1, <1>2, <1>3, <1>4, <1>5, <1>6, <1>7, <1>8, <1>9, <1>10, <1>11, <1>12
  DEF Next, Answer, Failure

-----------------------------------------------------------------------------
(* The probe's backoff.  While the answer is unknown, the failures before  *)
(* the current run lie the window back; while it is backed off, they all   *)
(* will when the backoff ends.                                             *)

Probing ==
    /\ has_system_log \in {"unknown", "yes", "no"}
    /\ fail_count \in 0 .. FailLimit
    /\ backoff \in {NoBackoff} \union 0 .. RetryAfter
    /\ has_system_log = "unknown" => backoff = NoBackoff /\ fail_count < FailLimit
    /\ at = "probe" => has_system_log = "unknown"
    /\ backoff # NoBackoff => has_system_log = "no"

Ages ==
    /\ ages \in Seq(0 .. RetryAfter)
    /\ Len(ages) <= FailLimit
    /\ has_system_log = "unknown" =>
           \A i \in 1 .. Len(ages) : i + fail_count <= Len(ages) => ages[i] >= RetryAfter
    /\ backoff # NoBackoff => \A i \in 1 .. Len(ages) : ages[i] + backoff >= RetryAfter

LEMMA ProbingInit == Init => Probing /\ Ages
<1> SUFFICES ASSUME Init PROVE Probing /\ Ages
  OBVIOUS
<1>1. FailLimit \in Nat \ {0}
  BY TransportAssumption
<1>2. ages = <<>> /\ ages \in Seq(0 .. RetryAfter) /\ Len(ages) = 0
  BY DEF Init
<1>3. Probing
  BY <1>1 DEF Init, Probing, NoBackoff
<1>4. Ages
  BY <1>1, <1>2 DEF Init, Ages, NoBackoff
<1> QED
  BY <1>3, <1>4

LEMMA FetchLeavesProbe ==
    ASSUME NEW usable, NEW gone, Fetch(usable, gone)
    PROVE  at' # "probe"
BY DEF Fetch, Send

LEMMA ProbingStep == Probing /\ [Next]_vars => Probing'
<1> SUFFICES ASSUME Probing, [Next]_vars PROVE Probing'
  OBVIOUS
<1>p. FailLimit \in Nat \ {0} /\ RetryAfter \in Nat
  BY TransportAssumption
<1>1. CASE Tick
  <2>1. backoff' \in {NoBackoff} \union 0 .. RetryAfter /\ (backoff' # NoBackoff => backoff # NoBackoff)
        /\ (backoff = NoBackoff => backoff' = NoBackoff)
    BY <1>1, <1>p DEF Tick, Probing, NoBackoff
  <2> QED
    BY <1>1, <2>1 DEF Tick, Probing
<1>2. CASE \E f \in Firmware : Upgrade(f)
  BY <1>2 DEF Upgrade, probe, Probing
<1>3. CASE PollStart
  <2>1. CASE has_system_log = "unknown" \/ RetryDue
    BY <1>3, <1>p, <2>1 DEF PollStart, Send, RetryDue, Probing
  <2>2. CASE ~(has_system_log = "unknown" \/ RetryDue)
    BY <1>3, <2>2, FetchLeavesProbe DEF PollStart, probe, Probing
  <2> QED
    BY <2>1, <2>2
<1>4. CASE ProbeYes
  <2>1. at' # "probe"
    BY <1>4, FetchLeavesProbe DEF ProbeYes
  <2>2. has_system_log' = "yes" /\ fail_count' = 0 /\ backoff' = NoBackoff
    BY <1>4 DEF ProbeYes
  <2> QED
    BY <1>p, <2>1, <2>2 DEF Probing
<1>5. CASE ProbeNo
  <2>1. at' # "probe"
    BY <1>5, FetchLeavesProbe DEF ProbeNo
  <2>2. has_system_log' = "no" /\ fail_count' = 0 /\ backoff' = backoff
    BY <1>5 DEF ProbeNo
  <2> QED
    BY <1>p, <2>1, <2>2 DEF Probing
<1>6. CASE ProbeTransient
  <2>1. at' # "probe"
    BY <1>6, FetchLeavesProbe DEF ProbeTransient
  <2>2. fail_count' = fail_count + 1 /\ fail_count' \in 0 .. FailLimit
    BY <1>6, <1>p DEF ProbeTransient, Probing
  <2>3. CASE fail_count' >= FailLimit
    BY <1>6, <1>p, <2>1, <2>2, <2>3 DEF ProbeTransient, Probing
  <2>4. CASE ~(fail_count' >= FailLimit)
    BY <1>6, <1>p, <2>1, <2>2, <2>4 DEF ProbeTransient, Probing
  <2> QED
    BY <2>3, <2>4
<1>7. CASE ProbeTimeout \/ FetchFault \/ SystemLogOk \/ SystemLogMissing \/ LegacyOk
  BY <1>7 DEF ProbeTimeout, FetchFault, SystemLogOk, SystemLogMissing, LegacyOk, Return, probe, Probing
<1>8. CASE CachedMissing
  BY <1>8 DEF CachedMissing, Send, probe, Probing
<1>9. CASE DiscoverMissing
  BY <1>9, FetchLeavesProbe DEF DiscoverMissing, Send, probe, Probing
<1>10. CASE UNCHANGED vars
  BY <1>10 DEF vars, Probing
<1> QED
  BY <1>1, <1>2, <1>3, <1>4, <1>5, <1>6, <1>7, <1>8, <1>9, <1>10 DEF Next, Answer, Failure

LEMMA AgesStep == Probing /\ Ages /\ [Next]_vars => Ages'
<1> SUFFICES ASSUME Probing, Ages, [Next]_vars PROVE Ages'
  OBVIOUS
<1>p. FailLimit \in Nat \ {0} /\ RetryAfter \in Nat /\ NoBackoff \notin Nat
  BY TransportAssumption DEF NoBackoff
<1>l. Len(ages) \in Nat /\ \A i \in 1 .. Len(ages) : ages[i] \in 0 .. RetryAfter
  BY LenProperties DEF Ages
<1>1. CASE Tick
  <2> DEFINE older(i) == IF ages[i] < RetryAfter THEN ages[i] + 1 ELSE RetryAfter
  <2>1. ages' = [i \in 1 .. Len(ages) |-> older(i)]
    BY <1>1 DEF Tick, Ages
  <2>2. \A i \in 1 .. Len(ages) : older(i) \in 0 .. RetryAfter /\ older(i) >= ages[i]
                                 /\ (older(i) = RetryAfter \/ older(i) = ages[i] + 1)
    BY <1>p, <1>l
  <2> HIDE DEF older
  <2>3. ages' \in [1 .. Len(ages) -> 0 .. RetryAfter]
    BY <2>1, <2>2
  <2>4. ages' \in Seq(0 .. RetryAfter) /\ Len(ages') = Len(ages)
    <3>1. ages' \in Seq(0 .. RetryAfter)
      BY <1>l, <2>3, SeqDef
    <3>2. DOMAIN ages' = 1 .. Len(ages') /\ DOMAIN ages' = 1 .. Len(ages) /\ Len(ages') \in Nat
      BY <2>1, <3>1, LenProperties
    <3> QED
      BY <1>l, <3>1, <3>2
  <2>5. has_system_log' = "unknown" =>
            \A i \in 1 .. Len(ages') : i + fail_count' <= Len(ages') => ages'[i] >= RetryAfter
    BY <1>1, <1>p, <1>l, <2>1, <2>2, <2>4 DEF Tick, Ages
  <2>6. backoff' # NoBackoff => \A i \in 1 .. Len(ages') : ages'[i] + backoff' >= RetryAfter
    <3> SUFFICES ASSUME backoff' # NoBackoff, NEW i \in 1 .. Len(ages)
                 PROVE  ages'[i] + backoff' >= RetryAfter
      BY <2>4
    <3>1. backoff \in 0 .. RetryAfter /\ ages[i] + backoff >= RetryAfter
      <4>1. backoff # NoBackoff
        BY <1>1 DEF Tick, NoBackoff
      <4> QED
        BY <4>1 DEF Probing, Ages
    <3>2. backoff' \in Nat /\ backoff' >= backoff - 1
      BY <1>1, <1>p, <3>1 DEF Tick
    <3>3. ages'[i] = older(i)
      BY <2>1
    <3> QED
      BY <1>1, <1>p, <1>l, <2>2, <3>1, <3>2, <3>3 DEF Tick
  <2> QED
    BY <2>4, <2>5, <2>6 DEF Ages
<1>2. CASE \E f \in Firmware : Upgrade(f)
  BY <1>2 DEF Upgrade, probe, Ages
<1>3. CASE PollStart
  <2>1. CASE RetryDue
    <3>1. \A i \in 1 .. Len(ages) : ages[i] >= RetryAfter
      BY <1>p, <1>l, <2>1 DEF RetryDue, Ages
    <3> QED
      BY <1>3, <2>1, <3>1 DEF PollStart, Ages
  <2>2. CASE ~RetryDue
    BY <1>3, <2>2 DEF PollStart, probe, Ages
  <2> QED
    BY <2>1, <2>2
<1>4. CASE ProbeYes \/ ProbeNo
  <2>1. backoff' = NoBackoff /\ has_system_log' # "unknown" /\ UNCHANGED ages
    BY <1>4 DEF ProbeYes, ProbeNo, Probing
  <2> QED
    BY <2>1 DEF Ages
<1>5. CASE ProbeTransient
  <2> DEFINE base == IF Len(ages) = FailLimit THEN Tail(ages) ELSE ages
  <2>1. /\ base \in Seq(0 .. RetryAfter) /\ Len(base) \in Nat /\ Len(base) < FailLimit
        /\ \A i \in 1 .. Len(base) : i + fail_count <= Len(base) => base[i] >= RetryAfter
    <3>u. /\ has_system_log = "unknown" /\ fail_count \in 0 .. FailLimit
          /\ \A i \in 1 .. Len(ages) : i + fail_count <= Len(ages) => ages[i] >= RetryAfter
      BY <1>5 DEF ProbeTransient, Probing, Ages
    <3>1. CASE Len(ages) = FailLimit
      <4>1. ages \in Seq(0 .. RetryAfter) /\ ages # <<>>
        BY <1>p, <3>1 DEF Ages
      <4>2. /\ base \in Seq(0 .. RetryAfter) /\ Len(base) = Len(ages) - 1
            /\ \A i \in 1 .. Len(base) : base[i] = ages[i + 1]
        BY <3>1, <4>1, HeadTailProperties
      <4>3. \A i \in 1 .. Len(base) : i + 1 \in 1 .. Len(ages)
        BY <1>l, <4>2
      <4> HIDE DEF base
      <4>4. Len(base) \in Nat /\ Len(base) < FailLimit
        BY <1>p, <1>l, <3>1, <4>2 DEF Ages
      <4>5. ASSUME NEW i \in 1 .. Len(base), i + fail_count <= Len(base)
            PROVE  base[i] >= RetryAfter
        <5>1. i + 1 \in 1 .. Len(ages) /\ (i + 1) + fail_count <= Len(ages)
          BY <1>l, <3>u, <4>2, <4>3, <4>5
        <5> QED
          BY <3>u, <4>2, <5>1
      <4> QED
        BY <4>2, <4>4, <4>5
    <3>2. CASE Len(ages) # FailLimit
      BY <1>p, <1>l, <3>2, <3>u DEF Ages
    <3> QED
      BY <3>1, <3>2
  <2>2. ages' = Append(base, 0)
    BY <1>5 DEF ProbeTransient
  <2> HIDE DEF base
  <2>3. /\ ages' \in Seq(0 .. RetryAfter) /\ Len(ages') = Len(base) + 1
        /\ \A i \in 1 .. Len(base) : ages'[i] = base[i]
        /\ ages'[Len(base) + 1] = 0
    BY <1>p, <2>1, <2>2, AppendProperties
  <2>4. fail_count' = fail_count + 1 /\ fail_count \in 0 .. FailLimit /\ fail_count < FailLimit
    BY <1>5 DEF ProbeTransient, Probing
  <2>5. \A i \in 1 .. Len(ages') : i + fail_count' <= Len(ages') => ages'[i] >= RetryAfter
    <3> SUFFICES ASSUME NEW i \in 1 .. Len(ages'), i + fail_count' <= Len(ages')
                 PROVE  ages'[i] >= RetryAfter
      OBVIOUS
    <3>1. i \in 1 .. Len(base) /\ i + fail_count <= Len(base)
      BY <2>1, <2>3, <2>4
    <3> QED
      BY <2>1, <2>3, <3>1
  <2>6. backoff' # NoBackoff => backoff' = RetryAfter
    BY <1>5 DEF ProbeTransient, Probing
  <2>7. \A i \in 1 .. Len(ages') : ages'[i] + RetryAfter >= RetryAfter
    BY <1>p, <2>3
  <2>8. Len(ages') <= FailLimit
    BY <1>p, <2>1, <2>3
  <2> QED
    BY <2>3, <2>5, <2>6, <2>7, <2>8 DEF Ages
<1>6. CASE ProbeTimeout \/ FetchFault \/ SystemLogOk \/ SystemLogMissing \/ LegacyOk
  BY <1>6 DEF ProbeTimeout, FetchFault, SystemLogOk, SystemLogMissing, LegacyOk, probe, Ages
<1>7. CASE CachedMissing \/ DiscoverMissing
  BY <1>7 DEF CachedMissing, DiscoverMissing, probe, Ages
<1>8. CASE UNCHANGED vars
  BY <1>8 DEF vars, Ages
<1> QED
  BY <1>1, <1>2, <1>3, <1>4, <1>5, <1>6, <1>7, <1>8 DEF Next, Answer, Failure

-----------------------------------------------------------------------------
(* The entry and the dialog before it: a step is one of the entry's, or    *)
(* leaves its polls alone but for the count of faults.                     *)

PollInv == TransportInv /\ Requests /\ Probing /\ Ages

LEMMA PollInit == Init => PollInv
BY TransportInit, RequestsInit, ProbingInit DEF PollInv

LEMMA PollStep == PollInv /\ [Next]_vars => PollInv'
BY TransportStep, RequestsStep, ProbingStep, AgesStep DEF PollInv, TransportInv

Blipped == UNCHANGED polling /\ faults < MaxFaults /\ faults' = faults + 1

LEMMA BlipStep == PollInv /\ Blipped => PollInv'
<1> SUFFICES ASSUME PollInv, Blipped PROVE PollInv'
  OBVIOUS
<1>1. TransportInv' /\ Probing'
  BY DEF PollInv, TransportInv, Shape, CachesSound, Probing, Blipped, polling
<1>2. Ages'
  BY DEF PollInv, Ages, Blipped, polling
<1>3. faults' \in 0 .. MaxFaults
  BY TransportAssumption DEF PollInv, Requests, Blipped
<1>4. Requests'
  BY <1>3 DEF PollInv, Requests, Blipped, polling
<1> QED
  BY <1>1, <1>2, <1>4 DEF PollInv

LEMMA BlipIsBlipped == Blip => Blipped
BY DEF Blip, Blipped

LEMMA CheckSteps == Check => UNCHANGED vars \/ Blipped
BY BlipIsBlipped
DEF Check, Submit, KeyVerified, KeyUnverified, Probed, ProbeBlip, PathServed, PathMissing,
    NoSiteContext, PathBlip, SitesListed, SitesBlip, SitesRefused, TimedOut, Sound

LEMMA CheckedSteps == [CheckedNext]_checkedVars => [Next]_vars \/ Blipped
<1> SUFFICES ASSUME [CheckedNext]_checkedVars PROVE [Next]_vars \/ Blipped
  OBVIOUS
<1>1. CASE Check
  BY <1>1, CheckSteps
<1>2. CASE Polls(PollStart) \/ Polls(Answer) \/ Polls(Failure) \/ Meanwhile
  BY <1>2 DEF Polls, Meanwhile, Next
<1>3. CASE UNCHANGED checkedVars
  BY <1>3 DEF checkedVars
<1> QED
  BY <1>1, <1>2, <1>3 DEF CheckedNext

LEMMA PollInductive == CheckedSpec => []PollInv
<1>1. CheckedInit => PollInv
  BY PollInit DEF CheckedInit
<1>2. PollInv /\ [CheckedNext]_checkedVars => PollInv'
  BY PollStep, BlipStep, CheckedSteps
<1> QED
  BY <1>1, <1>2, PTL DEF CheckedSpec

\* The type invariant, with at most Paths + 3 requests to a poll.
THEOREM TransportTypes == CheckedSpec => []TypeOK
<1>1. PollInv => TypeOK
  <2> SUFFICES ASSUME PollInv PROVE TypeOK
    OBVIOUS
  <2>1. requests \in 0 .. Paths + 3
    BY TransportAssumption DEF PollInv, Requests
  <2> QED
    BY <2>1 DEF PollInv, TransportInv, Shape, Requests, Probing, TypeOK
<1> QED
  BY <1>1, PollInductive, PTL

\* Whatever becomes of it, no probe goes out until the FailLimit-th counted
\* failure before it lies the retry window back: a controller that answers the
\* probe with errors, or refuses it, is not probed at every poll.  Of one that
\* lets the probe time out nothing of the kind holds.
THEOREM BackoffHolds == CheckedSpec => []CountedFailuresBackOff
<1>1. PollInv => CountedFailuresBackOff
  <2> SUFFICES ASSUME PollInv, at = "probe", Len(ages) = FailLimit
               PROVE  ages[1] >= RetryAfter
    BY DEF CountedFailuresBackOff
  <2>1. FailLimit \in Nat \ {0}
    BY TransportAssumption
  <2>2. has_system_log = "unknown" /\ fail_count \in Nat /\ fail_count < FailLimit
    BY <2>1 DEF PollInv, Probing
  <2>3. 1 \in 1 .. Len(ages) /\ 1 + fail_count <= Len(ages)
    BY <2>1, <2>2
  <2> QED
    BY <2>2, <2>3 DEF PollInv, Ages
<1> QED
  BY <1>1, PollInductive, PTL

\* FailuresHaveCause, whatever dialog came before.
THEOREM CheckedFailuresHaveCause == CheckedSpec => FailsOnlyWithCause
<1> DEFINE Caused == at # "idle" /\ outcome' = "failed" /\ at' = "idle" =>
                         disturbed' \/ (~firmware.v2 /\ firmware.served = {})
<1>1. PollInv /\ [CheckedNext]_checkedVars => [Caused]_vars
  <2> SUFFICES ASSUME PollInv, [CheckedNext]_checkedVars PROVE [Caused]_vars
    OBVIOUS
  <2>1. CASE [Next]_vars
    BY <2>1, FailureHasCause DEF PollInv
  <2>2. CASE Blipped
    BY <2>2 DEF Blipped, polling
  <2> QED
    BY <2>1, <2>2, CheckedSteps
<1> QED
  BY <1>1, PollInductive, PTL DEF CheckedSpec, FailsOnlyWithCause

-----------------------------------------------------------------------------
(* What a dialog knows of the controller, which stays as it is during a    *)
(* check: what a request without trouble has ruled out is ruled out.       *)

Dialog ==
    /\ dialog \in {"form", "authenticate", "probe", "discover", "sites", "accepted"}
    /\ dialog = "discover" => candidate \in Path
    /\ input \in Inputs
    /\ dialog \in {"probe", "discover", "sites"} => input.key = "accepted"
    /\ ~trouble /\ input.site /\ dialog \in {"discover", "sites"} => ~firmware.v2
    /\ ~trouble /\ input.site /\ dialog = "discover" =>
           \A p \in Path : p < candidate => p \notin firmware.served
    /\ ~trouble /\ input.site /\ dialog = "sites" => firmware.served = {}
    /\ trouble => faults > 0
    /\ dialog # "accepted" => at = "idle" /\ outcome = "none"
    /\ SiteNeverMisreported

DialogInv == PollInv /\ Dialog

LEMMA DialogInit == CheckedInit => Dialog
<1> SUFFICES ASSUME CheckedInit PROVE Dialog
  OBVIOUS
<1>1. input \in Inputs
  BY DEF CheckedInit, Inputs, Usable
<1> QED
  BY <1>1 DEF CheckedInit, Init, Dialog, SiteNeverMisreported

LEMMA FaultsGrow == Requests /\ [Next]_vars => faults' >= faults
<1> SUFFICES ASSUME Requests, [Next]_vars PROVE faults' >= faults
  OBVIOUS
<1>1. faults \in Nat
  BY TransportAssumption DEF Requests
<1>2. CASE Fault
  BY <1>1, <1>2 DEF Fault
<1>3. CASE Next /\ ~Fault
  <2>1. UNCHANGED faults
    BY <1>3 DEF Next, Answer, Failure, Tick, Upgrade, PollStart, ProbeYes, ProbeNo, LegacyOk,
       CachedMissing, DiscoverMissing, SystemLogOk, SystemLogMissing, ProbeTransient,
       ProbeTimeout, FetchFault
  <2> QED
    BY <1>1, <2>1
<1>4. CASE UNCHANGED vars
  BY <1>1, <1>4 DEF vars
<1> QED
  BY <1>2, <1>3, <1>4

\* A check that a fault ends, or sends to the next request.
LEMMA BlipDialog ==
    ASSUME DialogInv, dialog \notin {"form", "accepted"}, Blip
    PROVE  /\ UNCHANGED <<firmware, at, outcome, input>> /\ trouble' /\ faults' > 0
           /\ at' = "idle" /\ outcome' = "none" /\ input' \in Inputs
<1>1. faults \in Nat
  BY TransportAssumption DEF DialogInv, PollInv, Requests
<1> QED
  BY <1>1 DEF DialogInv, Dialog, Blip, polling

LEMMA DialogStep == DialogInv /\ [CheckedNext]_checkedVars => Dialog'
<1> SUFFICES ASSUME DialogInv, [CheckedNext]_checkedVars PROVE Dialog'
  OBVIOUS
<1>p. 1 \in Path /\ \A q \in Path : ~(q < 1)
  BY TransportAssumption DEF Path
<1>1. CASE Submit
  BY <1>1 DEF Submit, Reject, End, vars, DialogInv, Dialog, SiteNeverMisreported
<1>2. CASE KeyVerified
  BY <1>2 DEF KeyVerified, Ask, Reject, End, Sound, vars, DialogInv, Dialog, SiteNeverMisreported
<1>3. CASE KeyUnverified
  BY <1>3, BlipDialog DEF KeyUnverified, Reject, End, Dialog, SiteNeverMisreported
<1>4. CASE Probed
  BY <1>4, <1>p
  DEF Probed, Accept, Try, End, Sound, vars, DialogInv, Dialog, SiteNeverMisreported
<1>5. CASE ProbeBlip
  <2>1. dialog' = "discover" /\ candidate' = 1 /\ UNCHANGED <<verdict, refused>>
    BY <1>5 DEF ProbeBlip, Try
  <2>2. /\ UNCHANGED <<firmware, input>> /\ trouble' /\ faults' > 0
        /\ at' = "idle" /\ outcome' = "none" /\ input' \in Inputs
    BY <1>5, BlipDialog DEF ProbeBlip
  <2>3. input.key = "accepted"
    BY <1>5 DEF ProbeBlip, DialogInv, Dialog
  <2> QED
    BY <1>p, <2>1, <2>2, <2>3 DEF DialogInv, Dialog, SiteNeverMisreported
<1>6. CASE PathServed
  BY <1>6 DEF PathServed, Accept, End, Sound, vars, DialogInv, Dialog, SiteNeverMisreported
<1>7. CASE PathMissing
  <2>1. /\ candidate \in Path /\ input.key = "accepted"
        /\ input.site => candidate \notin firmware.served
        /\ UNCHANGED <<vars, input, trouble, refused, verdict>>
    BY <1>7 DEF PathMissing, Try, Ask, Sound, DialogInv, Dialog
  <2>2. ~trouble /\ input.site =>
            ~firmware.v2 /\ \A q \in Path : q < candidate => q \notin firmware.served
    BY <1>7 DEF PathMissing, DialogInv, Dialog
  <2>3. UNCHANGED <<firmware, at, outcome, faults>>
    BY <2>1 DEF vars
  <2>4. CASE candidate < Paths
    <3>1. candidate + 1 \in Path /\ \A q \in Path : q < candidate + 1 => q < candidate \/ q = candidate
      BY <2>1, <2>4, TransportAssumption DEF Path
    <3>2. dialog' = "discover" /\ candidate' = candidate + 1
      BY <1>7, <2>4 DEF PathMissing, Try
    <3> QED
      BY <1>7, <2>1, <2>2, <2>3, <3>1, <3>2
      DEF PathMissing, DialogInv, Dialog, SiteNeverMisreported
  <2>5. CASE ~(candidate < Paths)
    <3>1. \A q \in Path : q < candidate \/ q = candidate
      BY <2>1, <2>5, TransportAssumption DEF Path
    <3>2. ~trouble /\ input.site => firmware.served = {}
      BY <2>1, <2>2, <3>1 DEF DialogInv, PollInv, TransportInv, Shape
    <3>3. dialog' = "sites"
      BY <1>7, <2>5 DEF PathMissing, Ask
    <3> QED
      BY <1>7, <2>1, <2>2, <2>3, <3>2, <3>3
      DEF PathMissing, DialogInv, Dialog, SiteNeverMisreported
  <2> QED
    BY <2>4, <2>5
<1>8. CASE NoSiteContext \/ SitesListed
  BY <1>8 DEF NoSiteContext, SitesListed, Reject, End, Sound, vars, DialogInv, Dialog,
     SiteNeverMisreported
<1>9. CASE PathBlip \/ SitesBlip
  BY <1>9, BlipDialog DEF PathBlip, SitesBlip, Reject, End, Dialog, SiteNeverMisreported
<1>10. CASE SitesRefused
  BY <1>10, BlipDialog DEF SitesRefused, Reject, End, Dialog, SiteNeverMisreported
<1>11. CASE dialog \notin {"form", "accepted"} /\ TimedOut
  BY <1>11, BlipDialog DEF TimedOut, Reject, End, Dialog, SiteNeverMisreported
<1>12. CASE Polls(PollStart) \/ Polls(Answer) \/ Polls(Failure)
  <2>1. dialog = "accepted" /\ UNCHANGED check /\ Next
    BY <1>12 DEF Polls, Next
  <2>2. faults' >= faults /\ faults \in Nat /\ faults' \in Nat
    BY <2>1, FaultsGrow, PollStep, TransportAssumption DEF DialogInv, PollInv, Requests
  <2> QED
    BY <2>1, <2>2 DEF check, DialogInv, Dialog, SiteNeverMisreported
<1>13. CASE Meanwhile
  <2>1. /\ dialog \in {"form", "accepted"} /\ UNCHANGED check
        /\ UNCHANGED <<at, outcome, faults>>
    BY <1>13 DEF Meanwhile, Tick, Upgrade
  <2> QED
    BY <2>1 DEF check, DialogInv, Dialog, SiteNeverMisreported
<1>14. CASE UNCHANGED checkedVars
  BY <1>14 DEF checkedVars, vars, check, DialogInv, Dialog, SiteNeverMisreported
<1> QED
  BY <1>1, <1>2, <1>3, <1>4, <1>5, <1>6, <1>7, <1>8, <1>9, <1>10, <1>11, <1>12, <1>13, <1>14
  DEF CheckedNext, Check

LEMMA DialogInductive == CheckedSpec => []DialogInv
<1>1. CheckedInit => DialogInv
  BY PollInit, DialogInit DEF CheckedInit, DialogInv
<1>2. DialogInv /\ [CheckedNext]_checkedVars => DialogInv'
  BY PollStep, BlipStep, CheckedSteps, DialogStep DEF DialogInv
<1> QED
  BY <1>1, <1>2, PTL DEF CheckedSpec

\* Whatever request fails, a site that exists is called missing only if its list
\* was answered by an error envelope.
THEOREM SitesNotMisreported == CheckedSpec => []SiteNeverMisreported
<1>1. DialogInv => SiteNeverMisreported
  BY DEF DialogInv, Dialog
<1> QED
  BY <1>1, DialogInductive, PTL

\* A dialog turns a usable key and site away only for a failed request, or if
\* the controller serves neither API.
THEOREM RejectionsHaveCause == CheckedSpec => RejectsOnlyWithCause
<1> DEFINE Caused == dialog # "form" /\ dialog' = "form" =>
                         trouble' \/ input # Usable \/ (~firmware.v2 /\ firmware.served = {})
<1>1. DialogInv /\ [CheckedNext]_checkedVars => [Caused]_checkedVars
  <2> SUFFICES ASSUME DialogInv, CheckedNext, dialog # "form", dialog' = "form",
                      ~trouble', input = Usable
               PROVE  ~firmware.v2 /\ firmware.served = {}
    OBVIOUS
  <2>1. input.key = "accepted" /\ input.site
    BY DEF Usable
  <2>2. ~Blip
    BY DEF Blip
  <2>3. ~(Polls(PollStart) \/ Polls(Answer) \/ Polls(Failure) \/ Meanwhile)
    BY DEF Polls, Meanwhile, check
  <2>4. SitesListed
    BY <2>1, <2>2, <2>3
    DEF CheckedNext, Check, Submit, KeyVerified, KeyUnverified, Probed, ProbeBlip, PathServed,
        PathMissing, NoSiteContext, PathBlip, SitesBlip, SitesRefused, TimedOut, Ask, Try,
        Accept, Reject, End
  <2> QED
    BY <2>1, <2>4 DEF SitesListed, Sound, DialogInv, Dialog
<1> QED
  BY <1>1, DialogInductive, PTL DEF CheckedSpec, RejectsOnlyWithCause

-----------------------------------------------------------------------------
(* A controller left alone: no fault, no upgrade, and an API that is       *)
(* served.  Then the caches of the polls know which one.                   *)

LeftAlone == faults = 0 /\ upgrades = 0 /\ (firmware.v2 \/ firmware.served # {})

Served == IF firmware.v2 THEN "v2" ELSE "legacy"

Settled ==
    LeftAlone =>
        /\ has_system_log = "no" => ~firmware.v2
        /\ at \in {"cached", "discover"} => ~firmware.v2
        /\ outcome \in {"none", Served}

Agreed ==
    faults = 0 /\ upgrades = 0 /\ dialog = "accepted" /\ verdict # "none" =>
        LeftAlone /\ verdict = Served

\* The request after a verdict on v2 that is true.
LEMMA FetchSettled ==
    ASSUME NEW verdictOfProbe, NEW gone, Fetch(verdictOfProbe, gone),
           ~verdictOfProbe => ~firmware.v2
    PROVE  at' \in {"cached", "discover"} => ~firmware.v2
BY DEF Fetch, Send

LEMMA SettledStep == PollInv /\ Settled /\ [Next]_vars => Settled'
<1> SUFFICES ASSUME PollInv, Settled, [Next]_vars, LeftAlone'
             PROVE  /\ has_system_log' = "no" => ~firmware'.v2
                    /\ at' \in {"cached", "discover"} => ~firmware'.v2
                    /\ outcome' \in {"none", Served'}
  BY DEF Settled
<1>t. faults \in Nat /\ upgrades \in Nat
  BY TransportAssumption DEF PollInv, Requests
<1>1. ~Fault /\ ~\E f \in Firmware : Upgrade(f)
  BY <1>t DEF Fault, Upgrade, LeftAlone
<1>2. UNCHANGED <<firmware, faults, upgrades>>
  BY <1>1
  DEF Next, Answer, Failure, Tick, PollStart, ProbeYes, ProbeNo, LegacyOk, CachedMissing,
      DiscoverMissing, SystemLogOk, SystemLogMissing, ProbeTransient, ProbeTimeout, FetchFault,
      controller, vars
<1>3. /\ LeftAlone /\ Served' = Served
      /\ has_system_log = "no" => ~firmware.v2
      /\ at \in {"cached", "discover"} => ~firmware.v2
      /\ outcome \in {"none", Served}
  BY <1>2 DEF LeftAlone, Served, Settled
<1>4. CASE Tick
  BY <1>2, <1>3, <1>4 DEF Tick
<1>5. CASE PollStart
  <2>1. CASE has_system_log = "unknown" \/ RetryDue
    BY <1>2, <1>3, <1>5, <2>1 DEF PollStart, Send
  <2>2. CASE ~(has_system_log = "unknown" \/ RetryDue)
    <3>1. has_system_log # "yes" => has_system_log = "no"
      BY <2>2 DEF PollInv, Probing
    <3> QED
      BY <1>2, <1>3, <1>5, <2>2, <3>1, FetchSettled DEF PollStart, probe
  <2> QED
    BY <2>1, <2>2
<1>6. CASE ProbeYes
  BY <1>2, <1>3, <1>6, FetchSettled DEF ProbeYes
<1>7. CASE ProbeNo
  BY <1>2, <1>3, <1>7, FetchSettled DEF ProbeNo
<1>8. CASE LegacyOk
  BY <1>2, <1>3, <1>8 DEF LegacyOk, Return, probe, Served
<1>9. CASE CachedMissing
  BY <1>2, <1>3, <1>9 DEF CachedMissing, Send, probe
<1>10. CASE DiscoverMissing
  BY <1>2, <1>3, <1>10 DEF DiscoverMissing, Fetch, Send, probe
<1>11. CASE SystemLogOk
  BY <1>2, <1>3, <1>11 DEF SystemLogOk, Return, probe, Served
<1>12. CASE SystemLogMissing
  BY <1>3, <1>12 DEF SystemLogMissing, PollInv, TransportInv, CachesSound, LeftAlone
<1>13. CASE Failure
  BY <1>1, <1>13 DEF Failure, ProbeTransient, ProbeTimeout, FetchFault
<1>14. CASE UNCHANGED vars
  BY <1>2, <1>3, <1>14 DEF vars
<1> QED
  BY <1>1, <1>4, <1>5, <1>6, <1>7, <1>8, <1>9, <1>10, <1>11, <1>12, <1>13, <1>14
  DEF Next, Answer

LEMMA CheckedSettled == PollInv /\ Settled /\ [CheckedNext]_checkedVars => Settled'
<1> SUFFICES ASSUME PollInv, Settled, Blipped PROVE Settled'
  BY SettledStep, CheckedSteps
<1>1. faults' # 0
  BY TransportAssumption DEF Blipped, PollInv, Requests
<1> QED
  BY <1>1 DEF Settled, LeftAlone

LEMMA AgreedStep == DialogInv /\ Agreed /\ [CheckedNext]_checkedVars => Agreed'
<1> SUFFICES ASSUME DialogInv, Agreed, [CheckedNext]_checkedVars,
                    faults' = 0, upgrades' = 0, dialog' = "accepted", verdict' # "none"
             PROVE  LeftAlone' /\ verdict' = Served'
  BY DEF Agreed
<1>t. faults \in Nat /\ upgrades \in Nat
  BY TransportAssumption DEF DialogInv, PollInv, Requests
<1>b. ~Blip
  BY <1>t DEF Blip
<1>1. CASE Probed
  <2>1. firmware.v2 /\ verdict' = "v2" /\ UNCHANGED vars
    BY <1>1 DEF Probed, Accept, Try, End, Sound
  <2> QED
    BY <2>1 DEF vars, LeftAlone, Served
<1>2. CASE PathServed
  <2>1. candidate \in firmware.served /\ verdict' = "legacy" /\ UNCHANGED vars
    BY <1>2 DEF PathServed, Accept, End, Sound
  <2>2. UNCHANGED <<faults, firmware, upgrades>>
    BY <2>1 DEF vars
  <2>3. ~firmware.v2
    BY <1>2, <1>t, <2>2 DEF PathServed, DialogInv, Dialog
  <2> QED
    BY <2>1, <2>2, <2>3 DEF LeftAlone, Served
<1>3. CASE Check /\ ~Probed /\ ~PathServed
  <2>1. dialog' # "accepted"
    BY <1>b, <1>3
    DEF Check, Submit, KeyVerified, KeyUnverified, ProbeBlip, PathMissing, NoSiteContext,
        PathBlip, SitesListed, SitesBlip, SitesRefused, TimedOut, Ask, Try, Reject, End
  <2> QED
    BY <2>1
<1>4. CASE Polls(PollStart) \/ Polls(Answer) \/ Polls(Failure) \/ Meanwhile
  <2>1. Next /\ UNCHANGED check
    BY <1>4 DEF Polls, Meanwhile, Next
  <2>2. ~Fault /\ ~\E f \in Firmware : Upgrade(f)
    BY <1>t DEF Fault, Upgrade
  <2>3. UNCHANGED <<firmware, faults, upgrades>>
    BY <2>1, <2>2
    DEF Next, Answer, Failure, Tick, PollStart, ProbeYes, ProbeNo, LegacyOk, CachedMissing,
        DiscoverMissing, SystemLogOk, SystemLogMissing, ProbeTransient, ProbeTimeout,
        FetchFault, controller
  <2> QED
    BY <2>1, <2>3 DEF check, Agreed, LeftAlone, Served
<1>5. CASE UNCHANGED checkedVars
  BY <1>5 DEF checkedVars, vars, check, Agreed, LeftAlone, Served
<1> QED
  BY <1>1, <1>2, <1>3, <1>4, <1>5 DEF CheckedNext

\* On a controller left alone the entry polls what the dialog found.
THEOREM VerdictsAgree == CheckedSpec => []VerdictIsTransport
<1>1. CheckedInit => Settled /\ Agreed
  BY DEF CheckedInit, Init, Settled, Agreed
<1>2. DialogInv /\ Settled /\ Agreed /\ [CheckedNext]_checkedVars => Settled' /\ Agreed'
  BY CheckedSettled, AgreedStep DEF DialogInv
<1>3. Settled /\ Agreed => VerdictIsTransport
  BY DEF Settled, Agreed, VerdictIsTransport
<1> QED
  BY <1>1, <1>2, <1>3, DialogInductive, PTL DEF CheckedSpec

=============================================================================
