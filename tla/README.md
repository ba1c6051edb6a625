# A verification development of unifi_alerts

TLA+ modules, TLC runs and TLAPS proofs about the Home Assistant integration in
`custom_components/unifi_alerts`. The integration turns alarms of a UniFi
controller into Home Assistant (HA) entities: webhooks push alerts in, a
coordinator polls the controller's open alarms, and users, services and timers
acknowledge them. Everything runs on one asyncio event loop, so the hard part is
what happens *between* two awaits: an action of a model is the code from one
await to the next.

Source paths below are relative to `src/custom_components/unifi_alerts/`.

## 1. Inventory

| Component | State it keeps | Operations | Talks to |
|---|---|---|---|
| Coordinator (`coordinator.py`) | category states, dedup table, auto-clear tasks, probe cache and backoff, watermark store | `push_alert`, `_async_update_data`, `async_clear_category`, `async_clear_all`, `_auto_clear`, `_async_persist_watermarks`, `_schedule_persist`, `async_restore_watermarks`, `async_shutdown` | client (poll), HA store, entities (listeners), issue registry |
| Category state (`models.py`) | `is_alerting`, `alert_count`, `filtered_count`, `open_count`, `last_alert`, `last_alarm_received_at`, `last_cleared_at` (the watermark) | `apply_alert`, `record_filtered`, `clear` | owned by the coordinator |
| Severity gate (`severity.py`) | none | `normalize_severity`, `meets_minimum`, `get_effective_min_severity` | push and poll paths |
| UniFi client (`unifi_client.py`, `unifi_auth.py`) | legacy URL cache, confirmed absence of the legacy API | probe, discovery, legacy fetch, v2 fetch with paging, authentication | the controller |
| Webhook manager (`webhook_handler.py`) | registered ids, the secret bound into each handler | `register_all`, `unregister_all`, the handler | HA's webhooks, coordinator, issue registry |
| Config entry (`__init__.py`) | entry state, runtime data | migrate, set up, unload, remove, update listener | all of the above |
| Flows (`config_flow.py`) | dialogs in progress, staged entry data | user, SSDP, reauth, reconfigure, options | config entries, controller, issue registry |
| Event entity (`event.py`) | `_last_seen_count` | seed when added, fire on a higher count | coordinator |
| Other entities, buttons, services (`binary_sensor.py`, `sensor.py`, `button.py`, `services.py`) | none | show a state; press or call Clear | coordinator |
| API-key authentication (`unifi_auth.py`) | none | `_verify_api_key` | client, dialogs, setup |
| Parsing and classification (`models.py`, `const.py`) | keys warned about, tally of unclassified keys (client and coordinator) | `classify_event_key`, `from_api_alarm`, `from_system_log_event`, `categorise_alarms` | client, webhook handler |
| Diagnostics (`diagnostics.py`), developer scripts (`scripts/`) | none | read-only; sequential tools | - |

What is hard here, and what has to be right:

* **A poll awaits the controller** while pushes, Clears and timeouts change the
  category its answer is then applied to. Count, Problem and watermark must
  agree afterwards, and the count must converge.
* **A Clear awaits the store.** A second Clear, a failing write, a delayed write,
  the cancellation of an auto-clear that is itself awaiting its write, or a crash
  may come in between. A watermark must not be lost unseen: losing one brings
  acknowledged alarms back.
* **Two clocks.** Watermarks are compared with stamps of the controller and with
  stamps of HA. A watermark in the controller's future hides alarms.
* **Two controller APIs**, of which firmware serves either, both or none. The
  choice is cached over polls, with a backoff over failures.
* **Reloads.** Every reload makes a new coordinator, store object, webhook
  manager and entities, while handlers, timers and delayed writes of the old
  ones may still run.
* **Services** belong to the domain, not to an entry, and await the store between
  two entries.
* **Migration** draws random identities that HA saves a little later, while the
  user's Alarm Manager still sends to the old ones.
* **Dialogs** read an entry, await, read it again and write a snapshot later,
  several at a time; and they decide on a transport before there is an entry.
* **Classification** looks a key up in three tables, one of them by prefix in the
  order of a dict, and must not lose what it cannot place.

`PROJECT.json` lists each of these hazards at its line.

## 2. Modules

```
Severity -> CategoryState --+
             DedupTable ----+-> AlertCoordinator -> CoordinatorProperties -> MCAlertCoordinator
                 |                    |                   |
                 |                    |                   +-> CoordinatorProofs -+
                 |                    |                                          +-> CoordinatorSafety
                 |                    +-> AckHistory ----------------------------+
                 |                             +-> MCAckHistory
                 +-> PushDedup (refines PushWindow) -> MCPushDedup, PushDedupProofs
AlarmTransport -> ConnectivityCheck -> MCAlarmTransport, TransportProofs
SystemLogPaging -> PagingProofs
EventKeys -> AlarmIntake -> MCAlarmIntake, IntakeProofs
EntryLifecycle -> EntryUpgrade -> EntryProofs
ConfigFlows -> MCConfigFlows, ConfigFlowProofs
```

**`Severity`, `CategoryState`, `DedupTable`** are the pure parts: severities as
levels in the code's order, a category state as a record with one operator per
method of the class, the table of recent pushes as a function from
(category, key) to a time. Time `Never` (0) stands for Python's `None`.

**`AlertCoordinator`** is one coordinator with everything that reaches it.

| Code | Model |
|---|---|
| `_category_states`, `_last_push_at`, `_clear_tasks` | `cs`, `pushed`, `task` |
| the refresh in progress, from request to use of the answer | `poll` with phases idle, asked, answered: `PollRequest`, `PollAnswer` or `PollFail`, `PollApply` |
| `await self._store.async_save(...)` | an entry of the queue `saves`, with the snapshot taken when it was called and who awaits it; `SaveOk`, `SaveFail` |
| a cancelled task that awaits its write | the entry is marked `cancelled`: written or not (`SaveDropped`), but nothing follows |
| `async_delay_save` | `delayed`, `DelayedWrite` |
| `push_alert` | `PushApplied`, `PushFiltered` (a duplicate or a disabled category changes nothing) |
| `async_clear_category`, `async_clear_all`, `_auto_clear` | `ClearCategory`, `ClearAll`, `AutoClear` |
| listener notification | `Notify`: the entities read the states (`view`) |
| watermark file, repair issue | `disk`, `issue` |
| HA stops and starts, setup up to the first refresh | `Crash`, then `ready` only after a poll was applied |

The controller (`alarms`, raised and archived at any time) and the clock are the
environment. The transport of a poll is left open here; `AlarmTransport` is how
it is chosen. An auto-clear may fire at any time after it was started: its
minutes are long against every other step, so its deadline is abstracted and
only its order matters.

**`AckHistory`** adds what the user saw counted and what was then acknowledged.
**`PushDedup`** is the dedup part of `push_alert` alone, over an unbounded clock;
**`PushWindow`** the promise it implements: a keyed push is accepted unless one
for the same pair was accepted less than a window ago.

**`AlarmTransport`** is the probe's cache and backoff (coordinator) over legacy
discovery and its cache (client). An action sends the first request of a poll or
takes the answer to the outstanding one and sends the next. `legacy_gone` is
`_legacy_confirmed_unavailable`, `backoff` the time left until
`_probe_backoff_until`.

**`ConnectivityCheck`** puts before those polls the dialog that made the entry:
`authenticate`, the v2 probe, legacy discovery, the first read and, if a path
answers without a site, the list of sites (`_site_exists`), one action per answer.
A client keeps nothing between dialogs, so a check while an entry is polled adds
nothing to one before.

**`SystemLogPaging`** is `fetch_system_log_alarms`: an action takes the answer for one
page (`Answer`) and asks for the next or ends the fetch, complete or at the cap. The
code does not ask for an order, so both are modelled. Events are numbered by their
time; a window is a run of numbers, whose end an arrival moves only while the
controller's clock has not passed `timestampTo`. The list of results is kept as how
often each event is in it, since its callers take its length and its newest.

**`EventKeys`** is `classify_event_key` over its three tables, a key being the
sequence of its words, so that `startswith` is `Matches` (a prefix that ends in an
underscore needs a further word) and a numbered variant is a key whose last word is a
number. **`AlarmIntake`** is what a poll makes of its
records over either API: category, the warning about an undocumented key
(`seen`), the tally of keys without a category in the client (`client_keys`, of one
poll) and in the coordinator (`unrecognised`), over polls and reloads.

**`EntryLifecycle`** is the entry over many setups: each has its own coordinator
(of which only `alert_count` and the timer are kept), its own store object over
the one file, its webhook manager and event entity. `phase` is how far
`async_setup_entry` is, one step per await, with a failure at each; `inflight` are
handlers that await a body, `late` delayed writes, and both may outlive their
coordinator. A second entry shares the services, and `call` is a `clear_all` that
awaits that entry's write before it looks at this one.

**`EntryUpgrade`** adds `async_migrate_entry`, which HA runs before the setup of an
entry of an older version: `entry` is what is in memory, `saved` what HA has in
storage, `pasted` what the Alarm Manager sends. Its steps are those of
`EntryLifecycle` with a condition or with migration done first, and a few that
leave it alone (HA's save, a paste, a reauth).

**`ConfigFlows`** is the dialogs over several entries. A dialog is a record that
moves from `form` to `validating` (the awaited check of the controller) to
`categories` and `finish`, where the options flow holds its staged snapshot. Reauth
starts when the controller rejects the key, which it may do at any time. The module
also has the running handler's secret, the one UniFi's Alarm Manager sends, and the
`webhook_secret_rotated` issue.

HA itself (store, flow manager, issue registry, webhook component, update
coordinator) and aiohttp are not in the repository. They are modelled from how
the code uses them and marked external in `PROJECT.json`.

## 3. Runs

All pass unless marked. Deadlock is checked except where an entry or a dialog may
come to rest for good (`entry_lifecycle`, `config_flows` and their violations: a
removed entry does nothing more; with no secret left to draw, nothing need happen).

| Run | Question | Bounds |
|---|---|---|
| `coordinator` | types; no Problem without a timer or below the minimum; no watermark lost silently, none ahead of the controller by more than the clocks differ; what was seen and cleared stays acknowledged; each poll leaves count and Problem consistent; every alert settles, the entities catch up, `open_count` converges (the last three liveness) | one category gated at MEDIUM, severities below and above, 1 push, 1 alarm, clock to 3, v2 API, controller one tick behind, lookback 1, so that an open alarm drops out of reach, 2 writes awaited at once, failing writes, 1 crash |
| `push_dedup` | the table implements the window and stays bounded | 3 pairs, window 3, clock to 8: a pair is refused, expires exactly at the window, and is pruned |
| `transport` | polls and checks fail only with a cause, no blip makes a site look missing, a dialog and the polls after it agree on the transport, counted failures of the probe back off, v2 is adopted, a steady poll is one request (liveness for the last two) | 2 legacy paths, limit 2, backoff 2, 4 faults, 2 upgrades over seven kinds of firmware |
| `system_log_paging` | a fetch skips no open event within the cap; it counts at most as many again as were logged meanwhile | pages of 2, cap of 3 pages, 7 events: a listing beyond the cap, and arrivals between any two pages, in either order |
| `alarm_intake` | the tables never disagree; every record with a key becomes an alert or is counted once per poll; an undocumented key is warned about once | 14 records of every kind of key, 2 of them in a poll, 3 polls, reloads |
| `entry_lifecycle` | a loaded entry's webhook reaches the coordinator its entities watch; one event per push; the services are there, and a call sees a reload; no entry is set up half migrated, saved identities stay, changed URLs are reported | every version and content of an entry, 2 coordinators, 2 pushes, 1 restart, a second entry |
| `config_flows` | unique_id follows the URL; no unreported change of a secret; a pending reauth keeps its repair card | 2 dialogs, 2 entries, 2 addresses with and without slash, 2 secrets, 1 console |
| `doc_recent_reachable` (violation) | `_async_update_data`: recent alarms of every category are always reachable | two categories |
| `doc_skew_immune` (violation) | `last_alarm_received_at`: the comparison with the watermark is immune to skew | one category, no webhook, controller one tick behind |
| `doc_probe_falls_back` (violation) | `probe_system_log_endpoint`, `_fetch_categorised`: no network error of the probe ends a poll | those of `transport` |
| `doc_count_survives` (violation) | `alert_count` survives a reload | two setups, one push |
| `doc_rotation_issue_stays` (violation) | only a webhook on the new secret clears the rotation issue | one entry |

Why the bounds are enough: each hazard needs one or two of a thing (a write that
overtakes a write, a push during a poll, a clear between request and answer, a
second dialog), one alarm before and one after a watermark, and one fault of each
kind. The clock needs as many ticks as an alarm, an acknowledgement and a later
alarm. What holds for every bound is proved where section 4 says so. Symmetry is
used in `config_flows` only: no liveness, and dialogs and addresses are never
ordered.

Fairness (only in `coordinator` and `transport`): asyncio runs every ready
coroutine and HA reschedules the poll (weak fairness on the poll's steps, on
auto-clears whose sleep ends, on writes); the controller may be unreachable but
not at every poll for ever (strong fairness on `PollAnswer`). In the transport
model faults and upgrades are bounded, so weak fairness suffices. The user, the
webhooks, the controller's alarms and crashes are never fair.

What the five violations show:

* **`doc_recent_reachable`**. `_fetch_categorised` takes the oldest watermark among
  the categories that *have* one (`coordinator.py:286`). Once one category was
  cleared, the window starts there for the categories that never were, too, and
  their older open alarms drop out of the answer; their `open_count` goes to 0
  while they may still show Problem. `OpenCountConverges` is therefore run with
  one category.
* **`doc_skew_immune`**. `models.py:301` says that the comparison with the watermark is
  between stamps of the controller, "immune to HA/controller skew", and
  `docs/UNIFI.md:269` excepts webhooks only. But `clear()` falls back on HA's clock
  (`models.py:333`) for a category of which this process has seen no alarm, as after a
  restart, since `last_alarm_received_at` is not restored. With a controller behind HA
  the watermark then lies in the controller's future, and alarms raised until its clock
  gets there are born acknowledged. What does hold is `WatermarkWithinSkew`: that time
  is never longer than the clocks differ.
* **`doc_probe_falls_back`**. A total timeout of the v2 probe raises `TimeoutError`, which
  is no `aiohttp.ClientError` (`unifi_client.py:402`) and nothing its caller catches: the
  poll fails where it should have read the legacy API. The failure is not counted, so
  no backoff follows and each later poll probes again. What does hold is
  `CountedFailuresBackOff`: once the limit of counted failures is reached no probe goes
  out before the backoff has passed.
* **`doc_count_survives`**. The write of a push is delayed by a second and not
  flushed at unload; the next setup reads the file through another `Store` first.
* **`doc_rotation_issue_stays`**. The handler compares with the secret bound when it
  was registered and clears the issue after its await (`webhook_handler.py:228`): a
  request on the old secret clears the issue of the very rotation.

Seen on the way, without a run of their own: `docs/UNIFI.md:259` says each Clear
advances the watermark, but `clear()` may move it back from HA's clock to an older
polled alarm; `docs/UNIFI.md:265` says Clear sets `alert_count` to 0, which no code
does; an auto-clear whose category is raised again while it awaits the store loses
its write (the `is_alerting` disjunct of `WatermarkCovered`); two entries may end up
with one controller URL, since the duplicate check precedes the write by two forms
and compares the URL with one that setup stored as typed; an options dialog takes
back what reauth or discovery wrote while it was open; a key corrected in the
options or reconfigure flow leaves the `auth_failed` issue open. If one installation
changes between v2 and legacy, has a clock skew and crashes,
`AcknowledgedStaysAcknowledged` fails; `coordinator` keeps to one API. A timeout of
the request for the controller's version passes the guard of `fetch_controller_version`
(`unifi_client.py:134`) as that of the probe does, and leaves `async_setup_entry` outside
any `try`, which HA does not retry, although `_log_controller_version` "never blocks
setup" (`VersionTimesOut` in `EntryLifecycle`). An alarm without a time is stamped anew by each poll
(`models.py:132`) and so comes back after each Clear; one with an ISO time that has no
offset makes the comparison with the watermark raise (`models.py:143`,
`coordinator.py:190`). An error envelope with HTTP 200 for the list of sites reads as
an empty list, and the site as missing (`unifi_client.py:211`; `refused` in
`SiteNeverMisreported`). The issues `webhook_urls_changed` and `webhook_secret_rotated`
do not outlive a restart. `clear_all` stops at the first entry whose write fails.

Each property of a passing run has a mutant beside the definition it changes (the
`MUT_` operators): a dropped guard, a missing cancel, a boundary off by one, a cache
kept too long. TLC finds the property violated under it.

## 4. Proofs

For every set of categories, every configuration and every bound:

| Theorem | Module | Statement |
|---|---|---|
| `CoordinatorTypes` | `CoordinatorProofs` | `Spec => []TypeOK` |
| `AlertsHaveTimers` | `CoordinatorProofs` | `Spec => []TimerIffAlerting` |
| `WatermarksCovered` | `CoordinatorSafety` | `Spec => []WatermarkCovered` |
| `WatermarksWithinSkew` | `CoordinatorSafety` | `Spec => []WatermarkWithinSkew`, for any skew |
| `GateHolds`, `PollsReconcile` | `CoordinatorSafety` | `Spec => []AlertingMeetsMinimum`, `Spec => PollReconciles` |
| `AcknowledgedStays` | `CoordinatorSafety` | `HSpec => []AcknowledgedStaysAcknowledged` (of `AckHistory`), if the controller keeps to one API |
| `TypeCorrect`, `TableStaysBounded`, `DedupImplementsWindow` | `PushDedupProofs` | types, bound, and the refinement of `PushWindow` |
| `FailuresHaveCause` | `TransportProofs` | `Spec => FailsOnlyWithCause` |
| `TransportTypes`, `BackoffHolds`, `SitesNotMisreported`, `VerdictsAgree` | `TransportProofs` | `CheckedSpec` implies `TypeOK`, `CountedFailuresBackOff`, `SiteNeverMisreported`, `VerdictIsTransport` always |
| `CheckedFailuresHaveCause`, `RejectionsHaveCause` | `TransportProofs` | `CheckedSpec` implies `FailsOnlyWithCause` and `RejectsOnlyWithCause` |
| `PagingTypes`, `FetchSkipsNothing`, `OverCountWithinArrivals` | `PagingProofs` | `Spec` implies `TypeOK`, `NothingSkipped` and `OverCountBounded` always |
| `OneCategoryPerKey`, `EveryRecordCounted`, `OneWarningPerKey` | `IntakeProofs` | `Spec` implies `TablesAgree`, `NothingUncounted`, `WarnedOnce` always |
| `UpgradeImplementsEntry` | `EntryProofs` | `UpgradeSpec => Spec`: an entry with its migration is an entry |
| `EntryTypes`, `WebhooksReach`, `EveryPushFires`, `ServicesStay`, `CallMeetsReload` | `EntryProofs` | `Spec` implies `TypeOK`, `WebhooksReachEntities`, `EventPerPush`, `ServicesWhileLoaded` always, and `CallSeesReload` |
| `AlwaysMigrated`, `UrlChangesReported`, `SavedIdentityStays` | `EntryProofs` | `UpgradeSpec` implies `SetUpMigrated`, `ChangedUrlsReported` always, and `IdentityStays` |
| `FlowTypes`, `UniqueIdsFollow`, `CardsStay`, `SecretChangesReported` | `ConfigFlowProofs` | `Spec` implies `TypeOK`, `UniqueIdFollowsUrl`, `RepairCardWhileAsked` always, and `SecretChangeReported` |

How the arguments go:

* *Types* need `AlarmsPast`: every alarm of the controller and of an answer is
  bounded in time, or `CHOOSE` of the newest alarm has no witness (`NewestLemma`,
  from well-foundedness of the naturals).
* *Timers*: `TimerIffAlerting` alone is not inductive, since a finished write resets
  its owner's task. `TimerInv` adds `AutoSavesOwned`: a queued write of an auto-clear
  belongs to a task that is in the state `saving`, and there is one at most per category.
* *Watermarks*: `WatermarkCovered` asks for some write that carries the watermark, but
  a later one in the queue might undo it. `CoverInv` says that from some write on, one
  that only a new alert of the category can cancel, *all* carry it (or, once it is on
  file or reported, that all do), and the lemmas `CoverTail`, `CoverAbandon` and
  `CoverAppend` say what writing, cancelling and enqueueing do to it.
* *Stamps*: `StampsInv` bounds every place a watermark is kept or taken from (the state,
  the last seen alarm, queued snapshots, the file) by the later of the two clocks,
  whichever that is: polled alarms bear the controller's, webhooks and the fallback of
  `clear()` HA's.
* *Dedup*: the mapping takes a pair's last accepted push to the table's entry and
  forgets pruned ones; pruning removes only what is out of the window.
* *The gate*: `ShownInv` says that the last alert of an alerting category met the
  minimum when it was applied. It survives a poll because the poll takes its alert from
  the alarms it counted (`NewestCounted`), all of which meet the minimum. The step that
  applies a poll then leaves count and Problem consistent (`PollsReconcile`) whatever
  was true before.
* *Acknowledgements*: a Clear takes the newest alarm the coordinator has *seen*, so the
  watermark reaches an acknowledged alarm only while that record does. `Tracked` says it
  does in a process that has applied a poll. After a crash nothing has been seen, and the
  file is all there is: `Unseen` says that nothing clears before the first poll, and
  `AnswerCovers` that this poll brings each acknowledged alarm back unless it lies before
  the window, which starts at the watermark. `KnownFit` adds that the poll counts what it
  brings. Over v2 an acknowledged alarm may drop out of the window and never be tracked
  again; a Clear then falls back on HA's clock, which is past every window. Over the
  legacy API all open alarms come back each time. The statement is false for an
  installation that changes between the two (section 3), hence the assumption `OneApi`.
  The two clocks may be any distance apart.
* *Transport*: `CachesSound` says what each cache means about the firmware. It is
  inductive because upgrades are one-way and do not fall into a poll. `Requests` adds
  which request may be outstanding with which caches, `Probing` and `Ages` relate the
  failure count and the backoff left to the ages of the last failures, which gives the
  backoff. `Dialog` is the same knowledge for the dialog's own client. For the agreement
  of the two, `Settled` says that the polls know what the firmware serves and `Agreed`
  that the dialog's verdict does, as long as nothing fails or changes.
* *Paging*: `PrefixRead` says that the pages read so far have every kept event listed in
  them. It survives an arrival because that moves events to later places only; the
  page-count arithmetic is `PagesCover`. For the count, `Owed` are the repetitions made so
  far and those still to come: events already collected that arrivals have moved to pages
  not yet read. Reading a page turns some of the second kind into the first; an arrival
  moves at most one collected event there, and none if the oldest come first.
* *Intake*: the tables can only be compared by cases, but not key by key, since a key may
  have any words. `SystemLogOwner` and `LegacyOwner` read the one possible category off
  the first words of a key; `SystemLogTable` and `LegacyTable` go through the tables once
  to show that every entry agrees with them, `TableKeysAreStripped` that taking a number
  off a key in the table changes nothing, and `ClaimsAgree` follows. So the order of the
  dict, which the code relies on for prefixes, decides nothing.
* *Entry*: `EntryInv` says where in its life an entry has a webhook, an entity and a
  last coordinator. `Routed` is why the id is free whenever `register_all` comes: every
  way out of the registered phases unregisters. `Seen` is why one push fires one event:
  the entity has seen exactly its coordinator's count. `UpgradeInv` says what migration
  has completed by each phase, that memory keeps what is saved, and that an identity
  never pasted is reported.
* *Dialogs*: `FlowInv` says of each dialog what it will need when it writes: that its entry
  is still there (HA drops the dialogs of an entry it replaces), and that the URL it holds is
  the one its unique_id was made of. `OneReauth`, one reauth dialog for an entry at most,
  makes `RepairCardWhileAsked` inductive.

Assumptions are those of the modules (`ConfigAssumption`, `TimeAssumption`,
`BoundAssumption`, `TransportAssumption`, ...): types of the constants, nothing more.

Only model-checked: all liveness (`Settles`, `EntitiesCatchUp`, `OpenCountConverges`,
`V2Adopted`, `SteadyStateSingleRequest`), which is out of the prover's reach. Every
invariant and action property that a passing run checks is also a theorem. The
violations are TLC's counterexamples.

## 5. Abstractions and assumptions

* Store writes happen one at a time in the order of the calls, as HA's store does
  under its lock. In `EntryLifecycle` a write is one step, and delayed writes of
  different coordinators come in any order.
* A 404 is definitive: the controller does not answer 404 for an API it serves.
  Upgrades only add v2 or remove legacy, and do not fall into a poll.
* A crash loses what is in memory and keeps the file; the issue registry forgets
  issues that are not persistent.
* Alerts are a time and a severity; texts, devices and sites bear on no property. In
  `AlarmIntake` times are left out, and records of one kind are told apart by an id.
* In `ConnectivityCheck` dialogs come one after another and before the entry's polls.
  Whether a key and a site are right is chosen when they are submitted; an error
  envelope for the list of sites is a fault of the controller.
* In `EntryLifecycle` there is one enabled category. HA retries a setup by itself after
  some failures (`retry`) and waits for a reload or a restart after others
  (`setup_error`); either may come at any time. A platform that fails does so before the
  event entity is added; one that fails after it, and the entity's removal with the
  other platforms, is not modelled. The second entry has no coordinator of
  its own: only its part in the services matters.
* In `EntryUpgrade` HA saves an entry some time after it was changed, and always before
  a regular stop. Secrets and suffixes never repeat.
* In `ConfigFlows` an entry's reload is one step some time after the write, at most
  one request per entry has its body read, and entries are not removed by hand. HA
  refuses a second setup dialog for one unique_id and replaces an entry that bears the
  unique_id of a new one. A rejected key starts a reauth dialog unless a reauth or
  reconfigure dialog of the entry is open.
* In `SystemLogPaging` pages are numbered from 0 and the total is that of the moment;
  a timestamp never lies before that of an event listed earlier, and nothing is purged.

Not modelled, and why: diagnostics are a redacted read, and the developer scripts
(`scripts/`) sequential tools outside the integration, so neither has a state that
anything else sees. Entity names, icons, attributes and translations are display.
Pruning registry entities of disabled categories reads and writes HA's registry within
one step. The legacy-query-auth issue and the limits on a body concern one request
alone. Whether the stored API key works is not known to `ConfigFlows`: a key may be
rejected at any time.

## 6. What is left

1. `ConfigFlows`: the API key and whether it works, so that a rejection has a cause;
   what a staged snapshot takes back of categories and severities; removal by hand.
2. Persistence over reloads in one model with the store's queue: the late writes of
   `EntryLifecycle` over the snapshots of `AlertCoordinator`.
3. Auto-clear deadlines as time.
4. An abstract specification of the watermarks' store, in which a crash loses a suffix of
   the acknowledgements and never an earlier one alone, for the coordinator's queue of
   writes to implement.

## 7. Running

```
tlc -config coordinator.cfg MCAckHistory.tla
tlc -config transport.cfg MCAlarmTransport.tla
tlc -config entry_lifecycle.cfg EntryUpgrade.tla
tlapm CoordinatorSafety.tla
```

`PROJECT.json` has the module of each cfg. The longest runs, `coordinator` (0.9
million states, with liveness), `config_flows` (2.5 million) and `entry_lifecycle` (4.3
million), take one to two minutes each, `alarm_intake` less than one, the others seconds. The proofs are in
`CoordinatorProofs`, `CoordinatorSafety`, `PushDedupProofs`, `TransportProofs`,
`PagingProofs`, `IntakeProofs`, `EntryProofs` and `ConfigFlowProofs`.
