# Nightshift Security: TLA+ models

Nightshift watches construction sites at night. Dahua recorders mail their alarms
to an SMTP server in the cloud; the backend turns a mail into an event and perhaps
an alarm, pushes it to phones, and pages more senior people as long as nobody
answers. A watchdog raises an alarm when a recorder goes quiet. The processes share
one PostgreSQL database and hold little state in memory, so what is hard is what
happens *between* a read and a commit: several handlers, workers and people act on
the same rows, and mails, pages and heartbeats are repeated, late or lost.

These modules model those interactions, TLC checks them on small instances, and
TLAPS proves the central invariants for every instance. `PROJECT.json` maps each
definition to the source lines it models.

## 1. Inventory

All paths are under `src/backend/app/` unless they say otherwise.

| Part | State | Operations | Hard behaviour | What makes it correct |
|---|---|---|---|---|
| SMTP ingress (`modules/ingest/smtp_server.py`, `workers/mail_ingest.py`) | accounts, per-device rate window | authenticate, `handle_DATA`, account refresh | one handler per connection, retries by the recorder, stale accounts | a mail answered 250 is stored; a refused one may be retried |
| Mail pipeline (`modules/ingest/pipeline.py`, `mime.py`, `profiles.py`) | none | `ingest` | hostile or odd mail | face alarms are refused, a dedup key is stable |
| Intake and flow (`services/intake.py`, `alarm_flow.py`, `persistence.py`, `modules/events/dedup.py`) | dedup window in memory; `email_messages`, `events`, `media_assets`, `alarms`, `device_silence_state` rows; objects | `handle`: load context, flow, upload, persist, commit, broadcast, notify | interleaving at every await, redelivery, rollback, restart | one event per mail, one alarm per window, rows before push |
| Notifier and transport (`services/notifier.py`, `modules/notifications/`) | `alarm_deliveries`, `push_devices` | `notify`, `dispatch`, recipients by site or role, pruning | pages precede their records; provider says a phone is gone | nobody is paged twice for one step |
| Escalation worker (`workers/escalation.py`, `modules/alarms/escalation.py`) | none of its own between sweeps | `sweep_once`: load, page due steps, one commit | stale rows during a sweep, crash before the commit, the notifier beside it | the chain climbs in order to the top |
| Alarm API (`modules/alarms/router.py`, `core/deps.py`) | `alarms`, `events`, `audit_logs` | `acknowledge`, `resolve` | two people answer at once; commit after the response is built | row, event and log agree |
| Silence watchdog (`workers/watchdog.py`, `services/silence_sweep.py`, `modules/devices/watchdog.py`) | `device_silence_state`, alarms | sweep: load, plan, apply, commit | heartbeats cross a sweep in another process | a dark recorder is announced, and no alarm comes without news |
| Realtime hub (`modules/realtime/`) | subscribers, one bounded queue each | publish, subscribe, send, heartbeat, disconnect | frames before the commit they announce, a full queue, a refetch beside live frames, clients that vanish | an open app shows what the database says; the hub forgets who left |
| Rule engine (`modules/rules/`) | none | match, schedule, risk, zones | overnight windows, several rules at once | an alarm is raised if any rule asks for one, in the hours it was armed for |
| Authentication (`modules/auth/`, `core/security.py`, `core/rbac.py`) | refresh-token rows, users | login, refresh, logout, permissions | two uses of one refresh token, commits before an exception | one live token per family; reuse ends the family |
| Suppression (`modules/alarms/suppression.py`) | outages in memory | mark, clear, `should_suppress` | nothing in production marks an outage | no sighting of a person is suppressed |
| Configuration API (`modules/sites/router.py`) | sites, devices, cameras, zones, rules, phones, SMTP accounts | create, update, delete, replace, rotate | overlapping edits of one row, phones that change hands, rotation against a cached snapshot | what the last request asked for is what holds |
| FCM and APNs clients (`integrations/`) | one cached bearer token each | mint, send | concurrent sends share the token; answers are lost | only a phone the provider calls unregistered is forgotten |
| Analytics (`modules/analytics/router.py`) | none | read-only queries | | |
| Edge outbox (`src/edge-agent/nightshift_edge/queue/`) | SQLite rows | enqueue, claim, mark, evict | crash between claim and mark, quota | every event drains, media go in order of worth |
| Edge device access (`src/edge-agent/nightshift_edge/devices/dahua/`) | parser buffer, back-off, probe report, channel bases | listen, feed, probe | chunk boundaries, overflow, reconnects, calls that fail | every event once; channels are not mixed up |
| AI service, mobile app | none yet | | | |

How they interact: the SMTP handler awaits `MailIntake.handle`; that commits rows,
publishes to the hub in its own process and calls the notifier. The escalation worker
and the watchdog are processes of their own that see the rest only through the
database. The API commits what people answer. Push providers report back within a
dispatch. The API process also holds the sockets of open apps; the mail worker logs
recorders in from a snapshot of the accounts the API issues. The edge agent is a
command line whose parts are not connected to each other, or to the backend, yet.

The `hazards` of `PROJECT.json` list where each of these can go wrong.

## 2. Modules

| Module | Models | Run by | Proved in |
|---|---|---|---|
| `MailIntake` | SMTP handler, flow, dedup window, persistence, broadcast | `MCMailIntake` | `MailIntakeProofs` |
| `Escalation` | escalation sweeps, policies, notifier, phones | `MCEscalation` | `EscalationProofs` |
| `AlarmDesk` | acknowledge and resolve with sessions and row locks | through `AlarmConsole` | `AlarmConsoleProofs` |
| `AlarmConsole` | `AlarmDesk` composed with the realtime hub and the sockets of open apps | `MCAlarmConsole` | `AlarmConsoleProofs` |
| `SilenceWatchdog` | heartbeats and silence sweeps of one site | itself | `SilenceWatchdogProofs` |
| `Rbac` | roles and permissions | through `AlarmConsole` and `Commissioning` | |
| `TokenStore` | the rules of refresh tokens (`TokenFamilyStore`), one call at a time | through `Sessions` | `SessionsProofs` |
| `Sessions` | login, refresh and logout over the table; implements `TokenStore` | itself | `SessionsProofs` |
| `Commissioning` | the writing endpoints of the configuration API | through `SmtpIngress` | `SmtpIngressProofs` |
| `SmtpIngress` | the mail server's accounts, AUTH, limits and answers, composed with the API that issues the accounts | `MCSmtpIngress` | `SmtpIngressProofs` |
| `RuleEngine` | schedules, zones, risk, rules and suppression as operators | through `AlertPath` | `AlertPathProofs` |
| `PushDelivery` | one fan-out with retries over the FCM and APNs clients | through `AlertPath` | `AlertPathProofs` |
| `AlertPath` | a sighting judged, folded, and pushed | `MCAlertPath` | `AlertPathProofs` |
| `EventFeed` | attach-stream reconnects and the incremental parser | through `EdgeAgent` | `EdgeAgentProofs` |
| `Probe` | the stages of the onboarding probe, and the channel mapping | through `EdgeAgent` | `EdgeAgentProofs` |
| `EdgeOutbox` | the SQLite outbox | through `EdgeAgent` | `EdgeAgentProofs` |
| `EdgeAgent` | the three edge parts, one per command | itself | `EdgeAgentProofs` |

### MailIntake

A handler coroutine of connection `c` is `pc[c]` and its locals `job[c]`; each action
runs from one `await` to the next.

| Action | Code |
|---|---|
| `Deliver` | `handle_DATA` up to the sink: `ingest` stamps `received_at` |
| `DeviceGone` | `load_site_context` found no row: stored nowhere, answered 250 |
| `Process` | `process()`: stage and the move of the dedup window, without an await |
| `LookupAndUpload` | `existing_event_id`, then `_upload`; a failed upload is logged |
| `SelectMessage`, `InsertMessage` | `_record_message`; the insert waits for, and fails on, `uq_email_message_id` |
| `TouchHeartbeat`, `WriteRows` | `touch_device_heartbeat`, and its flush with the second event lookup |
| `Commit` | `session.commit()` |
| `PublishAndNotify`, `Answer` | `_broadcast` and the notifier; 250 |
| `Fail`, `ConnectionLost`, `Restart` | 451; a cancelled handler; a new process with an empty window |

What rules and parsers decide is the input `Kind[m]`. Rows that are only part of an
open transaction are the fields `inserted`, `seen` and `fresh` of the job, and
`InsertsMessage` and `LocksDevice` say which row locks it holds. Media are one
snapshot per mail. The suppression branch of `process()` is left out because nothing
in the worker marks an outage.

### Escalation

Steps of a policy are numbered from 1, time is counted in units of thirty seconds,
in which every delay of both policies is a whole number, and roles are numbered by
seniority so that "a role above" is `>`. A role is staffed or not, since recipients
are looked up by role. A sweep is `SweepBegin` (`open_alarms`), per alarm `SweepAlarm`
(`due_steps` over the rows the session sees), per step `Page`, `PageRaises` or
`ReachesNobody`, and `SweepCommit` or `SweepFail`. `dispatch` with its retries is one
action. `NotifierSend` and `NotifierCommit` are the ingest worker's notifier. `Stop`
is a committed answer, whichever request of `AlarmDesk` makes it.

### AlarmDesk

One alarm and a set of requests. A request decides on the row it loaded
(`Acknowledge`, `Resolve`); its columns reach the row at `Commit`, after the handler
has published its frame. `resolve` flushes early, when it looks up the event, and
holds the row lock from then on (`Locked`). `*_at` and `*_by` columns are written
together and are one field.

### SilenceWatchdog

One site: `plan_sweep` treats sites independently. `quiet[d]` is the time since
`last_message_at`, cut off at `silent_after`, beyond which the code tells nothing
apart. A heartbeat is `BeatRead` and `BeatCommit`, because the ingest transaction reads
the row before it writes it; one such transaction per recorder is open at a time (two mails
of one recorder at once are `MailIntake`'s subject). A sweep is `SweepLoad` and `SweepApply`. `Cut` is a power
or link failure of the whole site.

### AlarmConsole

The composition keeps `AlarmDesk` as it is and adds what happens in the same process:
`Desk` is a request's step, and where the handler publishes, the hub offers the frame
to every connection (`Publish`, `Offer`). A console's handler waits for a frame, sends
one, or is closed (`link`). `Connect` joins the hub *before* the hello frame, on which the
app asks for `/v1/alarms`; `ListAlarms` is `list_alarms` reading the row, and `Refetch` the
answer being shown, with any number of frames published, sent and shown in between
(`refetch` is the answer on its way). `Heartbeat` is the timeout of `queue.get`.
`frames()` yields inside its `asyncio.timeout`, so the timer also runs during a send:
`SendTimesOut`. `Raise` is the mail worker, whose hub is another one.

`FollowsTheDesk` says when an app that has caught up shows the committed status. Its
premises are the ways in which the code loses this, found by TLC: a frame dropped from a
full queue (the client is not told: `dropped`); an answer that was read before the commit of
a request whose frame the app had already shown or never got, or that is overtaken on its
way by a newer frame (`stale`); and requests that overlap or fail after publishing, whose
frames do not come in commit order (`reordered`). Everything else, in particular any
reconnect in any place, keeps the app right.

### Sessions and TokenStore

`TokenStore` translates `TokenFamilyStore`, the in-memory store whose rules the database
implementation is said to keep. `Sessions` translates the endpoints: `Refresh` reads the row, `LoadUser` the
account, `ReuseLoad` the family, and the `*Commit` actions make the changes visible.
`KeepsTheRules` is the refinement: every step of `Sessions` that is not a commit
overtaken by another one on the same family is a step of `TokenStore` on the same
variables (`INSTANCE ... WITH`). Overtaken commits really break it: two refreshes with one
token leave two live tokens, and a refresh under way survives a revocation. `tainted`
marks the tokens that come from them, and the two invariants hold for all others.

### Commissioning and SmtpIngress

A request is a read (`update_site`, `replace_zones`, ...) and a `*_commit`; creating a row is
one step, because parents are never deleted. A request is *overtaken* when another one
commits to the target it has read; a target is *disputed* from an overtaken commit until
the next one that is not. The properties say what holds of undisputed targets, that is,
always, if nobody overlaps, and again after the next request that does not. The kinds of
row interact only through their parents, so a behaviour is about one `topic`.
`SmtpIngress` adds the mail worker: `snapshot` is what the last refresh or restart loaded,
`window` the limiter's entry, and `Refuse`, `Fail`, `Accept` and `Oversized` are the answers of
`handle_DATA`. The expiry of a window, `Counted` and `Refused` are the branches of
`RateLimiter.allow`.

### RuleEngine, PushDelivery, AlertPath

`RuleEngine` has no state. Times are whole hours of the site's clock, a detection is the
set of zones that contain it, and the context's `perimeter_event` flag is derived from the
event's type, as `process` does. `AlertPath` puts the operators in their place in `process`:
suppression, then the window, then the rules. `PushDelivery` is one `dispatch`: concurrent
sends that share a client's cached token (`Bearer`, `Minted`), the answers of a provider,
`send_with_retry`, and the records. A phone that has the app may still be called unregistered:
FCM answers INVALID_ARGUMENT to a message it does not like, and APNs BadDeviceToken or
DeviceTokenNotForTopic under the wrong host or topic; the clients take all of these for a dead
token (`blamed`). One of the three topics is a behaviour's.

### EventFeed, Probe, EdgeOutbox, EdgeAgent

`EventFeed` keeps one token per line of the wire format, so a chunk may end before or after
any line; a chunk that ends inside a line is not told apart from one that ends before it.
The parser is a function of buffer and chunk, like the code. `Probe` chooses a recorder
(`truth`) and lets any call fail. Its attach stream brings motion events of the channels and
events whose index is no channel's (`AlarmLocal` with any index or none stands for those,
StorageLowSpace and NewFile included), because the probe takes the index of every event but a
heartbeat. `EdgeOutbox` takes one action per SQL statement, since the connection is in
autocommit mode: `evict_media` reads the rows and `EvictRow` is one DELETE. The outbox has one
writer, so its methods do not overlap (`Free`), but a crash may come between any two statements.
The worker that will drain it is external.

## 3. Runs

Mutants of the code (named in `PROJECT.json`, defined beside what they replace) show
that each property can fail.

| Run | Instance | What it shows |
|---|---|---|
| `intake_burst` | 2 connections; 2 mails of one camera, one sent twice; 2 faults; window of 1 unit in a clock of 2 | `OneEventPerMessage`, `OneAlarmPerWindow`, `RowsBeforePush`, `MediaRowsBacked`, `AcceptedIsStored` |
| `intake_mixed` | 2 connections; a mail no rule matches, a face alarm sent twice, a mail of a deleted recorder; 1 fault; fair | `FaceLeavesNoTrace`, `EveryDeliveryEnds` |
| `intake_retry` | 1 connection, 1 fault | violates `RetryKeepsTheAlarm` |
| `escalation_answer` | a critical alarm, nothing fails | violates `AnswerStopsTheChain` |
| `escalation` | a critical alarm; guards and owner have phones; 1 change of phones; 2 faults; fair | `RepageBound`, `ClimbsInOrder`, `ChainCompletes` |
| `console` | an acknowledgement, 2 resolutions with different codes, 1 failure; a guard's console that connects twice with a queue of 1, and one whose role is refused; fair | `AuditExplainsRow`, `ResolvedIsAcknowledged`, `EventMatchesCode`, `FollowsTheDesk`, `EveryRequestEnds`, `GoneIsForgotten` |
| `console_new_alarm` | one open console, nobody answers | violates `NewAlarmAppears` |
| `watchdog_all` | 2 recorders, 3 heartbeats, 1 failed sweep; fair | `SilentIsAnnounced`, `EveryAlarmIsNews`, `DarkIsAnnounced` |
| `sessions` | 2 requests at a time, 3 tokens, a token that expires, 1 change of the account | `OneLiveToken`, `ReuseEndsTheFamily`, `KeepsTheRules` (refinement) |
| `setup` | 4 requests, 2 at a time, of an owner and a guard of one tenant and an owner of another; 2 mails a minute; fair | `AuditTellsArmed`, `ZonesAreOneSet`, `PhoneFollowsItsUser`, `ShownPairWorks`, `RetryGetsIn` |
| `edge_agent` | 3 parts over 2 connections with a buffer of 8 lines; every recorder of 2 channels; 2 events, 3 media and 1 crash; fair | `EveryEventOnce`, `PassIsEarned`, `ChannelsAreRight`, `Drains`, `EvictsTheLeast` |
| `alert_path` | up to 2 of 6 rules in every order against 800 sightings; a window of 3 ticks; an Apple, an Android and an unsupported phone with 3 attempts and 1 refused bearer token | `LoudestRuleWins`, `ArmedByOpeningDay`, `IntruderIsHeard`, `PushIsHonest` |

**Bounds.** Two connections are enough for every pairwise conflict of handlers: locks
and uniqueness concern two transactions at a time. Two deliveries of a mail in which
one may be lost cover redelivery before, during and after the first. A clock of 0..1
with a window of 1 lets the second sighting fall inside or outside the window.
In Escalation `MaxAge` is 11 units (9 in `escalation_answer`), above the last delay (8), instead of two
hours: an alarm stays open long enough for every step to come due and for two lost
sweeps after the last one. `SweepLag` bounds the time between sweeps; the worker
sweeps every ten seconds, a third of a unit. In SilenceWatchdog `Interval` 4 gives
`silent_after` 6, so OK, LATE and SILENT are distinct and last several sweeps.
In `console` a queue of one frame overflows with the second publication, and two
connections are a leave and a return. In `sessions` three tokens are a family with two
rotations or two families, enough for a replay of a token retired by an overlapping
refresh. In `setup` the fourth request is the undisputed one after an overlap of two on a row the first has made.
In `edge_agent` a buffer of eight lines overflows in the second part, and three parts let
one follow the overflow. The rules of `alert_path` overlap in type, hour and zone, and one of
them scores higher than all others without alarming.

**Deadlock** is checked in Escalation and SilenceWatchdog, where time always allows
another sweep. The other systems may end: the recorder has nothing left to
send, every request has been answered, every token has been used, a probe is over.

**Symmetry.** Connections are interchangeable in `intake_burst`; no liveness property is
checked there.

**Fairness.** `FairSpec` gives weak fairness to each handler coroutine or request (the
asyncio event loop resumes whatever is ready), to the sweep and to the clock
(`serve()` loops for ever and swallows what a sweep raises). It gives none to faults,
people, heartbeats or recorders. A database call that never returns is outside the
models. `AlarmConsole` gives weak fairness to each request and each socket handler in the
same way, and to the mail worker's alarm, none to clients. `SmtpIngress` assumes that the refresher runs and time passes (weak), and
that a recorder which can log in and send again and again does so and is not always met by a failing
sink (strong): the recorder's retry is what 451 asks for, and the sink's failures are
transient. `EdgeOutbox` assumes of the external worker that it keeps claiming and
marking, and that an upload tried again and again succeeds at some time (strong).

**The condition on the watchdog.** The state column can be SILENT beside a fresh
`last_message_at`: `touch_device_heartbeat` writes it only if the state it read was
not OK, and `apply_sweep` writes what it judged from an earlier read. The next sweep
repairs it. `SilentIsAnnounced` and `DarkIsAnnounced` therefore hold only while repairs
are quicker than darkness. `TimelyAssumption` says how much quicker: a late heartbeat
commit (`BeatLag`) and the sweeps up to the first that succeeds, `MaxFaults` lost ones included, fit
into `silent_after`. In production a sweep takes place every minute and `silent_after` is 45
minutes, as nothing writes another interval. With `SweepLag` 4 and `Interval` 2, outside the assumption, TLC finds a recorder
that goes dark unannounced for ever.

## 4. What the code does not do

Three runs show a statement of the repository violated; the quotes are in `PROJECT.json`.

* **The retry of a failed delivery raises no alarm** (`intake_retry`). `process()` moves
  the in-memory window before the transaction commits. If the commit fails the
  recorder is told 451 and retries, and the retry is a duplicate of its own first attempt.
* **An open app is not told of a new alarm** (`console_new_alarm`). The mail worker
  publishes to the hub of its own process, which has no subscribers.
* **An answer does not stop a sweep** (`escalation_answer`). The rows are loaded once, so an
  acknowledgement that lands during a sweep does not stop the steps that sweep still owes.

Five more statements of comments are formulas that stand beside their module's properties. They are
not runs: TLC refutes each within seconds when it takes the place of the properties of the cfg named
here.

* **The first step is delivered twice** (`DeliveredOnce`, `MCEscalationAll.cfg`). With nothing
  failing, the notifier, which commits its records only after all phones have answered, and a sweep
  that runs meanwhile both page it (`services/notifier.py:60`); `workers/escalation.py:12`
  says "A step is delivered once." `RepageBound` bounds what the sweeps themselves add.
* **A silent recorder is announced twice** (`SaidOnce`, `SilenceWatchdogAll.cfg`). Recorders that
  last reported at different times cross `silent_after` in different sweeps: the first gets its own
  alarm, and is in the alarm about the site again (`services/silence_sweep.py:139`); lines 8 and 9 there say
  "say it once at the right level". `EveryAlarmIsNews` is what remains true: no alarm without a
  recorder that had not been announced.
* **A slow client is not dropped** (`SlowClientsAreDropped`, `MCAlarmConsoleAll.cfg`). Its frame is,
  and the connection stays, so the app has no reason to refetch (`modules/realtime/hub.py:54`); line
  10 there says "Slow clients are dropped, not waited for."
* **Equal start and end is not always 24 hours** (`EqualHoursMean24`, `MCAlertPathAll.cfg`). With
  fewer than seven days such a window is never open (`modules/rules/schedule.py:55`); line 54 says
  "start == end means 24 hours". `ArmedByOpeningDay` is about windows of unequal start and end.
* **Records of pushes get lost** (`EveryAttemptIsRecorded`, `MCAlertPathAll.cfg`). Pruning a phone
  whose row is gone raises, and the records of the whole fan-out are rolled back
  (`modules/notifications/transport.py:228`); line 12 there says "Every attempt is recorded."

Counterexamples TLC gave while the models were built, not kept as runs:

* A redelivery whose window has run out broadcasts an alarm id that has no row
  (`services/intake.py:166`); `RowsBeforePush` names it as its exception.
* Two guards who tap at once both log: the check is made on a row read without a lock
  (`modules/alarms/router.py:139`; line 140 says they "must not race or double-log").
* An acknowledgement loaded before and committed after a resolution takes RESOLVED back to
  ACKNOWLEDGED (`modules/alarms/router.py:149`); two overlapping resolutions can move an event
  between terminal statuses.
* The answer of `/v1/alarms` may be older than a frame the app has shown before it arrives; shown
  after it, it takes the alarm's status back (`modules/alarms/router.py:118`).
* Overlapping edits: two PUTs of zones leave the union of both; two rotations leave two
  active accounts, and the answer of one may show the username of the other with its own
  password; an unregistration that overlaps a handover deletes the new owner's row.
* The probe takes base 1 on a recorder that counts snapshots from 0 and has a camera on
  its second channel. The event base may be wrong with a stray person on another channel, without
  a channel count, or when an event about no channel comes with index 0, as StorageLowSpace does
  in `src/edge-agent/tests/fixtures/no_content_length_stream.bin`: a recorder that counts from 1
  is then taken for one that counts from 0 (`probe.py:404`, `:426`).
* An event without a Content-Length is handed on only when the next part begins, so the
  last one before a close is lost; a crash between `claim_events` and `mark_event` strands the
  claimed rows; a crash between two DELETEs of `evict_media` leaves the spool over its quota until
  the next eviction (the exceptions named in `EveryEventOnce`, `Drains` and `EvictsTheLeast`).

Read in the code on the way: a step that reached nobody is due again in the next sweep; FCM's
INVALID_ARGUMENT prunes a phone whatever was invalid (`integrations/fcm/client.py:43`), and APNs'
BadDeviceToken and DeviceTokenNotForTopic prune every iPhone if the server is configured with the
wrong host or topic (`integrations/apns/client.py:46`); `rule_from_row` does not read
`if_ai_unavailable`; the intake never passes an AI verdict, so a rule with zones never matches in
production; `recent_tamper_cameras` is never filled; `is_armed` of a site is not consulted by the
intake.

## 5. Proofs

The theorems hold for every value of the constants that satisfies the modules' named
assumptions: any number of connections, mails, alarms, phones, people, tokens, recorders,
channels, rules, media and faults. Every invariant and action property that a passing run checks
is a theorem; what is left to TLC is liveness (see the end of the section).

**Assumptions.** Most only type the constants. The others, and why the code justifies them:

* `IntakeAssumption`: mails with one dedup key come from one recorder (the key contains
  the device id).
* `EscalationAssumption`: `MaxAge` lies above the last delay of the policies.
* `TimelyAssumption` (SilenceWatchdog): see "The condition on the watchdog" in section 3.
* `AlertAssumption`: sightings lie in the week, schedules are those
  `Schedule.__post_init__` lets through, and the weights of a rule are integers.
* `StoreAssumption`: there is a token, and times are natural numbers.

**Mail path** (`MailIntakeProofs`).

* `TypeCorrect`: the type invariant, inductive as it stands.
* `OneEvent` (`OneEventPerMessage`). No constraint makes `events.source_message_id` unique,
  so the property is not inductive. `EventInv` adds `DeviceLock` (at most one handler per
  recorder is between its flush and its commit) and `FreshIsNew` (a handler about to write
  an event knows there is none). The second lookup happens under the heartbeat row's lock,
  and that is the whole argument.
* `AcceptedStored`, `RowsThenPush`, `MediaBacked`, `NoFaceTrace`. They speak of the end of a
  delivery, so `IntakeInv` says what a handler owes at each point on the way (`HandlerInv`:
  its locals belong to its delivery, its transaction holds the rows its branch wrote, what
  it has committed is there) and that neither store, table nor window knows a face. Rows only
  grow, so what one handler knows survives every step of another (`OthersKeepTheirs`). That an
  alarm frame has its row, but for a redelivery, also needs `IdsAreOwn`: nobody else works under the
  uuids of a delivery, and no event has them before the delivery has committed it.
* `OneAlarm` (`OneAlarmPerWindow`). The window moves in memory, before the rows that count
  exist. `WindowInv` therefore speaks of the alarms that are *pending* in handlers as
  well: pending and committed ones of this process lie in the window's past, and a full window
  apart.

**Escalation** (`EscalationProofs`).

* `TypeCorrect`; `BoundedRepaging` (`RepageBound`): `RepageInv` counts; a step that is
  due in this sweep has been paged at most `lost` times, one that is staged or recorded
  at most once more, and a step recorded is never due.
* `ChainIsClimbed` (`ClimbsInOrder`), from `ClimbInv`: the steps a sweep still owes come in order
  too, and a step that reaches somebody has one below it that did (`PoliciesClimb`: both policies
  page later and higher with every step).

**Alarm desk and open apps** (`AlarmConsoleProofs`).

* `TypeCorrect`, `RowIsExplained`, `ResolvedAndAcknowledged`, `EventAndCodeAgree` about
  `AlarmDesk`. They are proved together as `DeskInv`; what is added is `SawAcknowledgement`: a
  resolve that does not backfill the acknowledgement has seen one, and nothing takes it away.
* `ConsoleRunsTheDesk`: every behaviour of the composition is one of the desk, so the four
  theorems hold of it.
* `ConsoleFollows` (`FollowsTheDesk`). An app may have everything to come in its queue, so
  `ConsoleInv` is about the last frame it will have shown: for an app that is in touch this is the
  committed status, or that of the one request which has published and not yet committed. The same is
  said of an answer of `/v1/alarms` that is on its way (`ShowsIt`), and of a list still to be read
  that a frame will follow (`FrameFollows`).

**Silence watchdog** (`SilenceWatchdogProofs`): `TypeCorrect`, `SilenceIsAnnounced`,
`AlarmsAreNews` (`EveryAlarmIsNews`). `WatchdogInv` adds that a covered recorder is on record as silent, that a sweep's
snapshot and a heartbeat's reading are recent, and `WrongIsCorrected`: a record that says
SILENT of a recorder just heard is repaired before the recorder can be dark, by a budget of
time (`TimeLeft`) that each lost sweep and each late commit draws on.

**Refresh tokens** (`SessionsProofs`): `SessionsTypeCorrect`, `OneLive`, `ReuseEnds`, and the
refinement `RulesAreKept` (`KeepsTheRules`). `SessionsInv` says what a request that nothing has
overtaken still knows: the rows it has read are as it read them, and its family has no token
besides. A commit is then a step of `TokenStore`, and every other step leaves its variables alone.

**Configuration and SMTP accounts** (`SmtpIngressProofs`): `AuditIsTrue`, `ZonesAreReplaced`,
`PhoneIsHandedOver`, `OnlyTheShownPair`, for any number of overlapping requests of any users.
`SetupInv` adds `ReadStands` (what a request has read still stands, unless it is overtaken or its
target disputed), `OneRowPerPhone` and `LastIsActive`; `IngressInv` adds that a fresh snapshot of
the mail server is what the table holds.

**Rules and push** (`AlertPathProofs`): `WindowsKeepTheirDay` (`ArmedByOpeningDay`), arithmetic
over the hours of the week for every schedule of unequal start and end; `HeardInTime` (`IntruderIsHeard`), since the window
entry is at least as old as the first sighting folded into it; `RecordsAreTrue` (`PushIsHonest`),
where `PhoneInv` counts the copies a phone got against the answers that were lost, for each state of
a send.

* `StrongestWins` (`LoudestRuleWins`). The winner is what a loop over the rules has kept, so the
  invariant is the loop's: after `i` rules it holds the loudest of the first `i` that match, or
  nothing matched (`LoopFindsLoudest`). Under it lie `RiskIsBounded` (a sum of any integer weights,
  clamped, is a score) and `Decides` (every evaluation is a decision with such a score, so any two
  can be compared).

**Edge agent** (`EdgeAgentProofs`). One command runs at a time, so a step of `AgentSpec` is one of
one part or leaves it alone (`OneCommandSteps`), and the theorems are about `AgentSpec` itself.

* `PassMeansHeard` (`PassIsEarned`) and `BasesAreTrue` (`ChannelsAreRight`). `ProbeInv` says that a
  step behind the probe has done its part or left an error, that a base is reported only for a
  picture, that what is listed was seen, and that an event base found from sure evidence
  (`IndexIsSure`: the trigger channel alone, or indices of channels only) is the recorder's. `Least` and `Greatest` give the arithmetic of `Min`
  and `Max` for any set of indices.
* `LeastIsEvicted` (`EvictsTheLeast`). A DELETE goes by the rows read at the beginning. `MediaInv`
  says that they are still all the rows there are and do not fit, because nothing else writes while
  an eviction is under way and a crash forgets them; and that ids are distinct, which makes the
  order of eviction total.
* `EventsToldOnce` (`EveryEventOnce`), for any number of parts, chunks and connections, any limit
  of the buffer and the three formats. Cutting the bytes elsewhere changes what the buffer holds in
  the middle of a part, so the property is not inductive. `FeedInv` adds `Connected`, which looks at
  the whole stream of a connection, received or still on the wire: its tokens follow each other as
  the firmware's format says (`Follows`), and there is a position in it such that the buffer is what
  lies between it and the end of what has arrived. At that position the parser stands either at the
  end of a part (`InHeaders`) or at the first line of a body of known size (`InBody`), except in a
  part an overflow has cut; and the events told so far are exactly the whole ones before it
  (`Told`). `HeadersOK` and `BodyOK` move the position past a header block and past a body,
  `RoundOK` joins them, and `DrainOK` shows that `_drain` ends with nothing more to be told
  (`Rests`): a round that goes on takes a token at least. `AllTold` then turns "told up to the
  position" into "told all that is complete", and `BufferOK` covers the overflow, where the
  position jumps to the last boundary.

**Induction over data.** The prover cannot instantiate an induction schema with an operator.
`LoudestRuleWins` and `EveryEventOnce` need induction over the length of a list all the same. It is
done over a *set*: `CountingUp` (a set that contains 0 and the successor of each of its members
contains every natural number) follows from the existence of a least element, and is cited with the
set of lengths for which the claim holds. The loops themselves are recursive functions on a finite
range, whose existence is shown the same way (`LoopRuns`, `RoundsRun`).

**Only model-checked.**

Liveness, since fairness and ENABLED are beyond the prover: `EveryDeliveryEnds`, `ChainCompletes`,
`EveryRequestEnds`, `GoneIsForgotten`, `DarkIsAnnounced`, `RetryGetsIn`, `Drains`. The runs that
expect a violation are counterexamples of TLC's.

## 6. Plan

The models were written in the order of what matters: what a mail becomes (`MailIntake`), who is
told (`Escalation`), who answers (`AlarmDesk`), what happens when nothing comes
(`SilenceWatchdog`); then the processes around them (`AlarmConsole`, `Sessions`, `Commissioning`
with `SmtpIngress`, `AlertPath`), and the edge agent. The proofs followed the same order. What is
left:

1. Type invariants of `SmtpIngress`, `PushDelivery`, `Probe` and `EventFeed` as theorems of their
   own; now they are conjuncts of the inductive invariants.
2. Safety parts of the liveness properties: which handler waits for which row lock in
   `MailIntake`, and that no two wait for each other.

## 7. Not modelled

* **Parsing and formatting**: MIME and vendor mail text (`modules/ingest/mime.py`,
  `profiles.py`), `key=value` answers of the recorders, payload texts. String processing without
  state; what it decides is an input.
* **Geometry**: which zone contains a point is floating point.
* **Cryptography**: password hashes, JWT and APNs signatures.
* **I/O clients**: object storage, CGI with digest authentication, RTSP, ffprobe, and the
  edge adapter's health check and playback. Their outcomes are inputs.
* **Readers**: analytics, the list, sample, verification and setup-check endpoints, `/me`.
* **Generated or empty**: Alembic migrations; the AI service, the mobile app, the edge
  agent's cloud client and live sessions are placeholders.
* **Event lifecycle table**: no production code calls it.
