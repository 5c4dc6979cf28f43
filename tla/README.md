# Verification of the Sluicio cell and its console

TLA+ models of the parts of the Sluicio cell and of its web console whose
correctness depends on the order in which loops, operators, processes and failures
act, TLC runs that check them on small instances, and TLAPS proofs that carry the
main safety properties to instances of any size.

File references are to `services/cell-api/internal/` unless a path starts with
`services/`, `pkg/` or `ee/`; those of the console are to `frontend/src/`.

## 1. The system

A cell ingests OpenTelemetry data (cell-ingest, into ClickHouse), and cell-api
watches it: it evaluates health checks, opens and resolves alerts, and tells
people. Its durable state is in Postgres. Everything that runs by itself in
cell-api is a ticker loop that reads rows, decides, and writes rows by id;
there are almost no locks and few transactions, so every loop works from
readings that may be old when they are used.

The console (`frontend/src/`) is a React application that one browser tab runs.
Its pages keep no store in common: a component reads from the API when it is
mounted or when what it is about changes, keeps the answer in its own state, and
offers changes. JavaScript runs one handler at a time, but every `await` and
every `.then` is a gap in which the user acts and other answers arrive, in any
order, with the values the handler captured before it.

### Components

| Component | State | Operations | Interacts with | What makes it correct |
|---|---|---|---|---|
| **Notification queue** (`alerting/engine.go` deliverOnce, reclaimOnce; `alerting/engine_store.go`) | `notification_jobs`: state, attempts, next_attempt_at, expires_at, updated_at; each worker's claimed batch | enqueue, claim, send, mark succeeded / failed / dropped, sweep, operator retry, cascading delete | engine inserts; receivers over HTTP and SMTP; replicas share the table | every job settles; one worker at a time per job; a success is final; attempts are not lost; no page after its all-clear; the history is true |
| **Alert evaluation** (`alerting/engine.go` evaluate*Rule, enqueueFiring, resolveOrHold; `alerting/environments.go`) | `alert_instances`: state, acked_at, suppressed_by, last_notified_at | list rules, measure, read the active instance, open, mute, enqueue, stamp, resolve, announce | ClickHouse (answers), queue (jobs), maintenance (mute), operators | one open alert per check; manual checks held; recoveries announced; a watermark without a job only where no channel was found |
| **Renotify loop** (`alerting/engine.go` renotifyOnce) | one round's reading of the firing, unacknowledged instances | page what is due or overdue, stamp what is muted, one stream per integration | same rows as the evaluators | no repeats within an interval; the overdue page is sent; acknowledged means silent |
| **Maintenance windows** (`maintenance/`) | `maintenance_windows`; the engine's 15-second cache of the active ones | create, move, end or cancel; schedules materialise windows | engine (muting), `suppressed_by` foreign key | muted alerts still firing at the end are paged |
| **Alert rules, channels, profiles** (`alerting/store.go`, `notifyprofiles/`) | rule, route, channel and profile rows | create, edit, disable, delete (cascades) | engine and queue | deletes leave nothing half-worked |
| **Trace completion** (`tracecompletion/`) | per-trace stages, baselines, its own alert instances | evaluate, fire, resolve, sweep stale firings | shares `alert_instances` and `notification_jobs` | does not collide with the engine's use of the watermark |
| **Event subscriptions** (`eventsubs/`) | `event_jobs` | emit, claim, deliver, mark | engine emits domain events | every event is delivered or given up |
| **Error notifier** (`errornotify/`, `erroracks/`) | per-service notified and acknowledged marks | scan, notify, mark, acknowledge | operators | an error after an acknowledgement is announced |
| **Cell health** (`cellhealth/`) | heartbeats per loop name | register, beat, judge | every loop | a wedged loop shows |
| **Audit log** (`ee/audit/`, `pkg/audit/`) | a hash-chained table; a bounded forwarding queue | record, verify, prune, forward | API handlers | the chain verifies while it grows and is pruned |
| **Ingest** (`services/cell-ingest/`) | the storage gate's last measurement; cached keys | admit, measure, drop partitions | ClickHouse | ingest stops before the disk is full |
| **Console gate and sign-in** (`components/UserProvider.tsx`, `pages/Login.tsx`, `lib/activeOrg.ts`, `lib/useAccess.ts`) | what is rendered, the sign-in form, the org pin in local storage, the cached access | fetchMe and its second try, setup, sign in, second factor, sign out, switch org | the session and the memberships at the server | it always ends on a page; no org pin is left to the next person |
| **Log list** (`components/logs/LogsView.tsx`) | the filters, the pages listed, the cursor, loading flags | type (debounced), filter, refresh, first page, further pages, deep link | log queries | the list answers the filters on screen; no page twice; loading ends |
| **Messages page** (`pages/Search.tsx`) | the rail of views, the active one, the draft filters | load, edit, select, create, save, save as new, rename, delete, search | saved views at the server | the rail is never empty or doubled; what stands in the editor is searched for; saving ends |
| **Console panels** (some 250 components and effects of `components/`, `pages/`, `lib/`) | what was read, loading and busy flags, an error | read, poll, change, read again | the API | shows what it is about; shows the changes it reported; shows nothing that was never made; its buttons come back |
| **Retention**, **catalog**, **integrations**, **identity**, **settings and license**, **proposals and advisor**, **maps**, **config transfer**, **telemetry queries**, **MCP**, **web server** | records; caches | request-scoped reads and writes, periodic upserts | the API | data and presentation; no protocol of their own |

`PROJECT.json` lists all of them with their status, and, under `hazards`, the
places in this code that are hard to test, each with the properties that cover
it or the reason why none does yet.

### What is hard

* **Stale readings.** A worker writes back what it copied at the claim; the
  renotify round pages from one read of all instances; resolveOrHold decides to
  announce from an instance read before the UPDATE; the maintenance windows are
  up to 15 s old.
* **Steps without a transaction.** Opening an instance, enqueueing its jobs and
  stamping the watermark are three statements. A claim is committed before
  anything is sent.
* **Time.** One cutoff (`stuckAfter`) tells dead workers from slow ones, while a
  worker sends a batch of up to 20 jobs in turn.
* **Replicas.** Several cell-api processes may drain one queue.
* **Answers out of order.** In the console every read may be overtaken by a later
  one, by a change, or by a change of what the panel is about. Components differ
  in whether they drop such answers (a `cancelled` flag in the effect's cleanup),
  and in whether the read after a change goes through the same effect.
* **Captured state.** A handler that awaits the server goes on with the rail, the
  key or the screen of the render it was created in.
* **A page that outlives a session.** Signing out does not load the page anew;
  module-level state and local storage stay.

## 2. Modules

| Module | What it is |
|---|---|
| `NotificationQueue` | the queue: rows, workers, claims, sweep, crashes, clock |
| `MCNotificationQueue` | TLC instances of it, with symmetry of the workers |
| `Outbox` | what the queue promises to whoever puts a notification in it: the abstract specification `NotificationQueue` implements |
| `NotificationQueueProofs` | types and foreign keys; what a worker holds is exclusive and current; proved |
| `NotificationQueueHistory` | success is final, attempts are counted, the history is honest, the all-clear is last, the refinement of `Outbox`; proved |
| `AlertEngine` | evaluators, renotify loop, operators, maintenance, over `alert_instances` |
| `MCAlertEngine` | TLC instances of it |
| `AlertEngineProofs` | the inductive invariant: types, one open alert, sticky hold; proved |
| `AlertBoard` | what the engine promises to those who watch its alerts: the abstract specification `AlertEngine` implements |
| `AlertEnginePaging` | what a watermark means, recoveries are announced, re-pages are paced, an acknowledgement silences, the refinement of `AlertBoard`; proved |
| `LogsView`, `MessageSearch` | the two pages of the console with a protocol of their own |
| `PageProofs` | their types and safety, proved |
| `AuthGate` | the gate in front of the console, sign-in, org pin and access cache |
| `AuthGateProofs` | its types and the pin, proved |
| `Panel` | the life of any other component that talks to the server |
| `FreshView` | what a panel promises to the user who works in it: the abstract specification `Panel` implements |
| `PanelRecords`, `ComponentPanels`, `PagePanels` | the panels of the source as records of `Panel` |
| `PanelProofs` | types, settling, no ghosts and the refinement, proved for any set of panels |
| `Console`, `MCConsole` | the console: the gate or one mounted page at a time; its TLC instance |
| `ConsoleProofs` | the console refines each of its parts, and so has their properties; proved |

### NotificationQueue

`job` is the table, `batch[w]` and `phase[w]` where worker `w` stands in
`deliverOnce`, `spent[w]` how long it has been sending the head of its batch,
`lastHeard` what each channel was last told of each instance (a history
variable for `AllClearIsLast`).

| Action | Code |
|---|---|
| `EnqueueJob` | the `INSERT ... SELECT` of EnqueueJobs; the job carries the state the instance has at that moment |
| `ClaimDueJobs` | one transaction: up to `BatchLimit` due rows, longest overdue first, `running` under one `updated_at`; the worker keeps copies (`Claim`) |
| `MarkJobDropped` | staleFiring: a page whose alert had resolved by the claim |
| `Deliver` | deliver(): the receiver has the message if there is no error, and may have it if there is one |
| `MarkJobSucceeded`, `MarkJobFailed` | the UPDATE by id; `attempts` and the backoff come from the copy (retryPlan) |
| `MarkFails` | that UPDATE fails: logged, and on to the next job |
| `ReclaimStuckJobs` | reclaimOnce: rows `running` for longer than `stuckAfter` become `pending`, one attempt more |
| `Crash`, `PoisonedDelivery`, `Restart` | a process stops, at any point or because of what it delivers; `Run` sweeps once when it starts |
| `RetryJob`, `DeleteChannel`, `DeleteRule` | operators; deletes cascade |
| `Tick` | time |

Timestamps are kept relative to now (`wait`, `left`, `age`), saturating where
no statement can tell larger values apart, so that time needs no horizon and
liveness can be checked. `attempts` saturates at `AttemptCap`; retryPlan does
not change above the cap. The doubling backoff keeps its int64 edge: a value
outside `1..MaxBackoff`, also one that wrapped, becomes `MaxBackoff`.

Rendering and the transports are one send with an outcome and a duration of at
most `MaxDelivery` (10 s for the HTTP client, dial and conversation deadlines
for SMTP in `pkg/mail/mail.go`).

From outside the queue is an `Outbox`: a notification has a status (absent, open,
delivered, abandoned, removed), an address (instance and channel) and a text (firing
or resolved), and an address has what it heard last. The mapping forgets who holds
a row, when it is due and how often it was tried: `pending` and `running` are open,
`failed` and `dropped` abandoned. Claims, sweeps, crashes and time are then no
steps at all; a send is `Tell`, and the four outcomes change the status. `Outbox`
lets a removed notification be told once more, because a delete does not reach the
worker that is just sending it.

### AlertEngine

`inst` is `alert_instances` (`handled` is acknowledged or closed by a person,
`supp` that `suppressed_by` is set, `notified` how `last_notified_at` compares
with the interval), `ev[c]` what the evaluator of check `c` has read and where
it stands, `rn` the same for the renotify loop, `cache` the engine's copy of
the active windows, `sent[n]` the states instance `n` was announced with, or
`"nobody"` when EnqueueJobs was called with an empty list of channels. A
check is a rule in one environment; instances are numbered in the order of
`started_at`.

| Action | Code |
|---|---|
| `ListRules`, `EvaluateRule` | Enabled...Rules, then the tail that all seven evaluate*Rule functions share; a loop evaluates its rules in turn |
| `OpenInstance`, `EnqueueFiring`, `FoldFiring`, `SendFiring`, `MarkFiring` | openInstance and enqueueFiring, statement by statement: mute, leave to the stream, or page and stamp |
| `ResolveInstance`, `AnnounceResolved` | resolveOrHold, after it has decided |
| `FiringUnackedInstances`, `RenotifyCheck`, `RenotifyIntegration`, `StampStream`, `SendAgain`, `MarkAgain`, `RoundEnds` | renotifyOnce and renotifyInstance |
| `ReadUnfolded`, `ReadPartly` | behavior() or GetRule fails for one instance of the round |
| `EvaluationFails`, `RenotifyFails`, `Restart` | a statement fails; the process restarts |
| `AcknowledgeInstance`, `ResolveInstanceManual`, `UpdateRule`, `DeleteRule` | operators; "Clear errors" (ResolveErrorTraceInstancesForService) acts like the second |
| `WindowChanges`, `CancelWindow` | maintenance as the engine sees it: what is covered; a window that was moved into the future and is then deleted, with `suppressed_by` ON DELETE SET NULL |
| `SignalChanges`, `IntervalElapses`, `CacheExpires` | telemetry and time |

What the telemetry says (`breach`) is a free input: the queries and the
decision functions (DecideMetric and the comparisons of the other signals) are
not modelled. An evaluation that returns before it reads the active instance
(no value pushed yet, environments not resolved) changes nothing and is no
step. A MarkInstanceSuppressed that fails because its window was deleted meanwhile
is one of the failed statements. Of UpdateRule only switching a rule on and off is
an action; its other fields (`resolve_mode`, the integration, the condition) are
constants of a check.

Routing is three cases (`channelsFor`): a check whose rule names channels
(`Explicit`) is delivered to them without a lookup; one routed by a profile with
channels (`Profiled`) is delivered there unless the lookup fails, in which case the
code falls back to the rule's own channels, which are none; any other check has
nobody to be delivered to (EnsureOrgDefault, `notifyprofiles/store.go:257-272`,
creates a default profile without channels). With no channel EnqueueJobs inserts
nothing and returns no error, and the caller sets the watermark as after a page. A
failed lookup counts as a fault. The comment at `alerting/engine.go:275-277`, "so a
routing hiccup never silently drops an alert", does not hold of checks routed by a
profile: after such a lookup the alert is stamped, nobody was told, and the renotify
loop sends the page again only if the profile has an interval. The properties take
the code as it is: `WatermarkMeansSent` and `AlertBoard` allow an empty
announcement exactly for checks that are not `Explicit` (and `WatermarkMeansSent`,
for a profile with channels, only after a fault), and the properties that promise a
page or an all-clear promise it to checks that are routed somewhere (`Routed`,
`Reachable`).

From outside the engine is an `AlertBoard`: alerts with a state, a check, whether
somebody handled them, whether they count as paged (the watermark), what was said of
them, and whether news about them may be on its way (`attended`: some loop has read
the row and may still write about it). The board says what a reader of the channels
may rely on: what is announced of an alert is what it is at that moment, an
announcement comes to nobody only if the check names no channels, and a loop turns
only to alerts that fire and that nobody has handled. The loops' readings,
program counters, windows, intervals and failures are not seen.

### The console

`Console` composes the four machines below: `page` says which of them runs. Pages
are mounted anew when they are opened and share only the session, so nothing is
lost by running one of them at a time; what is not mounted keeps its initial
state. A call is in flight from the moment it is sent until its answer is
handled; answers are handled in any order, and every call may fail.

**`LogsView`.** A page is the filters it was asked for, the filters of the cursor
it continues, and its place in that chain; rows are left out. `TypeText` /
`ApplyText` are the box and its 250 ms timer (`timer` holds the text it captured; the
next key stroke clears it and starts another), `FetchFirst` the first-page effect
(with the `cancelled` flag of its cleanup, `CancelFirst`), `LoadMore` and
`MorePageArrives` the pages scrolling appends: they are not cancelled when the
filters change, and only `loadingRef` holds a second one back.

**`MessageSearch`.** A change in flight carries the rail, the active view and the
filters its handler captured (`changes`), and its answer writes the rail back
from them. `SeedArrives` and `SeedFails` are the effect that reads the saved
views; a link (`?view=`, `?q`) and edits made meanwhile are its cases. Whoever gives
the editor other filters (`SetDraft`) makes the effect clear the 350 ms timer and start
one that captured them (`search`); `Run` is its end. Calls have numbers, so that each
one's answer is fair of its own; a save and the Save-as-new dialog, whose flag is its
own, may be under way together, beside renamings and deletions. A view that was
selected and is no longer in the rail a late answer puts back leaves `activeId`
pointing at nothing (`pages/Search.tsx:275`: no active view, Save disabled); nothing in
the code excludes it and nothing is claimed of it.

**`AuthGate`.** The server is the accounts, the session's user and the
memberships; `Refused` and `Resolve` are what it makes of a request with a pin
(`api/middleware/auth.go:217-255`; a user of no org is answered whatever the pin).
`MeAnswered`, `MeRefused`, `RetryFails`, `MeFails` are fetchMe: a 401 with a pin
drops the pin and tries once more. `SignOut` waits for the server, `SignedOut`
drops pin and state whether or not it answered. A session may expire and a
membership be given or taken away, the last one included, at any step.
`SwitchToOrg` pins the org and asks the browser for another page; the mounted page
goes on, also signing out or switching again, until `Reload`. One tab is modelled.
That all a page shows is of one org is not claimed: other tabs share the pin,
requests between the pin and the unload carry the new one, and without a pin the
default membership may change under the page. A pinned org is in local storage and
survives `Reload`; the access cache (`cached`, `inflight`) is module-level state
and lives as long as the page.

**`Panel`.** All other components that talk to the server are one machine with
parameters. A panel is a record:

| Field | Says |
|---|---|
| `load` | whether it reads not at all, when mounted, or again when its key (id, window, filters) changes |
| `drop` | which reads under way lose their effect: none; when the key changes, those the effect itself started (a read that follows a change has no `cancelled` flag); or all earlier ones |
| `wipe`, `empty`, `brittle` | whether a new key, or a failed read, empties the screen; whether an error replaces the panel for good |
| `poll` | whether a timer, an event or a Refresh button makes it read again |
| `ops` | its changes: the flag that disables each (`busy`, per row, none), what it needs, whether it is shown before the answer, what follows success (read and wait, read, apply the answer, patch, close, leave it to the parent) and failure (report, read again, nothing) |

`ComponentPanels` and `PagePanels` hold one definition per component, effect or
group of changes, under the component's name, 252 in all; effects of one
component with different keys are separate panels. What is read is abstracted to
the set of changes it reflects: a read reflects the changes the server had made
at some moment between its sending and its answer, and a change may be made
although its answer is lost. Duplicate records are one panel to TLC, which
checks every distinct one. An effect that waits for the answer of another one is not
of this shape; there is one, in `pages/IntegrationErrors.tsx:100-146`, and it is left
out.

The properties of panels are stated for the records that can have them
(`KeepsToKey`, `ReadsOwnWrites`, `Truthful`), as conditions on the fields. The
conditions are needed: a keyed panel that drops nothing can settle on a former
key, and a panel whose read after a change does not supersede the earlier ones
can lose the change from the screen. That is no finding, because no comment or
test claims more of these components; it is listed under the hazards.

`FreshView` has three steps: get busy, work, come to rest; at rest every change
that was reported as made is on view. The mapping takes the reported changes
(`acked`), those among them that are on screen or belong to another key, and rest as
no call under way and no failed read shown.

## 3. Runs

| Run | Expect | Shows |
|---|---|---|
| `queue_single` | pass | `TypeOK`, `HistoryIsHonest`, `AllClearIsLast`, `SuccessIsFinal`, `JobsSettle` with one process whose batch may outlast the sweep |
| `queue_replicas` | pass | `ExclusiveDelivery`, `SweepSparesLive`, `SuccessIsFinal`, `AttemptsCounted`, `ImplementsOutbox` with two processes, a crash and a delivery that kills its worker, when a batch fits into `stuckAfter` |
| `queue_slow_batch` | violation | `SweepSparesLive` when a batch does not fit |
| `queue_poison` | violation | `PoisonIsBounded` |
| `engine` | pass | `TypeOK`, `OneOpenPerCheck`, `WatermarkMeansSent`, `AckSilences`, `ImplementsBoard` under editing, deletion, acknowledgement, closing, maintenance and cancellation, and one fault |
| `engine_live` | pass | `StickyHeld`, `RenotifyIsPaced`, `RecoveryAnnounced`, `NobodyLeftUntold`, `OverdueGetsPaged` |
| `engine_stream` | pass | `StreamGetsPaged` with two checks on one integration's stream, one of which has no channel |
| `engine_overdue` | violation | `LoopClosed` |
| `engine_lost_page` | violation | `NilWatermarkMeansMuted` |
| `engine_cancel` | violation | `NobodyLeftUntold` when windows are moved and cancelled |
| `console` | pass | log list: `LogsTypeOK`, `FirstPageIsCurrent`, `NoPageTwice`, `StandingTextIsShown`, `LoadingEnds`; Messages page: `SearchTypeOK`, `RailNeverEmpty`, `StandingFiltersAreSearched`, `SavingEnds`; panels: `PanelTypeOK`, `SettledOnKey`, `NoGhosts`, `FlagsAreLowered`, `ImplementsFreshView`; gate: `GateTypeOK`, `OutUnpinned`, `GateSettles`, `SignOutEnds` |
| `session_access` | violation | `AccessIsOwn` |

### Bounds, and why they are enough

* Queue. A page and its all-clear are two jobs, and `queue_replicas` has a third
  one that kills its worker. A batch of two is the smallest in which one job
  waits for another. `StuckAfter = 2` against `BatchLimit * MaxDelivery` of 4
  (`queue_single`), 2 (`queue_replicas`) and 3 (`queue_slow_batch`) puts the
  sweep after, exactly at, and inside a batch. A window of 3 with a backoff of at
  most 2 lets a job be retried and be given up. `MaxOverdue` orders late rows
  (0 leaves their order open, which only adds behaviours). One fault and one
  operator retry at any point; a poisonous job kills without being counted as a
  fault.
* Engine. Two instances let an alert re-open and let a stream have an older and a
  newer alert. `engine` has one check with all its operators, routed by a profile, so
  that a lookup that fails leaves it without channels; `engine_live` a manual
  recurring check with channels of its own, edited and deleted, beside a folded one
  routed by a profile, and one alert at a time; `engine_stream` two folded ones, one
  with channels and one with none. The interval is in `engine_live` only: with it
  `engine` takes longer than a run should, and the theorems have no such bound. One
  fault: a crash, a failed statement or a failed lookup, at any step. Scopes are
  nothing or everything: what matters to a check is whether it is covered.
  `RenotifyIsPaced` and `RecoveryAnnounced` are stated for executions or rows the
  known exceptions do not touch, and say so in their comments.
* Console. Two texts and two filters let an older answer come after a newer one
  and back again; two pages let a further page be late. On the Messages page two
  changes are under way at once (`MaxCalls = 2`), so that an answer finds the rail
  changed by another's; one draft and one id the server can issue are enough for
  that: the page opens on a draft, which is saved, saved as new, changed, renamed and
  deleted in every overlap. `SavedIds` is empty: a view saved before is handled like
  one the page has created, and a second id multiplies the states by ten. With one
  draft id a fresh draft waits until the former one is out of every captured rail,
  which bounds the run and is no condition of the code. `PageProofs` has none of
  these bounds. Two keys, two reads and two changes (one for keyed
  panels) give every pair of reads and changes all their orders; two users and
  two orgs a person who signs out, a successor, and an org one of them is not in.
* All passing runs are exhaustive for their constants; deadlock is checked in
  all of them but `console`, where a user may leave everything as it is and a
  panel may close. Workers are symmetric in the safety run only.

### Fairness

`NotificationQueue`: the clock, the sweep, each worker's claim, its next step and
its restart are weakly fair. The code: `loop` selects on a ticker for ever
(`alerting/engine.go:458-473`), transports time out, and the container is
restarted. Nothing is assumed of engine, operators and receivers. `AlertEngine`:
the renotify loop, each evaluator and the expiry of the cache. Nothing is assumed
of telemetry, operators and maintenance. `Console`: every call is answered or
fails (the browser's fetch settles, if only with a network error), the debounce
timers of the log list and of the search run out, and signOut goes on when the
server has answered or not. Each change of the Messages page is answered on its
own; of the first pages of the log list some wanted one is answered in the end, so
a user who changes the filters for ever faster than answers come is left out.
Nothing is assumed of the user, of the server making a change, or of a session
lasting. In none are faults fair. Properties that can only hold without faults say
`faults = MaxFaults`.

### Findings

1. **A slow batch is swept from a live worker** (`queue_slow_batch`). The comment
   on `stuckAfter` compares it with a single delivery; the 20 rows of a claim
   share one `updated_at` and are sent in turn, so the last ones can be older than
   the cutoff while their worker is alive. They are then sent twice and counted
   twice.
2. **A delivery that kills its worker is never given up** (`queue_poison`). The
   comment says it is bounded by `maxAttempts`, which no longer exists; giving up
   is decided only after a send has returned.
3. **An overdue page is never followed by its all-clear** (`engine_overdue`).
   `suppressed_by` is kept after the window has ended and the page was sent, and
   resolveOrHold takes it to mean that nobody was told.
4. **A first page can be lost** (`engine_lost_page`). A stop between OpenInstance
   and the watermark leaves an instance that looks muted to nobody: the renotify
   loop skips it because no window stamped it, and the evaluator only touches it.
5. **Cancelling a postponed window loses the overdue page** (`engine_cancel`).
   EndWindow deletes a window that has not started; if it had run before it was
   moved, ON DELETE SET NULL takes the stamps of the alerts it had muted.

6. **The access cache outlives the session** (`session_access`). useAccess says it
   is fetched once per session; signOut does not load the page anew and nothing
   empties the cache, so whoever signs in next on the page sees what the person
   before may manage. The server's own checks are not affected.

## 4. Proofs

All theorems are of the specifications TLC checks, with arbitrary constants
under the named assumptions of the modules (`SizesAssumption`,
`TablesAssumption`, `ConfigAssumption`, `BoundsAssumption`, `LogsAssumption`,
`SearchAssumption`, `PanelAssumption`, `GateAssumption`: positive sizes, no
empty tables, initial values in their sets).

**Queue.** `TypeCorrect` proves `Typed`, the types with `ForeignKeys`: a claim
copies the state of the job's instance, which is an alert state only because
the foreign keys cascade. What follows holds in two deployments (`Deployed`):
`BatchFits`, `BatchLimit * MaxDelivery <= StuckAfter`, with any number of processes,
which is exactly what `queue_slow_batch` shows to be needed; or `OneProcess`, with
any timing. `ClaimInv` strengthens the types by: every copy a worker holds agrees
with its row (`Current`: running, deleted or, with one process, swept once; same time
left, attempts the same or one behind the sweep's), no job is held twice, by one
worker or by two, and a row's age is at most the time its worker can have spent on
the part of the batch already sent (`AgeBound`). With `BatchFits` the last part keeps
the sweep away from live rows; with `OneProcess` nobody else can claim what the sweep
put back, because the one process claims again only when its batch is empty. From it
follow `ExclusiveDeliveryHolds`, `SweepSparesLiveHolds` (under `BatchFits` only; the run
`queue_slow_batch` refutes it otherwise) and, by a lemma that classifies what a step
can do to one row (`RowLife`), `SuccessIsFinalHolds`, `AttemptsCountedHolds` and
`HistoryIsHonestHolds`.

`AllClearIsLastHolds` is about one process and needs no timing. Its invariant
(`AllClearInv`) says: a row that announces the end is about an alert that is over
(`RowsTrue`; over is never undone, `OverStays`); a copy that saw the end is right,
and a copy of an all-clear has seen it (`CopiesTrue`); the copies a batch holds of one
alert agree, because one transaction read them (`OneView`); and whoever heard the
all-clear can only be sent pages that staleFiring drops (`HeardTrue`). With two
processes one may hold the page, read before the end, while the other sends the
all-clear: nothing in the code orders them.

`QueueImplementsOutbox` (under `Deployed`) is the refinement. `OutboxInv` adds to
`ClaimInv` that a worker sends the row's own text (`CopiesTrue`) and that one about to
record a success has reached its receiver (`OkHeard`). Each action is then a step of
`Outbox` or none: an UPDATE by id hits an open row, or a removed one and then nothing
at all.

**Engine.** No property is inductive alone, because loops write from earlier
readings. `EngineInv` adds to the types what remains true of a reading until it
is used: an evaluator about to open has no open alert of its check (nobody else
opens one for it); a row somebody is about to write exists; an evaluator about
to resolve a manual check's alert read it as acknowledged, and an acknowledgement
is never taken back; a loop about to stamp has called EnqueueJobs for the row, or the
row is gone. The argument has two
halves: `Keeps` (no step unwrites a row, revives it, moves it to another check,
or takes back an acknowledgement or an announcement), from which every reading
survives the steps of the others (`KeepsEv`, `KeepsRn`), and one lemma per group
of actions. `EngineTyped`, `OneOpenHolds` and `StickyHeldHolds` follow from the
invariant, `AckSilencesHolds` from the invariant and a case analysis of the steps.
`WatermarkHolds` adds `NobodyOK`: an announcement that came to nobody is of a check that
names no channels and, if its profile has some, a fault was spent on it. It is kept
because a check's routing does not change, faults are not given back, and a row keeps
its check (`Steady`); the three steps that enqueue are the cases of `NobodyStays`.

Two properties compare what a loop decides with the row at that moment, and need
more of the readings. `RecoveryAnnouncedHolds` (`EndInv`): what made an evaluator
decide to resolve in silence is still true of the row (`EvEnds`), and a resolved
row that was neither handled nor muted was announced, or its evaluator is about to
do so (`EndTold`). `RenotifyIsPacedHolds` (`PaceInv`): what the round has read of
a row's watermark is still true of it or the row is excused (muted, deleted, its
profile not read; `ItemPace`), and while an evaluator sends the first page the row
has no watermark and the round has seen none (`EvPace`). Both assume `~Cancels`: a
cancelled window takes `suppressed_by` off a row after a loop has read it (finding
5), and then a reading is not good for anything these properties say.

`EngineImplementsBoard` is the refinement of `AlertBoard`, from `EngineInv` and with
cancellation. What most steps need is that they do not show (`Unseen`, `MuteUnseen`):
a loop that reads turns to rows that fire and are not handled (`AttendsToStanding`),
one that fails turns away. The interesting steps are the writes by id: that
EnqueueJobs says what the row is although the loop read it earlier (`EnqueueSeen`), or
nothing to anybody where the rule names no channels, and that the stamp comes after
it (`StampSeen`).

**Log list and Messages page** (`PageProofs`). `LogsInv` adds that one read of each
kind is under way, that the first page still wanted is that of the filters on
screen, and that the pages listed, the cursor and the page under way ascend:
`NoPageTwice` follows from the last, although a late page may belong to another
query. `SearchInv` adds that every rail a change has captured is itself without
repetitions and still has the view it is about, which is what makes writing
stale rails back harmless for `RailNeverEmpty`.

**Gate** (`AuthGateProofs`). `GateInv` relates the pin to what is under way: with a
pin nobody is signing in and the page is not the sign-in page, the second try has
none; once more than the first administrator exists, one sign-in or fetchMe is
under way at a time. `GateOutUnpinned` follows, also for a page that goes on after an
org was pinned and before it is unloaded. `OutUnpinned` has one exception, which the
code permits: on a fresh install two sign-in calls may be under way, and its only user
may pin an org while the second fetchMe is; the page is then about to be loaded anew and
there is nobody else to inherit the pin.

**Panels** (`PanelProofs`). `PanelInv` holds for any set of records the assumption
admits, not only those of the source: an answer that is still wanted is about the
present key (`KeyInv`); what is on screen was made or is being made (`GhostInv`);
and for each of the three ways of reading one's own writes what makes an answer
safe: reads that supersede all earlier ones were sent after every reported change
(`SupersedingInv`), patching panels change nothing before their only read is there
(`PatchingInv`), and panels with one busy flag have one change or its read under
way (`SerialInv`). `PanelImplementsFreshView` is the refinement: initial states map
to initial states, and each step to one of the three steps of `FreshView` or to a
stutter.

**Console** (`ConsoleProofs`). `ConsoleImplementsParts` proves that a behaviour of the
console is, seen through the variables of each part, a behaviour of that part. Hence
`ConsoleSafe` (the six safety invariants together) and `ConsoleImplementsFreshView`
of the specification that the run `console` checks.

**Only model-checked.** Liveness (`JobsSettle`, `NobodyLeftUntold`,
`OverdueGetsPaged`, `StreamGetsPaged`, and those of the console), because temporal
reasoning with fairness and ENABLED is outside the prover's reach. Every invariant,
every action property and every refinement that a passing run checks is also proved.
No module states what a recursive function computes.

## 5. Not modelled

* Rendering, templates, transports (formatting and I/O; a send with an outcome).
* Domain events emitted beside the notifications (they go to event
  subscriptions).
* retireLegacyInstance: a rule that starts being evaluated per environment
  resolves its whole-scope instance in silence. `Checks` are fixed per
  environment in the model.
* RecordReading, and the history and health views: written or read beside the
  state machine, never read back by it except to arm the no-data condition.
* Console: charts, graphs, tables, formatting and the contents of forms, which are
  functions of what a panel shows; validation inside a form; several tabs of one
  browser (they share the pin, so one can change the org of another's requests);
  the effect of `pages/IntegrationErrors.tsx` that waits for another one. A change
  of a panel is one call: handlers that send two in a row (rotating a token,
  `pages/Settings.tsx:1133`) are one change that may fail after it was made.
* Telemetry queries, identity, settings, catalog, maps, web server: see
  `PROJECT.json`.

## 6. Plan

Done in this order: the queue (the only thing that stands between an alert and a
person), the engine that feeds it, then the console through which people see the
alerts and act on them, and the abstract specifications `Outbox`, `AlertBoard` and
`FreshView` that the three implement. Next:

1. `EvaluatorDecisions`: DecideMetric, EvaluateBreach and the comparisons of log,
   trace-error, latency, volume and split rules as operators, checked against
   what their comments state (the latency rule resolves on a window without
   spans, `alerting/engine.go:1476`), and used by `AlertEngine` in place of the
   free input.
2. `TraceCompletion`: its firings share `alert_instances` but not the watermark;
   compose with the renotify loop.
3. `EventQueue`: `event_jobs` has no sweep; it should implement `Outbox` as the
   notification queue does, and, unlike it, settle its jobs only without crashes.
4. The composition of engine and queue: `AlertBoard` announcing into `Outbox`
   through EnqueueJobs, which both components now implement separately.
5. `MaintenanceSchedules`: recurrence and materialisation of windows against
   edits of the schedule; per-environment evaluation and retireLegacyInstance.
6. `ErrorNotifier`, `AuditChain`, `StorageGate`, `CellHealth`, in that order.
7. Proofs: the refinements of 3 and 4, and what `Outbox` and `AlertBoard` imply
   together for a reader of a channel.

Each new module gets a type theorem and its main safety invariant proved; its
properties join the run of the component they are closest to.
